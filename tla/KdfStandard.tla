----------------------------- MODULE KdfStandard -----------------------------
(***************************************************************************)
(* The adapters as their caller sees them: a request is made, and is       *)
(* answered once, by the bytes of the standard's formula over each row, or *)
(* by an error.                                                            *)
(***************************************************************************)
EXTENDS KdfFormulas

VARIABLES
  call,    \* the request being served, or Idle
  answer   \* what the last request got

Init == call = Idle /\ answer = Nothing

Ask == call = Idle /\ call' \in Requests /\ answer' = Nothing

Reply == call # Idle /\ answer' = Answer(call) /\ call' = Idle

Next == Ask \/ Reply

Spec == Init /\ [][Next]_<<call, answer>>
=============================================================================
