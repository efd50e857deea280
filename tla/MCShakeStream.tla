---------------------------- MODULE MCShakeStream ----------------------------
(* Model values for ShakeStream: see MCShakeStream.cfg and                  *)
(* MCShakeCost.cfg.                                                         *)
EXTENDS ShakeStream
=============================================================================
