--------------------------- MODULE MCBlake3Stream ---------------------------
(* Model values for Blake3Stream: see MCBlake3Stream.cfg.                  *)
EXTENDS Blake3Stream
=============================================================================
