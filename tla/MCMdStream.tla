----------------------------- MODULE MCMdStream -----------------------------
(* Model values for MdStream: see MCMdStream.cfg.                          *)
EXTENDS MdStream
=============================================================================
