---------------------------- MODULE MCDigestCall ----------------------------
(* Model values for DigestCall: see MCDigestCall.cfg.                      *)
EXTENDS DigestCall
=============================================================================
