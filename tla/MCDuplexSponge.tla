--------------------------- MODULE MCDuplexSponge ---------------------------
(* Model values for DuplexSponge: see MCDuplexSponge.cfg.                  *)
EXTENDS DuplexSponge

(* DEFAULT_CONVENTION, and adapter/duplex.py's ARK_0_3 and ARK_0_5.        *)
Default == [rate_lanes |-> "LEADING", spill_permute |-> "ALWAYS",
            switch_permute |-> "BOTH_DIRECTIONS"]
Ark03 == [rate_lanes |-> "LEADING", spill_permute |-> "SKIP_WHEN_REQUEST_EQUALS_RATE",
          switch_permute |-> "BOTH_DIRECTIONS"]
Ark05 == [rate_lanes |-> "TRAILING", spill_permute |-> "ALWAYS",
          switch_permute |-> "ABSORB_TO_SQUEEZE_ONLY"]

MCConventions == {Default, Ark03, Ark05}
=============================================================================
