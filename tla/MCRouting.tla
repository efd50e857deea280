----------------------------- MODULE MCRouting ------------------------------
(* Keccak with both arms, the sparse Poseidon on one of them with parameters *)
(* its attributes can and cannot carry, Vision with no emitter, and one      *)
(* digest family, over three backends.                                       *)
EXTENDS Routing

MCBackends == {"cpu", "gpu", "metal"}
MCArms == [f \in {"keccak", "sparse", "vision", "blake2b"} |->
             CASE f = "sparse" -> {"gpu"} [] f = "vision" -> {} [] OTHER -> {"cpu", "gpu"}]
MCAvailable == [f \in DOMAIN MCArms |-> f # "vision"]
MCParams == [f \in {"keccak", "sparse", "vision"} |->
               IF f = "sparse" THEN {"narrow", "wide"} ELSE {"standard"}]
MCReadable == [f \in DOMAIN MCParams |->
                 IF f = "sparse" THEN {"narrow"} ELSE {"standard"}]
=============================================================================
