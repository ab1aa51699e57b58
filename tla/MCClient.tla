------------------------------- MODULE MCClient --------------------------------
(* Small instances of Client for TLC. *)
EXTENDS Client, TLC

CONSTANTS r1, r2, read, write

MCRate == (read :> 1) @@ (write :> 1)
MCCapacity == (read :> 1) @@ (write :> 1)
MCRateOne == (read :> 1)
MCCapacityOne == (read :> 1)

Symmetry == Permutations(Req)
================================================================================
