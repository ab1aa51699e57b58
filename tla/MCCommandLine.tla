----------------------------- MODULE MCCommandLine ------------------------------
(* A small instance of CommandLine, and of the Paginate it extends, for TLC. *)
EXTENDS CommandLine

MCItem == {"m1", "m2", "m3", "m4"}
MCListing == << <<"m1", "m2">>, <<"m3">>, <<"m4">> >>

\* All that the gate reads, in every combination; the tier and the file, which it
\* does not read, one at a time.
MCEnvirons ==
    {e \in Environ : \/ e.tier = "" /\ e.file = "mapping"
                     \/ e.mode = "" /\ e.enable = "" /\ e.environment = ""}
================================================================================
