------------------------------- MODULE MCIngest --------------------------------
(* Small instances of Ingest for TLC. *)
EXTENDS Ingest, TLC

CONSTANTS a, b, m1, m2

\* Two markets on two shards; the second page may list the first market again.
MCShardOf == (m1 :> 0) @@ (m2 :> 0)
MCPages == << {<<m1>>}, {<<m2>>, <<m1>>} >>

\* A healthy market, and one whose book is crossed.
Fine == [crossed |-> FALSE, active |-> TRUE]
Crossed == [crossed |-> TRUE, active |-> TRUE]
MCLooks == {Fine, Crossed}
MCFine == {Fine}

\* One market.
MCShardOfOne == (m1 :> 0)
MCPagesOne == << {<<m1>>} >>

Symmetry == Permutations(Proc)
================================================================================
