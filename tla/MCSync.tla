-------------------------------- MODULE MCSync --------------------------------
(* The first actor loads a row of every table, the second of one.           *)
EXTENDS SyncProperties

CONSTANT t1

MCLoads(a) == {w \in Wants : a = 1 \/ w[1] = t1}
=============================================================================
