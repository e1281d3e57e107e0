----------------------------- MODULE MCHashMap ------------------------------
(* Hashes for the hash table: keys that share a home slot before and after  *)
(* growth, keys pushed over the end of the table, keys with equal tags.     *)
EXTENDS HashMap

MCHash == << 7, 7, 15, 0, 3, 4, 5, 6 >>
MCTag == [k \in Keys |-> k % 3]
=============================================================================
