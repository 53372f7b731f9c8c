------------------------------ MODULE MCTraffic ------------------------------
(* Small instances of Traffic for TLC.                                     *)
EXTENDS Traffic, TLC

\* A quota two bytes of traffic reach; the second rule, where there is one, has none.
MCLimit == [r \in Rules |-> IF r = 1 THEN 2 ELSE 0]
OneByte == [r \in Rules |-> 1]

\* The two directions are interchangeable.
Sym == Permutations(Dirs)
=============================================================================
