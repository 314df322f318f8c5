---------------------------- MODULE MCAlgorithms ----------------------------
(* Algorithms on grids of inputs.                                           *)
EXTENDS Algorithms

\* Both sides of every constant decide() compares with.
MCResults ==
    { s \in [kind : {"result"}, type : AttackTypes,
             conf : {0, 49, 50, 80, 84, 85, 94, 95},
             p1 : {0, 84, 85, 94, 95}, p5 : {0, 69, 70}, p15 : {49, 50}] :
        Emittable(s) }

\* Vectors of seven that share out three units, and of twelve of which at most three
\* are not zero.
MCOldVectors ==
    { v \in [1..7 -> 0..3] : Total(v) = 3 }
    \cup { [i \in 1..12 |-> Cardinality({ k \in 1..3 : e[k] = i })] :
             e \in [1..3 -> 1..12] }

\* Three tenants of falling priority, or with a tie, and a link that may be
\* too small for its overhead.
MCLoads ==
    [kind : {"link"}, available : -1..7,
     tenants : { [i \in 1..3 |-> [floor |-> f[i], demand |-> d[i], weight |-> w[i]]] :
                   f \in [1..3 -> 0..2], d \in [1..3 -> 1..3],
                   w \in { <<3, 2, 1>>, <<1, 2, 2>> } }]

=============================================================================
