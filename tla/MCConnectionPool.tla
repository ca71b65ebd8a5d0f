-------------------------- MODULE MCConnectionPool --------------------------
(* Instances of ConnectionPool for TLC.                                    *)
EXTENDS ConnectionPool

CONSTANTS t1, t2, t3, w1, w2, w3

AnyConnection == [wantPrimary |-> FALSE, priority |-> 0]
Primary == [wantPrimary |-> TRUE, priority |-> 0]
InteractivePrimary == [wantPrimary |-> TRUE, priority |-> 1]

MixedRequests == {AnyConnection, InteractivePrimary}
EqualRequests == {AnyConnection, Primary}
OnlyPrimary == {Primary}

Symmetry == Permutations(Threads) \cup Permutations(Waiters)

=============================================================================
