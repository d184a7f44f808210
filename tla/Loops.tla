-------------------------------- MODULE Loops --------------------------------
(***************************************************************************)
(* What the loops of the source compute: sums, the elements that pass a    *)
(* test, and stable sorts.                                                 *)
(***************************************************************************)
EXTENDS Integers, Sequences, FiniteSets

\* The sums of the first 0, 1, ..., Len(w) elements of w.
Partial(w) ==
    LET sum[k \in 0..Len(w)] == IF k = 0 THEN 0 ELSE sum[k - 1] + w[k]
    IN  sum

Total(w) == Partial(w)[Len(w)]

\* A stable sort keeps equal keys in the order they stand in.
Before(key, j, i) == key[j] < key[i] \/ (key[j] = key[i] /\ j <= i)

\* The positions S in the order of their keys: the r-th has r of them up to itself.
StableOrder(S, key) ==
    [r \in 1..Cardinality(S) |->
        CHOOSE i \in S : Cardinality({j \in S : Before(key, j, i)}) = r]

\* The elements of w at the positions S.
Kept(w, S) ==
    LET order == StableOrder(S, [i \in S |-> i])
    IN  [r \in DOMAIN order |-> w[order[r]]]
=============================================================================
