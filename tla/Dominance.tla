----------------------------- MODULE Dominance -----------------------------
(***************************************************************************)
(* What dominance means, on the successor lists of a graph whose entry is  *)
(* block 0: the reference that Dominators is checked against, and what SSA *)
(* construction starts from.                                               *)
(***************************************************************************)
EXTENDS Integers, Sequences, FiniteSets, SequencesExt

NoBlock == -1

Edge(succ, x, y) == Contains(succ[x], y)

\* One edge further than the blocks found, except to block a.
Nearby(succ, a, found) ==
    found \cup {y \in DOMAIN succ \ {a} : \E x \in found : Edge(succ, x, y)}

\* The blocks control can reach from the entry without passing block a.
ReachableWithout(succ, a) ==
    LET near[n \in 0 .. Cardinality(DOMAIN succ)] ==
            IF n = 0 THEN {0} \ {a} ELSE Nearby(succ, a, near[n - 1])
    IN  near[Cardinality(DOMAIN succ)]

Reachable(succ) == ReachableWithout(succ, NoBlock)

\* For each reachable block, the blocks that are on every path to it.
DominatorsOf(succ) ==
    LET reachable == Reachable(succ)
        avoiding == [a \in reachable |-> ReachableWithout(succ, a)]
    IN  [b \in reachable |-> {a \in reachable : b \notin avoiding[a]}]

\* The strict dominator of b that all others dominate.
ImmediateDominator(doms, b) ==
    CHOOSE a \in doms[b] \ {b} : doms[b] \ {b} = doms[a]

\* The blocks where the dominance of x ends.
Frontier(succ, doms, x) ==
    {y \in DOMAIN doms : x \notin doms[y] \ {y} /\
        \E p \in DOMAIN doms : Edge(succ, p, y) /\ x \in doms[p]}

=============================================================================
