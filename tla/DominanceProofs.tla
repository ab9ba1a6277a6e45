-------------------------- MODULE DominanceProofs --------------------------
(***************************************************************************)
(* What Dominance's definitions mean on any finite graph with entry 0:     *)
(* ReachableWithout's bounded recursion is the least set that the edges    *)
(* outside a block close, dominance is a partial order whose elements      *)
(* above one block are a chain, and so every reachable block but the entry *)
(* has an immediate dominator: the dominators form a tree.                 *)
(***************************************************************************)
EXTENDS Dominance, FiniteSetTheorems, WellFoundedInduction, TLAPS

-----------------------------------------------------------------------------
(* The recursion of ReachableWithout *)

\* The least number with a property: induction over steps.
LEMMA LeastNumber ==
    ASSUME NEW S \in SUBSET Nat, S # {}
    PROVE  \E m \in S : \A k \in S : m <= k
<1> DEFINE R == OpToRel(<, Nat)
<1>1. PICK m \in S : \A k \in S : ~ (<<k, m>> \in R)
  BY NatLessThanWellFounded, WFMin
<1>2. ASSUME NEW k \in S PROVE m <= k
  <2>1. ~ (k < m)
    BY <1>1 DEF OpToRel
  <2> QED
    BY <2>1
<1> QED
  BY <1>2

\* A solution of the recursion that ReachableWithout takes its value from.
Nears(f, succ, a, n) ==
    f = [k \in 0 .. n |-> IF k = 0 THEN {0} \ {a} ELSE Nearby(succ, a, f[k - 1])]

LEMMA NearsExists ==
    ASSUME NEW succ, NEW a, NEW n \in Nat
    PROVE  \E f : Nears(f, succ, a, n)
<1> DEFINE Failing == {k \in Nat : ~ \E f : Nears(f, succ, a, k)}
<1>1. 0 \notin Failing
  <2> DEFINE f == [j \in 0 .. 0 |-> {0} \ {a}]
  <2>1. Nears(f, succ, a, 0)
    BY DEF Nears
  <2> QED
    BY <2>1
<1>2. ASSUME NEW k \in Nat, NEW f, Nears(f, succ, a, k)
      PROVE  \E g : Nears(g, succ, a, k + 1)
  <2> DEFINE g == [j \in 0 .. k + 1 |-> IF j = k + 1 THEN Nearby(succ, a, f[k]) ELSE f[j]]
  <2>1. \A j \in 0 .. k : f[j] = IF j = 0 THEN {0} \ {a} ELSE Nearby(succ, a, f[j - 1])
    BY <1>2 DEF Nears
  <2>2. \A j \in 0 .. k + 1 : g[j] = IF j = 0 THEN {0} \ {a} ELSE Nearby(succ, a, g[j - 1])
    <3> SUFFICES ASSUME NEW j \in 0 .. k + 1
                 PROVE  g[j] = IF j = 0 THEN {0} \ {a} ELSE Nearby(succ, a, g[j - 1])
      OBVIOUS
    <3>1. CASE j = k + 1
      <4>1. g[j] = Nearby(succ, a, f[k])
        BY <3>1
      <4>2. j # 0 /\ j - 1 = k /\ g[k] = f[k]
        BY <3>1
      <4> HIDE DEF g
      <4> QED
        BY <4>1, <4>2
    <3>2. CASE j # k + 1
      <4>1. j \in 0 .. k /\ g[j] = f[j] /\ (j # 0 => g[j - 1] = f[j - 1])
        BY <3>2
      <4> HIDE DEF g
      <4> QED
        BY <2>1, <4>1
    <3> QED
      BY <3>1, <3>2
  <2>3. DOMAIN g = 0 .. k + 1 /\ g = [j \in 0 .. k + 1 |-> g[j]]
    OBVIOUS
  <2> HIDE DEF g
  <2>4. Nears(g, succ, a, k + 1)
    BY <2>2, <2>3 DEF Nears
  <2> QED
    BY <2>4
<1>3. Failing = {}
  <2> SUFFICES ASSUME Failing # {} PROVE FALSE
    OBVIOUS
  <2>1. PICK m \in Failing : \A k \in Failing : m <= k
    <3>1. Failing \in SUBSET Nat
      OBVIOUS
    <3> HIDE DEF Failing
    <3> QED
      BY <3>1, LeastNumber
  <2>2. m \in Nat /\ m # 0 /\ ~ \E f : Nears(f, succ, a, m)
    BY <1>1, <2>1
  <2>3. m - 1 \in Nat /\ (m - 1) + 1 = m /\ m - 1 \notin Failing
    BY <2>1, <2>2
  <2>4. PICK f : Nears(f, succ, a, m - 1)
    BY <2>3
  <2> QED
    BY <1>2, <2>2, <2>3, <2>4
<1> QED
  BY <1>3

LEMMA ReachableIsNear ==
    ASSUME NEW succ, NEW a, Cardinality(DOMAIN succ) \in Nat
    PROVE  \E f : /\ Nears(f, succ, a, Cardinality(DOMAIN succ))
                  /\ ReachableWithout(succ, a) = f[Cardinality(DOMAIN succ)]
<1> DEFINE near == CHOOSE f : f = [k \in 0 .. Cardinality(DOMAIN succ) |->
                                    IF k = 0 THEN {0} \ {a} ELSE Nearby(succ, a, f[k - 1])]
<1>1. ReachableWithout(succ, a) = near[Cardinality(DOMAIN succ)]
  BY ONLY DEF ReachableWithout
<1>2. Nears(near, succ, a, Cardinality(DOMAIN succ))
  <2>1. \E f : Nears(f, succ, a, Cardinality(DOMAIN succ))
    BY NearsExists
  <2> QED
    BY <2>1 DEF Nears
<1> QED
  BY <1>1, <1>2

-----------------------------------------------------------------------------
(* What is reached without a block *)

Graph(succ) == IsFiniteSet(DOMAIN succ) /\ 0 \in DOMAIN succ /\ NoBlock \notin DOMAIN succ

\* The edges that do not lead to block a stay in S.
Stays(succ, a, S) ==
    \A x \in S, y \in DOMAIN succ : y # a /\ Edge(succ, x, y) => y \in S

\* The steps of the recursion, and what each adds.
LEMMA NearSteps ==
    ASSUME NEW succ, Graph(succ), NEW a, NEW n \in Nat, NEW f, Nears(f, succ, a, n)
    PROVE  /\ f[0] = {0} \ {a}
           /\ \A k \in 0 .. n - 1 : f[k + 1] = Nearby(succ, a, f[k])
           /\ \A k \in 0 .. n : /\ {0} \ {a} \subseteq f[k]
                                /\ f[k] \subseteq DOMAIN succ \ {a}
<1>1. \A k \in 0 .. n : f[k] = IF k = 0 THEN {0} \ {a} ELSE Nearby(succ, a, f[k - 1])
  BY DEF Nears
<1>2. f[0] = {0} \ {a}
  <2>1. 0 \in 0 .. n
    OBVIOUS
  <2> QED
    BY <1>1, <2>1
<1>3. ASSUME NEW k \in 0 .. n - 1
      PROVE  f[k + 1] = Nearby(succ, a, f[k])
  <2>1. k + 1 \in 0 .. n /\ k + 1 # 0 /\ (k + 1) - 1 = k
    OBVIOUS
  <2> QED
    BY <1>1, <2>1
<1> DEFINE Good(k) == {0} \ {a} \subseteq f[k] /\ f[k] \subseteq DOMAIN succ \ {a}
           Bad == {k \in 0 .. n : ~Good(k)}
<1>4. Good(0)
  BY <1>2 DEF Graph
<1>5. Bad = {}
  <2> SUFFICES ASSUME Bad # {} PROVE FALSE
    OBVIOUS
  <2>1. PICK m \in Bad : \A k \in Bad : m <= k
    <3>1. Bad \in SUBSET Nat
      OBVIOUS
    <3> HIDE DEF Bad
    <3> QED
      BY <3>1, LeastNumber
  <2>2. m \in 0 .. n /\ m # 0
    BY <1>4, <2>1
  <2>3. m - 1 \in 0 .. n - 1 /\ m - 1 \in 0 .. n /\ (m - 1) + 1 = m /\ m - 1 \notin Bad
    BY <2>1, <2>2
  <2>4. Good(m - 1) /\ f[m] = Nearby(succ, a, f[m - 1])
    BY <1>3, <2>3
  <2>5. Good(m)
    BY <2>4 DEF Nearby
  <2> QED
    BY <2>1, <2>5
<1> QED
  BY <1>2, <1>3, <1>5

\* As many steps as there are blocks are enough: a step that adds nothing is
\* the last, and the blocks run out.
LEMMA ReachableStays ==
    ASSUME NEW succ, Graph(succ), NEW a
    PROVE  /\ {0} \ {a} \subseteq ReachableWithout(succ, a)
           /\ ReachableWithout(succ, a) \subseteq DOMAIN succ \ {a}
           /\ Stays(succ, a, ReachableWithout(succ, a))
<1> DEFINE n == Cardinality(DOMAIN succ)
<1>1. n \in Nat /\ IsFiniteSet(DOMAIN succ)
  BY FS_CardinalityType DEF Graph
<1>2. PICK f : Nears(f, succ, a, n) /\ ReachableWithout(succ, a) = f[n]
  BY <1>1, ReachableIsNear
<1> HIDE DEF n
<1>3. /\ f[0] = {0} \ {a}
      /\ \A k \in 0 .. n - 1 : f[k + 1] = Nearby(succ, a, f[k])
      /\ \A k \in 0 .. n : {0} \ {a} \subseteq f[k] /\ f[k] \subseteq DOMAIN succ \ {a}
  BY <1>1, <1>2, NearSteps
<1>4. \A k \in 0 .. n : IsFiniteSet(f[k]) /\ Cardinality(f[k]) \in Nat
  <2> TAKE k \in 0 .. n
  <2>1. f[k] \subseteq DOMAIN succ
    BY <1>3
  <2>2. IsFiniteSet(f[k])
    BY <1>1, <2>1, FS_Subset
  <2> QED
    BY <2>2, FS_CardinalityType
<1> DEFINE Good(k) == Stays(succ, a, f[k]) \/ Cardinality(f[k]) > k
           Bad == {k \in 0 .. n : ~Good(k)}
<1>5. Good(0)
  <2>1. CASE a = 0
    BY <1>3, <2>1 DEF Stays
  <2>2. CASE a # 0
    <3>1. f[0] = {0}
      BY <1>3, <2>2
    <3>2. Cardinality(f[0]) = 1
      BY <3>1, FS_Singleton
    <3> QED
      BY <3>2
  <2> QED
    BY <2>1, <2>2
<1>6. ASSUME NEW k \in 0 .. n - 1, Good(k)
      PROVE  Good(k + 1)
  <2>1. f[k + 1] = f[k] \cup {y \in DOMAIN succ \ {a} : \E x \in f[k] : Edge(succ, x, y)}
    BY <1>3 DEF Nearby
  <2>2. k \in 0 .. n /\ k + 1 \in 0 .. n
    BY <1>1
  <2>3. CASE Stays(succ, a, f[k])
    <3>1. f[k + 1] = f[k]
      BY <2>1, <2>3 DEF Stays
    <3> QED
      BY <2>3, <3>1
  <2>4. CASE ~Stays(succ, a, f[k])
    <3>1. Cardinality(f[k]) > k
      BY <1>6, <2>4
    <3>2. f[k] \subseteq f[k + 1] /\ f[k] # f[k + 1]
      BY <2>1, <2>4 DEF Stays
    <3>3. Cardinality(f[k]) < Cardinality(f[k + 1])
      BY <1>4, <2>2, <3>2, FS_Subset
    <3>4. Cardinality(f[k + 1]) > k + 1
      BY <1>4, <2>2, <3>1, <3>3
    <3> QED
      BY <3>4
  <2> QED
    BY <2>3, <2>4
<1>7. Bad = {}
  <2> SUFFICES ASSUME Bad # {} PROVE FALSE
    OBVIOUS
  <2>1. PICK m \in Bad : \A k \in Bad : m <= k
    <3>1. Bad \in SUBSET Nat
      BY <1>1
    <3> HIDE DEF Bad
    <3> QED
      BY <3>1, LeastNumber
  <2>2. m \in 0 .. n /\ m # 0
    BY <1>5, <2>1
  <2>3. m - 1 \in 0 .. n - 1 /\ m - 1 \in 0 .. n /\ (m - 1) + 1 = m /\ m - 1 \notin Bad
    BY <1>1, <2>1, <2>2
  <2>4. Good(m - 1)
    BY <2>3
  <2>5. Good(m)
    BY <1>6, <2>3, <2>4
  <2> QED
    BY <2>1, <2>5
<1>8. n \in 0 .. n
  BY <1>1
<1>9. Good(n)
  BY <1>7, <1>8
<1>10. Cardinality(f[n]) <= n
  <2>1. f[n] \subseteq DOMAIN succ
    BY <1>3, <1>8
  <2> QED
    BY <1>1, <2>1, FS_Subset DEF n
<1>11. Stays(succ, a, f[n])
  BY <1>1, <1>4, <1>8, <1>9, <1>10
<1> QED
  BY <1>2, <1>3, <1>8, <1>11

\* Nothing is reached that an edge does not lead to.
LEMMA ReachableLeast ==
    ASSUME NEW succ, Graph(succ), NEW a, NEW S, {0} \ {a} \subseteq S, Stays(succ, a, S)
    PROVE  ReachableWithout(succ, a) \subseteq S
<1> DEFINE n == Cardinality(DOMAIN succ)
<1>1. n \in Nat
  BY FS_CardinalityType DEF Graph
<1>2. PICK f : Nears(f, succ, a, n) /\ ReachableWithout(succ, a) = f[n]
  BY <1>1, ReachableIsNear
<1> HIDE DEF n
<1>3. /\ f[0] = {0} \ {a}
      /\ \A k \in 0 .. n - 1 : f[k + 1] = Nearby(succ, a, f[k])
      /\ \A k \in 0 .. n : {0} \ {a} \subseteq f[k] /\ f[k] \subseteq DOMAIN succ \ {a}
  BY <1>1, <1>2, NearSteps
<1> DEFINE Bad == {k \in 0 .. n : ~ (f[k] \subseteq S)}
<1>4. Bad = {}
  <2> SUFFICES ASSUME Bad # {} PROVE FALSE
    OBVIOUS
  <2>1. PICK m \in Bad : \A k \in Bad : m <= k
    <3>1. Bad \in SUBSET Nat
      BY <1>1
    <3> HIDE DEF Bad
    <3> QED
      BY <3>1, LeastNumber
  <2>2. m \in 0 .. n /\ m # 0
    BY <1>3, <2>1
  <2>3. m - 1 \in 0 .. n - 1 /\ m - 1 \in 0 .. n /\ (m - 1) + 1 = m /\ m - 1 \notin Bad
    BY <1>1, <2>1, <2>2
  <2>4. f[m - 1] \subseteq S /\ f[m] = Nearby(succ, a, f[m - 1])
    BY <1>3, <2>3
  <2>5. f[m] \subseteq S
    BY <2>4 DEF Nearby, Stays
  <2> QED
    BY <2>1, <2>5
<1>5. n \in 0 .. n
  BY <1>1
<1> QED
  BY <1>2, <1>4, <1>5

-----------------------------------------------------------------------------
(* Dominance *)

Dom(succ, a, b) == b \notin ReachableWithout(succ, a)

LEMMA ReachableAll ==
    ASSUME NEW succ, Graph(succ)
    PROVE  /\ 0 \in Reachable(succ)
           /\ Reachable(succ) \subseteq DOMAIN succ
           /\ \A x \in Reachable(succ), y \in DOMAIN succ : Edge(succ, x, y) => y \in Reachable(succ)
           /\ \A a : ReachableWithout(succ, a) \subseteq Reachable(succ)
<1>1. /\ {0} \ {NoBlock} \subseteq Reachable(succ) /\ Reachable(succ) \subseteq DOMAIN succ
      /\ Stays(succ, NoBlock, Reachable(succ))
  BY ReachableStays DEF Reachable
<1>2. 0 # NoBlock
  BY DEF NoBlock
<1>3. \A x \in Reachable(succ), y \in DOMAIN succ : Edge(succ, x, y) => y \in Reachable(succ)
  BY <1>1 DEF Stays, Graph
<1>4. ASSUME NEW a PROVE ReachableWithout(succ, a) \subseteq Reachable(succ)
  <2>1. {0} \ {a} \subseteq Reachable(succ)
    BY <1>1, <1>2
  <2>2. Stays(succ, a, Reachable(succ))
    BY <1>3 DEF Stays
  <2> QED
    BY <2>1, <2>2, ReachableLeast
<1> QED
  BY <1>1, <1>2, <1>3, <1>4

\* A set with the entry that all edges close holds every reachable block.
LEMMA ClosedHoldsAll ==
    ASSUME NEW succ, Graph(succ), NEW S, 0 \in S,
           \A x \in S, y \in DOMAIN succ : Edge(succ, x, y) => y \in S
    PROVE  Reachable(succ) \subseteq S
<1>1. {0} \ {NoBlock} \subseteq S /\ Stays(succ, NoBlock, S)
  BY DEF Stays
<1> QED
  BY <1>1, ReachableLeast DEF Reachable

\* What a dominator's dominator cuts off.
LEMMA CutsMore ==
    ASSUME NEW succ, Graph(succ), NEW a, NEW c, Dom(succ, a, c)
    PROVE  ReachableWithout(succ, a) \subseteq ReachableWithout(succ, c)
<1> DEFINE A == ReachableWithout(succ, a)
           C == ReachableWithout(succ, c)
<1>1. /\ {0} \ {a} \subseteq A /\ A \subseteq DOMAIN succ /\ Stays(succ, a, A)
      /\ {0} \ {c} \subseteq C /\ Stays(succ, c, C) /\ c \notin A
  BY ReachableStays DEF Dom
<1> HIDE DEF A, C
<1>2. {0} \ {a} \subseteq A \cap C
  BY <1>1
<1>3. Stays(succ, a, A \cap C)
  BY <1>1 DEF Stays
<1>4. ReachableWithout(succ, a) \subseteq A \cap C
  BY <1>2, <1>3, ReachableLeast
<1> QED
  BY <1>4 DEF A, C

\* Two blocks that dominate the same reachable block: one dominates the other.
LEMMA DominatorsChain ==
    ASSUME NEW succ, Graph(succ), NEW a, NEW c, NEW b \in Reachable(succ),
           a # c, Dom(succ, a, b), Dom(succ, c, b)
    PROVE  Dom(succ, a, c) \/ Dom(succ, c, a)
<1> DEFINE A == ReachableWithout(succ, a)
           C == ReachableWithout(succ, c)
<1>1. /\ {0} \ {a} \subseteq A /\ Stays(succ, a, A)
      /\ {0} \ {c} \subseteq C /\ Stays(succ, c, C) /\ b \notin A /\ b \notin C
  BY ReachableStays DEF Dom
<1> SUFFICES ASSUME c \in A, a \in C PROVE FALSE
  BY DEF Dom
<1> HIDE DEF A, C
<1>2. 0 \in A \cup C
  BY <1>1
<1>3. \A x \in A \cup C, y \in DOMAIN succ : Edge(succ, x, y) => y \in A \cup C
  BY <1>1 DEF Stays
<1>4. Reachable(succ) \subseteq A \cup C
  BY <1>2, <1>3, ClosedHoldsAll
<1> QED
  BY <1>1, <1>4

\* Two reachable blocks never dominate each other.
LEMMA DominanceOneWay ==
    ASSUME NEW succ, Graph(succ), NEW a \in Reachable(succ), NEW c \in Reachable(succ),
           Dom(succ, a, c), Dom(succ, c, a)
    PROVE  a = c
<1> SUFFICES ASSUME a # c PROVE FALSE
  OBVIOUS
<1> DEFINE A == ReachableWithout(succ, a)
           C == ReachableWithout(succ, c)
<1>1. A = C
  BY CutsMore
<1>2. /\ {0} \ {a} \subseteq A /\ Stays(succ, a, A)
      /\ {0} \ {c} \subseteq A /\ Stays(succ, c, A) /\ a \notin A
  BY <1>1, ReachableStays
<1> HIDE DEF A, C
<1>3. 0 \in A
  BY <1>2
<1>4. \A x \in A, y \in DOMAIN succ : Edge(succ, x, y) => y \in A
  BY <1>2 DEF Stays
<1>5. Reachable(succ) \subseteq A
  BY <1>3, <1>4, ClosedHoldsAll
<1> QED
  BY <1>2, <1>5

\* DominatorsOf in these terms.
LEMMA DominatorsAre ==
    ASSUME NEW succ
    PROVE  /\ DOMAIN DominatorsOf(succ) = Reachable(succ)
           /\ \A b \in Reachable(succ) :
                  DominatorsOf(succ)[b] = {a \in Reachable(succ) : Dom(succ, a, b)}
<1>1. DominatorsOf(succ) =
          [b \in Reachable(succ) |->
              {a \in Reachable(succ) :
                  b \notin [x \in Reachable(succ) |-> ReachableWithout(succ, x)][a]}]
  BY DEF DominatorsOf
<1> QED
  BY <1>1 DEF Dom

-----------------------------------------------------------------------------
(* The dominator tree *)

\* IR/dominator_ir.c: every reachable block but the entry has exactly one immediate
\* dominator, a strict dominator that all its other strict dominators dominate:
\* the parent that build_dominators looks for exists, and what is chosen is it.
LEMMA DominatorTree ==
    ASSUME NEW succ, Graph(succ), NEW b \in Reachable(succ), b # 0
    PROVE  LET doms == DominatorsOf(succ)
               parent == ImmediateDominator(doms, b)
           IN  /\ parent \in doms[b] \ {b}
               /\ doms[b] \ {b} = doms[parent]
               /\ \A a \in doms[b] \ {b} : doms[b] \ {b} = doms[a] => a = parent
<1> DEFINE R == Reachable(succ)
           doms == DominatorsOf(succ)
           W(x) == ReachableWithout(succ, x)
           D == doms[b] \ {b}
<1>1. \A x \in R : doms[x] = {a \in R : Dom(succ, a, x)}
  BY DominatorsAre
<1>2. /\ b \in R /\ 0 \in R /\ R \subseteq DOMAIN succ /\ IsFiniteSet(DOMAIN succ)
      /\ \A x \in R : IsFiniteSet(W(x)) /\ Cardinality(W(x)) \in Nat
      /\ \A x \in R : x \notin W(x) /\ W(x) \subseteq R
      /\ W(0) = {}
  <2>1. 0 \in R /\ R \subseteq DOMAIN succ /\ IsFiniteSet(DOMAIN succ) /\ \A x : W(x) \subseteq R
    BY ReachableAll DEF Graph
  <2>2. \A x \in R : IsFiniteSet(W(x))
    BY <2>1, FS_Subset
  <2>3. \A x : x \notin W(x)
    BY ReachableStays
  <2>4. W(0) = {}
    <3>1. Stays(succ, 0, {}) /\ {0} \ {0} \subseteq {}
      BY DEF Stays
    <3> QED
      BY <3>1, ReachableLeast
  <2> QED
    BY <2>1, <2>2, <2>3, <2>4, FS_CardinalityType
<1>3. \A x, y : Dom(succ, x, y) <=> y \notin W(x)
  BY DEF Dom
<1> HIDE DEF R, W, doms
<1>4. 0 \in D /\ \A a \in D : a \in R /\ a # b /\ b \notin W(a)
  BY <1>1, <1>2, <1>3
<1> HIDE DEF D
<1>5. PICK a \in D : \A c \in D : Cardinality(W(c)) <= Cardinality(W(a))
  <2> DEFINE n == Cardinality(DOMAIN succ)
             left(c) == n - Cardinality(W(c))
             S == {left(c) : c \in D}
  <2>1. n \in Nat /\ \A c \in D : Cardinality(W(c)) \in Nat /\ Cardinality(W(c)) <= n
    <3>1. n \in Nat
      BY <1>2, FS_CardinalityType
    <3>2. ASSUME NEW c \in D PROVE Cardinality(W(c)) \in Nat /\ Cardinality(W(c)) <= n
      <4>1. W(c) \subseteq DOMAIN succ /\ Cardinality(W(c)) \in Nat
        BY <1>2, <1>4
      <4> QED
        BY <1>2, <4>1, FS_Subset
    <3> QED
      BY <3>1, <3>2
  <2> HIDE DEF n
  <2>2. \A c \in D : left(c) \in Nat
    BY <2>1
  <2>3. S \in SUBSET Nat /\ S # {}
    BY <1>4, <2>2
  <2>4. PICK m \in S : \A k \in S : m <= k
    <3> HIDE DEF S
    <3> QED
      BY <2>3, LeastNumber
  <2>5. PICK a \in D : m = left(a)
    BY <2>4
  <2>6. ASSUME NEW c \in D PROVE Cardinality(W(c)) <= Cardinality(W(a))
    <3>1. left(a) <= left(c)
      BY <2>4, <2>5
    <3> QED
      BY <2>1, <3>1
  <2> QED
    BY <2>5, <2>6
<1>6. ASSUME NEW c \in D PROVE c \in doms[a]
  <2>1. a \in R /\ c \in R /\ b \notin W(a) /\ b \notin W(c)
    BY <1>4
  <2>2. CASE c = a
    BY <1>1, <1>2, <1>3, <2>1, <2>2
  <2>3. CASE c # a
    <3>1. Dom(succ, a, c) \/ Dom(succ, c, a)
      BY <1>3, <2>1, <2>3, DominatorsChain DEF R
    <3>2. ASSUME ~Dom(succ, c, a) PROVE FALSE
      <4>1. Dom(succ, a, c) /\ a \in W(c)
        BY <1>3, <3>1, <3>2
      <4>2. W(a) \subseteq W(c)
        BY <4>1, CutsMore DEF W
      <4>3. W(a) # W(c)
        BY <1>2, <2>1, <4>1
      <4>4. Cardinality(W(a)) < Cardinality(W(c))
        BY <1>2, <2>1, <4>2, <4>3, FS_Subset
      <4> QED
        BY <1>2, <1>5, <2>1, <4>4
    <3> QED
      BY <1>1, <2>1, <3>2
  <2> QED
    BY <2>2, <2>3
<1>7. ASSUME NEW c \in doms[a] PROVE c \in D
  <2>1. a \in R /\ a # b /\ b \notin W(a) /\ c \in R /\ Dom(succ, c, a)
    BY <1>1, <1>4
  <2>2. W(c) \subseteq W(a)
    BY <2>1, CutsMore DEF W
  <2>3. Dom(succ, c, b)
    BY <1>3, <2>1, <2>2
  <2>4. c # b
    <3> SUFFICES ASSUME c = b PROVE FALSE
      OBVIOUS
    <3>1. Dom(succ, a, b) /\ Dom(succ, b, a)
      BY <1>3, <2>1
    <3> QED
      BY <2>1, <3>1, DominanceOneWay DEF R
  <2> QED
    BY <1>1, <2>1, <2>3, <2>4 DEF D, R
<1>8. D = doms[a]
  BY <1>6, <1>7
<1>9. ASSUME NEW c \in D, D = doms[c] PROVE c = a
  <2>1. a \in doms[c] /\ c \in doms[a] /\ a \in R /\ c \in R
    BY <1>4, <1>5, <1>8, <1>9
  <2>2. Dom(succ, a, c) /\ Dom(succ, c, a)
    BY <1>1, <2>1
  <2> QED
    BY <2>1, <2>2, DominanceOneWay DEF R
<1> DEFINE parent == ImmediateDominator(doms, b)
<1>10. parent \in D /\ D = doms[parent]
  BY <1>5, <1>8 DEF ImmediateDominator, D
<1> HIDE DEF parent
<1>11. parent = a
  BY <1>9, <1>10
<1> QED
  BY <1>9, <1>10, <1>11 DEF D, doms, parent

=============================================================================
