--------------------------- MODULE CodegenProofs ---------------------------
(***************************************************************************)
(* Programs of any size come out of code generation right.  CodeInv and    *)
(* WordInv are the inductive invariants of compile_program_to_binary and   *)
(* of the assembler: what each loop has done so far.  From the first, what *)
(* stands where in the code; from the second, where its words are.  On     *)
(* these rest the invariants of a run: StateInv (control stays in the code *)
(* and return addresses are real), ArgsInv (the state of a half-done       *)
(* prologue) and ChainInv (where each active function keeps its return     *)
(* address).                                                               *)
(***************************************************************************)
EXTENDS ProgramRun, SequenceTheorems, FiniteSetTheorems, WellFoundedInduction, TLAPS

-----------------------------------------------------------------------------
(* Counting and recursion *)

\* The least number with a property.
LEMMA LeastNumber ==
    ASSUME NEW S \in SUBSET Nat, S # {}
    PROVE  \E m \in S : \A k \in S : m <= k
<1> DEFINE R == OpToRel(<, Nat)
<1>1. PICK m \in S : \A k \in S : ~ (<<k, m>> \in R)
  BY NatLessThanWellFounded, WFMin
<1>2. ASSUME NEW k \in S PROVE m <= k
  <2>1. ~ (k < m)
    BY <1>1 DEF OpToRel
  <2> QED
    BY <2>1
<1> QED
  BY <1>2

\* A set of numbers that holds zero and every next number holds all.
LEMMA CountingUp ==
    ASSUME NEW S \in SUBSET Nat, 0 \in S, \A k \in S : k + 1 \in S
    PROVE  \A k \in Nat : k \in S
<1> SUFFICES ASSUME Nat \ S # {} PROVE FALSE
  OBVIOUS
<1>1. PICK m \in Nat \ S : \A k \in Nat \ S : m <= k
  BY LeastNumber
<1>2. m # 0 /\ m - 1 \in Nat
  BY <1>1
<1>3. m - 1 \in S
  BY <1>1, <1>2
<1>4. (m - 1) + 1 \in S /\ (m - 1) + 1 = m
  BY <1>1, <1>3
<1> QED
  BY <1>1, <1>4

\* A recursion over 0 .. n whose steps stay in S has a solution.
Solves(f, a, step, n) ==
    f[0] = a /\ \A k \in 1 .. n : f[k] = step[k][f[k - 1]]

LEMMA SolutionExists ==
    ASSUME NEW S, NEW a \in S, NEW n \in Nat, NEW step \in [1 .. n -> [S -> S]]
    PROVE  \E f \in [0 .. n -> S] : Solves(f, a, step, n)
<1> DEFINE Reached == {m \in Nat : m <= n => \E f \in [0 .. m -> S] : Solves(f, a, step, m)}
<1>1. 0 \in Reached
  <2> DEFINE f == [j \in 0 .. 0 |-> a]
  <2>1. f \in [0 .. 0 -> S] /\ Solves(f, a, step, 0)
    BY DEF Solves
  <2> QED
    BY <2>1
<1>2. ASSUME NEW m \in Reached PROVE m + 1 \in Reached
  <2> SUFFICES ASSUME m + 1 <= n
               PROVE  \E f \in [0 .. m + 1 -> S] : Solves(f, a, step, m + 1)
    OBVIOUS
  <2>1. PICK f \in [0 .. m -> S] : Solves(f, a, step, m)
    BY <1>2
  <2> DEFINE g == [j \in 0 .. m + 1 |-> IF j = m + 1 THEN step[m + 1][f[m]] ELSE f[j]]
  <2>2. m \in 0 .. m /\ m + 1 \in 1 .. n
    OBVIOUS
  <2>3. step[m + 1][f[m]] \in S
    BY <2>2
  <2>4. g \in [0 .. m + 1 -> S]
    BY <2>3
  <2>5. g[0] = a
    BY <2>1 DEF Solves
  <2>6. ASSUME NEW k \in 1 .. m + 1 PROVE g[k] = step[k][g[k - 1]]
    <3>1. CASE k = m + 1
      BY <3>1
    <3>2. CASE k # m + 1
      <4>1. k \in 1 .. m /\ k - 1 \in 0 .. m
        BY <3>2
      <4>2. g[k] = f[k] /\ g[k - 1] = f[k - 1]
        BY <4>1
      <4> QED
        BY <2>1, <4>1, <4>2 DEF Solves
    <3> QED
      BY <3>1, <3>2
  <2> QED
    BY <2>4, <2>5, <2>6 DEF Solves
<1>3. n \in Reached
  <2> HIDE DEF Reached
  <2>1. Reached \in SUBSET Nat
    BY DEF Reached
  <2> QED
    BY <1>1, <1>2, <2>1, CountingUp
<1> QED
  BY <1>3


-----------------------------------------------------------------------------
(* Sums *)

Adding(numbers, n) == [k \in 1 .. n |-> [v \in Nat |-> v + numbers[k]]]

\* What SumTo counts, from one number to the next.
LEMMA Sums ==
    ASSUME NEW n \in Nat, NEW numbers, \A k \in 1 .. n : numbers[k] \in Nat
    PROVE  /\ SumTo(numbers, 0) = 0
           /\ \A k \in 1 .. n : SumTo(numbers, k) = SumTo(numbers, k - 1) + numbers[k]
           /\ \A k \in 0 .. n : SumTo(numbers, k) \in Nat
<1>1. PICK f \in [0 .. n -> Nat] : Solves(f, 0, Adding(numbers, n), n)
  <2>1. Adding(numbers, n) \in [1 .. n -> [Nat -> Nat]]
    BY DEF Adding
  <2> QED
    BY <2>1, SolutionExists
<1>2. f[0] = 0 /\ \A k \in 1 .. n : f[k] = f[k - 1] + numbers[k]
  <2>1. f[0] = 0
    BY <1>1 DEF Solves
  <2>2. ASSUME NEW k \in 1 .. n PROVE f[k] = f[k - 1] + numbers[k]
    <3>1. f[k] = Adding(numbers, n)[k][f[k - 1]]
      BY <1>1 DEF Solves
    <3>2. f[k - 1] \in Nat
      OBVIOUS
    <3> QED
      BY <3>1, <3>2 DEF Adding
  <2> QED
    BY <2>1, <2>2
<1>3. ASSUME NEW m \in 0 .. n PROVE SumTo(numbers, m) = f[m]
  <2> DEFINE upto == CHOOSE g : g = [k \in 0 .. m |-> IF k = 0 THEN 0 ELSE g[k - 1] + numbers[k]]
  <2>1. SumTo(numbers, m) = upto[m]
    BY DEF SumTo
  <2> DEFINE g == [k \in 0 .. m |-> f[k]]
  <2>2. g = [k \in 0 .. m |-> IF k = 0 THEN 0 ELSE g[k - 1] + numbers[k]]
    BY <1>2
  <2> HIDE DEF g
  <2>3. upto = [k \in 0 .. m |-> IF k = 0 THEN 0 ELSE upto[k - 1] + numbers[k]]
    BY <2>2
  <2> HIDE DEF upto
  <2> DEFINE Same == {k \in Nat : k <= m => upto[k] = f[k]}
  <2>4. 0 \in Same
    BY <1>2, <2>3
  <2>5. ASSUME NEW k \in Same PROVE k + 1 \in Same
    <3> SUFFICES ASSUME k + 1 <= m PROVE upto[k + 1] = f[k + 1]
      OBVIOUS
    <3>1. k + 1 \in 0 .. m /\ k + 1 \in 1 .. n /\ (k + 1) - 1 = k /\ k + 1 # 0 /\ upto[k] = f[k]
      OBVIOUS
    <3>2. upto[k + 1] = upto[(k + 1) - 1] + numbers[k + 1]
      BY <2>3, <3>1
    <3> QED
      BY <1>2, <3>1, <3>2
  <2>6. Same \in SUBSET Nat
    OBVIOUS
  <2>7. m \in Nat
    OBVIOUS
  <2>8. m \in Same
    <3> HIDE DEF Same
    <3> QED
      BY <2>4, <2>5, <2>6, <2>7, CountingUp
  <2> QED
    BY <2>1, <2>8
<1>4. 0 \in 0 .. n /\ \A k \in 1 .. n : k \in 0 .. n /\ k - 1 \in 0 .. n
  OBVIOUS
<1> QED
  BY <1>1, <1>2, <1>3, <1>4

\* Sums of more numbers are not smaller.
LEMMA SumsGrow ==
    ASSUME NEW n \in Nat, NEW numbers, \A k \in 1 .. n : numbers[k] \in Nat,
           NEW j \in 0 .. n
    PROVE  \A k \in j .. n : SumTo(numbers, j) <= SumTo(numbers, k)
<1> DEFINE More == {k \in Nat : j + k <= n => SumTo(numbers, j) <= SumTo(numbers, j + k)}
<1>1. 0 \in More
  BY Sums
<1>2. ASSUME NEW k \in More PROVE k + 1 \in More
  <2> SUFFICES ASSUME j + (k + 1) <= n PROVE SumTo(numbers, j) <= SumTo(numbers, j + (k + 1))
    OBVIOUS
  <2>1. SumTo(numbers, j) <= SumTo(numbers, j + k)
    OBVIOUS
  <2>2. j + (k + 1) \in 1 .. n /\ (j + (k + 1)) - 1 = j + k /\ j + k \in 0 .. n
    OBVIOUS
  <2> HIDE DEF More
  <2>3. SumTo(numbers, j + (k + 1)) = SumTo(numbers, j + k) + numbers[j + (k + 1)]
    BY <2>2, Sums
  <2>4. numbers[j + (k + 1)] \in Nat /\ SumTo(numbers, j + k) \in Nat /\ SumTo(numbers, j) \in Nat
    BY <2>2, Sums
  <2> QED
    BY <2>1, <2>3, <2>4
<1>3. \A k \in Nat : k \in More
  <2>1. More \in SUBSET Nat
    OBVIOUS
  <2> HIDE DEF More
  <2> QED
    BY <1>1, <1>2, <2>1, CountingUp
<1>4. ASSUME NEW k \in j .. n PROVE SumTo(numbers, j) <= SumTo(numbers, k)
  <2>1. k - j \in Nat /\ j + (k - j) = k
    OBVIOUS
  <2>2. k - j \in More
    BY <1>3, <2>1
  <2> QED
    BY <2>1, <2>2
<1> QED
  BY <1>4

\* Every place up to a sum lies within one of the numbers ...
LEMMA SumsCover ==
    ASSUME NEW n \in Nat, NEW numbers, \A k \in 1 .. n : numbers[k] \in Nat
    PROVE  \A m \in 1 .. SumTo(numbers, n) :
               \E j \in 1 .. n : \E i \in 1 .. numbers[j] : m = SumTo(numbers, j - 1) + i
<1> DEFINE Covered == {k \in Nat : k <= n => \A m \in 1 .. SumTo(numbers, k) :
                          \E j \in 1 .. k : \E i \in 1 .. numbers[j] : m = SumTo(numbers, j - 1) + i}
<1>1. 0 \in Covered
  BY Sums
<1>2. ASSUME NEW k \in Covered PROVE k + 1 \in Covered
  <2> SUFFICES ASSUME k + 1 <= n, NEW m \in 1 .. SumTo(numbers, k + 1)
               PROVE  \E j \in 1 .. k + 1 : \E i \in 1 .. numbers[j] : m = SumTo(numbers, j - 1) + i
    OBVIOUS
  <2>1. \A l \in 1 .. SumTo(numbers, k) :
            \E j \in 1 .. k : \E i \in 1 .. numbers[j] : l = SumTo(numbers, j - 1) + i
    OBVIOUS
  <2>2. k + 1 \in 1 .. n /\ (k + 1) - 1 = k /\ k \in 0 .. n /\ k + 1 \in 0 .. n /\ k \in Nat
    OBVIOUS
  <2> HIDE DEF Covered
  <2>3. SumTo(numbers, k + 1) = SumTo(numbers, k) + numbers[k + 1]
    BY <2>2, Sums
  <2>4. SumTo(numbers, k) \in Nat /\ numbers[k + 1] \in Nat
    BY <2>2, Sums
  <2>5. CASE m <= SumTo(numbers, k)
    <3>1. m \in 1 .. SumTo(numbers, k)
      BY <2>3, <2>4, <2>5
    <3>2. PICK j \in 1 .. k : \E i \in 1 .. numbers[j] : m = SumTo(numbers, j - 1) + i
      BY <2>1, <3>1
    <3>3. j \in 1 .. k + 1
      BY <2>2
    <3> QED
      BY <3>2, <3>3
  <2>6. CASE m > SumTo(numbers, k)
    <3>1. m - SumTo(numbers, k) \in 1 .. numbers[k + 1]
      BY <2>3, <2>4, <2>6
    <3>2. m = SumTo(numbers, (k + 1) - 1) + (m - SumTo(numbers, k))
      BY <2>2, <2>3, <2>4
    <3>3. k + 1 \in 1 .. k + 1
      BY <2>2
    <3> QED
      BY <3>1, <3>2, <3>3
  <2>7. m <= SumTo(numbers, k) \/ m > SumTo(numbers, k)
    BY <2>3, <2>4
  <2> QED
    BY <2>5, <2>6, <2>7
<1>3. n \in Covered
  <2>1. Covered \in SUBSET Nat
    OBVIOUS
  <2> HIDE DEF Covered
  <2> QED
    BY <1>1, <1>2, <2>1, CountingUp
<1> QED
  BY <1>3


\* Lengths stacked up: what comes later begins behind what came before.
LEMMA Stacked ==
    ASSUME NEW n \in Nat, NEW f, NEW g, \A k \in 1 .. n : f[k] \in Nat /\ g[k] \in Nat,
           \A k \in 1 .. n : k + 1 \in 1 .. n => f[k + 1] = f[k] + g[k]
    PROVE  \A j, k \in 1 .. n : j < k => f[j] + g[j] <= f[k]
<1> SUFFICES ASSUME NEW j \in 1 .. n, NEW k \in 1 .. n, j < k PROVE f[j] + g[j] <= f[k]
  OBVIOUS
<1> DEFINE Apart == {d \in Nat : (j + 1) + d <= n => f[j] + g[j] <= f[(j + 1) + d]}
<1>1. 0 \in Apart
  OBVIOUS
<1>2. ASSUME NEW d \in Apart PROVE d + 1 \in Apart
  <2> SUFFICES ASSUME (j + 1) + (d + 1) <= n PROVE f[j] + g[j] <= f[(j + 1) + (d + 1)]
    OBVIOUS
  <2>1. d \in Nat /\ f[j] + g[j] <= f[(j + 1) + d]
    OBVIOUS
  <2>2. (j + 1) + d \in 1 .. n /\ (j + 1) + (d + 1) = ((j + 1) + d) + 1 /\ ((j + 1) + d) + 1 \in 1 .. n
    BY <2>1
  <2> HIDE DEF Apart
  <2>3. f[((j + 1) + d) + 1] = f[(j + 1) + d] + g[(j + 1) + d]
    BY <2>2
  <2>4. f[(j + 1) + d] \in Nat /\ g[(j + 1) + d] \in Nat /\ f[j] \in Nat /\ g[j] \in Nat
    BY <2>2
  <2> QED
    BY <2>1, <2>2, <2>3, <2>4
<1>3. k - (j + 1) \in Nat /\ (j + 1) + (k - (j + 1)) = k
  OBVIOUS
<1>4. k - (j + 1) \in Apart
  <2>1. Apart \in SUBSET Nat
    OBVIOUS
  <2> HIDE DEF Apart
  <2> QED
    BY <1>1, <1>2, <1>3, <2>1, CountingUp
<1> QED
  BY <1>3, <1>4

\* A sum of sums, and equal sums.
LEMMA SumsAdd ==
    ASSUME NEW n \in Nat, NEW f, NEW g, NEW h,
           \A k \in 1 .. n : f[k] \in Nat /\ g[k] \in Nat /\ h[k] \in Nat /\ f[k] = g[k] + h[k]
    PROVE  SumTo(f, n) = SumTo(g, n) + SumTo(h, n)
<1> DEFINE Adds == {k \in Nat : k <= n => SumTo(f, k) = SumTo(g, k) + SumTo(h, k)}
<1>a. /\ SumTo(f, 0) = 0 /\ SumTo(g, 0) = 0 /\ SumTo(h, 0) = 0
      /\ \A k \in 1 .. n : /\ SumTo(f, k) = SumTo(f, k - 1) + f[k]
                           /\ SumTo(g, k) = SumTo(g, k - 1) + g[k]
                           /\ SumTo(h, k) = SumTo(h, k - 1) + h[k]
      /\ \A k \in 0 .. n : SumTo(f, k) \in Nat /\ SumTo(g, k) \in Nat /\ SumTo(h, k) \in Nat
  BY Sums
<1>1. 0 \in Adds
  BY <1>a
<1>2. ASSUME NEW k \in Adds PROVE k + 1 \in Adds
  <2> SUFFICES ASSUME k + 1 <= n PROVE SumTo(f, k + 1) = SumTo(g, k + 1) + SumTo(h, k + 1)
    OBVIOUS
  <2>1. SumTo(f, k) = SumTo(g, k) + SumTo(h, k)
    OBVIOUS
  <2>2. k + 1 \in 1 .. n /\ (k + 1) - 1 = k /\ k \in 0 .. n
    OBVIOUS
  <2> HIDE DEF Adds
  <2> QED
    BY <1>a, <2>1, <2>2
<1>3. n \in Adds
  <2>1. Adds \in SUBSET Nat
    OBVIOUS
  <2> HIDE DEF Adds
  <2> QED
    BY <1>1, <1>2, <2>1, CountingUp
<1> QED
  BY <1>3

-----------------------------------------------------------------------------
(* Sequences joined *)

\* Two sequences behind each other.
LEMMA Behind ==
    ASSUME NEW T, NEW u \in Seq(T), NEW v \in Seq(T)
    PROVE  /\ u \o v \in Seq(T)
           /\ Len(u \o v) = Len(u) + Len(v)
           /\ \A i \in 1 .. Len(u) : (u \o v)[i] = u[i]
           /\ \A i \in 1 .. Len(v) : (u \o v)[Len(u) + i] = v[i]
OBVIOUS

\* The first n of the sequences s, of the lengths lens, joined one by one ...
Joins(cat, s, lens, n, T) ==
    /\ \A k \in 1 .. n : s[k] \in Seq(T) /\ lens[k] = Len(s[k])
    /\ cat \in [0 .. n -> Seq(T)]
    /\ cat[0] = <<>>
    /\ \A k \in 1 .. n : cat[k] = cat[k - 1] \o s[k]

\* ... lie behind each other.
LiesIn(whole, s, lens, n) ==
    /\ Len(whole) = SumTo(lens, n)
    /\ \A j \in 1 .. n : \A i \in 1 .. lens[j] : whole[SumTo(lens, j - 1) + i] = s[j][i]

LEMMA Joined ==
    ASSUME NEW T, NEW n \in Nat, NEW s, NEW lens, NEW cat, Joins(cat, s, lens, n, T)
    PROVE  \A k \in 0 .. n : LiesIn(cat[k], s, lens, k)
<1>0. /\ \A k \in 1 .. n : s[k] \in Seq(T) /\ lens[k] = Len(s[k])
      /\ cat \in [0 .. n -> Seq(T)]
      /\ cat[0] = <<>>
      /\ \A k \in 1 .. n : cat[k] = cat[k - 1] \o s[k]
  BY DEF Joins
<1> DEFINE Right(k) == /\ Len(cat[k]) = SumTo(lens, k)
                       /\ \A j \in 1 .. k : \A i \in 1 .. lens[j] :
                              cat[k][SumTo(lens, j - 1) + i] = s[j][i]
           Reached == {k \in Nat : k <= n => Right(k)}
<1>a. ASSUME NEW k \in 1 .. n PROVE lens[k] \in Nat
  <2>1. s[k] \in Seq(T) /\ lens[k] = Len(s[k])
    BY <1>0
  <2> QED
    BY <2>1, LenProperties
<1>b. /\ SumTo(lens, 0) = 0
      /\ \A k \in 1 .. n : SumTo(lens, k) = SumTo(lens, k - 1) + lens[k]
      /\ \A k \in 0 .. n : SumTo(lens, k) \in Nat
  BY <1>a, Sums
<1>1. 0 \in Reached
  BY <1>0, <1>b
<1>2. ASSUME NEW k \in Reached PROVE k + 1 \in Reached
  <2> SUFFICES ASSUME k + 1 <= n PROVE Right(k + 1)
    OBVIOUS
  <2>0. k \in Nat /\ k <= n
    OBVIOUS
  <2>1. Len(cat[k]) = SumTo(lens, k)
        /\ \A j \in 1 .. k : \A i \in 1 .. lens[j] : cat[k][SumTo(lens, j - 1) + i] = s[j][i]
    BY <2>0
  <2>2. k + 1 \in 1 .. n /\ (k + 1) - 1 = k /\ k \in 0 .. n
    OBVIOUS
  <2> HIDE DEF Reached
  <2>3. cat[k + 1] = cat[k] \o s[k + 1] /\ cat[k] \in Seq(T) /\ s[k + 1] \in Seq(T)
    BY <1>0, <2>2
  <2>4. SumTo(lens, k + 1) = SumTo(lens, k) + lens[k + 1] /\ lens[k + 1] = Len(s[k + 1])
    BY <1>0, <1>b, <2>2
  <2>b. /\ Len(cat[k] \o s[k + 1]) = Len(cat[k]) + Len(s[k + 1])
        /\ \A i \in 1 .. Len(cat[k]) : (cat[k] \o s[k + 1])[i] = cat[k][i]
        /\ \A i \in 1 .. Len(s[k + 1]) : (cat[k] \o s[k + 1])[Len(cat[k]) + i] = s[k + 1][i]
    <3> DEFINE u == cat[k]
               v == s[k + 1]
    <3>1. u \in Seq(T) /\ v \in Seq(T)
      BY <2>3
    <3> HIDE DEF u, v
    <3>2. /\ Len(u \o v) = Len(u) + Len(v)
          /\ \A i \in 1 .. Len(u) : (u \o v)[i] = u[i]
          /\ \A i \in 1 .. Len(v) : (u \o v)[Len(u) + i] = v[i]
      BY <3>1, Behind
    <3> QED
      BY <3>2 DEF u, v
  <2>5. Len(cat[k + 1]) = SumTo(lens, k + 1)
    BY <2>1, <2>3, <2>4, <2>b
  <2>6. ASSUME NEW j \in 1 .. k + 1, NEW i \in 1 .. lens[j]
        PROVE  cat[k + 1][SumTo(lens, j - 1) + i] = s[j][i]
    <3>1. CASE j = k + 1
      <4>1. SumTo(lens, j - 1) = Len(cat[k]) /\ i \in 1 .. Len(s[k + 1])
        BY <2>1, <2>2, <2>4, <3>1
      <4>2. (cat[k] \o s[k + 1])[Len(cat[k]) + i] = s[k + 1][i]
        BY <2>b, <4>1
      <4> QED
        BY <2>3, <3>1, <4>1, <4>2
    <3>2. CASE j # k + 1
      <4>1. j \in 1 .. k /\ j \in 1 .. n /\ j \in 0 .. n /\ j - 1 \in 0 .. n
        BY <2>1, <2>2, <3>2
      <4>2. SumTo(lens, j) <= SumTo(lens, k)
        <5>1. k \in j .. n
          BY <2>2, <4>1
        <5> QED
          BY <1>a, <4>1, <5>1, SumsGrow
      <4>3. SumTo(lens, j - 1) + i \in 1 .. Len(cat[k])
        <5>1. SumTo(lens, j) = SumTo(lens, j - 1) + lens[j] /\ SumTo(lens, j - 1) \in Nat
          BY <1>b, <4>1
        <5>2. Len(cat[k]) = SumTo(lens, k) /\ lens[j] \in Nat /\ SumTo(lens, k) \in Nat /\ SumTo(lens, j) \in Nat
          BY <1>a, <1>b, <2>1, <2>2, <4>1
        <5>3. i \in Nat /\ 1 <= i /\ i <= lens[j]
          BY <5>2
        <5>4. 1 <= SumTo(lens, j - 1) + i /\ SumTo(lens, j - 1) + i <= SumTo(lens, k)
          BY <4>2, <5>1, <5>2, <5>3
        <5>5. SumTo(lens, j - 1) + i \in Nat
          BY <5>1, <5>3
        <5> HIDE DEF Right
        <5> QED
          BY <5>2, <5>4, <5>5
      <4>4. cat[k + 1][SumTo(lens, j - 1) + i] = cat[k][SumTo(lens, j - 1) + i]
        <5> HIDE DEF Right
        <5> QED
          BY <2>3, <2>b, <4>3
      <4> QED
        BY <2>1, <4>1, <4>4
    <3> QED
      BY <3>1, <3>2
  <2> QED
    BY <2>5, <2>6
<1>3. \A k \in Nat : k \in Reached
  <2>1. Reached \in SUBSET Nat
    OBVIOUS
  <2> HIDE DEF Reached
  <2> QED
    BY <1>1, <1>2, <2>1, CountingUp
<1> QED
  BY <1>3 DEF LiesIn

Joining(s, T) == [k \in 1 .. Len(s) |-> [v \in Seq(T) |-> v \o s[k]]]

\* FlattenSeq lays the sequences of a sequence behind each other.
LEMMA Flattened ==
    ASSUME NEW T, NEW s \in Seq(Seq(T)), NEW lens, \A k \in 1 .. Len(s) : lens[k] = Len(s[k])
    PROVE  FlattenSeq(s) \in Seq(T) /\ LiesIn(FlattenSeq(s), s, lens, Len(s))
<1> DEFINE n == Len(s)
<1>1. n \in Nat /\ \A k \in 1 .. n : s[k] \in Seq(T)
  OBVIOUS
<1>0. n = Len(s)
  OBVIOUS
<1> HIDE DEF n
<1>2. PICK cat \in [0 .. n -> Seq(T)] : Solves(cat, <<>>, Joining(s, T), n)
  <2>1. Joining(s, T) \in [1 .. n -> [Seq(T) -> Seq(T)]]
    <3>1. ASSUME NEW k \in 1 .. n, NEW v \in Seq(T) PROVE v \o s[k] \in Seq(T)
      BY <1>1
    <3> QED
      BY <1>0, <3>1 DEF Joining
  <2>2. <<>> \in Seq(T)
    OBVIOUS
  <2> QED
    BY <1>1, <2>1, <2>2, SolutionExists
<1>3. cat[0] = <<>> /\ \A k \in 1 .. n : cat[k] = cat[k - 1] \o s[k]
  <2>1. cat[0] = <<>>
    BY <1>2 DEF Solves
  <2>2. ASSUME NEW k \in 1 .. n PROVE cat[k] = cat[k - 1] \o s[k]
    <3>1. cat[k] = Joining(s, T)[k][cat[k - 1]]
      BY <1>2 DEF Solves
    <3>2. k - 1 \in 0 .. n
      BY <1>1
    <3>3. cat[k - 1] \in Seq(T)
      BY <3>2
    <3> QED
      BY <1>0, <3>1, <3>3 DEF Joining
  <2> QED
    BY <2>1, <2>2
<1>4. FlattenSeq(s) = cat[n]
  <2>1. CASE n = 0
    <3>1. s = <<>>
      BY <1>0, <2>1, EmptySeq
    <3> QED
      BY <1>0, <1>3, <2>1, <3>1 DEF FlattenSeq
  <2>2. CASE n # 0
    <3> DEFINE flatten == CHOOSE g : g = [i \in 1 .. Len(s) |-> IF i = 1 THEN s[i] ELSE g[i - 1] \o s[i]]
    <3>1. FlattenSeq(s) = flatten[n]
      BY <1>0, <2>2 DEF FlattenSeq
    <3> DEFINE g == [i \in 1 .. Len(s) |-> cat[i]]
    <3>2. g = [i \in 1 .. Len(s) |-> IF i = 1 THEN s[i] ELSE g[i - 1] \o s[i]]
      <4>1. ASSUME NEW i \in 1 .. n PROVE cat[i] = IF i = 1 THEN s[i] ELSE g[i - 1] \o s[i]
        <5>1. CASE i = 1
          <6>0. 1 \in 1 .. n /\ 1 - 1 = 0
            BY <1>1, <5>1
          <6>1. cat[1] = <<>> \o s[1] /\ s[1] \in Seq(T)
            BY <1>1, <1>3, <6>0
          <6> QED
            BY <5>1, <6>1
        <5>2. CASE i # 1
          <6>1. i - 1 \in 1 .. Len(s)
            BY <1>0, <1>1, <5>2
          <6>2. g[i - 1] = cat[i - 1]
            BY SMTT(45), <6>1
          <6> HIDE DEF g
          <6> QED
            BY <1>3, <5>2, <6>2
        <5> QED
          BY <5>1, <5>2
      <4> QED
        BY <1>0, <4>1
    <3> HIDE DEF g
    <3>3. flatten = [i \in 1 .. Len(s) |-> IF i = 1 THEN s[i] ELSE flatten[i - 1] \o s[i]]
      BY ZenonT(45), <3>2
    <3> HIDE DEF flatten
    <3> DEFINE Same == {k \in Nat : k + 1 <= n => flatten[k + 1] = cat[k + 1]}
    <3>4. 0 \in Same
      <4>0. 1 \in 1 .. n /\ 1 - 1 = 0
        BY <1>1, <2>2
      <4>1. cat[1] = <<>> \o s[1] /\ s[1] \in Seq(T) /\ 1 \in 1 .. Len(s)
        BY <1>0, <1>1, <1>3, <4>0
      <4>2. flatten[1] = s[1]
        BY <3>3, <4>1
      <4> QED
        BY <4>1, <4>2
    <3>5. ASSUME NEW k \in Same PROVE k + 1 \in Same
      <4> SUFFICES ASSUME (k + 1) + 1 <= n PROVE flatten[(k + 1) + 1] = cat[(k + 1) + 1]
        OBVIOUS
      <4>1. flatten[k + 1] = cat[k + 1] /\ k \in Nat
        BY <1>1
      <4>2. (k + 1) + 1 \in 1 .. n /\ (k + 1) + 1 # 1 /\ ((k + 1) + 1) - 1 = k + 1
        BY <1>1
      <4>3. flatten[(k + 1) + 1] = flatten[((k + 1) + 1) - 1] \o s[(k + 1) + 1]
        BY <1>0, <3>3, <4>2
      <4> QED
        BY <1>3, <4>1, <4>2, <4>3
    <3>6. \A k \in Nat : k \in Same
      <4>1. Same \in SUBSET Nat
        OBVIOUS
      <4> HIDE DEF Same
      <4> QED
        BY <3>4, <3>5, <4>1, CountingUp
    <3>7. n - 1 \in Nat /\ (n - 1) + 1 = n
      BY <1>1, <2>2
    <3>8. flatten[n] = cat[n]
      <4>1. n - 1 \in Same
        BY <3>6, <3>7
      <4>2. (n - 1) + 1 <= n
        BY <1>1, <3>7
      <4> QED
        BY <3>7, <4>1, <4>2
    <3> QED
      BY <3>1, <3>8
  <2> QED
    BY <2>1, <2>2
<1>5. LiesIn(cat[n], s, lens, n)
  <2>1. n \in 0 .. n
    BY <1>1
  <2>2. Joins(cat, s, lens, n, T)
    BY <1>0, <1>1, <1>3 DEF Joins
  <2> QED
    BY <1>1, <2>1, <2>2, Joined
<1>6. cat[n] \in Seq(T)
  BY <1>1
<1> QED
  BY <1>0, <1>4, <1>5, <1>6

\* Where in the whole a place lies.
Covered(whole, s, lens, n) ==
    \A m \in 1 .. Len(whole) :
        \E j \in 1 .. n : \E i \in 1 .. lens[j] : m = SumTo(lens, j - 1) + i /\ whole[m] = s[j][i]

LEMMA PlaceInWhole ==
    ASSUME NEW n \in Nat, NEW s, NEW lens, NEW whole, \A k \in 1 .. n : lens[k] \in Nat,
           LiesIn(whole, s, lens, n)
    PROVE  Covered(whole, s, lens, n)
<1> SUFFICES ASSUME NEW m \in 1 .. Len(whole)
             PROVE  \E j \in 1 .. n : \E i \in 1 .. lens[j] :
                        m = SumTo(lens, j - 1) + i /\ whole[m] = s[j][i]
  BY DEF Covered
<1>1. m \in 1 .. SumTo(lens, n)
  BY DEF LiesIn
<1>2. PICK j \in 1 .. n : \E i \in 1 .. lens[j] : m = SumTo(lens, j - 1) + i
  BY <1>1, SumsCover
<1>3. PICK i \in 1 .. lens[j] : m = SumTo(lens, j - 1) + i
  BY <1>2
<1>4. whole[m] = s[j][i]
  BY <1>3 DEF LiesIn
<1> QED
  BY <1>3, <1>4

-----------------------------------------------------------------------------
(* The order of the functions *)

LEMMA ProgramFacts ==
    ASSUME program \in Programs
    PROVE  /\ program \in Seq(FunctionSet)
           /\ Len(program) \in Nat
           /\ \A j, k \in Places : program[j].func_name = program[k].func_name => j = k
           /\ \A k \in Places : /\ program[k] \in FunctionSet
                                /\ program[k].blocks # <<>>
                                /\ JumpsAhead(program[k])
<1>1. program \in Seq(FunctionSet)
  BY ProgramAssumption
<1>2. Len(program) \in Nat /\ DOMAIN program = Places
  BY <1>1 DEF Places
<1>3. \A k \in Places : program[k] \in FunctionSet
  BY <1>1 DEF Places
<1> QED
  BY <1>1, <1>2, <1>3, ProgramAssumption

\* MainFirst names every function once, and main, if there is one, first.
LEMMA OrderFacts ==
    ASSUME program \in Programs
    PROVE  /\ MainFirst \in [Places -> Places]
           /\ \A o, p \in Places : MainFirst[o] = MainFirst[p] => o = p
           /\ \A k \in Places : \E o \in Places : MainFirst[o] = k
           /\ \A k \in Mains : MainFirst[1] = k
<1>1. Len(program) \in Nat
  BY ProgramFacts
<1>2. CASE Mains = {}
  <2>1. MainFirst = [o \in Places |-> o]
    BY <1>2 DEF MainFirst
  <2> QED
    BY <1>2, <2>1
<1>3. CASE Mains # {}
  <2> DEFINE m == Min(Mains)
  <2>1. m \in Mains /\ \A k \in Mains : m <= k
    <3>1. Mains \in SUBSET Nat
      BY <1>1 DEF Mains, Places
    <3>2. \E k \in Mains : \A j \in Mains : k <= j
      BY <1>3, <3>1, LeastNumber
    <3> QED
      BY <3>2 DEF Min
  <2>2. MainFirst = [o \in Places |-> IF o = 1 THEN m ELSE IF o <= m THEN o - 1 ELSE o]
    BY <1>3 DEF MainFirst
  <2>3. m \in Places
    BY <2>1 DEF Mains
  <2>4. \A k \in Mains : k = m
    BY <2>1, ProgramFacts DEF Mains
  <2> HIDE DEF m
  <2>5. m \in Nat /\ 1 <= m /\ m <= Len(program)
    BY <1>1, <2>3 DEF Places
  <2>6. MainFirst \in [Places -> Places]
    BY <1>1, <2>2, <2>5 DEF Places
  <2>7. ASSUME NEW o \in Places, NEW p \in Places, MainFirst[o] = MainFirst[p] PROVE o = p
    BY <1>1, <2>2, <2>5, <2>7 DEF Places
  <2>8. ASSUME NEW k \in Places PROVE \E o \in Places : MainFirst[o] = k
    <3>1. CASE k = m
      <4>1. 1 \in Places
        BY <1>1, <2>5 DEF Places
      <4> QED
        BY <2>2, <3>1, <4>1
    <3>2. CASE k < m
      <4>1. k + 1 \in Places /\ k + 1 # 1 /\ k + 1 <= m /\ (k + 1) - 1 = k
        BY <1>1, <2>5, <3>2 DEF Places
      <4>2. MainFirst[k + 1] = (k + 1) - 1
        BY <2>2, <4>1
      <4> QED
        BY <4>1, <4>2
    <3>3. CASE k > m
      <4>1. k # 1 /\ ~ (k <= m)
        BY <1>1, <2>5, <3>3 DEF Places
      <4>2. MainFirst[k] = k
        BY <2>2, <4>1
      <4> QED
        BY <4>2
    <3> QED
      BY <1>1, <2>5, <3>1, <3>2, <3>3 DEF Places
  <2>9. MainFirst[1] = m
    <3>1. 1 \in Places
      BY <1>1, <2>5 DEF Places
    <3> QED
      BY <2>2, <3>1
  <2> QED
    BY <2>4, <2>6, <2>7, <2>8, <2>9
<1> QED
  BY <1>2, <1>3

\* The functions in the order of the code.
LEMMA FunctionFacts ==
    ASSUME program \in Programs, order = MainFirst
    PROVE  /\ Len(order) = Len(program) /\ order \in Seq(Places)
           /\ \A o \in Places : /\ FunctionAt(o) \in FunctionSet
                                /\ FunctionAt(o).blocks \in Seq(BlockSet)
                                /\ FunctionAt(o).param_phys \in Seq(Nat)
                                /\ FunctionAt(o).blocks # <<>>
                                /\ JumpsAhead(FunctionAt(o))
           /\ \A o, p \in Places : FunctionAt(o).func_name = FunctionAt(p).func_name => o = p
           /\ \A o \in Places : FunctionAt(o).func_name = "main" => o = 1
           /\ Range(order) = Places
<1>1. order \in [Places -> Places] /\ Len(program) \in Nat
  BY OrderFacts, ProgramFacts
<1>2. Len(order) = Len(program) /\ order \in Seq(Places)
  BY <1>1 DEF Places
<1>3. \A o \in Places : FunctionAt(o) = program[order[o]] /\ order[o] \in Places
  BY <1>1 DEF FunctionAt
<1>4. ASSUME NEW o \in Places
      PROVE  /\ FunctionAt(o) \in FunctionSet
             /\ FunctionAt(o).blocks \in Seq(BlockSet)
             /\ FunctionAt(o).param_phys \in Seq(Nat)
             /\ FunctionAt(o).blocks # <<>>
             /\ JumpsAhead(FunctionAt(o))
  <2>1. FunctionAt(o) \in FunctionSet /\ FunctionAt(o).blocks # <<>> /\ JumpsAhead(FunctionAt(o))
    BY <1>3, ProgramFacts
  <2> QED
    BY <2>1 DEF FunctionSet
<1>5. ASSUME NEW o \in Places, NEW p \in Places, FunctionAt(o).func_name = FunctionAt(p).func_name
      PROVE  o = p
  <2>1. order[o] = order[p]
    BY <1>3, <1>5, ProgramFacts
  <2> QED
    BY <2>1, OrderFacts
<1>6. ASSUME NEW o \in Places, FunctionAt(o).func_name = "main" PROVE o = 1
  <2>1. order[o] \in Mains
    BY <1>3, <1>6 DEF Mains
  <2>2. MainFirst[1] = order[o]
    BY <2>1, OrderFacts
  <2>3. 1 \in Places
    BY <1>1 DEF Places
  <2> QED
    BY <2>2, <2>3, OrderFacts
<1>7. Range(order) = Places
  <2>1. \A k \in Range(order) : k \in Places
    BY <1>1 DEF Range
  <2>2. ASSUME NEW k \in Places PROVE k \in Range(order)
    <3>1. PICK o \in Places : MainFirst[o] = k
      BY OrderFacts
    <3>2. DOMAIN order = Places
      BY <1>1
    <3> QED
      BY <3>1, <3>2 DEF Range
  <2> QED
    BY <2>1, <2>2
<1> QED
  BY <1>2, <1>4, <1>5, <1>6, <1>7

-----------------------------------------------------------------------------
(* The instructions of a function *)

InsnSet == [op : Operations \cup {"LABEL"}, src1 : Operand, src2 : Operand, reg : Nat,
            target : Int, target2 : Int]

\* What is known when functions are compiled.
Ready ==
    /\ program \in Programs
    /\ order = MainFirst
    /\ \A o \in Places : /\ slots[o] \in {-1, 16, 17, 18}
                         /\ slots[o] # -1 <=> HasCall(FunctionAt(o))
                         /\ label_base[o] \in Nat

Insn(op, a, b, r, t, u) ==
    [op |-> op, src1 |-> a, src2 |-> b, reg |-> r, target |-> t, target2 |-> u]

LEMMA Fields ==
    ASSUME NEW op, NEW a, NEW b, NEW r, NEW t, NEW u
    PROVE  /\ op \in Operations \cup {"LABEL"} /\ a \in Operand /\ b \in Operand /\ r \in Nat
                  /\ t \in Int /\ u \in Int => Insn(op, a, b, r, t, u) \in InsnSet
           /\ Insn(op, a, b, r, t, u).op = op
           /\ Insn(op, a, b, r, t, u).src1 = a
           /\ Insn(op, a, b, r, t, u).reg = r
           /\ Insn(op, a, b, r, t, u).target = t
           /\ Insn(op, a, b, r, t, u).target2 = u
<1>1. op \in Operations \cup {"LABEL"} /\ a \in Operand /\ b \in Operand /\ r \in Nat
         /\ t \in Int /\ u \in Int => Insn(op, a, b, r, t, u) \in InsnSet
  BY DEF InsnSet, Insn
<1> QED
  BY <1>1 DEF Insn

\* One field changed.
Src1(i, v) == [i EXCEPT !.src1 = v]
Src2(i, v) == [i EXCEPT !.src2 = v]
Reg(i, v) == [i EXCEPT !.reg = v]
Target(i, v) == [i EXCEPT !.target = v]
Target2(i, v) == [i EXCEPT !.target2 = v]

LEMMA Changed ==
    ASSUME NEW op, NEW a, NEW b, NEW r, NEW t, NEW u, NEW v
    PROVE  /\ Src1(Insn(op, a, b, r, t, u), v) = Insn(op, v, b, r, t, u)
           /\ Src2(Insn(op, a, b, r, t, u), v) = Insn(op, a, v, r, t, u)
           /\ Reg(Insn(op, a, b, r, t, u), v) = Insn(op, a, b, v, t, u)
           /\ Target(Insn(op, a, b, r, t, u), v) = Insn(op, a, b, r, v, u)
           /\ Target2(Insn(op, a, b, r, t, u), v) = Insn(op, a, b, r, t, v)
<1>1. Src1(Insn(op, a, b, r, t, u), v) = Insn(op, v, b, r, t, u)
  BY DEF Insn, Src1
<1>2. Src2(Insn(op, a, b, r, t, u), v) = Insn(op, a, v, r, t, u)
  BY DEF Insn, Src2
<1>3. Reg(Insn(op, a, b, r, t, u), v) = Insn(op, a, b, v, t, u)
  BY DEF Insn, Reg
<1>4. Target(Insn(op, a, b, r, t, u), v) = Insn(op, a, b, r, v, u)
  BY DEF Insn, Target
<1>5. Target2(Insn(op, a, b, r, t, u), v) = Insn(op, a, b, r, t, v)
  BY DEF Insn, Target2
<1> QED
  BY <1>1, <1>2, <1>3, <1>4, <1>5

LEMMA Operands == Absent \in Operand /\ \A r \in Nat : PhysReg(r) \in Operand
BY DEF Absent, PhysReg, Operand

\* What the emitting operators make.
LEMMA Emitted ==
    /\ \A r, a : Mov(r, a) = Insn("MOV", a, Absent, r, 0, 0)
    /\ \A t, r : [Instruction("CALL") EXCEPT !.target = t, !.reg = r] = Insn("CALL", Absent, Absent, r, t, 0)
    /\ \A t : [Instruction("JMP") EXCEPT !.target = t] = Insn("JMP", Absent, Absent, 0, t, 0)
    /\ \A t : [Instruction("LABEL") EXCEPT !.target = t] = Insn("LABEL", Absent, Absent, 0, t, 0)
<1>1. \A op : Instruction(op) = Insn(op, Absent, Absent, 0, 0, 0)
  BY DEF Instruction, Insn
<1>2. ASSUME NEW r, NEW a PROVE Mov(r, a) = Insn("MOV", a, Absent, r, 0, 0)
  <2>1. Mov(r, a) = Src1(Reg(Instruction("MOV"), r), a)
    BY DEF Mov, Src1, Reg
  <2> QED
    BY <1>1, <2>1, Changed
<1>3. ASSUME NEW t, NEW r
      PROVE  [Instruction("CALL") EXCEPT !.target = t, !.reg = r] = Insn("CALL", Absent, Absent, r, t, 0)
  <2>1. [Instruction("CALL") EXCEPT !.target = t, !.reg = r] = Reg(Target(Instruction("CALL"), t), r)
    BY DEF Reg, Target
  <2> QED
    BY <1>1, <2>1, Changed
<1>4. ASSUME NEW t, NEW op PROVE [Instruction(op) EXCEPT !.target = t] = Insn(op, Absent, Absent, 0, t, 0)
  <2>1. [Instruction(op) EXCEPT !.target = t] = Target(Instruction(op), t)
    BY DEF Target
  <2> QED
    BY <1>1, <2>1, Changed
<1> QED
  BY <1>2, <1>3, <1>4

PlainTarget(o, block, quad) ==
    IF quad.operation = "JMP" THEN LabelOf(o, block.jmp_target)
    ELSE IF quad.operation = "JE" THEN LabelOf(o, block.true_target_je) ELSE 0
PlainTarget2(o, block, quad) == IF quad.operation = "JE" THEN LabelOf(o, block.false_target_je) ELSE 0

LEMMA EmittedPlain ==
    ASSUME NEW o, NEW block, NEW quad
    PROVE  EmitPlain(o, block, quad)
             = Insn(quad.operation, quad.arg1, quad.arg2, quad.result,
                    PlainTarget(o, block, quad), PlainTarget2(o, block, quad))
<1> DEFINE t == PlainTarget(o, block, quad)
           u == PlainTarget2(o, block, quad)
           op == quad.operation
           a == quad.arg1
           c == quad.arg2
           r == quad.result
<1>1. EmitPlain(o, block, quad)
        = Target2(Target(Reg(Src2(Src1(Instruction(op), a), c), r), t), u)
  BY DEF EmitPlain, PlainTarget, PlainTarget2, Src1, Src2, Reg, Target, Target2
<1>2. Instruction(op) = Insn(op, Absent, Absent, 0, 0, 0)
  BY DEF Instruction, Insn
<1> HIDE DEF t, u, op, a, c, r
<1>3. Src2(Src1(Insn(op, Absent, Absent, 0, 0, 0), a), c) = Insn(op, a, c, 0, 0, 0)
  BY Changed
<1>4. EmitPlain(o, block, quad) = Insn(op, a, c, r, t, u)
  BY <1>1, <1>2, <1>3, Changed
<1> QED
  BY <1>4 DEF t, u, op, a, c, r

LEMMA MoveFields ==
    ASSUME NEW r, NEW a
    PROVE  Mov(r, a).op = "MOV" /\ Mov(r, a).reg = r /\ Mov(r, a).src1 = a
<1>1. Mov(r, a) = Insn("MOV", a, Absent, r, 0, 0)
  BY Emitted
<1>2. /\ Insn("MOV", a, Absent, r, 0, 0).op = "MOV"
      /\ Insn("MOV", a, Absent, r, 0, 0).reg = r
      /\ Insn("MOV", a, Absent, r, 0, 0).src1 = a
  BY DEF Insn
<1> QED
  BY <1>1, <1>2

LEMMA Moves ==
    ASSUME NEW r \in Nat, NEW operand \in Operand
    PROVE  Mov(r, operand) \in InsnSet
<1>1. "MOV" \in Operations \cup {"LABEL"}
  BY DEF Operations
<1>2. Mov(r, operand) = Insn("MOV", operand, Absent, r, 0, 0)
  BY Emitted
<1>3. Absent \in Operand
  BY Operands
<1> QED
  BY <1>1, <1>2, <1>3, Fields

LEMMA ResolveFacts ==
    ASSUME Ready, NEW name, Declared(name) # {}
    PROVE  \E p \in Places : /\ FunctionAt(p).func_name = name
                             /\ Declared(name) = {p}
                             /\ Resolve(name) = LabelOf(p, 0)
                             /\ Resolve(name) \in Nat
<1>1. PICK p \in Places : p \in Declared(name)
  BY DEF Declared
<1>2. \A o \in Declared(name) : o = p
  BY <1>1, FunctionFacts DEF Declared, Ready
<1>3. Declared(name) = {p}
  BY <1>1, <1>2
<1>4. p <= p
  BY <1>1 DEF Places
<1>5. (CHOOSE o \in Declared(name) : \A j \in Declared(name) : o <= j) = p
  BY <1>3, <1>4
<1>6. Resolve(name) = LabelOf(p, 0)
  BY <1>5 DEF Resolve
<1>7. LabelOf(p, 0) \in Nat
  BY <1>1 DEF LabelOf, Ready
<1> QED
  BY <1>1, <1>3, <1>6, <1>7 DEF Declared

\* The blocks and quads of a function.
LEMMA BlockFacts ==
    ASSUME Ready, NEW o \in Places, NEW b \in DOMAIN FunctionAt(o).blocks
    PROVE  /\ FunctionAt(o).blocks[b] \in BlockSet
           /\ FunctionAt(o).blocks[b].quads \in Seq(QuadSet)
           /\ b \in 1 .. Len(FunctionAt(o).blocks)
           /\ \A q \in DOMAIN FunctionAt(o).blocks[b].quads :
                  /\ FunctionAt(o).blocks[b].quads[q] \in QuadSet
                  /\ FunctionAt(o).blocks[b].quads[q] \in QuadsIn(FunctionAt(o))
<1>1. FunctionAt(o).blocks \in Seq(BlockSet)
  BY FunctionFacts DEF Ready
<1>2. FunctionAt(o).blocks[b] \in BlockSet /\ b \in 1 .. Len(FunctionAt(o).blocks)
  BY <1>1
<1>3. FunctionAt(o).blocks[b].quads \in Seq(QuadSet)
  BY <1>2 DEF BlockSet
<1>4. ASSUME NEW q \in DOMAIN FunctionAt(o).blocks[b].quads
      PROVE  /\ FunctionAt(o).blocks[b].quads[q] \in QuadSet
             /\ FunctionAt(o).blocks[b].quads[q] \in QuadsIn(FunctionAt(o))
  BY <1>3 DEF QuadsIn, Range
<1> QED
  BY <1>2, <1>3, <1>4

\* The jump of a block without a jump quad.
NeedsJump(block) == block.terminator = "JMP" /\ ~HasQuad(block, "JMP") /\ ~HasQuad(block, "JE")

SlotMoves(o, quad) == IF quad.operation = "RET" /\ slots[o] >= 0 THEN 1 ELSE 0
ArgMoves(quad) == IF quad.operation = "CALL" THEN Len(quad.args) ELSE 0

\* What stands for a quad.
LEMMA QuadEmitted ==
    ASSUME Ready, NEW o \in Places, Unresolved(o) = {}, NEW b \in DOMAIN FunctionAt(o).blocks,
           NEW q \in DOMAIN FunctionAt(o).blocks[b].quads
    PROVE  LET block == FunctionAt(o).blocks[b]
               quad == block.quads[q]
           IN  /\ EmitQuad(o, block, quad) \in Seq(InsnSet)
               /\ Len(EmitQuad(o, block, quad)) = 1 + ArgMoves(quad) + SlotMoves(o, quad)
<1> DEFINE block == FunctionAt(o).blocks[b]
           quad == block.quads[q]
<1>1. block \in BlockSet /\ quad \in QuadSet /\ quad \in QuadsIn(FunctionAt(o))
  BY BlockFacts
<1>2. slots[o] \in {-1, 16, 17, 18}
  BY DEF Ready
<1>3. /\ \A t \in Nat : LabelOf(o, t) \in Nat
  BY DEF LabelOf, Ready
<1>4. quad.operation = "CALL" => Resolve(quad.callee) \in Nat
  <2>1. quad.operation = "CALL" => Declared(quad.callee) # {}
    BY <1>1 DEF Unresolved
  <2> QED
    BY <2>1, ResolveFacts
<1> HIDE DEF block, quad
<1>5. EmitPlain(o, block, quad) \in InsnSet
  <2>1. PlainTarget(o, block, quad) \in Int /\ PlainTarget2(o, block, quad) \in Int
    BY <1>1, <1>3 DEF BlockSet, PlainTarget, PlainTarget2
  <2>2. quad.operation \in Operations /\ quad.arg1 \in Operand /\ quad.arg2 \in Operand /\ quad.result \in Nat
    BY <1>1 DEF QuadSet
  <2> QED
    BY <2>1, <2>2, EmittedPlain, Fields
<1>6. CASE quad.operation = "CALL"
  <2> DEFINE moves == [a \in DOMAIN quad.args |-> Mov(a - 1, quad.args[a])]
             call == [Instruction("CALL") EXCEPT !.target = Resolve(quad.callee), !.reg = quad.result]
  <2>1. quad.args \in Seq(Operand) /\ quad.result \in Nat
    BY <1>1 DEF QuadSet
  <2>2. moves \in Seq(InsnSet) /\ Len(moves) = Len(quad.args)
    <3>1. DOMAIN quad.args = 1 .. Len(quad.args) /\ Len(quad.args) \in Nat
      BY <2>1
    <3>2. \A a \in 1 .. Len(quad.args) : Mov(a - 1, quad.args[a]) \in InsnSet
      BY <2>1, Moves
    <3> QED
      BY <3>1, <3>2
  <2>3. call \in InsnSet
    <3>1. call = Insn("CALL", Absent, Absent, quad.result, Resolve(quad.callee), 0)
      BY Emitted
    <3>2. "CALL" \in Operations \cup {"LABEL"}
      BY DEF Operations
    <3> QED
      BY <1>4, <1>6, <2>1, <3>1, <3>2, Operands, Fields
  <2>4. EmitQuad(o, block, quad) = moves \o <<call>>
    BY <1>6 DEF EmitQuad, EmitCall
  <2> HIDE DEF moves, call
  <2>5. <<call>> \in Seq(InsnSet) /\ Len(<<call>>) = 1
    BY <2>3
  <2> QED
    BY <1>6, <2>1, <2>2, <2>4, <2>5 DEF ArgMoves, SlotMoves, block, quad
<1>7. CASE quad.operation = "RET" /\ slots[o] >= 0
  <2>1. Mov(LinkRegister, PhysReg(slots[o])) \in InsnSet
    BY <1>2, <1>7, Operands, Moves DEF LinkRegister
  <2>2. EmitQuad(o, block, quad) = <<Mov(LinkRegister, PhysReg(slots[o])), EmitPlain(o, block, quad)>>
    BY <1>7 DEF EmitQuad
  <2> QED
    BY <1>5, <1>7, <2>1, <2>2 DEF ArgMoves, SlotMoves, block, quad
<1>8. CASE quad.operation # "CALL" /\ ~ (quad.operation = "RET" /\ slots[o] >= 0)
  <2>1. EmitQuad(o, block, quad) = <<EmitPlain(o, block, quad)>>
    BY <1>8 DEF EmitQuad
  <2> QED
    BY <1>5, <1>8, <2>1 DEF ArgMoves, SlotMoves, block, quad
<1> QED
  BY <1>6, <1>7, <1>8

\* Four of them.
Parts(whole, a, b, c, d) ==
    /\ Len(whole) = Len(a) + Len(b) + Len(c) + Len(d)
    /\ \A i \in 1 .. Len(a) : whole[i] = a[i]
    /\ \A i \in 1 .. Len(b) : whole[Len(a) + i] = b[i]
    /\ \A i \in 1 .. Len(c) : whole[Len(a) + Len(b) + i] = c[i]
    /\ \A i \in 1 .. Len(d) : whole[Len(a) + Len(b) + Len(c) + i] = d[i]

LEMMA FourParts ==
    ASSUME NEW T, NEW a \in Seq(T), NEW b \in Seq(T), NEW c \in Seq(T), NEW d \in Seq(T)
    PROVE  a \o b \o c \o d \in Seq(T) /\ Parts(a \o b \o c \o d, a, b, c, d)
<1> DEFINE ab == a \o b
           abc == ab \o c
           whole == abc \o d
<1>0. Len(a) \in Nat /\ Len(b) \in Nat /\ Len(c) \in Nat /\ Len(d) \in Nat
  OBVIOUS
<1>1. /\ ab \in Seq(T)
      /\ Len(ab) = Len(a) + Len(b)
      /\ \A i \in 1 .. Len(a) : ab[i] = a[i]
      /\ \A i \in 1 .. Len(b) : ab[Len(a) + i] = b[i]
  BY Behind
<1>a. ab \in Seq(T)
  BY <1>1
<1> HIDE DEF ab
<1>2. /\ abc \in Seq(T)
      /\ Len(abc) = Len(ab) + Len(c)
      /\ \A i \in 1 .. Len(ab) : abc[i] = ab[i]
      /\ \A i \in 1 .. Len(c) : abc[Len(ab) + i] = c[i]
  BY <1>a, Behind
<1>b. abc \in Seq(T)
  BY <1>2
<1> HIDE DEF abc
<1>3. /\ whole \in Seq(T)
      /\ Len(whole) = Len(abc) + Len(d)
      /\ \A i \in 1 .. Len(abc) : whole[i] = abc[i]
      /\ \A i \in 1 .. Len(d) : whole[Len(abc) + i] = d[i]
  BY <1>b, Behind
<1> HIDE DEF whole
<1>4. \A i \in 1 .. Len(a) : whole[i] = a[i]
  BY <1>0, <1>1, <1>2, <1>3
<1>5. ASSUME NEW i \in 1 .. Len(b) PROVE whole[Len(a) + i] = b[i]
  <2>1. Len(a) + i \in 1 .. Len(ab) /\ Len(a) + i \in 1 .. Len(abc)
    BY <1>0, <1>1, <1>2
  <2> QED
    BY <1>1, <1>2, <1>3, <2>1
<1>6. ASSUME NEW i \in 1 .. Len(c) PROVE whole[Len(a) + Len(b) + i] = c[i]
  <2>1. Len(ab) + i \in 1 .. Len(abc) /\ Len(ab) + i = Len(a) + Len(b) + i
    BY <1>0, <1>1, <1>2
  <2> QED
    BY <1>2, <1>3, <2>1
<1>7. \A i \in 1 .. Len(d) : whole[Len(a) + Len(b) + Len(c) + i] = d[i]
  BY <1>0, <1>1, <1>2, <1>3
<1>8. whole \in Seq(T) /\ Len(whole) = Len(a) + Len(b) + Len(c) + Len(d)
  BY <1>1, <1>2, <1>3
<1> QED
  BY <1>4, <1>5, <1>6, <1>7, <1>8 DEF whole, abc, ab, Parts

\* The moves in front of the first block.
SlotMove(o) == IF slots[o] >= 0 THEN 1 ELSE 0

LEMMA PrologueFacts ==
    ASSUME Ready, NEW o \in Places
    PROVE  LET params == FunctionAt(o).param_phys
           IN  /\ Prologue(o) \in Seq(InsnSet)
               /\ Len(Prologue(o)) = SlotMove(o) + Len(params)
               /\ slots[o] >= 0 => Prologue(o)[1] = Mov(slots[o], PhysReg(LinkRegister))
               /\ \A p \in 1 .. Len(params) :
                      Prologue(o)[SlotMove(o) + p] = Mov(params[p], PhysReg(p - 1))
<1> DEFINE params == FunctionAt(o).param_phys
           u == IF slots[o] >= 0 THEN <<Mov(slots[o], PhysReg(LinkRegister))>> ELSE <<>>
           v == [p \in DOMAIN params |-> Mov(params[p], PhysReg(p - 1))]
<1>1. params \in Seq(Nat)
  BY FunctionFacts DEF Ready
<1>2. slots[o] \in {-1, 16, 17, 18}
  BY DEF Ready
<1>3. Prologue(o) = u \o v
  BY DEF Prologue
<1>4. /\ u \in Seq(InsnSet) /\ Len(u) = SlotMove(o)
      /\ slots[o] >= 0 => Len(u) = 1 /\ u[1] = Mov(slots[o], PhysReg(LinkRegister))
  <2>1. slots[o] >= 0 => Mov(slots[o], PhysReg(LinkRegister)) \in InsnSet
    BY <1>2, Operands, Moves DEF LinkRegister
  <2> QED
    BY <1>2, <2>1 DEF SlotMove
<1>5. /\ v \in Seq(InsnSet) /\ Len(v) = Len(params)
      /\ \A p \in 1 .. Len(params) : v[p] = Mov(params[p], PhysReg(p - 1))
  <2>1. DOMAIN params = 1 .. Len(params) /\ Len(params) \in Nat
    BY <1>1
  <2>2. ASSUME NEW p \in 1 .. Len(params) PROVE Mov(params[p], PhysReg(p - 1)) \in InsnSet
    <3>1. params[p] \in Nat /\ p - 1 \in Nat
      BY <1>1
    <3>2. PhysReg(p - 1) \in Operand
      BY <3>1, Operands
    <3> QED
      BY <3>1, <3>2, Moves
  <2> QED
    BY <2>1, <2>2
<1>a. u \in Seq(InsnSet) /\ v \in Seq(InsnSet)
  BY <1>4, <1>5
<1> HIDE DEF u, v, params
<1>6. /\ u \o v \in Seq(InsnSet)
      /\ Len(u \o v) = Len(u) + Len(v)
      /\ \A i \in 1 .. Len(u) : (u \o v)[i] = u[i]
      /\ \A i \in 1 .. Len(v) : (u \o v)[Len(u) + i] = v[i]
  BY <1>a, Behind
<1>7. slots[o] >= 0 => Prologue(o)[1] = Mov(slots[o], PhysReg(LinkRegister))
  BY <1>3, <1>4, <1>6
<1>8. \A p \in 1 .. Len(params) : Prologue(o)[SlotMove(o) + p] = Mov(params[p], PhysReg(p - 1))
  BY <1>3, <1>4, <1>5, <1>6
<1> QED
  BY <1>3, <1>4, <1>5, <1>6, <1>7, <1>8 DEF params

\* A block: its label, the moves, what stands for its quads, and the jump.
QuadCode(o, b) ==
    LET block == FunctionAt(o).blocks[b]
    IN  [q \in DOMAIN block.quads |-> EmitQuad(o, block, block.quads[q])]
QuadLens(o, b) ==
    LET block == FunctionAt(o).blocks[b]
    IN  [q \in DOMAIN block.quads |-> Len(EmitQuad(o, block, block.quads[q]))]
FirstMoves(o, b) == IF b = 1 THEN Prologue(o) ELSE <<>>
InFront(o, b) == 1 + Len(FirstMoves(o, b))
LabelInsn(o, b) == Insn("LABEL", Absent, Absent, 0, LabelOf(o, b - 1), 0)
JumpInsn(o, b) == Insn("JMP", Absent, Absent, 0, LabelOf(o, FunctionAt(o).blocks[b].jmp_target), 0)

LEMMA BlockEmitted ==
    ASSUME Ready, NEW o \in Places, Unresolved(o) = {}, NEW b \in DOMAIN FunctionAt(o).blocks
    PROVE  LET block == FunctionAt(o).blocks[b]
               n == Len(block.quads)
               lens == QuadLens(o, b)
               code == EmitBlock(o, b)
               jumps == IF NeedsJump(block) THEN 1 ELSE 0
           IN  /\ code \in Seq(InsnSet)
               /\ Len(code) = InFront(o, b) + SumTo(lens, n) + jumps
               /\ \A q \in 1 .. n : lens[q] \in Nat
               /\ code[1] = LabelInsn(o, b)
               /\ \A i \in 1 .. Len(FirstMoves(o, b)) : code[1 + i] = FirstMoves(o, b)[i]
               /\ \A q \in 1 .. n : \A i \in 1 .. lens[q] :
                      code[InFront(o, b) + (SumTo(lens, q - 1) + i)] = QuadCode(o, b)[q][i]
               /\ NeedsJump(block) => code[Len(code)] = JumpInsn(o, b)
               /\ FirstMoves(o, b) \in Seq(InsnSet)
<1> DEFINE block == FunctionAt(o).blocks[b]
           n == Len(block.quads)
           lens == QuadLens(o, b)
           s == QuadCode(o, b)
           u == <<LabelInsn(o, b)>>
           v == FirstMoves(o, b)
           w == FlattenSeq(s)
           z == Terminator(o, block)
<1>1. block \in BlockSet /\ block.quads \in Seq(QuadSet) /\ b \in Nat /\ b >= 1
  BY BlockFacts
<1>2. n \in Nat /\ DOMAIN block.quads = 1 .. n
  BY SMTT(45), <1>1
<1>3. EmitBlock(o, b) = u \o v \o w \o z
  BY ZenonT(45), Emitted DEF EmitBlock, QuadCode, FirstMoves, LabelInsn
<1>4. \A t \in Nat : LabelOf(o, t) \in Nat
  BY DEF LabelOf, Ready
<1>5. /\ u \in Seq(InsnSet) /\ Len(u) = 1 /\ u[1] = LabelInsn(o, b)
  <2>0. b - 1 \in Nat
    BY <1>1
  <2>1. LabelOf(o, b - 1) \in Int
    BY <1>4, <2>0
  <2>2. LabelInsn(o, b) \in InsnSet
    BY <2>1, Operands, Fields DEF LabelInsn
  <2> QED
    BY <2>2
<1>6. v \in Seq(InsnSet) /\ Len(v) \in Nat
  <2>1. v \in Seq(InsnSet)
    BY PrologueFacts DEF FirstMoves
  <2> HIDE DEF v
  <2> QED
    BY <2>1
<1>7. /\ s \in [1 .. n -> Seq(InsnSet)] /\ lens \in [1 .. n -> Nat]
      /\ \A q \in 1 .. n : lens[q] = Len(s[q])
  <2>1. ASSUME NEW q \in 1 .. n
        PROVE  EmitQuad(o, block, block.quads[q]) \in Seq(InsnSet)
    BY <1>2, QuadEmitted
  <2>2. s = [q \in 1 .. n |-> EmitQuad(o, block, block.quads[q])]
        /\ lens = [q \in 1 .. n |-> Len(EmitQuad(o, block, block.quads[q]))]
    BY <1>2 DEF QuadCode, QuadLens
  <2> HIDE DEF s, lens, block
  <2>3. \A q \in 1 .. n : Len(EmitQuad(o, block, block.quads[q])) \in Nat
    BY <2>1, LenProperties
  <2> QED
    BY <2>1, <2>2, <2>3
<1>8. w \in Seq(InsnSet) /\ LiesIn(w, s, lens, n)
  <2>1. s \in Seq(Seq(InsnSet)) /\ Len(s) = n
    BY SMTT(45), <1>2, <1>7
  <2> HIDE DEF s, lens, n, w
  <2> QED
    BY <1>7, <2>1, Flattened DEF w
<1>9. /\ z \in Seq(InsnSet)
      /\ Len(z) = IF NeedsJump(block) THEN 1 ELSE 0
      /\ NeedsJump(block) => z[1] = JumpInsn(o, b)
  <2>1. CASE NeedsJump(block)
    <3>1. z = <<JumpInsn(o, b)>>
      BY <2>1, Emitted DEF Terminator, NeedsJump, JumpInsn
    <3>2. block.jmp_target \in Nat
      BY <1>1 DEF BlockSet
    <3>3. LabelOf(o, block.jmp_target) \in Int
      BY <1>4, <3>2
    <3>4. "JMP" \in Operations
      BY DEF Operations
    <3>5. JumpInsn(o, b) \in InsnSet
      BY <3>3, <3>4, Operands, Fields DEF JumpInsn
    <3> HIDE DEF z
    <3> QED
      BY <2>1, <3>1, <3>5
  <2>2. CASE ~NeedsJump(block)
    <3>1. z = <<>>
      BY <2>2 DEF Terminator, NeedsJump
    <3> HIDE DEF z
    <3> QED
      BY <2>2, <3>1
  <2> QED
    BY <2>1, <2>2
<1> DEFINE code == EmitBlock(o, b)
<1>a. u \in Seq(InsnSet) /\ v \in Seq(InsnSet) /\ w \in Seq(InsnSet) /\ z \in Seq(InsnSet)
  BY <1>5, <1>6, <1>8, <1>9
<1>b. code = u \o v \o w \o z
  BY <1>3
<1> HIDE DEF u, v, w, z, s, lens, n, block, code
<1>c. u \o v \o w \o z \in Seq(InsnSet) /\ Parts(u \o v \o w \o z, u, v, w, z)
  BY <1>a, FourParts
<1>10. /\ code \in Seq(InsnSet)
       /\ Len(code) = Len(u) + Len(v) + Len(w) + Len(z)
       /\ \A i \in 1 .. Len(u) : code[i] = u[i]
       /\ \A i \in 1 .. Len(v) : code[Len(u) + i] = v[i]
       /\ \A i \in 1 .. Len(w) : code[Len(u) + Len(v) + i] = w[i]
       /\ \A i \in 1 .. Len(z) : code[Len(u) + Len(v) + Len(w) + i] = z[i]
  BY <1>b, <1>c DEF Parts
<1> HIDE DEF code
<1>11. InFront(o, b) = Len(u) + Len(v)
  BY <1>5 DEF InFront, v
<1>12. Len(w) = SumTo(lens, n) /\ Len(w) \in Nat
  BY <1>8 DEF LiesIn
<1>13. Len(code) = InFront(o, b) + SumTo(lens, n) + (IF NeedsJump(block) THEN 1 ELSE 0)
  BY <1>9, <1>10, <1>11, <1>12
<1>14. code[1] = LabelInsn(o, b)
  BY <1>5, <1>10
<1>15. \A i \in 1 .. Len(v) : code[1 + i] = v[i]
  BY <1>5, <1>10
<1>16. ASSUME NEW q \in 1 .. n, NEW i \in 1 .. lens[q]
       PROVE  code[InFront(o, b) + (SumTo(lens, q - 1) + i)] = s[q][i]
  <2>1. w[SumTo(lens, q - 1) + i] = s[q][i]
    BY <1>8 DEF LiesIn
  <2>2. SumTo(lens, q - 1) + i \in 1 .. Len(w)
    <3>1. q - 1 \in 0 .. n /\ n \in q .. n /\ q \in 0 .. n /\ n \in 0 .. n
      BY <1>2
    <3>2. \A j \in 1 .. n : lens[j] \in Nat
      BY <1>7
    <3>3. SumTo(lens, q) = SumTo(lens, q - 1) + lens[q] /\ SumTo(lens, q - 1) \in Nat
      BY <1>2, <3>1, <3>2, Sums
    <3>4. SumTo(lens, q) <= SumTo(lens, n)
      BY <1>2, <3>1, <3>2, SumsGrow
    <3> QED
      BY <1>12, <3>2, <3>3, <3>4
  <2>3. code[Len(u) + Len(v) + (SumTo(lens, q - 1) + i)] = w[SumTo(lens, q - 1) + i]
    BY <1>10, <2>2
  <2> QED
    BY <1>11, <2>1, <2>3
<1>17. NeedsJump(block) => code[Len(code)] = JumpInsn(o, b)
  <2> SUFFICES ASSUME NeedsJump(block) PROVE code[Len(code)] = JumpInsn(o, b)
    OBVIOUS
  <2>1. Len(z) = 1 /\ z[1] = JumpInsn(o, b) /\ 1 \in 1 .. Len(z)
    BY <1>9
  <2>2. code[Len(u) + Len(v) + Len(w) + 1] = z[1]
    BY <1>10, <2>1
  <2>3. Len(code) = Len(u) + Len(v) + Len(w) + 1
    BY <1>10, <2>1
  <2> QED
    BY <2>1, <2>2, <2>3
<1>18. \A q \in 1 .. n : lens[q] \in Nat
  BY <1>7
<1> QED
  BY <1>6, <1>10, <1>13, <1>14, <1>15, <1>16, <1>17, <1>18 DEF code, s, lens, n, block, v

-----------------------------------------------------------------------------
(* BuffersFilled: the instructions of a function are those that were counted *)

\* Sums of zeros and ones, and of zeros behind a first number.
LEMMA SumsPlain ==
    ASSUME NEW n \in Nat, NEW c \in {0, 1}, NEW numbers, \A k \in 1 .. n : numbers[k] = c
    PROVE  SumTo(numbers, n) = IF c = 0 THEN 0 ELSE n
<1> DEFINE Plain == {k \in Nat : k <= n => SumTo(numbers, k) = IF c = 0 THEN 0 ELSE k}
<1>a. /\ SumTo(numbers, 0) = 0
      /\ \A k \in 1 .. n : SumTo(numbers, k) = SumTo(numbers, k - 1) + numbers[k]
  BY Sums
<1>1. 0 \in Plain
  BY <1>a
<1>2. ASSUME NEW k \in Plain PROVE k + 1 \in Plain
  <2> SUFFICES ASSUME k + 1 <= n PROVE SumTo(numbers, k + 1) = IF c = 0 THEN 0 ELSE k + 1
    OBVIOUS
  <2>1. SumTo(numbers, k) = IF c = 0 THEN 0 ELSE k
    OBVIOUS
  <2>2. k + 1 \in 1 .. n /\ (k + 1) - 1 = k
    OBVIOUS
  <2> HIDE DEF Plain
  <2> QED
    BY <1>a, <2>1, <2>2
<1>3. n \in Plain
  <2>1. Plain \in SUBSET Nat
    OBVIOUS
  <2> HIDE DEF Plain
  <2> QED
    BY <1>1, <1>2, <2>1, CountingUp
<1> QED
  BY <1>3

LEMMA SumsFirst ==
    ASSUME NEW n \in Nat, n >= 1, NEW c \in Nat, NEW numbers,
           \A k \in 1 .. n : numbers[k] = IF k = 1 THEN c ELSE 0
    PROVE  SumTo(numbers, n) = c
<1> DEFINE First == {k \in Nat : k + 1 <= n => SumTo(numbers, k + 1) = c}
<1>a. /\ SumTo(numbers, 0) = 0
      /\ \A k \in 1 .. n : SumTo(numbers, k) = SumTo(numbers, k - 1) + numbers[k]
  BY Sums
<1>1. 0 \in First
  <2>1. 1 \in 1 .. n /\ 1 - 1 = 0
    OBVIOUS
  <2>2. SumTo(numbers, 1) = 0 + c
    BY <1>a, <2>1
  <2> QED
    BY <2>2
<1>2. ASSUME NEW k \in First PROVE k + 1 \in First
  <2> SUFFICES ASSUME (k + 1) + 1 <= n PROVE SumTo(numbers, (k + 1) + 1) = c
    OBVIOUS
  <2>1. SumTo(numbers, k + 1) = c
    OBVIOUS
  <2>2. (k + 1) + 1 \in 1 .. n /\ ((k + 1) + 1) - 1 = k + 1 /\ (k + 1) + 1 # 1
    OBVIOUS
  <2> HIDE DEF First
  <2>3. numbers[(k + 1) + 1] = 0
    BY <2>2
  <2> QED
    BY <1>a, <2>1, <2>2, <2>3
<1>3. n - 1 \in First
  <2>1. First \in SUBSET Nat /\ n - 1 \in Nat
    OBVIOUS
  <2> HIDE DEF First
  <2> QED
    BY <1>1, <1>2, <2>1, CountingUp
<1> QED
  BY <1>3

\* The quads of a kind are none if and only if there is none.
LEMMA CountsNone ==
    ASSUME NEW quads \in Seq(QuadSet), NEW op
    PROVE  /\ Count(quads, op) \in Nat
           /\ Count(quads, op) = 0 <=> ~ \E q \in DOMAIN quads : quads[q].operation = op
<1> DEFINE n == Len(quads)
           ones == [q \in DOMAIN quads |-> IF quads[q].operation = op THEN 1 ELSE 0]
<1>1. n \in Nat /\ DOMAIN quads = 1 .. n
  OBVIOUS
<1>2. \A q \in 1 .. n : ones[q] = IF quads[q].operation = op THEN 1 ELSE 0
  BY <1>1
<1>3. Count(quads, op) = SumTo(ones, n)
  <2>1. ones \in Seq(Nat) /\ Len(ones) = n
    BY <1>1
  <2> QED
    BY <2>1 DEF Count, SumOf
<1>4. \A q \in 1 .. n : ones[q] \in Nat
  BY <1>2
<1> HIDE DEF ones, n
<1>5. SumTo(ones, n) \in Nat
  <2>1. n \in 0 .. n
    BY <1>1
  <2> QED
    BY <1>1, <1>4, <2>1, Sums
<1>6. CASE ~ \E q \in DOMAIN quads : quads[q].operation = op
  <2>1. \A q \in 1 .. n : ones[q] = 0
    BY <1>1, <1>2, <1>6
  <2> QED
    BY <1>1, <1>3, <1>6, <2>1, SumsPlain
<1>7. ASSUME NEW q \in 1 .. n, quads[q].operation = op PROVE SumTo(ones, n) # 0
  <2>1. n \in q .. n /\ q \in 0 .. n /\ q - 1 \in 0 .. n
    BY <1>1
  <2>2. SumTo(ones, q) = SumTo(ones, q - 1) + ones[q] /\ SumTo(ones, q - 1) \in Nat
    BY <1>1, <1>4, <2>1, Sums
  <2>3. SumTo(ones, q) <= SumTo(ones, n)
    BY <1>1, <1>4, <2>1, SumsGrow
  <2>4. ones[q] = 1
    BY <1>2, <1>7
  <2> QED
    BY <1>5, <2>2, <2>3, <2>4
<1> QED
  BY <1>1, <1>3, <1>5, <1>6, <1>7

\* The code of the quads of a block is as long as was counted.
SlotCount(o, b) == IF slots[o] >= 0 THEN Count(FunctionAt(o).blocks[b].quads, "RET") ELSE 0

LEMMA QuadsCounted ==
    ASSUME Ready, NEW o \in Places, Unresolved(o) = {}, NEW b \in DOMAIN FunctionAt(o).blocks
    PROVE  LET quads == FunctionAt(o).blocks[b].quads
           IN  /\ SumTo(QuadLens(o, b), Len(quads)) = Len(quads) + ArgumentMoves(quads) + SlotCount(o, b)
               /\ ArgumentMoves(quads) \in Nat /\ SlotCount(o, b) \in Nat
<1> DEFINE block == FunctionAt(o).blocks[b]
           quads == block.quads
           n == Len(quads)
           f == QuadLens(o, b)
           ones == [q \in 1 .. n |-> 1]
           args == [q \in DOMAIN quads |-> IF quads[q].operation = "CALL" THEN Len(quads[q].args) ELSE 0]
           saves == [q \in 1 .. n |-> SlotMoves(o, quads[q])]
           both == [q \in 1 .. n |-> 1 + ArgMoves(quads[q])]
<1>1. quads \in Seq(QuadSet) /\ n \in Nat /\ DOMAIN quads = 1 .. n
  BY BlockFacts
<1>2. \A q \in 1 .. n : f[q] = 1 + ArgMoves(quads[q]) + SlotMoves(o, quads[q])
  BY <1>1, QuadEmitted DEF QuadLens
<1>3. \A q \in 1 .. n : ArgMoves(quads[q]) \in Nat /\ SlotMoves(o, quads[q]) \in {0, 1}
  <2> SUFFICES ASSUME NEW q \in 1 .. n
               PROVE  ArgMoves(quads[q]) \in Nat /\ SlotMoves(o, quads[q]) \in {0, 1}
    OBVIOUS
  <2>1. quads[q] \in QuadSet
    BY <1>1
  <2>2. quads[q].args \in Seq(Operand)
    BY <2>1 DEF QuadSet
  <2> HIDE DEF quads
  <2>3. Len(quads[q].args) \in Nat
    BY <2>2
  <2> QED
    BY <2>3 DEF ArgMoves, SlotMoves
<1>4. \A q \in 1 .. n : args[q] = ArgMoves(quads[q])
  BY SMTT(45), <1>1 DEF ArgMoves
<1>5. ArgumentMoves(quads) = SumTo(args, n)
  <2>1. args \in Seq(Nat) /\ Len(args) = n
    BY SMTT(45), <1>1, <1>3, <1>4
  <2> QED
    BY <2>1 DEF ArgumentMoves, SumOf
<1>6. /\ \A q \in 1 .. n : ones[q] = 1 /\ saves[q] = SlotMoves(o, quads[q])
                           /\ both[q] = 1 + ArgMoves(quads[q])
  OBVIOUS
<1>7. SlotCount(o, b) = SumTo(saves, n) /\ SumTo(saves, n) \in Nat
  <2>1. CASE slots[o] >= 0
    <3>1. saves = [q \in DOMAIN quads |-> IF quads[q].operation = "RET" THEN 1 ELSE 0]
      BY <1>1, <2>1 DEF SlotMoves
    <3>2. saves \in Seq(Nat) /\ Len(saves) = n
      BY <1>1, <1>3
    <3>3. SlotCount(o, b) = SumTo(saves, n)
      BY <2>1, <3>1, <3>2 DEF SlotCount, Count, SumOf
    <3>4. n \in 0 .. n
      BY <1>1
    <3>5. \A q \in 1 .. n : saves[q] \in Nat
      BY <1>3, <1>6
    <3> HIDE DEF saves, n
    <3>6. SumTo(saves, n) \in Nat
      BY <1>1, <3>4, <3>5, Sums
    <3> QED
      BY <3>3, <3>6
  <2>2. CASE ~ (slots[o] >= 0)
    <3>1. \A q \in 1 .. n : saves[q] = 0
      BY <2>2 DEF SlotMoves
    <3>2. SumTo(saves, n) = 0
      <4> HIDE DEF saves, n
      <4> QED
        BY <1>1, <3>1, SumsPlain
    <3> QED
      BY <2>2, <3>2 DEF SlotCount
  <2> QED
    BY <2>1, <2>2
<1> HIDE DEF f, ones, args, saves, both, n, quads, block
<1>8. SumTo(ones, n) = n
  BY <1>1, <1>6, SumsPlain
<1>9. SumTo(both, n) = SumTo(ones, n) + SumTo(args, n)
  <2>1. \A q \in 1 .. n : /\ both[q] \in Nat /\ ones[q] \in Nat /\ args[q] \in Nat
                          /\ both[q] = ones[q] + args[q]
    BY <1>3, <1>4, <1>6
  <2> QED
    BY <1>1, <2>1, SumsAdd
<1>10. SumTo(f, n) = SumTo(both, n) + SumTo(saves, n)
  <2>1. \A q \in 1 .. n : /\ f[q] \in Nat /\ both[q] \in Nat /\ saves[q] \in Nat
                          /\ f[q] = both[q] + saves[q]
    BY <1>2, <1>3, <1>6
  <2> QED
    BY <1>1, <2>1, SumsAdd
<1>11. SumTo(args, n) \in Nat
  <2>1. n \in 0 .. n
    BY <1>1
  <2> QED
    BY <1>1, <1>3, <1>4, <2>1, Sums
<1>12. SumTo(f, n) = n + ArgumentMoves(quads) + SlotCount(o, b)
  BY <1>1, <1>5, <1>7, <1>8, <1>9, <1>10, <1>11
<1> QED
  BY <1>5, <1>7, <1>11, <1>12 DEF f, n, quads, block

\* A piece: its blocks, one behind the other.
BlockLens(o) == [b \in DOMAIN FunctionAt(o).blocks |-> Len(EmitBlock(o, b))]
BlockCode(o) == [b \in DOMAIN FunctionAt(o).blocks |-> EmitBlock(o, b)]

LEMMA PieceEmitted ==
    ASSUME Ready, NEW o \in Places, Unresolved(o) = {}
    PROVE  LET n == Len(FunctionAt(o).blocks)
           IN  /\ Piece(o) \in Seq(InsnSet)
               /\ n \in Nat /\ n >= 1
               /\ DOMAIN FunctionAt(o).blocks = 1 .. n
               /\ \A b \in 1 .. n : BlockLens(o)[b] \in Nat /\ BlockLens(o)[b] >= 1
               /\ \A b \in 1 .. n : BlockLens(o)[b] = Len(EmitBlock(o, b))
               /\ \A b \in 1 .. n : BlockCode(o)[b] = EmitBlock(o, b)
               /\ LiesIn(Piece(o), BlockCode(o), BlockLens(o), n)
<1> DEFINE blocks == FunctionAt(o).blocks
           n == Len(blocks)
           s == BlockCode(o)
           lens == BlockLens(o)
<1>1. blocks \in Seq(BlockSet) /\ blocks # <<>> /\ n \in Nat /\ n >= 1 /\ DOMAIN blocks = 1 .. n
  <2>1. blocks \in Seq(BlockSet) /\ blocks # <<>>
    BY FunctionFacts DEF Ready
  <2> HIDE DEF blocks
  <2> QED
    BY <2>1
<1>2. s = [b \in 1 .. n |-> EmitBlock(o, b)] /\ lens = [b \in 1 .. n |-> Len(EmitBlock(o, b))]
  BY <1>1 DEF BlockCode, BlockLens
<1>3. \A b \in 1 .. n : /\ EmitBlock(o, b) \in Seq(InsnSet)
                        /\ Len(EmitBlock(o, b)) \in Nat /\ Len(EmitBlock(o, b)) >= 1
  <2> SUFFICES ASSUME NEW b \in 1 .. n
               PROVE  /\ EmitBlock(o, b) \in Seq(InsnSet)
                      /\ Len(EmitBlock(o, b)) \in Nat /\ Len(EmitBlock(o, b)) >= 1
    OBVIOUS
  <2>1. b \in DOMAIN FunctionAt(o).blocks
    BY <1>1
  <2> DEFINE m == SumTo(QuadLens(o, b), Len(FunctionAt(o).blocks[b].quads))
             j == IF NeedsJump(FunctionAt(o).blocks[b]) THEN 1 ELSE 0
  <2>2. /\ EmitBlock(o, b) \in Seq(InsnSet) /\ FirstMoves(o, b) \in Seq(InsnSet)
        /\ Len(EmitBlock(o, b)) = InFront(o, b) + m + j
    BY <2>1, BlockEmitted
  <2>3. m \in Nat
    <3>1. FunctionAt(o).blocks[b].quads \in Seq(QuadSet)
      BY <2>1, BlockFacts
    <3>2. /\ m = Len(FunctionAt(o).blocks[b].quads) + ArgumentMoves(FunctionAt(o).blocks[b].quads)
                     + SlotCount(o, b)
          /\ ArgumentMoves(FunctionAt(o).blocks[b].quads) \in Nat /\ SlotCount(o, b) \in Nat
      BY <2>1, QuadsCounted
    <3>3. Len(FunctionAt(o).blocks[b].quads) \in Nat
      BY <3>1, LenProperties
    <3> HIDE DEF m
    <3> QED
      BY <3>2, <3>3
  <2>4. j \in {0, 1}
    OBVIOUS
  <2>5. Len(FirstMoves(o, b)) \in Nat
    BY <2>2, LenProperties
  <2> HIDE DEF m, j
  <2> QED
    BY <2>2, <2>3, <2>4, <2>5 DEF InFront
<1> HIDE DEF n, s, lens
<1>4. s \in Seq(Seq(InsnSet)) /\ Len(s) = n
  BY <1>1, <1>2, <1>3
<1>5. \A b \in 1 .. n : lens[b] = Len(s[b])
  BY <1>2
<1>6. FlattenSeq(s) \in Seq(InsnSet) /\ LiesIn(FlattenSeq(s), s, lens, n)
  BY <1>4, <1>5, Flattened
<1>7. Piece(o) = FlattenSeq(s)
  BY DEF Piece, s, BlockCode
<1>8. \A b \in 1 .. n : /\ lens[b] \in Nat /\ lens[b] >= 1 /\ lens[b] = Len(EmitBlock(o, b))
                        /\ s[b] = EmitBlock(o, b)
  BY <1>2, <1>3
<1> QED
  BY <1>1, <1>6, <1>7, <1>8 DEF s, lens, n, blocks

LEMMA PieceCounted ==
    ASSUME Ready, NEW o \in Places, Unresolved(o) = {}
    PROVE  Len(Piece(o)) = CountInstructions(FunctionAt(o))
<1> DEFINE f == FunctionAt(o)
           n == Len(f.blocks)
           lens == BlockLens(o)
           sizes == [b \in DOMAIN f.blocks |-> BlockSize(f.blocks[b])]
           returns == [b \in 1 .. n |-> SlotCount(o, b)]
           firsts == [b \in 1 .. n |-> Len(FirstMoves(o, b))]
           both == [b \in 1 .. n |-> sizes[b] + returns[b]]
<1>1. /\ n \in Nat /\ n >= 1 /\ DOMAIN f.blocks = 1 .. n
      /\ Len(Piece(o)) = SumTo(lens, n)
      /\ \A b \in 1 .. n : lens[b] \in Nat /\ lens[b] = Len(EmitBlock(o, b))
  BY PieceEmitted DEF LiesIn
<1>2. ASSUME NEW b \in 1 .. n
      PROVE  /\ BlockSize(f.blocks[b]) \in Nat /\ SlotCount(o, b) \in Nat /\ Len(FirstMoves(o, b)) \in Nat
             /\ Len(EmitBlock(o, b)) = BlockSize(f.blocks[b]) + SlotCount(o, b) + Len(FirstMoves(o, b))
  <2> DEFINE block == f.blocks[b]
             quads == block.quads
             j == IF NeedsJump(block) THEN 1 ELSE 0
             k == Len(quads)
             a == ArgumentMoves(quads)
             c == SlotCount(o, b)
             v == Len(FirstMoves(o, b))
  <2>0. b \in DOMAIN FunctionAt(o).blocks
    BY <1>1
  <2>1. quads \in Seq(QuadSet)
    BY <2>0, BlockFacts
  <2>2. Len(EmitBlock(o, b)) = InFront(o, b) + SumTo(QuadLens(o, b), k) + j /\ FirstMoves(o, b) \in Seq(InsnSet)
    BY <2>0, BlockEmitted
  <2>3. SumTo(QuadLens(o, b), k) = k + a + c /\ a \in Nat /\ c \in Nat
    BY <2>0, QuadsCounted
  <2>4. BlockSize(block) = 1 + k + a + j
    <3>1. /\ Count(quads, "JMP") \in Nat /\ Count(quads, "JE") \in Nat
          /\ Count(quads, "JMP") = 0 <=> ~HasQuad(block, "JMP")
          /\ Count(quads, "JE") = 0 <=> ~HasQuad(block, "JE")
      BY <2>1, CountsNone DEF HasQuad
    <3>2. j = IF block.terminator = "JMP" /\ Count(quads, "JMP") + Count(quads, "JE") = 0 THEN 1 ELSE 0
      <4> HIDE DEF block, quads
      <4> QED
        BY <3>1 DEF NeedsJump
    <3> QED
      BY <3>2 DEF BlockSize
  <2>5. k \in Nat /\ j \in Nat /\ v \in Nat
    <3>1. k \in Nat
      <4> HIDE DEF quads
      <4> QED
        BY <2>1
    <3>2. v \in Nat
      BY <2>2, LenProperties
    <3> QED
      BY <3>1, <3>2
  <2>6. InFront(o, b) = 1 + v
    BY DEF InFront
  <2> HIDE DEF k, a, c, v, j
  <2>7. BlockSize(block) \in Nat /\ Len(EmitBlock(o, b)) = BlockSize(block) + c + v
    BY <2>2, <2>3, <2>4, <2>5, <2>6
  <2> QED
    BY <2>3, <2>5, <2>7 DEF c, v
<1>3. \A b \in 1 .. n : sizes[b] = BlockSize(f.blocks[b]) /\ returns[b] = SlotCount(o, b)
                        /\ firsts[b] = Len(FirstMoves(o, b)) /\ both[b] = sizes[b] + returns[b]
  BY <1>1
<1>4. slots[o] \in {-1, 16, 17, 18} /\ (slots[o] # -1 <=> HasCall(f))
  BY DEF Ready
<1>5. SumOf(sizes) = SumTo(sizes, n)
  <2>1. sizes \in Seq(Nat) /\ Len(sizes) = n
    BY <1>1, <1>2
  <2> QED
    BY <2>1 DEF SumOf
<1>6. SumTo(returns, n) = IF HasCall(f) THEN SumOf([b \in DOMAIN f.blocks |-> Count(f.blocks[b].quads, "RET")])
                          ELSE 0
  <2>1. CASE HasCall(f)
    <3>1. returns = [b \in DOMAIN f.blocks |-> Count(f.blocks[b].quads, "RET")]
      BY <1>1, <1>4, <2>1 DEF SlotCount
    <3>2. returns \in Seq(Nat) /\ Len(returns) = n
      BY <1>1, <1>2
    <3> QED
      BY <2>1, <3>1, <3>2 DEF SumOf
  <2>2. CASE ~HasCall(f)
    <3>1. \A b \in 1 .. n : returns[b] = 0
      BY <1>4, <2>2 DEF SlotCount
    <3>2. SumTo(returns, n) = 0
      <4> HIDE DEF returns, n
      <4> QED
        BY <1>1, <3>1, SumsPlain
    <3> QED
      BY <2>2, <3>2
  <2> QED
    BY <2>1, <2>2
<1>7. \A b \in 1 .. n : firsts[b] = IF b = 1 THEN Len(Prologue(o)) ELSE 0
  BY DEF FirstMoves
<1>c. \A b \in 1 .. n : firsts[b] \in Nat /\ lens[b] = both[b] + firsts[b]
  <2> SUFFICES ASSUME NEW b \in 1 .. n PROVE firsts[b] \in Nat /\ lens[b] = both[b] + firsts[b]
    OBVIOUS
  <2>1. lens[b] = BlockSize(f.blocks[b]) + SlotCount(o, b) + Len(FirstMoves(o, b))
    BY <1>1, <1>2
  <2>2. both[b] = BlockSize(f.blocks[b]) + SlotCount(o, b) /\ firsts[b] = Len(FirstMoves(o, b))
    BY <1>3
  <2> HIDE DEF lens, both, firsts, f, n
  <2> QED
    BY <1>2, <2>1, <2>2
<1>8. /\ Len(Prologue(o)) = SlotMove(o) + Len(f.param_phys)
      /\ Len(f.param_phys) \in Nat
  <2>1. f.param_phys \in Seq(Nat)
    BY FunctionFacts DEF Ready
  <2>2. Len(f.param_phys) \in Nat
    <3> HIDE DEF f
    <3> QED
      BY <2>1
  <2> QED
    BY <2>2, PrologueFacts
<1>a. SlotMove(o) = IF HasCall(f) THEN 1 ELSE 0
  BY <1>4 DEF SlotMove
<1> DEFINE p == Len(f.param_phys)
           m == Len(Prologue(o))
<1>b. p \in Nat /\ m \in Nat /\ m = (IF HasCall(f) THEN 1 ELSE 0) + p
  <2>1. p \in Nat /\ m = SlotMove(o) + p
    BY <1>8
  <2> HIDE DEF p, m
  <2> QED
    BY <1>a, <2>1
<1> DEFINE sum == SumOf([b \in DOMAIN f.blocks |-> Count(f.blocks[b].quads, "RET")])
<1>9. CountInstructions(f) = Len(f.param_phys) + SumOf(sizes) + (IF HasCall(f) THEN 1 + sum ELSE 0)
  BY DEF CountInstructions
<1>d. \A b \in 1 .. n : firsts[b] = IF b = 1 THEN m ELSE 0
  BY <1>7
<1>e. CountInstructions(f) = p + SumOf(sizes) + (IF HasCall(f) THEN 1 + sum ELSE 0)
  BY <1>9
<1> HIDE DEF lens, sizes, returns, firsts, both, n, sum, p, m
<1>10. SumTo(firsts, n) = m
  BY <1>1, <1>b, <1>d, SumsFirst
<1>11. SumTo(both, n) = SumTo(sizes, n) + SumTo(returns, n)
  <2>1. \A b \in 1 .. n : /\ both[b] \in Nat /\ sizes[b] \in Nat /\ returns[b] \in Nat
                          /\ both[b] = sizes[b] + returns[b]
    BY <1>2, <1>3
  <2> QED
    BY <1>1, <2>1, SumsAdd
<1>12. SumTo(lens, n) = SumTo(both, n) + SumTo(firsts, n)
  <2>1. \A b \in 1 .. n : /\ lens[b] \in Nat /\ both[b] \in Nat /\ firsts[b] \in Nat
                          /\ lens[b] = both[b] + firsts[b]
    <3> SUFFICES ASSUME NEW b \in 1 .. n
                 PROVE  /\ lens[b] \in Nat /\ both[b] \in Nat /\ firsts[b] \in Nat
                        /\ lens[b] = both[b] + firsts[b]
      OBVIOUS
    <3>1. both[b] \in Nat
      BY <1>2, <1>3
    <3> QED
      BY <1>1, <1>c, <3>1
  <2> QED
    BY <1>1, <2>1, SumsAdd
<1>13. SumTo(sizes, n) \in Nat /\ SumTo(returns, n) \in Nat
  <2>1. n \in 0 .. n
    BY <1>1
  <2>2. \A b \in 1 .. n : sizes[b] \in Nat /\ returns[b] \in Nat
    BY <1>2, <1>3
  <2> QED
    BY <1>1, <2>1, <2>2, Sums
<1>14. SumTo(returns, n) = IF HasCall(f) THEN sum ELSE 0
  BY <1>6 DEF sum
<1>15. Len(Piece(o)) = CountInstructions(f)
  <2>1. CASE HasCall(f)
    <3>1. m = 1 + p /\ SumTo(returns, n) = sum /\ CountInstructions(f) = p + SumTo(sizes, n) + (1 + sum)
      BY <1>5, <1>b, <1>e, <1>14, <2>1
    <3>2. Len(Piece(o)) = SumTo(sizes, n) + SumTo(returns, n) + m
      BY <1>1, <1>10, <1>11, <1>12
    <3>3. sum \in Nat
      BY <1>13, <3>1
    <3> QED
      BY <1>b, <1>13, <3>1, <3>2, <3>3
  <2>2. CASE ~HasCall(f)
    BY <1>1, <1>5, <1>b, <1>e, <1>10, <1>11, <1>12, <1>13, <1>14, <2>2
  <2> QED
    BY <2>1, <2>2
<1> QED
  BY <1>15

-----------------------------------------------------------------------------
(* The inductive invariant of code generation *)

OrderInv ==
    /\ program \in Programs
    /\ stage \in {"order", "slots", "labels", "compile", "compiled", "fatal"}
    /\ order = IF stage = "order" THEN <<>> ELSE MainFirst

SlotNumbers == {-1, 16, 17, 18}

\* The slots in use are the first of the pool, and no two functions share one.
SlotsInv ==
    /\ slots \in Seq(SlotNumbers)
    /\ Len(slots) <= Len(program)
    /\ stage = "order" => slots = <<>>
    /\ stage \in {"labels", "compile", "compiled"} => Len(slots) = Len(program)
    /\ SlotsUsed \in 0 .. 3
    /\ \A o \in DOMAIN slots : slots[o] # -1 <=> HasCall(FunctionAt(o))
    /\ \A o \in DOMAIN slots : slots[o] <= 15 + SlotsUsed
    /\ \A o, p \in DOMAIN slots : slots[o] = slots[p] /\ slots[o] # -1 => o = p

LabelsInv ==
    /\ label_base \in Seq(Nat)
    /\ Len(label_base) \in 1 .. Len(program) + 1
    /\ label_base[1] = 0
    /\ stage \in {"order", "slots"} => Len(label_base) = 1
    /\ stage \in {"compile", "compiled"} => Len(label_base) = Len(program) + 1
    /\ \A o \in 1 .. Len(label_base) - 1 :
           label_base[o + 1] = label_base[o] + Len(FunctionAt(o).blocks)

\* The pieces lie behind each other.
PiecePlaced(o) ==
    /\ Unresolved(o) = {}
    /\ EndOf(o) = starts[o] + Len(Piece(o))
    /\ \A m \in 1 .. Len(Piece(o)) : insns[starts[o] + m] = Piece(o)[m]

PiecesInv ==
    /\ insns \in Seq(InsnSet)
    /\ starts \in Seq(0 .. Len(insns))
    /\ Len(starts) <= Len(program)
    /\ stage \in {"order", "slots", "labels"} => starts = <<>>
    /\ stage = "compiled" => Len(starts) = Len(program)
    /\ IF starts = <<>> THEN insns = <<>> ELSE starts[1] = 0
    /\ \A o \in DOMAIN starts : PiecePlaced(o)

CodeInv == OrderInv /\ SlotsInv /\ LabelsInv /\ PiecesInv

LEMMA CodeInvInit == Init => CodeInv
<1> SUFFICES ASSUME Init PROVE CodeInv
  OBVIOUS
<1>0. Len(program) \in Nat
  BY ProgramFacts DEF Init
<1>1. OrderInv
  BY DEF Init, OrderInv
<1>2. SlotsInv
  <2>1. {o \in DOMAIN slots : slots[o] # -1} = {}
    BY DEF Init
  <2>2. SlotsUsed = 0
    BY <2>1, FS_EmptySet DEF SlotsUsed
  <2>3. slots = <<>> /\ stage = "order"
    BY DEF Init
  <2> QED
    BY <1>0, <2>2, <2>3 DEF SlotsInv
<1>3. LabelsInv
  <2>1. label_base = <<0>> /\ stage = "order"
    BY DEF Init
  <2> QED
    BY <1>0, <2>1 DEF LabelsInv
<1>4. PiecesInv
  <2>1. insns = <<>> /\ starts = <<>> /\ stage = "order"
    BY DEF Init
  <2> QED
    BY <1>0, <2>1 DEF PiecesInv
<1> QED
  BY <1>1, <1>2, <1>3, <1>4 DEF CodeInv

LEMMA ReadyFacts ==
    ASSUME CodeInv, stage \in {"compile", "compiled"}
    PROVE  Ready
<1>1. program \in Programs /\ order = MainFirst /\ Len(program) \in Nat
  <2>1. program \in Programs /\ order = MainFirst
    BY DEF CodeInv, OrderInv
  <2> QED
    BY <2>1, ProgramFacts
<1>2. slots \in Seq(SlotNumbers) /\ Len(slots) = Len(program)
  BY DEF CodeInv, SlotsInv
<1>3. label_base \in Seq(Nat) /\ Len(label_base) = Len(program) + 1
  BY DEF CodeInv, LabelsInv
<1>4. ASSUME NEW o \in Places
      PROVE  slots[o] \in {-1, 16, 17, 18} /\ (slots[o] # -1 <=> HasCall(FunctionAt(o)))
             /\ label_base[o] \in Nat
  <2>1. o \in DOMAIN slots /\ o \in 1 .. Len(label_base)
    BY <1>1, <1>2, <1>3 DEF Places
  <2>2. slots[o] \in SlotNumbers
    BY <1>2, <2>1
  <2>3. label_base[o] \in Nat
    BY <1>3, <2>1
  <2>4. slots[o] # -1 <=> HasCall(FunctionAt(o))
    BY <2>1 DEF CodeInv, SlotsInv
  <2> QED
    BY <2>2, <2>3, <2>4 DEF SlotNumbers
<1> QED
  BY <1>1, <1>4 DEF Ready

\* What only reads the program and the tables stays while they stay.
LEMMA TablesKept ==
    ASSUME UNCHANGED <<program, order, slots, label_base>>
    PROVE  /\ Places' = Places /\ MainFirst' = MainFirst
           /\ \A o : FunctionAt(o)' = FunctionAt(o)
           /\ \A o : Piece(o)' = Piece(o)
           /\ \A o : Unresolved(o)' = Unresolved(o)
           /\ SlotsUsed' = SlotsUsed
<1>1. \A o : Piece(o)' = Piece(o)
  BY DEF FunctionAt, EmitCall, Resolve, LabelOf, Declared, Places, Instruction, Mov, Piece, EmitBlock,
         Terminator, Prologue, EmitQuad, EmitPlain, HasQuad
<1> QED
  BY <1>1 DEF Places, MainFirst, Mains, FunctionAt, Unresolved, QuadsIn, Declared, SlotsUsed

LEMMA OrderStep ==
    ASSUME CodeInv, OrderFunctions
    PROVE  CodeInv'
<1>0. /\ stage = "order" /\ stage' = "slots" /\ order' = MainFirst
      /\ program' = program /\ slots' = slots /\ label_base' = label_base /\ insns' = insns /\ starts' = starts
  BY DEF OrderFunctions
<1>1. program \in Programs /\ slots = <<>> /\ Len(label_base) = 1 /\ starts = <<>> /\ Len(program) \in Nat
  <2>1. program \in Programs /\ slots = <<>> /\ Len(label_base) = 1 /\ starts = <<>>
    BY <1>0 DEF CodeInv, OrderInv, SlotsInv, LabelsInv, PiecesInv
  <2> QED
    BY <2>1, ProgramFacts
<1>2. OrderInv'
  BY <1>0, <1>1 DEF OrderInv, MainFirst, Mains, Places
<1>3. SlotsInv'
  <2>1. slots' = <<>> /\ SlotsUsed' = SlotsUsed /\ stage' = "slots" /\ program' = program
    BY <1>0, <1>1 DEF SlotsUsed
  <2>2. SlotsUsed \in 0 .. 3
    BY DEF CodeInv, SlotsInv
  <2> QED
    BY <1>1, <2>1, <2>2 DEF SlotsInv
<1>4. LabelsInv'
  <2>1. label_base' \in Seq(Nat) /\ Len(label_base') = 1 /\ label_base'[1] = 0
    BY <1>0, <1>1 DEF CodeInv, LabelsInv
  <2>2. 1 .. Len(label_base') - 1 = {}
    BY <2>1
  <2> QED
    BY <1>0, <1>1, <2>1, <2>2 DEF LabelsInv
<1>5. PiecesInv'
  <2>1. insns' \in Seq(InsnSet) /\ starts' = <<>> /\ insns' = <<>> /\ stage' = "slots" /\ program' = program
    BY <1>0, <1>1 DEF CodeInv, PiecesInv
  <2> QED
    BY <1>1, <2>1 DEF PiecesInv
<1> QED
  BY <1>2, <1>3, <1>4, <1>5 DEF CodeInv

LEMMA SlotStep ==
    ASSUME CodeInv, AssignSlot
    PROVE  CodeInv'
<1>0. /\ stage = "slots" /\ Len(slots) < Len(program)
      /\ program' = program /\ order' = order /\ label_base' = label_base /\ insns' = insns /\ starts' = starts
      /\ \/ stage' = "fatal" /\ slots' = slots
         \/ /\ stage' = "slots"
            /\ HasCall(FunctionAt(Len(slots) + 1)) => SlotsUsed < 3
            /\ slots' = Append(slots, IF HasCall(FunctionAt(Len(slots) + 1)) THEN NextSlot ELSE -1)
  <2>1. SlotsUsed \in 0 .. 3 /\ Len(SlotPool) = 3
    BY DEF CodeInv, SlotsInv, SlotPool
  <2> QED
    BY <2>1 DEF AssignSlot
<1>1. /\ program \in Programs /\ order = MainFirst /\ Len(label_base) = 1 /\ starts = <<>> /\ insns = <<>>
      /\ Len(program) \in Nat /\ label_base \in Seq(Nat) /\ label_base[1] = 0
  <2>1. /\ program \in Programs /\ order = MainFirst /\ Len(label_base) = 1 /\ starts = <<>> /\ insns = <<>>
        /\ label_base \in Seq(Nat) /\ label_base[1] = 0
    BY <1>0 DEF CodeInv, OrderInv, LabelsInv, PiecesInv
  <2> QED
    BY <2>1, ProgramFacts
<1>2. stage' \in {"slots", "fatal"}
  BY <1>0
<1>3. OrderInv'
  BY <1>0, <1>1, <1>2 DEF OrderInv, MainFirst, Mains, Places
<1>4. LabelsInv'
  <2>1. 1 .. Len(label_base') - 1 = {}
    BY <1>0, <1>1
  <2> QED
    BY <1>0, <1>1, <1>2, <2>1 DEF LabelsInv
<1>5. PiecesInv'
  BY <1>0, <1>1, <1>2 DEF PiecesInv
<1>6. SlotsInv'
  <2>0. /\ slots \in Seq(SlotNumbers) /\ SlotsUsed \in 0 .. 3
        /\ \A o \in DOMAIN slots : slots[o] # -1 <=> HasCall(FunctionAt(o))
        /\ \A o \in DOMAIN slots : slots[o] <= 15 + SlotsUsed
        /\ \A o, p \in DOMAIN slots : slots[o] = slots[p] /\ slots[o] # -1 => o = p
    BY DEF CodeInv, SlotsInv
  <2>1. CASE stage' = "fatal" /\ slots' = slots
    <3>1. SlotsUsed' = SlotsUsed /\ \A o : FunctionAt(o)' = FunctionAt(o)
      BY <1>0, <2>1 DEF SlotsUsed, FunctionAt
    <3>2. \A o \in DOMAIN slots' : slots'[o] # -1 <=> HasCall(FunctionAt(o)')
      BY <2>0, <2>1, <3>1
    <3>3. \A o : HasCall(FunctionAt(o))' <=> HasCall(FunctionAt(o)')
      BY DEF HasCall, QuadsIn
    <3> QED
      BY <1>0, <2>0, <2>1, <3>1, <3>2, <3>3 DEF SlotsInv
  <2>2. CASE stage' = "slots" /\ slots' # slots
    <3> DEFINE n == Len(slots)
               new == IF HasCall(FunctionAt(n + 1)) THEN NextSlot ELSE -1
               Used == {o \in DOMAIN slots : slots[o] # -1}
    <3>1. slots' = Append(slots, new) /\ (HasCall(FunctionAt(n + 1)) => SlotsUsed < 3) /\ n \in Nat
      BY <1>0, <2>0, <2>2
    <3>2. new = IF HasCall(FunctionAt(n + 1)) THEN 16 + SlotsUsed ELSE -1
      <4>1. SlotsUsed \in {0, 1, 2} => SlotPool[SlotsUsed + 1] = 16 + SlotsUsed
        BY DEF SlotPool
      <4>2. HasCall(FunctionAt(n + 1)) => SlotsUsed \in {0, 1, 2}
        BY <2>0, <3>1
      <4> QED
        BY <4>1, <4>2 DEF NextSlot
    <3>3. new \in SlotNumbers /\ new \in Int
      BY <2>0, <3>1, <3>2 DEF SlotNumbers
    <3>4. SlotsUsed = Cardinality(Used)
      BY DEF SlotsUsed
    <3>5. \A o : FunctionAt(o)' = FunctionAt(o)
      BY <1>0 DEF FunctionAt
    <3> HIDE DEF new, n
    <3>6. /\ slots' \in Seq(SlotNumbers) /\ Len(slots') = n + 1 /\ DOMAIN slots' = 1 .. n + 1
          /\ DOMAIN slots = 1 .. n
          /\ slots'[n + 1] = new /\ \A o \in 1 .. n : slots'[o] = slots[o] /\ slots[o] \in SlotNumbers
      BY <2>0, <3>1, <3>3 DEF n
    <3>7. SlotsUsed' = IF new = -1 THEN SlotsUsed ELSE SlotsUsed + 1
      <4> DEFINE UsedThen == {o \in DOMAIN slots' : slots'[o] # -1}
      <4>1. SlotsUsed' = Cardinality(UsedThen)
        BY DEF SlotsUsed
      <4>2. UsedThen = IF new = -1 THEN Used ELSE Used \cup {n + 1}
        BY <3>1, <3>6
      <4>3. IsFiniteSet(Used)
        <5>1. IsFiniteSet(1 .. n)
          BY <3>1, FS_Interval
        <5>2. Used \subseteq 1 .. n
          BY <3>6
        <5> QED
          BY <5>1, <5>2, FS_Subset
      <4>4. n + 1 \notin Used
        BY <3>1, <3>6
      <4> HIDE DEF Used, UsedThen
      <4>5. Cardinality(Used \cup {n + 1}) = Cardinality(Used) + 1
        BY <4>3, <4>4, FS_AddElement
      <4> QED
        BY <3>4, <4>1, <4>2, <4>5
    <3> HIDE DEF Used
    <3>8. SlotsUsed' \in 0 .. 3
      BY <2>0, <3>1, <3>2, <3>7
    <3>9. ASSUME NEW o \in 1 .. n + 1 PROVE slots'[o] <= 15 + SlotsUsed'
      <4>1. CASE o = n + 1
        BY <2>0, <3>2, <3>6, <3>7, <4>1
      <4>2. CASE o # n + 1
        <5>1. o \in 1 .. n
          BY <3>1, <4>2
        <5>2. slots'[o] = slots[o] /\ slots[o] <= 15 + SlotsUsed /\ slots[o] \in Int
          BY <2>0, <3>6, <5>1 DEF SlotNumbers
        <5> QED
          BY <2>0, <3>7, <5>2
      <4> QED
        BY <4>1, <4>2
    <3>10. ASSUME NEW o \in 1 .. n + 1 PROVE slots'[o] # -1 <=> HasCall(FunctionAt(o))
      <4>1. CASE o = n + 1
        BY <2>0, <3>2, <3>6, <4>1
      <4>2. CASE o # n + 1
        <5>1. o \in 1 .. n
          BY <3>1, <4>2
        <5> QED
          BY <2>0, <3>6, <5>1
      <4> QED
        BY <4>1, <4>2
    <3>11. ASSUME NEW o \in 1 .. n + 1, NEW p \in 1 .. n + 1, slots'[o] = slots'[p], slots'[o] # -1
           PROVE  o = p
      <4>1. \A k \in 1 .. n : slots[k] # new \/ new = -1
        <5> SUFFICES ASSUME NEW k \in 1 .. n, new # -1 PROVE slots[k] # new
          OBVIOUS
        <5>1. slots[k] <= 15 + SlotsUsed /\ slots[k] \in Int
          BY <2>0, <3>6 DEF SlotNumbers
        <5> QED
          BY <2>0, <3>2, <5>1
      <4>2. CASE o \in 1 .. n /\ p \in 1 .. n
        BY <2>0, <3>6, <3>11, <4>2
      <4>3. CASE o = n + 1 \/ p = n + 1
        BY <3>1, <3>6, <3>11, <4>1, <4>3
      <4> QED
        BY <3>1, <4>2, <4>3
    <3>12. \A o \in DOMAIN slots' : slots'[o] # -1 <=> HasCall(FunctionAt(o))'
      BY <3>5, <3>6, <3>10 DEF HasCall, QuadsIn
    <3>13. Len(slots') <= Len(program)'
      <4>1. n < Len(program)
        BY <1>0 DEF n
      <4>2. program' = program
        BY <1>0
      <4>3. Len(slots') = n + 1
        BY <3>6
      <4> QED
        BY <1>1, <3>1, <4>1, <4>2, <4>3
    <3> QED
      BY <1>0, <2>2, <3>6, <3>8, <3>9, <3>11, <3>12, <3>13 DEF SlotsInv
  <2>3. CASE stage' = "slots" /\ slots' = slots
    <3>1. Len(Append(slots, IF HasCall(FunctionAt(Len(slots) + 1)) THEN NextSlot ELSE -1)) = Len(slots) + 1
      BY <2>0
    <3>2. Len(slots) \in Nat
      BY <2>0
    <3> QED
      BY <1>0, <2>3, <3>1, <3>2
  <2> QED
    BY <1>0, <2>1, <2>2, <2>3
<1> QED
  BY <1>3, <1>4, <1>5, <1>6 DEF CodeInv

\* Steps that leave the tables alone.
LEMMA SlotsKept ==
    ASSUME CodeInv, UNCHANGED <<program, order, slots, label_base>>, stage # "order",
           stage' \in {"labels", "compile", "compiled"} => Len(slots) = Len(program),
           stage' # "order"
    PROVE  SlotsInv'
<1>1. SlotsUsed' = SlotsUsed /\ \A o : HasCall(FunctionAt(o))' <=> HasCall(FunctionAt(o))
  <2>1. \A o : FunctionAt(o)' = FunctionAt(o)
    BY DEF FunctionAt
  <2> QED
    BY <2>1 DEF SlotsUsed, HasCall, QuadsIn
<1>2. SlotsInv
  BY DEF CodeInv
<1> QED
  BY <1>1, <1>2 DEF SlotsInv

LEMMA LabelsKept ==
    ASSUME CodeInv, UNCHANGED <<program, order, slots, label_base>>,
           stage' \notin {"order", "slots"},
           stage' \in {"compile", "compiled"} => Len(label_base) = Len(program) + 1
    PROVE  LabelsInv'
<1>1. \A o : FunctionAt(o)' = FunctionAt(o)
  BY DEF FunctionAt
<1>2. LabelsInv
  BY DEF CodeInv
<1> QED
  BY <1>1, <1>2 DEF LabelsInv

LEMMA OrderKept ==
    ASSUME CodeInv, UNCHANGED <<program, order>>, stage # "order", stage' # "order",
           stage' \in {"slots", "labels", "compile", "compiled", "fatal"}
    PROVE  OrderInv'
<1>1. MainFirst' = MainFirst
  BY DEF MainFirst, Mains, Places
<1> QED
  BY <1>1 DEF CodeInv, OrderInv

LEMMA PiecesKept ==
    ASSUME CodeInv, UNCHANGED <<program, order, slots, label_base, insns, starts>>,
           stage' \in {"order", "slots", "labels"} => starts = <<>>,
           stage' = "compiled" => Len(starts) = Len(program)
    PROVE  PiecesInv'
<1>1. /\ \A o : Piece(o)' = Piece(o)
      /\ \A o : Unresolved(o)' = Unresolved(o)
  BY TablesKept
<1>2. \A o : EndOf(o)' = EndOf(o)
  BY DEF EndOf
<1>3. \A o : PiecePlaced(o) => PiecePlaced(o)'
  BY <1>1, <1>2 DEF PiecePlaced
<1>4. PiecesInv
  BY DEF CodeInv
<1> HIDE DEF PiecePlaced
<1> QED
  BY <1>3, <1>4 DEF PiecesInv

LEMMA StageStep ==
    ASSUME CodeInv, SlotsAssigned \/ LabelsDone \/ CompileEnd
    PROVE  CodeInv'
<1>1. UNCHANGED <<program, order, slots, label_base, insns, starts>>
  BY DEF SlotsAssigned, LabelsDone, CompileEnd
<1>2. /\ stage # "order" /\ stage' \in {"labels", "compile", "compiled"} /\ Len(slots) = Len(program)
      /\ stage' \in {"compile", "compiled"} => Len(label_base) = Len(program) + 1
      /\ stage' = "labels" => starts = <<>>
      /\ stage' = "compiled" => Len(starts) = Len(program)
  <2>1. CASE SlotsAssigned
    BY <2>1 DEF SlotsAssigned, CodeInv, PiecesInv
  <2>2. CASE LabelsDone
    BY <2>2 DEF LabelsDone, CodeInv, SlotsInv
  <2>3. CASE CompileEnd
    BY <2>3 DEF CompileEnd, CodeInv, SlotsInv, LabelsInv
  <2> QED
    BY <2>1, <2>2, <2>3
<1>3. OrderInv'
  BY <1>1, <1>2, OrderKept
<1>4. SlotsInv'
  BY <1>1, <1>2, SlotsKept
<1>5. LabelsInv'
  BY <1>1, <1>2, LabelsKept
<1>6. PiecesInv'
  BY <1>1, <1>2, PiecesKept
<1> QED
  BY <1>3, <1>4, <1>5, <1>6 DEF CodeInv

LEMMA LabelStep ==
    ASSUME CodeInv, LabelFunction
    PROVE  CodeInv'
<1>0. /\ stage = "labels" /\ stage' = "labels" /\ Len(label_base) <= Len(program)
      /\ label_base' = Append(label_base, Last(label_base) + Len(FunctionAt(Len(label_base)).blocks))
      /\ program' = program /\ order' = order /\ slots' = slots /\ insns' = insns /\ starts' = starts
  BY DEF LabelFunction
<1>1. /\ program \in Programs /\ order = MainFirst /\ Len(slots) = Len(program) /\ starts = <<>> /\ insns = <<>>
      /\ Len(program) \in Nat
      /\ label_base \in Seq(Nat) /\ Len(label_base) \in 1 .. Len(program) + 1 /\ label_base[1] = 0
      /\ \A o \in 1 .. Len(label_base) - 1 : label_base[o + 1] = label_base[o] + Len(FunctionAt(o).blocks)
  <2>1. /\ program \in Programs /\ order = MainFirst /\ Len(slots) = Len(program) /\ starts = <<>> /\ insns = <<>>
    BY <1>0 DEF CodeInv, OrderInv, SlotsInv, PiecesInv
  <2>2. /\ label_base \in Seq(Nat) /\ Len(label_base) \in 1 .. Len(program) + 1 /\ label_base[1] = 0
        /\ \A o \in 1 .. Len(label_base) - 1 : label_base[o + 1] = label_base[o] + Len(FunctionAt(o).blocks)
    BY DEF CodeInv, LabelsInv
  <2> QED
    BY <2>1, <2>2, ProgramFacts
<1>2. OrderInv'
  <2>1. MainFirst' = MainFirst
    BY <1>0 DEF MainFirst, Mains, Places
  <2> QED
    BY <1>0, <1>1, <2>1 DEF OrderInv
<1>3. SlotsInv'
  <2>1. SlotsUsed' = SlotsUsed /\ \A o : HasCall(FunctionAt(o))' <=> HasCall(FunctionAt(o))
    <3>1. \A o : FunctionAt(o)' = FunctionAt(o)
      BY <1>0 DEF FunctionAt
    <3> QED
      BY <1>0, <3>1 DEF SlotsUsed, HasCall, QuadsIn
  <2>2. SlotsInv
    BY DEF CodeInv
  <2> QED
    BY <1>0, <2>1, <2>2 DEF SlotsInv
<1>4. PiecesInv'
  BY <1>0, <1>1 DEF PiecesInv
<1>5. LabelsInv'
  <2> DEFINE n == Len(label_base)
             size == Len(FunctionAt(n).blocks)
             new == label_base[n] + size
  <2>1. n \in Nat /\ n >= 1 /\ n \in Places
    BY <1>0, <1>1 DEF Places
  <2>2. size \in Nat
    <3>1. FunctionAt(n).blocks \in Seq(BlockSet)
      BY <1>1, <2>1, FunctionFacts
    <3> QED
      BY <3>1, LenProperties
  <2>3. label_base' = Append(label_base, new)
    BY <1>0 DEF Last
  <2>4. label_base[n] \in Nat
    BY <1>1, <2>1
  <2> HIDE DEF size
  <2>5. new \in Nat
    BY <2>2, <2>4
  <2> HIDE DEF new, n
  <2>6. /\ label_base' \in Seq(Nat) /\ Len(label_base') = n + 1
        /\ label_base'[n + 1] = new /\ \A o \in 1 .. n : label_base'[o] = label_base[o]
    BY <1>1, <2>3, <2>5 DEF n
  <2>7. \A o : FunctionAt(o)' = FunctionAt(o)
    BY <1>0 DEF FunctionAt
  <2>8. ASSUME NEW o \in 1 .. n PROVE label_base'[o + 1] = label_base'[o] + Len(FunctionAt(o).blocks)
    <3>1. CASE o = n
      BY <2>1, <2>6, <3>1 DEF new, size
    <3>2. CASE o # n
      <4>1. o + 1 \in 1 .. n /\ o \in 1 .. Len(label_base) - 1
        BY <2>1, <3>2 DEF n
      <4> QED
        BY <1>1, <2>6, <4>1
    <3> QED
      BY <3>1, <3>2
  <2>9. \A o \in 1 .. Len(label_base') - 1 : label_base'[o + 1] = label_base'[o] + Len(FunctionAt(o).blocks)'
    BY <2>1, <2>6, <2>7, <2>8
  <2>10. Len(label_base') \in 1 .. Len(program') + 1
    <3>1. n <= Len(program)
      BY <1>0 DEF n
    <3> QED
      BY <1>0, <1>1, <2>1, <2>6, <3>1
  <2>11. label_base'[1] = 0
    BY <1>1, <2>1, <2>6
  <2> QED
    BY <1>0, <2>6, <2>9, <2>10, <2>11 DEF LabelsInv
<1> QED
  BY <1>2, <1>3, <1>4, <1>5 DEF CodeInv

LEMMA CompileStep ==
    ASSUME CodeInv, CompileFunction
    PROVE  CodeInv'
<1> DEFINE n == Len(starts)
<1>a. PICK o \in Nat : o = n + 1
  <2>1. starts \in Seq(0 .. Len(insns))
    BY DEF CodeInv, PiecesInv
  <2>2. n \in Nat
    BY <2>1, LenProperties
  <2> QED
    BY <2>2
<1>0. /\ stage = "compile" /\ n < Len(program)
      /\ UNCHANGED <<program, order, slots, label_base>>
      /\ \/ stage' = "fatal" /\ starts' = starts /\ insns' = insns
         \/ /\ Unresolved(o) = {} /\ stage' = "compile"
            /\ starts' = Append(starts, Len(insns)) /\ insns' = insns \o Piece(o)
  BY <1>a DEF CompileFunction
<1>1. Ready /\ Len(program) \in Nat /\ Len(slots) = Len(program) /\ Len(label_base) = Len(program) + 1
  <2>1. Ready
    BY <1>0, ReadyFacts
  <2>2. program \in Programs /\ Len(slots) = Len(program) /\ Len(label_base) = Len(program) + 1
    BY <1>0 DEF CodeInv, OrderInv, SlotsInv, LabelsInv
  <2> QED
    BY <2>1, <2>2, ProgramFacts
<1>2. stage' \in {"compile", "fatal"} /\ stage # "order"
  BY <1>0
<1>3. OrderInv'
  BY <1>0, <1>2, OrderKept
<1>4. SlotsInv'
  BY <1>0, <1>1, <1>2, SlotsKept
<1>5. LabelsInv'
  BY <1>0, <1>1, <1>2, LabelsKept
<1>6. CASE stage' = "fatal" /\ starts' = starts /\ insns' = insns
  <2>1. PiecesInv'
    BY <1>0, <1>6, PiecesKept
  <2> QED
    BY <1>3, <1>4, <1>5, <2>1 DEF CodeInv
<1>7. CASE /\ Unresolved(o) = {} /\ stage' = "compile"
           /\ starts' = Append(starts, Len(insns)) /\ insns' = insns \o Piece(o)
  <2>1. /\ insns \in Seq(InsnSet) /\ starts \in Seq(0 .. Len(insns))
        /\ IF starts = <<>> THEN insns = <<>> ELSE starts[1] = 0
        /\ \A p \in DOMAIN starts : PiecePlaced(p)
    BY DEF CodeInv, PiecesInv
  <2>2. n \in Nat /\ Len(insns) \in Nat /\ o \in Places
    BY <1>0, <1>1, <1>a, <2>1 DEF Places
  <2>3. Piece(o) \in Seq(InsnSet) /\ Len(Piece(o)) \in Nat
    <3>1. Piece(o) \in Seq(InsnSet)
      BY <1>1, <1>7, <2>2, PieceEmitted
    <3> QED
      BY <3>1, LenProperties
  <2> DEFINE u == Piece(o)
             len == Len(insns)
  <2>4. \A p : /\ Piece(p)' = Piece(p) /\ Unresolved(p)' = Unresolved(p)
    BY <1>0, TablesKept
  <2>5. insns' = insns \o u /\ starts' = Append(starts, len)
    BY <1>7
  <2>a. u \in Seq(InsnSet) /\ Len(u) \in Nat
    BY <2>3
  <2> HIDE DEF u
  <2>6. /\ insns' \in Seq(InsnSet) /\ Len(insns') = len + Len(u)
        /\ \A k \in 1 .. len : insns'[k] = insns[k]
        /\ \A m \in 1 .. Len(u) : insns'[len + m] = u[m]
    BY SMTT(45), <2>1, <2>a, <2>5, Behind
  <2>b. len \in Nat
    BY <2>2
  <2> HIDE DEF len
  <2>7. /\ Len(starts') = n + 1 /\ starts'[n + 1] = len
        /\ \A p \in 1 .. n : starts'[p] = starts[p] /\ starts[p] \in 0 .. len
        /\ starts' \in Seq(0 .. Len(insns'))
    <3>1. Len(starts') = n + 1 /\ starts'[n + 1] = len /\ \A p \in 1 .. n : starts'[p] = starts[p]
      BY <2>1, <2>5
    <3>2. \A p \in 1 .. n : starts[p] \in 0 .. len
      BY <2>1 DEF len
    <3>3. starts \in Seq(Nat)
      BY <2>1
    <3>4. starts' \in Seq(Nat)
      BY <2>5, <2>b, <3>3
    <3>5. \A p \in 1 .. n + 1 : starts'[p] \in 0 .. Len(insns')
      <4> SUFFICES ASSUME NEW p \in 1 .. n + 1 PROVE starts'[p] \in 0 .. Len(insns')
        OBVIOUS
      <4>1. CASE p = n + 1
        BY <2>6, <2>a, <2>b, <3>1, <4>1
      <4>2. CASE p # n + 1
        <5>1. p \in 1 .. n
          BY <2>2, <4>2
        <5>2. starts'[p] \in 0 .. len
          BY <3>1, <3>2, <5>1
        <5> QED
          BY <2>6, <2>a, <2>b, <5>2
      <4> QED
        BY <4>1, <4>2
    <3>6. starts' \in Seq(0 .. Len(insns'))
      BY SMTT(45), <3>1, <3>4, <3>5
    <3> QED
      BY <3>1, <3>2, <3>6
  <2>8. \A p \in 1 .. n : EndOf(p)' = EndOf(p) /\ EndOf(p) \in 0 .. len
    <3> SUFFICES ASSUME NEW p \in 1 .. n PROVE EndOf(p)' = EndOf(p) /\ EndOf(p) \in 0 .. len
      OBVIOUS
    <3>1. CASE p = n
      <4>1. EndOf(p)' = len
        BY <2>2, <2>7, <3>1 DEF EndOf
      <4>2. EndOf(p) = len
        BY <2>2, <3>1 DEF EndOf, len
      <4> QED
        BY <2>b, <4>1, <4>2
    <3>2. CASE p # n
      <4>1. p + 1 \in 1 .. n /\ p < n /\ p < n + 1
        BY <2>2, <3>2
      <4>2. EndOf(p) = starts[p + 1]
        BY <4>1 DEF EndOf
      <4>3. EndOf(p)' = starts'[p + 1]
        BY <2>7, <4>1 DEF EndOf
      <4> QED
        BY <2>7, <4>1, <4>2, <4>3
    <3> QED
      BY <3>1, <3>2
  <2>9. ASSUME NEW p \in 1 .. n PROVE PiecePlaced(p)'
    <3>1. /\ Unresolved(p) = {} /\ EndOf(p) = starts[p] + Len(Piece(p))
          /\ \A m \in 1 .. Len(Piece(p)) : insns[starts[p] + m] = Piece(p)[m]
      <4>1. p \in DOMAIN starts
        BY <2>1
      <4> QED
        BY <2>1, <4>1 DEF PiecePlaced
    <3>2. EndOf(p)' = starts'[p] + Len(Piece(p))
      BY <2>7, <2>8, <3>1
    <3>3. ASSUME NEW m \in 1 .. Len(Piece(p)) PROVE insns'[starts'[p] + m] = Piece(p)[m]
      <4>1. starts[p] + m \in 1 .. len
        <5>1. Len(Piece(p)) \in Nat
          <6>1. p \in Places
            BY <1>0, <1>1, <2>2 DEF Places
          <6>2. Piece(p) \in Seq(InsnSet)
            BY <1>1, <3>1, <6>1, PieceEmitted
          <6> QED
            BY <6>2, LenProperties
        <5>2. starts[p] \in Nat /\ starts[p] \in 0 .. len
          BY <2>7, <2>b
        <5>3. EndOf(p) \in 0 .. len /\ EndOf(p) = starts[p] + Len(Piece(p))
          BY <2>8, <3>1
        <5> DEFINE l == Len(Piece(p))
                   e == EndOf(p)
                   at == starts[p]
        <5>4. m \in 1 .. l /\ l \in Nat /\ at \in Nat /\ e \in 0 .. len /\ e = at + l
          BY <3>3, <5>1, <5>2, <5>3
        <5> HIDE DEF l, e, at
        <5>5. at + m \in 1 .. len
          BY <2>b, <5>4
        <5> QED
          BY <5>5 DEF at
      <4> QED
        BY <2>6, <2>7, <3>1, <4>1
    <3> QED
      BY <2>4, <3>1, <3>2, <3>3 DEF PiecePlaced
  <2>10. PiecePlaced(o)'
    <3>1. EndOf(o)' = starts'[o] + Len(u)
      <4>1. EndOf(o)' = Len(insns')
        BY <1>a, <2>2, <2>7 DEF EndOf
      <4> QED
        BY <1>a, <2>6, <2>7, <4>1
    <3>2. \A m \in 1 .. Len(u) : insns'[starts'[o] + m] = u[m]
      BY <1>a, <2>6, <2>7
    <3>3. u = Piece(o) /\ Piece(o)' = Piece(o) /\ Unresolved(o)' = {}
      BY <1>7, <2>4 DEF u
    <3>4. /\ Unresolved(o)' = {} /\ EndOf(o)' = starts'[o] + Len(Piece(o)')
          /\ \A m \in 1 .. Len(Piece(o)') : insns'[starts'[o] + m] = Piece(o)'[m]
      BY <3>1, <3>2, <3>3
    <3> QED
      BY <3>4 DEF PiecePlaced
  <2>11. IF starts' = <<>> THEN insns' = <<>> ELSE starts'[1] = 0
    <3>1. starts' # <<>>
      BY <2>2, <2>7
    <3>2. CASE n = 0
      <4>1. starts = <<>>
        BY <2>1, <3>2
      <4> QED
        BY <2>1, <2>7, <3>1, <3>2, <4>1 DEF len
    <3>3. CASE n # 0
      <4>1. 1 \in 1 .. n /\ starts # <<>>
        BY <2>1, <2>2, <3>3
      <4> QED
        BY <2>1, <2>7, <3>1, <4>1
    <3> QED
      BY <3>2, <3>3
  <2>12. \A p \in DOMAIN starts' : PiecePlaced(p)'
    <3>1. DOMAIN starts' = 1 .. n + 1
      BY <2>7
    <3>2. \A p \in 1 .. n + 1 : p \in 1 .. n \/ p = o
      BY <1>a, <2>2
    <3> QED
      BY <2>9, <2>10, <3>1, <3>2
  <2>13. Len(starts') <= Len(program')
    BY <1>0, <1>1, <2>2, <2>7
  <2>14. stage' = "compile"
    BY <1>7
  <2> HIDE DEF PiecePlaced
  <2>15. PiecesInv'
    BY <2>6, <2>7, <2>11, <2>12, <2>13, <2>14 DEF PiecesInv
  <2> QED
    BY <1>3, <1>4, <1>5, <2>15 DEF CodeInv
<1> QED
  BY <1>0, <1>6, <1>7

LEMMA CodeInvStep ==
    ASSUME CodeInv, Next \/ UNCHANGED codeVars
    PROVE  CodeInv'
<1>1. CASE Next
  BY <1>1, OrderStep, SlotStep, StageStep, LabelStep, CompileStep DEF Next
<1>2. CASE UNCHANGED codeVars
  <2>1. UNCHANGED <<program, stage, order, slots, label_base, insns, starts>>
    BY <1>2 DEF codeVars
  <2>2. OrderInv'
    <3>1. MainFirst' = MainFirst
      BY <2>1 DEF MainFirst, Mains, Places
    <3> QED
      BY <2>1, <3>1 DEF CodeInv, OrderInv
  <2>3. SlotsInv' /\ LabelsInv'
    <3>1. \A o : FunctionAt(o)' = FunctionAt(o)
      BY <2>1 DEF FunctionAt
    <3>2. SlotsUsed' = SlotsUsed /\ \A o : HasCall(FunctionAt(o))' <=> HasCall(FunctionAt(o))
      BY <2>1, <3>1 DEF SlotsUsed, HasCall, QuadsIn
    <3>3. SlotsInv /\ LabelsInv
      BY DEF CodeInv
    <3>4. SlotsInv'
      BY <2>1, <3>2, <3>3 DEF SlotsInv
    <3>5. LabelsInv'
      BY <2>1, <3>1, <3>3 DEF LabelsInv
    <3> QED
      BY <3>4, <3>5
  <2>4. PiecesInv'
    <3>1. stage' \in {"order", "slots", "labels"} => starts = <<>>
      BY <2>1 DEF CodeInv, PiecesInv
    <3>2. stage' = "compiled" => Len(starts) = Len(program)
      BY <2>1 DEF CodeInv, PiecesInv
    <3> QED
      BY <2>1, <3>1, <3>2, PiecesKept
  <2> QED
    BY <2>2, <2>3, <2>4 DEF CodeInv
<1> QED
  BY <1>1, <1>2

-----------------------------------------------------------------------------
(* The inductive invariant of the assembler *)

WordCounts == [k \in DOMAIN insns |-> Words(insns[k])]
WordCode == [k \in DOMAIN insns |-> Encode(k, Position(k))]

WordInv ==
    /\ pass \in {"first", "second", "split", "append", "written", "no main"}
    /\ pass # "first" => stage = "compiled"
    /\ pass # "first" => label_addr = [label \in Labels |-> Position(LabelIndex(label))]
    /\ pass \in {"split", "append", "written"} => LiesIn(out, WordCode, WordCounts, Len(insns))
    /\ pass \in {"append", "written"} =>
           /\ main_index = 1 /\ 1 \in Places
           /\ piece_borders = [o \in 1 .. Len(program) + 1 |->
                                  IF o <= Len(program) THEN Position(starts[o] + 1)
                                  ELSE Position(Len(insns) + 1)]
    /\ pass \notin {"append", "written"} => main_index = 0
    /\ pass = "written" =>
           text = EntryCode \o PieceWords(1)
                      \o FlattenSeq([n \in DOMAIN Others |-> PieceWords(Others[n])])

LEMMA CodeKept ==
    ASSUME UNCHANGED codeVars
    PROVE  /\ \A k : Position(k)' = Position(k)
           /\ Labels' = Labels
           /\ \A label : LabelIndex(label)' = LabelIndex(label)
           /\ WordCounts' = WordCounts
           /\ Places' = Places
           /\ UNCHANGED <<program, stage, starts, insns>>
<1>1. insns' = insns /\ program' = program /\ stage' = stage /\ starts' = starts
  BY DEF codeVars
<1>2. \A k : Position(k)' = Position(k)
  BY <1>1 DEF Position, SumTo
<1> QED
  BY <1>1, <1>2 DEF Labels, LabelIndex, WordCounts, Places

LEMMA CodeWordsKept ==
    ASSUME UNCHANGED codeVars, label_addr' = label_addr
    PROVE  WordCode' = WordCode
<1>1. /\ \A k : Position(k)' = Position(k)
      /\ insns' = insns
  BY CodeKept
<1>2. \A k, pos : Encode(k, pos)' = Encode(k, pos)
  BY <1>1 DEF Encode, EncodeJe, Offset
<1> QED
  BY <1>1, <1>2 DEF WordCode

\* The words of an instruction.
LEMMA WordsFacts ==
    ASSUME NEW ins \in InsnSet
    PROVE  /\ Words(ins) \in Nat
           /\ ins.op = "LABEL" => Words(ins) = 0
           /\ ins.op = "JMP" => Words(ins) = 1
           /\ ins.op \in {"JE", "CALL"} => Words(ins) = 2
           /\ ins.op # "LABEL" => Words(ins) >= 1
<1>1. \A n \in Int : LoadWords(n) \in {1, 2, 4}
  BY DEF LoadWords
<1>2. ins.op \in Operations \cup {"LABEL"} /\ ins.src1 \in Operand /\ ins.src2 \in Operand
  BY DEF InsnSet
<1>3. ins.src1.src \in Int /\ ins.src2.src \in Int
  BY <1>2 DEF Operand
<1>4. ScratchNumber(ins) \in Int /\ -ins.src1.src \in Int
  BY <1>3 DEF ScratchNumber
<1> HIDE DEF LoadWords
<1>5. CASE ins.op \in {"LABEL", "JMP", "JE", "CALL"}
  BY <1>5 DEF Words
<1>6. CASE ins.op = "RET"
  <2>1. Words(ins) = IF ins.src1.is_num THEN LoadWords(ins.src1.src) + 1 ELSE 2
    BY <1>6 DEF Words
  <2>2. LoadWords(ins.src1.src) \in {1, 2, 4}
    BY <1>1, <1>3
  <2> QED
    BY <1>6, <2>1, <2>2
<1>7. CASE ins.op = "MOV"
  <2>1. Words(ins) = IF ins.src1.is_num THEN LoadWords(ins.src1.src) ELSE 1
    BY <1>7 DEF Words
  <2>2. LoadWords(ins.src1.src) \in {1, 2, 4}
    BY <1>1, <1>3
  <2> QED
    BY <1>7, <2>1, <2>2
<1>8. CASE ins.op = "NEG"
  <2>1. Words(ins) = IF ins.src1.is_num THEN LoadWords(-ins.src1.src) ELSE 1
    BY <1>8 DEF Words
  <2>2. LoadWords(-ins.src1.src) \in {1, 2, 4}
    BY <1>1, <1>4
  <2> QED
    BY <1>8, <2>1, <2>2
<1>9. CASE ins.op \notin {"LABEL", "JMP", "JE", "CALL", "RET", "MOV", "NEG"}
  <2>1. Words(ins) = (IF LoadsScratch(ins) THEN LoadWords(ScratchNumber(ins)) ELSE 0)
                        + (IF ins.op \in {"CMP", "DIV"} THEN 2 ELSE 1)
    BY <1>9 DEF Words
  <2>2. LoadWords(ScratchNumber(ins)) \in {1, 2, 4}
    BY <1>1, <1>4
  <2> QED
    BY <1>9, <2>1, <2>2
<1> QED
  BY <1>5, <1>6, <1>7, <1>8, <1>9

LEMMA EncodeFacts ==
    ASSUME insns \in Seq(InsnSet), NEW k \in DOMAIN insns, NEW pos
    PROVE  LET n == Words(insns[k])
           IN  /\ n \in Nat
               /\ DOMAIN Encode(k, pos) = 1 .. n
               /\ Encode(k, pos) = [w \in 1 .. n |-> Encode(k, pos)[w]]
<1> DEFINE ins == insns[k]
<1>1. ins \in InsnSet
  OBVIOUS
<1>2. /\ Words(ins) \in Nat
      /\ ins.op = "LABEL" => Words(ins) = 0
      /\ ins.op = "JMP" => Words(ins) = 1
      /\ ins.op \in {"JE", "CALL"} => Words(ins) = 2
  BY <1>1, WordsFacts
<1>3. CASE ins.op = "LABEL"
  <2>1. Encode(k, pos) = <<>>
    BY <1>3 DEF Encode
  <2> QED
    BY <1>2, <1>3, <2>1
<1>4. CASE ins.op = "JMP"
  <2>1. Encode(k, pos) = <<Word("b", Offset(insns[k].target, pos), k)>>
    BY <1>4 DEF Encode
  <2> QED
    BY <1>2, <1>4, <2>1
<1>5. CASE ins.op = "JE"
  <2>1. Encode(k, pos) = <<Word("cbnz", Offset(insns[k].target, pos), k),
                           Word("b", Offset(insns[k].target2, pos + 1), k)>>
    BY <1>5 DEF Encode, EncodeJe
  <2> QED
    BY <1>2, <1>5, <2>1
<1>6. CASE ins.op = "CALL"
  <2>1. Encode(k, pos) = <<Word("bl", Offset(insns[k].target, pos), k), Word("plain", 0, k)>>
    BY <1>6 DEF Encode
  <2> QED
    BY <1>2, <1>6, <2>1
<1>7. CASE ins.op \notin {"LABEL", "JMP", "JE", "CALL"}
  <2>1. Encode(k, pos) = [w \in 1 .. Words(insns[k]) |-> Word("plain", 0, k)]
    BY <1>7 DEF Encode
  <2> QED
    BY <1>2, <1>7, <2>1
<1> QED
  BY <1>3, <1>4, <1>5, <1>6, <1>7

LEMMA PositionFacts ==
    ASSUME insns \in Seq(InsnSet)
    PROVE  LET n == Len(insns)
           IN  /\ n \in Nat /\ DOMAIN insns = 1 .. n
               /\ \A k \in 1 .. n : WordCounts[k] = Words(insns[k]) /\ WordCounts[k] \in Nat
               /\ \A k \in 1 .. n + 1 : Position(k) = SumTo(WordCounts, k - 1) /\ Position(k) \in Nat
               /\ Position(1) = 0
               /\ \A k \in 1 .. n : Position(k + 1) = Position(k) + Words(insns[k])
<1> DEFINE n == Len(insns)
<1>1. n \in Nat /\ DOMAIN insns = 1 .. n
  OBVIOUS
<1>2. \A k \in 1 .. n : WordCounts[k] = Words(insns[k])
  BY <1>1 DEF WordCounts
<1>3. \A k \in 1 .. n : WordCounts[k] \in Nat
  <2> SUFFICES ASSUME NEW k \in 1 .. n PROVE WordCounts[k] \in Nat
    OBVIOUS
  <2>1. insns[k] \in InsnSet
    BY <1>1
  <2> QED
    BY <1>2, <2>1, WordsFacts
<1>4. \A k : Position(k) = SumTo(WordCounts, k - 1)
  BY DEF Position, WordCounts
<1> HIDE DEF n
<1>5. /\ SumTo(WordCounts, 0) = 0
      /\ \A k \in 1 .. n : SumTo(WordCounts, k) = SumTo(WordCounts, k - 1) + WordCounts[k]
      /\ \A k \in 0 .. n : SumTo(WordCounts, k) \in Nat
  BY <1>1, <1>3, Sums
<1>6. \A k \in 1 .. n + 1 : k - 1 \in 0 .. n
  BY <1>1
<1>7. Position(1) = 0
  <2>1. 1 - 1 = 0
    OBVIOUS
  <2> QED
    BY <1>4, <1>5, <2>1
<1>8. \A k \in 1 .. n : Position(k + 1) = Position(k) + Words(insns[k])
  <2> SUFFICES ASSUME NEW k \in 1 .. n PROVE Position(k + 1) = Position(k) + Words(insns[k])
    OBVIOUS
  <2>1. (k + 1) - 1 = k
    BY <1>1
  <2>2. Position(k + 1) = SumTo(WordCounts, k)
    BY <1>4, <2>1
  <2> QED
    BY <1>2, <1>4, <1>5, <2>2
<1> QED
  BY <1>1, <1>2, <1>3, <1>4, <1>5, <1>6, <1>7, <1>8 DEF n

\* What the second pass makes: the words of the instructions, one behind the
\* other, each encoded for the position it gets.
LEMMA WordsPlaced ==
    ASSUME insns \in Seq(InsnSet), SecondPass
    PROVE  LiesIn(out', WordCode, WordCounts, Len(insns))
<1> DEFINE n == Len(insns)
           T == UNION {Range(Encode(k, pos)) : k \in DOMAIN insns, pos \in Nat}
           after == CHOOSE g : g = [k \in 0 .. n |->
                       IF k = 0 THEN <<>> ELSE g[k - 1] \o Encode(k, Len(g[k - 1]))]
           step == [k \in 1 .. n |-> [v \in Seq(T) |-> v \o Encode(k, Len(v))]]
<1>1. out' = after[n]
  BY DEF SecondPass
<1>2. n \in Nat /\ DOMAIN insns = 1 .. n
  BY PositionFacts
<1>3. ASSUME NEW k \in 1 .. n, NEW pos \in Nat
      PROVE  Encode(k, pos) \in Seq(T) /\ Len(Encode(k, pos)) = Words(insns[k])
  <2>1. k \in DOMAIN insns
    BY <1>2
  <2> DEFINE m == Words(insns[k])
             e == Encode(k, pos)
  <2>2. m \in Nat /\ DOMAIN e = 1 .. m /\ e = [w \in 1 .. m |-> e[w]]
    BY <2>1, EncodeFacts
  <2>3. Range(e) \subseteq T
    BY <2>1
  <2> HIDE DEF e, m, T
  <2>4. \A w \in 1 .. m : e[w] \in T
    BY <2>2, <2>3 DEF Range
  <2>5. e \in Seq(T) /\ Len(e) = m
    BY <2>2, <2>4
  <2> QED
    BY <2>5 DEF e, m
<1> HIDE DEF T
<1>4. step \in [1 .. n -> [Seq(T) -> Seq(T)]]
  <2>1. ASSUME NEW k \in 1 .. n, NEW v \in Seq(T) PROVE v \o Encode(k, Len(v)) \in Seq(T)
    <3>1. Len(v) \in Nat
      BY LenProperties
    <3>2. Encode(k, Len(v)) \in Seq(T)
      BY <1>3, <3>1
    <3> QED
      BY <3>2
  <2> QED
    BY <2>1
<1>5. PICK f \in [0 .. n -> Seq(T)] : Solves(f, <<>>, step, n)
  <2>1. <<>> \in Seq(T)
    OBVIOUS
  <2> HIDE DEF step, n
  <2> QED
    BY <1>2, <1>4, <2>1, SolutionExists
<1>6. f = [k \in 0 .. n |-> IF k = 0 THEN <<>> ELSE f[k - 1] \o Encode(k, Len(f[k - 1]))]
  <2>1. f[0] = <<>>
    BY <1>5 DEF Solves
  <2>2. ASSUME NEW k \in 1 .. n PROVE f[k] = f[k - 1] \o Encode(k, Len(f[k - 1]))
    <3>0. k - 1 \in 0 .. n
      BY <1>2
    <3>1. f[k] = step[k][f[k - 1]] /\ f[k - 1] \in Seq(T)
      <4> HIDE DEF step, n
      <4> QED
        BY <1>5, <3>0 DEF Solves
    <3>2. step[k] = [v \in Seq(T) |-> v \o Encode(k, Len(v))]
      OBVIOUS
    <3> HIDE DEF step
    <3> QED
      BY <3>1, <3>2
  <2>3. \A k \in 0 .. n : k = 0 \/ k \in 1 .. n
    BY <1>2
  <2> HIDE DEF step, n
  <2>4. \A k \in 0 .. n : f[k] = IF k = 0 THEN <<>> ELSE f[k - 1] \o Encode(k, Len(f[k - 1]))
    BY ZenonT(45), <1>2, <2>1, <2>2, <2>3
  <2> QED
    BY <2>4
<1> HIDE DEF step
<1>7. after = [k \in 0 .. n |-> IF k = 0 THEN <<>> ELSE after[k - 1] \o Encode(k, Len(after[k - 1]))]
  BY ZenonT(45), <1>6
<1> HIDE DEF after
\* The position counted and the words written agree.
<1> DEFINE Right == {k \in Nat : k <= n => after[k] \in Seq(T) /\ Len(after[k]) = SumTo(WordCounts, k)}
<1>8. /\ \A k \in 1 .. n : WordCounts[k] = Words(insns[k]) /\ WordCounts[k] \in Nat
      /\ \A k \in 1 .. n + 1 : Position(k) = SumTo(WordCounts, k - 1) /\ Position(k) \in Nat
      /\ SumTo(WordCounts, 0) = 0
      /\ \A k \in 1 .. n : SumTo(WordCounts, k) = SumTo(WordCounts, k - 1) + WordCounts[k]
  <2>1. /\ \A k \in 1 .. n : WordCounts[k] = Words(insns[k]) /\ WordCounts[k] \in Nat
        /\ \A k \in 1 .. n + 1 : Position(k) = SumTo(WordCounts, k - 1) /\ Position(k) \in Nat
    BY PositionFacts
  <2> HIDE DEF n
  <2> QED
    BY <1>2, <2>1, Sums
<1>9. ASSUME NEW k \in 1 .. n, after[k - 1] \in Seq(T), Len(after[k - 1]) = SumTo(WordCounts, k - 1)
      PROVE  /\ after[k] = after[k - 1] \o Encode(k, Position(k))
             /\ after[k] \in Seq(T)
             /\ Len(after[k]) = SumTo(WordCounts, k)
  <2>0. k \in 0 .. n /\ k # 0 /\ k \in 1 .. n + 1
    BY <1>2
  <2>1. Position(k) = Len(after[k - 1]) /\ Position(k) \in Nat
    BY <1>8, <1>9, <2>0
  <2>2. after[k] = after[k - 1] \o Encode(k, Position(k))
    BY <1>7, <2>0, <2>1
  <2> DEFINE u == after[k - 1]
             v == Encode(k, Position(k))
  <2>3. u \in Seq(T) /\ v \in Seq(T)
    BY <1>3, <1>9, <2>1
  <2>4. Len(v) = WordCounts[k]
    BY <1>3, <1>8, <2>1
  <2> HIDE DEF u, v
  <2>5. u \o v \in Seq(T) /\ Len(u \o v) = Len(u) + Len(v)
    BY <2>3, Behind
  <2>6. Len(u) = SumTo(WordCounts, k - 1)
    BY <1>9 DEF u
  <2>7. after[k] = u \o v
    BY <2>2 DEF u, v
  <2> QED
    BY <1>8, <2>2, <2>4, <2>5, <2>6, <2>7
<1>10. 0 \in Right
  BY <1>2, <1>7, <1>8
<1>11. ASSUME NEW k \in Right PROVE k + 1 \in Right
  <2> SUFFICES ASSUME k + 1 <= n
               PROVE  after[k + 1] \in Seq(T) /\ Len(after[k + 1]) = SumTo(WordCounts, k + 1)
    OBVIOUS
  <2>1. k \in Nat /\ after[k] \in Seq(T) /\ Len(after[k]) = SumTo(WordCounts, k)
    BY <1>2
  <2>2. k + 1 \in 1 .. n /\ (k + 1) - 1 = k
    BY <1>2, <2>1
  <2> HIDE DEF Right
  <2> QED
    BY <1>9, <2>1, <2>2
<1>12. \A k \in 0 .. n : after[k] \in Seq(T) /\ Len(after[k]) = SumTo(WordCounts, k)
  <2>1. Right \in SUBSET Nat
    OBVIOUS
  <2>2. \A k \in Nat : k \in Right
    <3> HIDE DEF Right
    <3> QED
      BY <1>10, <1>11, <2>1, CountingUp
  <2> SUFFICES ASSUME NEW k \in 0 .. n
               PROVE  after[k] \in Seq(T) /\ Len(after[k]) = SumTo(WordCounts, k)
    OBVIOUS
  <2>3. k \in Nat /\ k <= n
    BY <1>2
  <2>4. k \in Right
    BY <2>2, <2>3
  <2> QED
    BY <2>3, <2>4
<1> HIDE DEF Right
<1>13. Joins(after, WordCode, WordCounts, n, T)
  <2>1. ASSUME NEW k \in 1 .. n
        PROVE  /\ WordCode[k] \in Seq(T) /\ WordCounts[k] = Len(WordCode[k])
               /\ after[k] = after[k - 1] \o WordCode[k]
    <3>1. k \in DOMAIN insns /\ k - 1 \in 0 .. n /\ k \in 1 .. n + 1
      BY <1>2
    <3>2. WordCode[k] = Encode(k, Position(k)) /\ Position(k) \in Nat
      BY <1>8, <3>1 DEF WordCode
    <3>3. after[k] = after[k - 1] \o Encode(k, Position(k))
      BY <1>9, <1>12, <3>1
    <3>4. Encode(k, Position(k)) \in Seq(T) /\ Len(Encode(k, Position(k))) = WordCounts[k]
      BY <1>3, <1>8, <3>2
    <3> QED
      BY <3>2, <3>3, <3>4
  <2>2. after \in [0 .. n -> Seq(T)]
    <3>1. DOMAIN after = 0 .. n /\ after = [k \in 0 .. n |-> after[k]]
      BY <1>7
    <3> QED
      BY <1>12, <3>1
  <2>3. after[0] = <<>>
    BY <1>2, <1>7
  <2> QED
    BY <2>1, <2>2, <2>3 DEF Joins
<1>14. n \in 0 .. n
  BY <1>2
<1> HIDE DEF n
<1>15. LiesIn(after[n], WordCode, WordCounts, n)
  BY <1>2, <1>13, <1>14, Joined
<1> QED
  BY <1>1, <1>15 DEF n

LEMMA WordInvInit == AsmInit => WordInv
BY DEF AsmInit, WordInv

\* Only code generation runs before it is done, and only the assembler after.
LEMMA WordInvStep ==
    ASSUME CodeInv, WordInv, AsmNext \/ UNCHANGED asmVars
    PROVE  WordInv'
<1>1. CASE Compile
  <2>1. /\ pass = "first" /\ main_index = 0 /\ pass' = pass /\ main_index' = main_index
    <3>1. stage # "compiled"
      BY <1>1 DEF Compile, Next, OrderFunctions, AssignSlot, SlotsAssigned, LabelFunction, LabelsDone,
                  CompileFunction, CompileEnd
    <3> QED
      BY <1>1, <3>1 DEF Compile, wordVars, WordInv
  <2> QED
    BY <2>1 DEF WordInv
<1>2. CASE FirstPass
  <2>0. UNCHANGED codeVars /\ stage = "compiled" /\ main_index' = main_index /\ pass = "first" /\ pass' = "second"
        /\ label_addr' = [label \in Labels |-> Position(LabelIndex(label))]
    BY <1>2 DEF FirstPass
  <2>1. /\ \A k : Position(k)' = Position(k)
        /\ Labels' = Labels /\ \A label : LabelIndex(label)' = LabelIndex(label)
        /\ stage' = stage
    BY <2>0, CodeKept
  <2>2. label_addr' = [label \in Labels' |-> Position(LabelIndex(label))']
    <3>1. \A label : Position(LabelIndex(label))' = Position(LabelIndex(label))
      BY <2>0 DEF codeVars, Position, SumTo, LabelIndex
    <3> QED
      BY <2>0, <2>1, <3>1
  <2>3. main_index' = 0
    BY <2>0 DEF WordInv
  <2> QED
    BY <2>0, <2>1, <2>2, <2>3 DEF WordInv
<1>3. ASSUME UNCHANGED codeVars, label_addr' = label_addr, pass # "first"
      PROVE  label_addr' = [label \in Labels' |-> Position(LabelIndex(label))'] /\ stage' = "compiled"
  <2>1. label_addr = [label \in Labels |-> Position(LabelIndex(label))] /\ stage = "compiled"
    BY <1>3 DEF WordInv
  <2>2. Labels' = Labels /\ stage' = stage
    BY <1>3, CodeKept
  <2>3. \A label : Position(LabelIndex(label))' = Position(LabelIndex(label))
    BY <1>3 DEF codeVars, Position, SumTo, LabelIndex
  <2> QED
    BY <1>3, <2>1, <2>2, <2>3
<1>4. CASE SecondPass
  <2>0. UNCHANGED codeVars /\ label_addr' = label_addr /\ main_index' = main_index /\ pass = "second"
        /\ pass' = "split"
    BY <1>4 DEF SecondPass
  <2>1. LiesIn(out', WordCode, WordCounts, Len(insns))
    BY <1>4, WordsPlaced DEF CodeInv, PiecesInv
  <2>2. WordCode' = WordCode /\ WordCounts' = WordCounts /\ insns' = insns
    BY <2>0, CodeKept, CodeWordsKept
  <2>3. LiesIn(out', WordCode', WordCounts', Len(insns'))
    BY <2>1, <2>2
  <2>4. main_index' = 0
    BY <2>0 DEF WordInv
  <2> QED
    BY <1>3, <2>0, <2>3, <2>4 DEF WordInv
<1>5. CASE SplitBytes
  <2>0. /\ UNCHANGED codeVars /\ label_addr' = label_addr /\ out' = out /\ pass = "split"
        /\ piece_borders' = [o \in 1 .. Len(program) + 1 |->
                                IF o <= Len(program) THEN Position(starts[o] + 1)
                                ELSE Position(Len(insns) + 1)]
        /\ \/ pass' = "no main" /\ main_index' = main_index
           \/ pass' = "append" /\ main_index' = Max(Declared("main")) /\ Declared("main") # {}
    BY <1>5 DEF SplitBytes
  <2>1. LiesIn(out, WordCode, WordCounts, Len(insns)) /\ stage = "compiled" /\ main_index = 0
    BY <2>0 DEF WordInv
  <2>2. /\ WordCode' = WordCode /\ WordCounts' = WordCounts /\ Places' = Places
        /\ UNCHANGED <<program, stage, starts, insns>>
    BY <2>0, CodeKept, CodeWordsKept
  <2>3. LiesIn(out', WordCode', WordCounts', Len(insns'))
    BY <2>0, <2>1, <2>2
  <2>4. \A o : Position(starts[o] + 1)' = Position(starts[o] + 1)
        /\ Position(Len(insns) + 1)' = Position(Len(insns) + 1)
    <3>1. insns' = insns /\ starts' = starts
      BY <2>0 DEF codeVars
    <3> QED
      BY <3>1 DEF Position, SumTo
  <2>5. piece_borders' = [o \in 1 .. Len(program') + 1 |->
                              IF o <= Len(program') THEN Position(starts[o] + 1)'
                              ELSE Position(Len(insns) + 1)']
    BY <2>0, <2>2, <2>4
  <2>6. CASE pass' = "no main" /\ main_index' = main_index
    BY <1>3, <2>0, <2>1, <2>6 DEF WordInv
  <2>7. CASE pass' = "append" /\ main_index' = Max(Declared("main")) /\ Declared("main") # {}
    <3>1. program \in Programs /\ order = MainFirst
      BY <2>1 DEF CodeInv, OrderInv
    <3>2. \A o \in Declared("main") : o = 1
      BY <3>1, FunctionFacts DEF Declared
    <3>3. Declared("main") = {1} /\ 1 \in Places
      BY <2>7, <3>2 DEF Declared
    <3>4. Max(Declared("main")) = 1
      BY <3>3 DEF Max
    <3>5. main_index' = 1 /\ 1 \in Places'
      BY <2>2, <2>7, <3>3, <3>4
    <3> QED
      BY <1>3, <2>0, <2>3, <2>5, <2>7, <3>5 DEF WordInv
  <2> QED
    BY <2>0, <2>6, <2>7
<1>6. ASSUME UNCHANGED <<codeVars, label_addr, out, piece_borders, main_index>>,
             pass \in {"append", "written"}
      PROVE  /\ LiesIn(out', WordCode', WordCounts', Len(insns'))
             /\ main_index' = 1 /\ 1 \in Places'
             /\ piece_borders' = [o \in 1 .. Len(program') + 1 |->
                                     IF o <= Len(program') THEN Position(starts[o] + 1)'
                                     ELSE Position(Len(insns) + 1)']
             /\ \A o : PieceWords(o)' = PieceWords(o)
             /\ Others' = Others
  <2>1. /\ LiesIn(out, WordCode, WordCounts, Len(insns)) /\ main_index = 1 /\ 1 \in Places
        /\ piece_borders = [o \in 1 .. Len(program) + 1 |->
                                  IF o <= Len(program) THEN Position(starts[o] + 1)
                                  ELSE Position(Len(insns) + 1)]
    BY <1>6 DEF WordInv
  <2>2. /\ WordCode' = WordCode /\ WordCounts' = WordCounts /\ Places' = Places
        /\ UNCHANGED <<program, stage, starts, insns>>
    BY <1>6, CodeKept, CodeWordsKept
  <2>3. \A o : Position(starts[o] + 1)' = Position(starts[o] + 1)
        /\ Position(Len(insns) + 1)' = Position(Len(insns) + 1)
    BY <1>6 DEF codeVars, Position, SumTo
  <2>4. piece_borders' = [o \in 1 .. Len(program') + 1 |->
                              IF o <= Len(program') THEN Position(starts[o] + 1)'
                              ELSE Position(Len(insns) + 1)']
    BY <1>6, <2>1, <2>2, <2>3
  <2>5. LiesIn(out', WordCode', WordCounts', Len(insns'))
    BY <1>6, <2>1, <2>2
  <2>6. (\A o : PieceWords(o)' = PieceWords(o)) /\ Others' = Others
    BY <1>6, <2>2 DEF PieceWords, Others
  <2> QED
    BY <1>6, <2>1, <2>2, <2>4, <2>5, <2>6
<1>7. CASE WriteText
  <2>0. /\ UNCHANGED <<codeVars, label_addr, out, piece_borders, main_index>> /\ pass = "append"
        /\ pass' = "written"
        /\ text' = EntryCode \o PieceWords(main_index)
                       \o FlattenSeq([n \in DOMAIN Others |-> PieceWords(Others[n])])
    BY <1>7 DEF WriteText
  <2>1. main_index = 1
    BY <2>0 DEF WordInv
  <2>2. text' = EntryCode \o PieceWords(1)'
                    \o FlattenSeq([n \in DOMAIN Others' |-> PieceWords(Others[n])'])
    <3>1. UNCHANGED <<out, piece_borders, main_index, program>>
      BY <2>0 DEF codeVars
    <3>2. \A n : PieceWords(Others[n])' = PieceWords(Others[n])
      BY <3>1 DEF PieceWords, Others
    <3>3. PieceWords(1)' = PieceWords(1) /\ Others' = Others
      BY <3>1 DEF PieceWords, Others
    <3> QED
      BY <2>0, <2>1, <3>2, <3>3
  <2> QED
    BY <1>3, <1>6, <2>0, <2>2 DEF WordInv
<1>8. CASE UNCHANGED asmVars
  <2>0. UNCHANGED codeVars /\ UNCHANGED <<pass, label_addr, out, piece_borders, main_index, text>>
    BY <1>8 DEF asmVars, wordVars
  <2>1. stage' = stage /\ insns' = insns
    BY <2>0 DEF codeVars
  <2>2. LiesIn(out, WordCode, WordCounts, Len(insns)) => LiesIn(out', WordCode', WordCounts', Len(insns'))
    <3>1. WordCode' = WordCode /\ WordCounts' = WordCounts
      BY <2>0, CodeKept, CodeWordsKept
    <3> QED
      BY <2>0, <2>1, <3>1
  <2>3. pass = "written" =>
            text' = EntryCode \o PieceWords(1)'
                        \o FlattenSeq([n \in DOMAIN Others' |-> PieceWords(Others[n])'])
    <3> SUFFICES ASSUME pass = "written"
                 PROVE  text' = EntryCode \o PieceWords(1)'
                                    \o FlattenSeq([n \in DOMAIN Others' |-> PieceWords(Others[n])'])
      OBVIOUS
    <3>0. text = EntryCode \o PieceWords(1) \o FlattenSeq([n \in DOMAIN Others |-> PieceWords(Others[n])])
      BY DEF WordInv
    <3>1. UNCHANGED <<out, piece_borders, main_index, program>>
      BY <2>0 DEF codeVars
    <3>2. \A n : PieceWords(Others[n])' = PieceWords(Others[n])
      BY <3>1 DEF PieceWords, Others
    <3>3. PieceWords(1)' = PieceWords(1) /\ Others' = Others
      BY <3>1 DEF PieceWords, Others
    <3> QED
      BY <2>0, <3>0, <3>2, <3>3
  <2> QED
    BY <1>3, <1>6, <2>0, <2>1, <2>2, <2>3 DEF WordInv
<1> QED
  BY <1>1, <1>2, <1>4, <1>5, <1>7, <1>8 DEF AsmNext

LEMMA AsmTypes ==
    ASSUME CodeInv, WordInv
    PROVE  AsmTypeOK
<1>1. program \in Programs /\ Len(program) \in Nat
  <2>1. program \in Programs
    BY DEF CodeInv, OrderInv
  <2> QED
    BY <2>1, ProgramFacts
<1>2. order \in Seq(Places) /\ Cardinality(Range(order)) = Len(order)
  <2>1. CASE stage = "order"
    <3>1. order = <<>>
      BY <2>1 DEF CodeInv, OrderInv
    <3>2. Range(order) = {}
      BY <3>1 DEF Range
    <3> QED
      BY <3>1, <3>2, FS_EmptySet
  <2>2. CASE stage # "order"
    <3>1. order = MainFirst
      BY <2>2 DEF CodeInv, OrderInv
    <3>2. order \in Seq(Places) /\ Len(order) = Len(program) /\ Range(order) = 1 .. Len(program)
      BY <1>1, <3>1, FunctionFacts DEF Places
    <3>3. Cardinality(1 .. Len(program)) = Len(program)
      <4>1. Cardinality(1 .. Len(program)) = IF 1 > Len(program) THEN 0 ELSE Len(program) - 1 + 1
        BY SMTT(45), <1>1, FS_Interval
      <4> QED
        BY <1>1, <4>1
    <3> QED
      BY <3>2, <3>3
  <2> QED
    BY <2>1, <2>2
<1>3. slots \in Seq(Range(SlotPool) \cup {-1})
  <2>1. SlotNumbers = Range(SlotPool) \cup {-1}
    <3>1. SlotPool = <<16, 17, 18>> /\ DOMAIN SlotPool = 1 .. 3
      BY DEF SlotPool
    <3>2. Range(SlotPool) = {SlotPool[1], SlotPool[2], SlotPool[3]}
      BY <3>1 DEF Range
    <3> QED
      BY <3>1, <3>2 DEF SlotNumbers
  <2> QED
    BY <2>1 DEF CodeInv, SlotsInv
<1>4. \A k \in DOMAIN insns : insns[k].reg \in Nat
  <2>1. \A k \in DOMAIN insns : insns[k] \in InsnSet
    BY DEF CodeInv, PiecesInv
  <2> QED
    BY <2>1 DEF InsnSet
<1>5. main_index \in 0 .. Len(program)
  <2>1. main_index = 0 \/ (main_index = 1 /\ 1 \in Places)
    BY DEF WordInv
  <2>2. 1 \in Places => 1 <= Len(program)
    BY <1>1 DEF Places
  <2> QED
    BY <1>1, <2>1, <2>2
<1>6. label_base \in Seq(Nat) /\ starts \in Seq(0 .. Len(insns))
  BY DEF CodeInv, LabelsInv, PiecesInv
<1> QED
  BY <1>2, <1>3, <1>4, <1>5, <1>6 DEF AsmTypeOK, CodeInv, OrderInv, WordInv

LEMMA BuffersCounted ==
    ASSUME CodeInv
    PROVE  BuffersFilled
BY ReadyFacts, PieceCounted DEF BuffersFilled

\* No step of a run disturbs code generation or assembly.
LEMMA AsmOfRun ==
    ASSUME RunNext \/ UNCHANGED <<asmVars, runVars>>
    PROVE  AsmNext \/ UNCHANGED asmVars
BY DEF RunNext, Assemble, StartProgram, Instructions, Pass, Move, Compute, Jump, Branch, CallFunction,
       ReturnFunction

LEMMA AsmStep ==
    ASSUME CodeInv, WordInv, AsmNext \/ UNCHANGED asmVars
    PROVE  CodeInv' /\ WordInv'
<1>1. Next \/ UNCHANGED codeVars
  BY DEF AsmNext, Compile, FirstPass, SecondPass, SplitBytes, WriteText, asmVars
<1> QED
  BY <1>1, CodeInvStep, WordInvStep

\* In every run of every program each function fills the buffer that
\* count_instructions has sized for it, to the last instruction.
THEOREM EveryBufferFilled == RunSpec => []BuffersFilled
<1>1. RunInit => CodeInv /\ WordInv
  BY CodeInvInit, WordInvInit DEF RunInit, AsmInit
<1>2. CodeInv /\ WordInv /\ [RunNext]_<<asmVars, runVars>> => (CodeInv /\ WordInv)'
  BY AsmOfRun, AsmStep
<1>3. CodeInv => BuffersFilled
  BY BuffersCounted
<1> QED
  BY <1>1, <1>2, <1>3, PTL DEF RunSpec

-----------------------------------------------------------------------------
(* The shape of the code *)

\* Label numbers of different blocks, of one function or two, are different.
LEMMA BasesGrow ==
    ASSUME CodeInv, stage = "compiled"
    PROVE  \A o, p \in Places : o < p => label_base[o] + Len(FunctionAt(o).blocks) <= label_base[p]
<1>1. Ready /\ Len(program) \in Nat
  <2>1. Ready
    BY ReadyFacts
  <2> QED
    BY <2>1, ProgramFacts DEF Ready
<1>2. /\ Len(label_base) = Len(program) + 1
      /\ \A o \in 1 .. Len(label_base) - 1 : label_base[o + 1] = label_base[o] + Len(FunctionAt(o).blocks)
  BY DEF CodeInv, LabelsInv
<1> DEFINE n == Len(program)
           size == [o \in 1 .. n |-> Len(FunctionAt(o).blocks)]
<1>3. \A o \in 1 .. n : size[o] = Len(FunctionAt(o).blocks) /\ size[o] \in Nat
  <2> SUFFICES ASSUME NEW o \in 1 .. n PROVE Len(FunctionAt(o).blocks) \in Nat
    OBVIOUS
  <2>1. FunctionAt(o).blocks \in Seq(BlockSet)
    BY <1>1, FunctionFacts DEF Places, Ready
  <2> QED
    BY <2>1, LenProperties
<1>4. \A o \in 1 .. n : label_base[o + 1] = label_base[o] + size[o]
  <2>1. Len(label_base) - 1 = n
    BY <1>1, <1>2
  <2> QED
    BY <1>2, <1>3, <2>1
<1>5. \A o \in 1 .. n : label_base[o] \in Nat
  BY <1>1 DEF Ready, Places
<1>6. \A o, p \in 1 .. n : o < p => label_base[o] + size[o] <= label_base[p]
  <2>1. n \in Nat
    BY <1>1
  <2> HIDE DEF size, n
  <2> QED
    BY <1>3, <1>4, <1>5, <2>1, Stacked
<1> QED
  BY <1>3, <1>6 DEF Places

Blocks(o) == 1 .. Len(FunctionAt(o).blocks)

LEMMA LabelsDiffer ==
    ASSUME CodeInv, stage = "compiled",
           NEW o \in Places, NEW p \in Places, NEW b \in Blocks(o), NEW c \in Blocks(p),
           LabelOf(o, b - 1) = LabelOf(p, c - 1)
    PROVE  o = p /\ b = c
<1>1. Ready
  BY ReadyFacts
<1>2. label_base[o] \in Nat /\ label_base[p] \in Nat
  BY <1>1 DEF Ready
<1>3. Len(FunctionAt(o).blocks) \in Nat /\ Len(FunctionAt(p).blocks) \in Nat
  <2>1. FunctionAt(o).blocks \in Seq(BlockSet) /\ FunctionAt(p).blocks \in Seq(BlockSet)
    BY <1>1, FunctionFacts DEF Ready
  <2> QED
    BY <2>1, LenProperties
<1>4. b \in Nat /\ b >= 1 /\ c \in Nat /\ c >= 1
      /\ b <= Len(FunctionAt(o).blocks) /\ c <= Len(FunctionAt(p).blocks)
  BY <1>3 DEF Blocks
<1>5. label_base[o] + (b - 1) = label_base[p] + (c - 1)
  BY DEF LabelOf
<1>6. o \in Nat /\ p \in Nat
  BY DEF Places
<1>7. ~ (o < p)
  <2>1. o < p => label_base[o] + Len(FunctionAt(o).blocks) <= label_base[p]
    BY BasesGrow
  <2> QED
    BY SMTT(45), <1>2, <1>3, <1>4, <1>5, <2>1
<1>8. ~ (p < o)
  <2>1. p < o => label_base[p] + Len(FunctionAt(p).blocks) <= label_base[o]
    BY BasesGrow
  <2> QED
    BY <1>2, <1>3, <1>4, <1>5, <2>1
<1>9. o = p
  BY <1>6, <1>7, <1>8
<1> QED
  BY <1>2, <1>4, <1>5, <1>9

\* An instruction that stands for a quad, or for the jump of a block: its
\* labels are those of later blocks, it calls what the function may call, and
\* it writes what register allocation or the calling convention may use.
GoodLabel(o, b, label) == \E c \in Blocks(o) : c > b /\ label = LabelOf(o, c - 1)
TakesAddress(o) == Mov(LinkRegister, PhysReg(slots[o]))

BodyInsn(o, b, ins) ==
    /\ ins.op # "LABEL"
    /\ ins.op = "JMP" => GoodLabel(o, b, ins.target)
    /\ ins.op = "JE" => GoodLabel(o, b, ins.target) /\ GoodLabel(o, b, ins.target2)
    /\ ins.op = "CALL" => HasCall(FunctionAt(o)) /\ \E p \in Callees(o) : ins.target = LabelOf(p, 0)
    /\ Fits /\ ins.op \notin {"JMP", "JE", "RET"} =>
           ins.reg \in Pool \/ (slots[o] >= 0 /\ ins = TakesAddress(o))

LEMMA LabelsGood ==
    ASSUME Ready, NEW o \in Places, NEW b \in Blocks(o), NEW t \in b .. Len(FunctionAt(o).blocks) - 1
    PROVE  GoodLabel(o, b, LabelOf(o, t))
<1>1. Len(FunctionAt(o).blocks) \in Nat
  <2>1. FunctionAt(o).blocks \in Seq(BlockSet)
    BY FunctionFacts DEF Ready
  <2> QED
    BY <2>1, LenProperties
<1>2. t + 1 \in Blocks(o) /\ t + 1 > b /\ (t + 1) - 1 = t
  BY <1>1 DEF Blocks
<1> QED
  BY <1>2 DEF GoodLabel

LEMMA PlainShape ==
    ASSUME Ready, NEW o \in Places, NEW b \in DOMAIN FunctionAt(o).blocks,
           NEW q \in DOMAIN FunctionAt(o).blocks[b].quads,
           FunctionAt(o).blocks[b].quads[q].operation # "CALL"
    PROVE  LET block == FunctionAt(o).blocks[b]
               quad == block.quads[q]
           IN  /\ BodyInsn(o, b, EmitPlain(o, block, quad))
               /\ EmitPlain(o, block, quad).op = quad.operation
<1> DEFINE block == FunctionAt(o).blocks[b]
           quad == block.quads[q]
           ins == EmitPlain(o, block, quad)
<1>1. /\ block \in BlockSet /\ quad \in QuadSet /\ quad \in QuadsIn(FunctionAt(o))
      /\ b \in Blocks(o)
  BY BlockFacts DEF Blocks
<1>2. /\ ins.op = quad.operation /\ ins.reg = quad.result
      /\ ins.target = PlainTarget(o, block, quad) /\ ins.target2 = PlainTarget2(o, block, quad)
  BY EmittedPlain, Fields
<1>3. quad.operation \in Operations
  BY <1>1 DEF QuadSet
<1>4. JumpsAhead(FunctionAt(o))
  BY FunctionFacts DEF Ready
<1>5. HasQuad(block, quad.operation)
  BY DEF HasQuad
<1>6. quad.operation = "JMP" => GoodLabel(o, b, ins.target)
  <2> SUFFICES ASSUME quad.operation = "JMP" PROVE GoodLabel(o, b, ins.target)
    OBVIOUS
  <2>1. block.jmp_target \in b .. Len(FunctionAt(o).blocks) - 1
    BY <1>4, <1>5 DEF JumpsAhead
  <2>2. ins.target = LabelOf(o, block.jmp_target)
    BY <1>2 DEF PlainTarget
  <2> QED
    BY <1>1, <2>1, <2>2, LabelsGood
<1>7. quad.operation = "JE" => GoodLabel(o, b, ins.target) /\ GoodLabel(o, b, ins.target2)
  <2> SUFFICES ASSUME quad.operation = "JE" PROVE GoodLabel(o, b, ins.target) /\ GoodLabel(o, b, ins.target2)
    OBVIOUS
  <2>1. {block.true_target_je, block.false_target_je} \subseteq b .. Len(FunctionAt(o).blocks) - 1
    BY <1>4, <1>5 DEF JumpsAhead
  <2>2. ins.target = LabelOf(o, block.true_target_je) /\ ins.target2 = LabelOf(o, block.false_target_je)
    BY <1>2 DEF PlainTarget, PlainTarget2
  <2>3. block.true_target_je \in b .. Len(FunctionAt(o).blocks) - 1
        /\ block.false_target_je \in b .. Len(FunctionAt(o).blocks) - 1
    BY <2>1
  <2> QED
    BY SMTT(45), <1>1, <2>2, <2>3, LabelsGood
<1>8. Fits => ins.reg \in Pool
  BY <1>1, <1>2 DEF Fits
<1> HIDE DEF ins
<1>9. BodyInsn(o, b, ins)
  BY SMTT(45), <1>2, <1>3, <1>6, <1>7, <1>8 DEF BodyInsn, Operations
<1> QED
  BY <1>2, <1>9 DEF ins

LEMMA QuadShape ==
    ASSUME Ready, NEW o \in Places, Unresolved(o) = {}, NEW b \in DOMAIN FunctionAt(o).blocks,
           NEW q \in DOMAIN FunctionAt(o).blocks[b].quads
    PROVE  LET code == EmitQuad(o, FunctionAt(o).blocks[b], FunctionAt(o).blocks[b].quads[q])
           IN  \A i \in 1 .. Len(code) :
                   /\ BodyInsn(o, b, code[i])
                   /\ code[i].op = "RET" /\ slots[o] >= 0 => i > 1 /\ code[i - 1] = TakesAddress(o)
<1> DEFINE block == FunctionAt(o).blocks[b]
           quad == block.quads[q]
           code == EmitQuad(o, block, quad)
<1>1. quad \in QuadSet /\ quad \in QuadsIn(FunctionAt(o))
  BY BlockFacts
<1>a. quad.operation # "CALL" => /\ BodyInsn(o, b, EmitPlain(o, block, quad))
                                 /\ EmitPlain(o, block, quad).op = quad.operation
  BY PlainShape
<1> HIDE DEF block, quad
<1>2. CASE quad.operation = "CALL"
  <2> DEFINE args == quad.args
             moves == [a \in DOMAIN args |-> Mov(a - 1, args[a])]
             call == Insn("CALL", Absent, Absent, quad.result, Resolve(quad.callee), 0)
  <2>1. code = moves \o <<call>>
    BY <1>2, Emitted DEF EmitQuad, EmitCall
  <2>2. args \in Seq(Operand) /\ Len(args) \in Nat /\ DOMAIN args = 1 .. Len(args)
    <3>1. args \in Seq(Operand)
      BY <1>1 DEF QuadSet
    <3> HIDE DEF args
    <3> QED
      BY <3>1
  <2>3. Fits => Len(args) <= 16 /\ quad.result \in Pool
    BY <1>1 DEF Fits
  <2>4. PICK p \in Places : p \in Callees(o) /\ Resolve(quad.callee) = LabelOf(p, 0)
    <3>1. Declared(quad.callee) # {}
      BY <1>1, <1>2 DEF Unresolved
    <3>2. PICK p \in Places : Declared(quad.callee) = {p} /\ Resolve(quad.callee) = LabelOf(p, 0)
      BY <3>1, ResolveFacts
    <3>3. p = Min(Declared(quad.callee))
      <4>1. p <= p
        BY DEF Places
      <4> QED
        BY <3>2, <4>1 DEF Min
    <3>4. p \in Callees(o)
      BY <1>1, <1>2, <3>3 DEF Callees
    <3> QED
      BY <3>2, <3>4
  <2>5. call.op = "CALL" /\ call.target = LabelOf(p, 0) /\ call.reg = quad.result
    BY <2>4, Fields
  <2>6. HasCall(FunctionAt(o))
    BY <1>1, <1>2 DEF HasCall
  <2> HIDE DEF args, call
  <2>7. BodyInsn(o, b, call)
    BY <2>3, <2>4, <2>5, <2>6 DEF BodyInsn
  <2>8. ASSUME NEW a \in 1 .. Len(args) PROVE moves[a].op = "MOV" /\ BodyInsn(o, b, moves[a])
    <3>1. moves[a] = Mov(a - 1, args[a])
      BY <2>2
    <3>2. moves[a].op = "MOV" /\ moves[a].reg = a - 1
      BY <3>1, MoveFields
    <3>3. Fits => a - 1 \in Pool
      BY <2>2, <2>3 DEF Pool
    <3> HIDE DEF moves
    <3> QED
      BY <3>2, <3>3 DEF BodyInsn
  <2>9. moves \in Seq(InsnSet) /\ Len(moves) = Len(args)
    <3>1. \A a \in 1 .. Len(args) : Mov(a - 1, args[a]) \in InsnSet
      <4> SUFFICES ASSUME NEW a \in 1 .. Len(args) PROVE Mov(a - 1, args[a]) \in InsnSet
        OBVIOUS
      <4>1. a - 1 \in Nat /\ args[a] \in Operand
        BY <2>2
      <4> QED
        BY <4>1, Moves
    <3> QED
      BY <2>2, <3>1
  <2> HIDE DEF moves
  <2>10. Len(code) = Len(args) + 1 /\ code[Len(args) + 1] = call
         /\ \A a \in 1 .. Len(args) : code[a] = moves[a]
    <3> DEFINE T == InsnSet \cup {call}
               v == <<call>>
    <3>1. moves \in Seq(T) /\ v \in Seq(T)
      BY <2>9
    <3>2. Len(v) = 1 /\ v[1] = call /\ 1 \in 1 .. Len(v)
      OBVIOUS
    <3> HIDE DEF v, T
    <3>3. /\ Len(moves \o v) = Len(moves) + Len(v)
          /\ \A i \in 1 .. Len(moves) : (moves \o v)[i] = moves[i]
          /\ \A i \in 1 .. Len(v) : (moves \o v)[Len(moves) + i] = v[i]
      BY <3>1, Behind
    <3>4. code = moves \o v
      BY <2>1 DEF v
    <3> HIDE DEF code
    <3> QED
      BY <2>9, <3>2, <3>3, <3>4
  <2> HIDE DEF code
  <2>11. ASSUME NEW i \in 1 .. Len(code)
         PROVE  BodyInsn(o, b, code[i]) /\ code[i].op # "RET"
    <3>1. CASE i = Len(args) + 1
      BY <2>5, <2>7, <2>10, <3>1
    <3>2. CASE i # Len(args) + 1
      <4>1. i \in 1 .. Len(args)
        BY <2>2, <2>10, <3>2
      <4>2. code[i] = moves[i]
        BY <2>10, <4>1
      <4>3. moves[i].op = "MOV" /\ BodyInsn(o, b, moves[i])
        BY <2>8, <4>1
      <4> QED
        BY <4>2, <4>3
    <3> QED
      BY <3>1, <3>2
  <2> QED
    BY <2>11 DEF code, quad, block
<1>3. CASE quad.operation = "RET" /\ slots[o] >= 0
  <2>1. code = <<TakesAddress(o), EmitPlain(o, block, quad)>>
    BY <1>3 DEF EmitQuad, TakesAddress
  <2>2. TakesAddress(o).op = "MOV"
    BY MoveFields DEF TakesAddress
  <2>3. BodyInsn(o, b, TakesAddress(o))
    BY <1>3, <2>2 DEF BodyInsn
  <2>4. BodyInsn(o, b, EmitPlain(o, block, quad))
    BY <1>3, <1>a
  <2>5. Len(code) = 2 /\ code[1] = TakesAddress(o) /\ code[2] = EmitPlain(o, block, quad)
    BY <2>1
  <2> HIDE DEF code
  <2>6. ASSUME NEW i \in 1 .. Len(code)
        PROVE  /\ BodyInsn(o, b, code[i])
               /\ code[i].op = "RET" /\ slots[o] >= 0 => i > 1 /\ code[i - 1] = TakesAddress(o)
    <3>1. i = 1 \/ i = 2
      BY <2>5
    <3>2. CASE i = 1
      BY <2>2, <2>3, <2>5, <3>2
    <3>3. CASE i = 2
      <4>1. i - 1 = 1 /\ i > 1
        BY <3>3
      <4> QED
        BY <2>4, <2>5, <3>3, <4>1
    <3> QED
      BY <3>1, <3>2, <3>3
  <2> QED
    BY <2>6 DEF code, quad, block
<1>4. CASE quad.operation # "CALL" /\ ~ (quad.operation = "RET" /\ slots[o] >= 0)
  <2>1. code = <<EmitPlain(o, block, quad)>>
    BY <1>4 DEF EmitQuad
  <2>2. Len(code) = 1 /\ code[1] = EmitPlain(o, block, quad)
    BY <2>1
  <2>3. /\ BodyInsn(o, b, EmitPlain(o, block, quad))
        /\ EmitPlain(o, block, quad).op = quad.operation
    BY <1>4, <1>a
  <2> HIDE DEF code
  <2>4. ASSUME NEW i \in 1 .. Len(code)
        PROVE  BodyInsn(o, b, code[i]) /\ ~ (code[i].op = "RET" /\ slots[o] >= 0)
    <3>1. i = 1
      BY <2>2
    <3> QED
      BY <1>4, <2>2, <2>3, <3>1
  <2> QED
    BY <2>4 DEF code, quad, block
<1> QED
  BY <1>2, <1>3, <1>4

\* A place of a block: the label, a move in front, or an instruction of the body.
LEMMA BlockShape ==
    ASSUME Ready, NEW o \in Places, Unresolved(o) = {}, NEW b \in DOMAIN FunctionAt(o).blocks
    PROVE  LET code == EmitBlock(o, b)
           IN  /\ InFront(o, b) \in Nat /\ InFront(o, b) >= 1 /\ InFront(o, b) <= Len(code)
               /\ \A i \in InFront(o, b) + 1 .. Len(code) :
                      /\ BodyInsn(o, b, code[i])
                      /\ code[i].op = "RET" /\ slots[o] >= 0 =>
                             i - 1 > InFront(o, b) /\ code[i - 1] = TakesAddress(o)
<1> DEFINE block == FunctionAt(o).blocks[b]
           n == Len(block.quads)
           lens == QuadLens(o, b)
           code == EmitBlock(o, b)
           jumps == IF NeedsJump(block) THEN 1 ELSE 0
           front == InFront(o, b)
<1>1. /\ Len(code) = front + SumTo(lens, n) + jumps
      /\ \A q \in 1 .. n : lens[q] \in Nat
      /\ \A q \in 1 .. n : \A i \in 1 .. lens[q] :
             code[front + (SumTo(lens, q - 1) + i)] = QuadCode(o, b)[q][i]
      /\ NeedsJump(block) => code[Len(code)] = JumpInsn(o, b)
      /\ FirstMoves(o, b) \in Seq(InsnSet)
  BY BlockEmitted
<1>2. block.quads \in Seq(QuadSet) /\ n \in Nat /\ DOMAIN block.quads = 1 .. n /\ b \in Blocks(o)
  BY BlockFacts DEF Blocks
<1>3. front \in Nat /\ front >= 1
  <2>1. Len(FirstMoves(o, b)) \in Nat
    BY <1>1, LenProperties
  <2> QED
    BY <2>1 DEF InFront
<1>4. SumTo(lens, n) \in Nat
  <2>1. n \in 0 .. n
    BY <1>2
  <2> HIDE DEF lens, n
  <2> QED
    BY <1>1, <1>2, <2>1, Sums
<1>5. ASSUME NEW q \in 1 .. n
      PROVE  /\ lens[q] = Len(EmitQuad(o, block, block.quads[q]))
             /\ QuadCode(o, b)[q] = EmitQuad(o, block, block.quads[q])
             /\ \A i \in 1 .. lens[q] :
                   /\ BodyInsn(o, b, QuadCode(o, b)[q][i])
                   /\ QuadCode(o, b)[q][i].op = "RET" /\ slots[o] >= 0 =>
                          i > 1 /\ QuadCode(o, b)[q][i - 1] = TakesAddress(o)
  <2>1. q \in DOMAIN FunctionAt(o).blocks[b].quads
    BY <1>2
  <2> DEFINE e == EmitQuad(o, block, block.quads[q])
  <2>2. lens[q] = Len(e) /\ QuadCode(o, b)[q] = e
    BY <2>1 DEF QuadLens, QuadCode
  <2>3. \A i \in 1 .. Len(e) :
            /\ BodyInsn(o, b, e[i])
            /\ e[i].op = "RET" /\ slots[o] >= 0 => i > 1 /\ e[i - 1] = TakesAddress(o)
    BY <2>1, QuadShape
  <2> HIDE DEF e, lens
  <2>4. \A i \in 1 .. lens[q] :
            /\ BodyInsn(o, b, QuadCode(o, b)[q][i])
            /\ QuadCode(o, b)[q][i].op = "RET" /\ slots[o] >= 0 =>
                   i > 1 /\ QuadCode(o, b)[q][i - 1] = TakesAddress(o)
    BY <2>2, <2>3
  <2> QED
    BY <2>2, <2>4 DEF e
<1>6. NeedsJump(block) => BodyInsn(o, b, JumpInsn(o, b)) /\ JumpInsn(o, b).op = "JMP"
  <2> SUFFICES ASSUME NeedsJump(block) PROVE BodyInsn(o, b, JumpInsn(o, b)) /\ JumpInsn(o, b).op = "JMP"
    OBVIOUS
  <2>1. block.jmp_target \in b .. Len(FunctionAt(o).blocks) - 1
    <3>1. JumpsAhead(FunctionAt(o))
      BY FunctionFacts DEF Ready
    <3> QED
      BY <3>1 DEF JumpsAhead, NeedsJump
  <2>2. JumpInsn(o, b).op = "JMP" /\ JumpInsn(o, b).target = LabelOf(o, block.jmp_target)
    BY Fields DEF JumpInsn
  <2>3. GoodLabel(o, b, LabelOf(o, block.jmp_target))
    BY <1>2, <2>1, LabelsGood
  <2> QED
    BY <2>2, <2>3 DEF BodyInsn
<1> DEFINE s == QuadCode(o, b)
<1> HIDE DEF block, n, lens, code, front, s
<1>7. ASSUME NEW i \in front + 1 .. Len(code)
      PROVE  /\ BodyInsn(o, b, code[i])
             /\ code[i].op = "RET" /\ slots[o] >= 0 => i - 1 > front /\ code[i - 1] = TakesAddress(o)
  <2>1. CASE i <= front + SumTo(lens, n)
    <3>1. i - front \in 1 .. SumTo(lens, n)
      BY <1>1, <1>3, <1>4, <2>1
    <3>2. PICK q \in 1 .. n : \E j \in 1 .. lens[q] : i - front = SumTo(lens, q - 1) + j
      BY <1>1, <1>2, <3>1, SumsCover
    <3>3. PICK j \in 1 .. lens[q] : i - front = SumTo(lens, q - 1) + j
      BY <3>2
    <3>4. lens[q] \in Nat /\ SumTo(lens, q - 1) \in Nat
      <4>1. q - 1 \in 0 .. n
        BY <1>2
      <4> QED
        BY <1>1, <1>2, <4>1, Sums
    <3>5. i = front + (SumTo(lens, q - 1) + j)
      BY <1>1, <1>3, <1>4, <3>3, <3>4
    <3>6. code[i] = s[q][j]
      BY <1>1, <3>3, <3>5 DEF s
    <3>7. BodyInsn(o, b, s[q][j])
          /\ (s[q][j].op = "RET" /\ slots[o] >= 0 => j > 1 /\ s[q][j - 1] = TakesAddress(o))
      BY <1>5, <3>3 DEF s
    <3>8. j > 1 => i - 1 > front /\ code[i - 1] = s[q][j - 1]
      <4> SUFFICES ASSUME j > 1 PROVE i - 1 > front /\ code[i - 1] = s[q][j - 1]
        OBVIOUS
      <4>1. j - 1 \in 1 .. lens[q] /\ i - 1 = front + (SumTo(lens, q - 1) + (j - 1))
        BY SMTT(45), <1>3, <3>4, <3>5
      <4>2. code[front + (SumTo(lens, q - 1) + (j - 1))] = s[q][j - 1]
        BY <1>1, <4>1 DEF s
      <4>3. i - 1 > front
        BY <1>3, <3>4, <4>1
      <4> QED
        BY <4>1, <4>2, <4>3
    <3> QED
      BY <3>6, <3>7, <3>8
  <2>2. CASE ~ (i <= front + SumTo(lens, n))
    <3>1. NeedsJump(block) /\ i = Len(code)
      BY <1>1, <1>3, <1>4, <2>2
    <3>2. code[i] = JumpInsn(o, b)
      BY <1>1, <3>1
    <3> QED
      BY <1>6, <3>1, <3>2
  <2> QED
    BY <2>1, <2>2
<1>8. front <= Len(code)
  BY <1>1, <1>3, <1>4
<1> QED
  BY <1>3, <1>7, <1>8 DEF front, code

\* A place of a piece, in the same way.
BlockStart(o, b) == SumTo(BlockLens(o), b - 1)

LEMMA PieceShape ==
    ASSUME Ready, NEW o \in Places, Unresolved(o) = {}
    PROVE  LET code == Piece(o)
               h == Len(Prologue(o))
           IN  /\ Len(code) \in Nat /\ h \in Nat /\ 1 + h <= Len(code)
               /\ \A b \in Blocks(o) : /\ BlockStart(o, b) + 1 \in 1 .. Len(code)
                                       /\ code[BlockStart(o, b) + 1] = LabelInsn(o, b)
               /\ BlockStart(o, 1) = 0 /\ 1 \in Blocks(o)
               /\ \A b, c \in Blocks(o) : b < c => BlockStart(o, b) < BlockStart(o, c)
               /\ \A i \in 1 .. h : code[1 + i] = Prologue(o)[i]
               /\ \A m \in 1 .. Len(code) :
                      \/ \E b \in Blocks(o) : m = BlockStart(o, b) + 1
                      \/ m \in 2 .. 1 + h
                      \/ \E b \in Blocks(o) :
                             /\ m > 1 + h
                             /\ m > BlockStart(o, b)
                             /\ \A c \in Blocks(o) : c > b => m <= BlockStart(o, c)
                             /\ BodyInsn(o, b, code[m])
                             /\ code[m].op = "RET" /\ slots[o] >= 0 =>
                                    m - 1 > 1 + h /\ code[m - 1] = TakesAddress(o)
<1> DEFINE n == Len(FunctionAt(o).blocks)
           lens == BlockLens(o)
           code == Piece(o)
           h == Len(Prologue(o))
<1>1. /\ n \in Nat /\ n >= 1 /\ DOMAIN FunctionAt(o).blocks = 1 .. n /\ Blocks(o) = 1 .. n
      /\ \A b \in 1 .. n : lens[b] \in Nat /\ lens[b] >= 1 /\ lens[b] = Len(EmitBlock(o, b))
      /\ \A b \in 1 .. n : BlockCode(o)[b] = EmitBlock(o, b)
      /\ LiesIn(code, BlockCode(o), lens, n)
  BY PieceEmitted DEF Blocks
<1>2. /\ SumTo(lens, 0) = 0
      /\ \A b \in 1 .. n : SumTo(lens, b) = SumTo(lens, b - 1) + lens[b]
      /\ \A b \in 0 .. n : SumTo(lens, b) \in Nat
  <2> HIDE DEF n, lens
  <2> QED
    BY <1>1, Sums
<1>3. /\ Len(code) = SumTo(lens, n)
      /\ \A b \in 1 .. n : \A i \in 1 .. lens[b] : code[SumTo(lens, b - 1) + i] = EmitBlock(o, b)[i]
  BY <1>1 DEF LiesIn
<1>4. \A b \in 1 .. n : /\ EmitBlock(o, b)[1] = LabelInsn(o, b)
                        /\ InFront(o, b) \in Nat /\ InFront(o, b) >= 1 /\ InFront(o, b) <= lens[b]
                        /\ \A i \in InFront(o, b) + 1 .. lens[b] :
                              /\ BodyInsn(o, b, EmitBlock(o, b)[i])
                              /\ EmitBlock(o, b)[i].op = "RET" /\ slots[o] >= 0 =>
                                     i - 1 > InFront(o, b) /\ EmitBlock(o, b)[i - 1] = TakesAddress(o)
  <2> SUFFICES ASSUME NEW b \in 1 .. n
               PROVE  /\ EmitBlock(o, b)[1] = LabelInsn(o, b)
                      /\ InFront(o, b) \in Nat /\ InFront(o, b) >= 1 /\ InFront(o, b) <= lens[b]
                      /\ \A i \in InFront(o, b) + 1 .. lens[b] :
                            /\ BodyInsn(o, b, EmitBlock(o, b)[i])
                            /\ EmitBlock(o, b)[i].op = "RET" /\ slots[o] >= 0 =>
                                   i - 1 > InFront(o, b) /\ EmitBlock(o, b)[i - 1] = TakesAddress(o)
    OBVIOUS
  <2>1. b \in DOMAIN FunctionAt(o).blocks /\ lens[b] = Len(EmitBlock(o, b))
    BY <1>1
  <2>2. EmitBlock(o, b)[1] = LabelInsn(o, b)
    BY <2>1, BlockEmitted
  <2>3. /\ InFront(o, b) \in Nat /\ InFront(o, b) >= 1 /\ InFront(o, b) <= Len(EmitBlock(o, b))
        /\ \A i \in InFront(o, b) + 1 .. Len(EmitBlock(o, b)) :
              /\ BodyInsn(o, b, EmitBlock(o, b)[i])
              /\ EmitBlock(o, b)[i].op = "RET" /\ slots[o] >= 0 =>
                     i - 1 > InFront(o, b) /\ EmitBlock(o, b)[i - 1] = TakesAddress(o)
    BY <2>1, BlockShape
  <2> QED
    BY <2>1, <2>2, <2>3
<1>5. \A b \in 1 .. n : InFront(o, b) = IF b = 1 THEN 1 + h ELSE 1
  BY DEF InFront, FirstMoves
<1>6. h \in Nat
  <2>1. Prologue(o) \in Seq(InsnSet)
    BY PrologueFacts
  <2> QED
    BY <2>1, LenProperties
<1>7. \A i \in 1 .. h : EmitBlock(o, 1)[1 + i] = Prologue(o)[i]
  <2>1. 1 \in DOMAIN FunctionAt(o).blocks
    BY <1>1
  <2>2. \A i \in 1 .. Len(FirstMoves(o, 1)) : EmitBlock(o, 1)[1 + i] = FirstMoves(o, 1)[i]
    BY <2>1, BlockEmitted
  <2> QED
    BY <2>2 DEF FirstMoves
<1>8. \A b : BlockStart(o, b) = SumTo(lens, b - 1)
  BY DEF BlockStart
<1> HIDE DEF n, lens, code, h
<1>9. 1 \in 1 .. n /\ 1 - 1 = 0 /\ 0 \in 0 .. n /\ n \in 0 .. n
  BY <1>1
<1>10. BlockStart(o, 1) = 0
  BY <1>2, <1>8, <1>9
<1>11. ASSUME NEW b \in 1 .. n, NEW c \in 1 .. n, b < c
       PROVE  /\ BlockStart(o, b) + lens[b] <= BlockStart(o, c)
              /\ BlockStart(o, b) < BlockStart(o, c)
  <2>1. b \in 0 .. n /\ c - 1 \in b .. n /\ b - 1 \in 0 .. n /\ c - 1 \in 0 .. n
    BY <1>1, <1>11
  <2>2. SumTo(lens, b) <= SumTo(lens, c - 1)
    BY <1>1, <2>1, SumsGrow
  <2> QED
    BY SMTT(45), <1>1, <1>2, <1>8, <2>1, <2>2
<1>12. ASSUME NEW b \in 1 .. n, NEW i \in 1 .. lens[b]
       PROVE  BlockStart(o, b) + i \in 1 .. Len(code) /\ code[BlockStart(o, b) + i] = EmitBlock(o, b)[i]
  <2>1. b \in 0 .. n /\ n \in b .. n /\ b - 1 \in 0 .. n
    BY <1>1
  <2>2. SumTo(lens, b) <= SumTo(lens, n)
    BY <1>1, <2>1, SumsGrow
  <2>3. SumTo(lens, b) = SumTo(lens, b - 1) + lens[b] /\ SumTo(lens, b - 1) \in Nat /\ SumTo(lens, n) \in Nat
        /\ lens[b] \in Nat
    BY <1>1, <1>2, <1>9, <2>1
  <2>4. BlockStart(o, b) + i \in 1 .. Len(code)
    BY <1>3, <1>8, <2>2, <2>3
  <2> QED
    BY <1>3, <1>8, <2>4
<1>13. \A b \in Blocks(o) : /\ BlockStart(o, b) + 1 \in 1 .. Len(code)
                            /\ code[BlockStart(o, b) + 1] = LabelInsn(o, b)
  <2> SUFFICES ASSUME NEW b \in 1 .. n
               PROVE  BlockStart(o, b) + 1 \in 1 .. Len(code) /\ code[BlockStart(o, b) + 1] = LabelInsn(o, b)
    BY <1>1
  <2>1. 1 \in 1 .. lens[b]
    BY <1>1
  <2> QED
    BY <1>4, <1>12, <2>1
<1>14. ASSUME NEW i \in 1 .. h PROVE code[1 + i] = Prologue(o)[i]
  <2>1. 1 + i \in 1 .. lens[1]
    BY <1>1, <1>4, <1>5, <1>6, <1>9
  <2>2. code[BlockStart(o, 1) + (1 + i)] = EmitBlock(o, 1)[1 + i]
    BY <1>9, <1>12, <2>1
  <2>3. BlockStart(o, 1) + (1 + i) = 1 + i
    BY <1>6, <1>10
  <2> QED
    BY <1>7, <2>2, <2>3
<1>15. 1 + h <= lens[1] /\ 1 + h <= Len(code) /\ Len(code) \in Nat
  <2>1. 1 + h <= lens[1]
    BY <1>1, <1>4, <1>5, <1>9
  <2>2. 1 + h \in 1 .. lens[1]
    BY <1>1, <1>6, <1>9, <2>1
  <2>3. BlockStart(o, 1) + (1 + h) \in 1 .. Len(code)
    BY <1>9, <1>12, <2>2
  <2>4. Len(code) \in Nat
    BY <1>2, <1>3, <1>9
  <2> QED
    BY <1>6, <1>10, <2>1, <2>3, <2>4
<1>16. ASSUME NEW m \in 1 .. Len(code)
       PROVE  \/ \E b \in Blocks(o) : m = BlockStart(o, b) + 1
              \/ m \in 2 .. 1 + h
              \/ \E b \in Blocks(o) :
                     /\ m > 1 + h
                     /\ m > BlockStart(o, b)
                     /\ \A c \in Blocks(o) : c > b => m <= BlockStart(o, c)
                     /\ BodyInsn(o, b, code[m])
                     /\ code[m].op = "RET" /\ slots[o] >= 0 =>
                            m - 1 > 1 + h /\ code[m - 1] = TakesAddress(o)
  <2>1. PICK b \in 1 .. n : \E i \in 1 .. lens[b] : m = SumTo(lens, b - 1) + i
    <3>1. m \in 1 .. SumTo(lens, n)
      BY <1>3
    <3>2. n \in Nat /\ \A k \in 1 .. n : lens[k] \in Nat
      BY <1>1
    <3>3. \A l \in 1 .. SumTo(lens, n) :
              \E j \in 1 .. n : \E i \in 1 .. lens[j] : l = SumTo(lens, j - 1) + i
      BY <3>2, SumsCover
    <3> QED
      BY <3>1, <3>3
  <2>2. PICK i \in 1 .. lens[b] : m = BlockStart(o, b) + i
    BY <1>8, <2>1
  <2>3. BlockStart(o, b) \in Nat /\ lens[b] \in Nat
    <3>1. b - 1 \in 0 .. n
      BY <1>1
    <3> QED
      BY <1>1, <1>2, <1>8, <3>1
  <2>4. CASE i = 1
    BY <1>1, <2>2, <2>4
  <2>5. CASE i # 1 /\ i <= InFront(o, b)
    <3>1. b = 1 /\ i <= 1 + h
      BY <1>4, <1>5, <2>3, <2>5
    <3>2. m = i
      BY <1>10, <2>2, <2>3, <3>1
    <3> QED
      BY <1>6, <2>3, <2>5, <3>1, <3>2
  <2>6. CASE i > InFront(o, b)
    <3>1. i \in InFront(o, b) + 1 .. lens[b] /\ InFront(o, b) \in Nat /\ InFront(o, b) >= 1
      BY <1>4, <2>3, <2>6
    <3>2. /\ BodyInsn(o, b, EmitBlock(o, b)[i])
          /\ EmitBlock(o, b)[i].op = "RET" /\ slots[o] >= 0 =>
                 i - 1 > InFront(o, b) /\ EmitBlock(o, b)[i - 1] = TakesAddress(o)
      BY <1>4, <3>1
    <3>3. code[m] = EmitBlock(o, b)[i]
      BY <1>12, <2>2
    <3>4. \A j \in Nat : j > InFront(o, b) => BlockStart(o, b) + j > 1 + h
      <4>1. CASE b = 1
        BY <1>5, <1>6, <1>10, <3>1, <4>1
      <4>2. CASE b # 1
        <5>1. 1 < b
          BY <4>2
        <5>2. BlockStart(o, 1) + lens[1] <= BlockStart(o, b)
          BY <1>9, <1>11, <5>1
        <5> QED
          BY <1>1, <1>6, <1>9, <1>10, <1>15, <2>3, <3>1, <5>2
      <4> QED
        BY <4>1, <4>2
    <3>5. m > 1 + h /\ m > BlockStart(o, b)
      BY <2>2, <2>3, <2>6, <3>4
    <3>6. ASSUME NEW c \in Blocks(o), c > b PROVE m <= BlockStart(o, c)
      <4>1. c \in 1 .. n /\ b < c
        BY <1>1, <3>6
      <4>2. BlockStart(o, b) + lens[b] <= BlockStart(o, c)
        BY <1>11, <4>1
      <4>3. BlockStart(o, c) \in Nat
        <5>1. c - 1 \in 0 .. n
          BY <1>1, <4>1
        <5> QED
          BY <1>2, <1>8, <5>1
      <4> QED
        BY <2>2, <2>3, <4>2, <4>3
    <3>7. i - 1 > InFront(o, b) => m - 1 > 1 + h /\ code[m - 1] = EmitBlock(o, b)[i - 1]
      <4> SUFFICES ASSUME i - 1 > InFront(o, b)
                   PROVE  m - 1 > 1 + h /\ code[m - 1] = EmitBlock(o, b)[i - 1]
        OBVIOUS
      <4>1. i - 1 \in 1 .. lens[b] /\ m - 1 = BlockStart(o, b) + (i - 1) /\ i - 1 \in Nat
        BY <2>2, <2>3, <3>1
      <4> QED
        BY <1>12, <3>4, <4>1
    <3>8. code[m].op = "RET" /\ slots[o] >= 0 => m - 1 > 1 + h /\ code[m - 1] = TakesAddress(o)
      BY <3>2, <3>3, <3>7
    <3>9. BodyInsn(o, b, code[m])
      BY <3>2, <3>3
    <3> QED
      BY <1>1, <3>5, <3>6, <3>8, <3>9
  <2>7. InFront(o, b) \in Nat
    BY <1>4
  <2> QED
    BY <2>3, <2>4, <2>5, <2>6, <2>7
<1>17. \A b, c \in Blocks(o) : b < c => BlockStart(o, b) < BlockStart(o, c)
  BY <1>1, <1>11
<1>18. 1 \in Blocks(o)
  BY <1>1, <1>9
<1> QED
  BY <1>6, <1>10, <1>13, <1>14, <1>15, <1>16, <1>17, <1>18 DEF code, h


\* The same for the code as a whole.
Done == CodeInv /\ stage = "compiled"
InPiece(o) == starts[o] + 1 .. EndOf(o)
LabelAt(o, b) == starts[o] + BlockStart(o, b) + 1

InBody(o, b, k) ==
    /\ k >= Body(o)
    /\ \A c \in Blocks(o) : c > b => k < LabelAt(o, c)
    /\ BodyInsn(o, b, insns[k])
    /\ insns[k].op = "RET" /\ slots[o] >= 0 => k > Body(o) /\ insns[k - 1] = TakesAddress(o)

LEMMA CodeShape ==
    ASSUME Done, NEW o \in Places
    PROVE  LET h == Len(Prologue(o))
           IN  /\ starts[o] \in Nat /\ EndOf(o) \in Nat /\ EndOf(o) <= Len(insns) /\ Len(insns) \in Nat
               /\ h \in Nat /\ Body(o) = starts[o] + 2 + h /\ Body(o) <= EndOf(o) + 1
               /\ 1 \in Blocks(o) /\ LabelAt(o, 1) = starts[o] + 1
               /\ \A b \in Blocks(o) : LabelAt(o, b) \in InPiece(o) /\ insns[LabelAt(o, b)] = LabelInsn(o, b)
               /\ \A b, c \in Blocks(o) : b < c => LabelAt(o, b) < LabelAt(o, c)
               /\ \A i \in 1 .. h : insns[starts[o] + 1 + i] = Prologue(o)[i]
               /\ \A k \in InPiece(o) :
                      \/ \E b \in Blocks(o) : k = LabelAt(o, b)
                      \/ \E i \in 1 .. h : k = starts[o] + 1 + i
                      \/ \E b \in Blocks(o) : InBody(o, b, k)
<1> DEFINE h == Len(Prologue(o))
           s == starts[o]
           code == Piece(o)
<1>1. Ready /\ o \in DOMAIN starts /\ Len(starts) = Len(program)
  <2>1. Ready
    BY ReadyFacts DEF Done
  <2>2. starts \in Seq(0 .. Len(insns)) /\ Len(starts) = Len(program)
    BY DEF Done, CodeInv, PiecesInv
  <2> QED
    BY <2>1, <2>2 DEF Places
<1>2. /\ Unresolved(o) = {}
      /\ EndOf(o) = s + Len(code)
      /\ \A m \in 1 .. Len(code) : insns[s + m] = code[m]
  <2>1. PiecePlaced(o)
    BY <1>1 DEF Done, CodeInv, PiecesInv
  <2> QED
    BY <2>1 DEF PiecePlaced
<1>3. s \in Nat /\ Len(insns) \in Nat /\ EndOf(o) <= Len(insns)
  <2>1. insns \in Seq(InsnSet) /\ starts \in Seq(0 .. Len(insns))
    BY DEF Done, CodeInv, PiecesInv
  <2>2. Len(insns) \in Nat
    BY <2>1, LenProperties
  <2>3. \A p \in DOMAIN starts : starts[p] \in 0 .. Len(insns)
    BY <2>1
  <2>4. CASE o < Len(starts)
    <3>1. o + 1 \in DOMAIN starts
      BY <1>1, <2>1, <2>4
    <3> QED
      BY <1>1, <2>2, <2>3, <2>4, <3>1 DEF EndOf
  <2>5. CASE ~(o < Len(starts))
    BY <1>1, <2>2, <2>3, <2>5 DEF EndOf
  <2> QED
    BY <2>4, <2>5
<1>4. /\ Len(code) \in Nat /\ h \in Nat /\ 1 + h <= Len(code)
      /\ \A b \in Blocks(o) : /\ BlockStart(o, b) + 1 \in 1 .. Len(code)
                              /\ code[BlockStart(o, b) + 1] = LabelInsn(o, b)
      /\ BlockStart(o, 1) = 0 /\ 1 \in Blocks(o)
      /\ \A b, c \in Blocks(o) : b < c => BlockStart(o, b) < BlockStart(o, c)
      /\ \A i \in 1 .. h : code[1 + i] = Prologue(o)[i]
  BY <1>1, <1>2, PieceShape
<1>5. \A m \in 1 .. Len(code) :
          \/ \E b \in Blocks(o) : m = BlockStart(o, b) + 1
          \/ m \in 2 .. 1 + h
          \/ \E b \in Blocks(o) :
                 /\ m > 1 + h
                 /\ m > BlockStart(o, b)
                 /\ \A c \in Blocks(o) : c > b => m <= BlockStart(o, c)
                 /\ BodyInsn(o, b, code[m])
                 /\ code[m].op = "RET" /\ slots[o] >= 0 =>
                        m - 1 > 1 + h /\ code[m - 1] = TakesAddress(o)
  BY <1>1, <1>2, PieceShape
<1>6. Body(o) = s + 2 + h
  BY DEF Body
<1>7. \A b \in Blocks(o) : BlockStart(o, b) \in Nat
  <2> SUFFICES ASSUME NEW b \in Blocks(o) PROVE BlockStart(o, b) \in Nat
    OBVIOUS
  <2>1. b \in 1 .. Len(FunctionAt(o).blocks) /\ Len(FunctionAt(o).blocks) \in Nat
    BY <1>1, <1>2, PieceEmitted DEF Blocks
  <2>2. b - 1 \in 0 .. Len(FunctionAt(o).blocks)
    BY <2>1
  <2>3. \A c \in 1 .. Len(FunctionAt(o).blocks) : BlockLens(o)[c] \in Nat
    BY <1>1, <1>2, PieceEmitted
  <2>4. Len(FunctionAt(o).blocks) \in Nat
    BY <2>1
  <2>5. \A c \in 0 .. Len(FunctionAt(o).blocks) : SumTo(BlockLens(o), c) \in Nat
    BY <2>3, <2>4, Sums
  <2> QED
    BY <2>2, <2>5 DEF BlockStart
<1> HIDE DEF h, s, code
<1>8. \A b : LabelAt(o, b) = s + BlockStart(o, b) + 1
  BY DEF LabelAt, s
<1>9. InPiece(o) = s + 1 .. s + Len(code)
  BY <1>2 DEF InPiece, s
<1>10. LabelAt(o, 1) = s + 1
  BY <1>3, <1>4, <1>8
<1>11. ASSUME NEW b \in Blocks(o)
       PROVE  LabelAt(o, b) \in InPiece(o) /\ insns[LabelAt(o, b)] = LabelInsn(o, b)
  <2>1. LabelAt(o, b) = s + (BlockStart(o, b) + 1) /\ BlockStart(o, b) + 1 \in 1 .. Len(code)
    BY <1>3, <1>4, <1>7, <1>8
  <2>2. insns[s + (BlockStart(o, b) + 1)] = code[BlockStart(o, b) + 1]
    BY <1>2, <2>1
  <2> QED
    BY <1>3, <1>4, <1>9, <2>1, <2>2
<1>12. \A b, c \in Blocks(o) : b < c => LabelAt(o, b) < LabelAt(o, c)
  <2> SUFFICES ASSUME NEW b \in Blocks(o), NEW c \in Blocks(o), b < c
               PROVE  LabelAt(o, b) < LabelAt(o, c)
    OBVIOUS
  <2>1. BlockStart(o, b) < BlockStart(o, c)
    BY <1>4
  <2>2. BlockStart(o, b) \in Nat /\ BlockStart(o, c) \in Nat
    BY <1>7
  <2>3. LabelAt(o, b) = s + BlockStart(o, b) + 1 /\ LabelAt(o, c) = s + BlockStart(o, c) + 1
    BY <1>8
  <2>4. s \in Nat
    BY <1>3
  <2> QED
    BY <2>1, <2>2, <2>3, <2>4
<1>13. ASSUME NEW i \in 1 .. h PROVE insns[s + 1 + i] = Prologue(o)[i]
  <2>1. 1 + i \in 1 .. Len(code) /\ s + 1 + i = s + (1 + i)
    BY <1>3, <1>4
  <2> QED
    BY <1>2, <1>4, <2>1
<1>14. ASSUME NEW k \in InPiece(o)
       PROVE  \/ \E b \in Blocks(o) : k = LabelAt(o, b)
              \/ \E i \in 1 .. h : k = s + 1 + i
              \/ \E b \in Blocks(o) : InBody(o, b, k)
  <2>1. PICK m \in 1 .. Len(code) : k = s + m
    <3>1. k - s \in 1 .. Len(code) /\ k = s + (k - s)
      BY <1>3, <1>4, <1>9
    <3> QED
      BY <3>1
  <2>2. insns[k] = code[m]
    BY <1>2, <2>1
  <2>3. CASE \E b \in Blocks(o) : m = BlockStart(o, b) + 1
    BY <1>3, <1>7, <1>8, <2>1, <2>3
  <2>4. CASE m \in 2 .. 1 + h
    <3>1. m - 1 \in 1 .. h /\ k = s + 1 + (m - 1)
      BY <1>3, <1>4, <2>1, <2>4
    <3> QED
      BY <3>1
  <2>5. ASSUME NEW b \in Blocks(o),
               m > 1 + h,
               \A c \in Blocks(o) : c > b => m <= BlockStart(o, c),
               BodyInsn(o, b, code[m]),
               code[m].op = "RET" /\ slots[o] >= 0 => m - 1 > 1 + h /\ code[m - 1] = TakesAddress(o)
        PROVE  InBody(o, b, k)
    <3>1. k >= Body(o)
      BY <1>3, <1>4, <1>6, <2>1, <2>5
    <3>2. \A c \in Blocks(o) : c > b => k < LabelAt(o, c)
      BY <1>3, <1>7, <1>8, <2>1, <2>5
    <3>3. insns[k].op = "RET" /\ slots[o] >= 0 => k > Body(o) /\ insns[k - 1] = TakesAddress(o)
      <4> SUFFICES ASSUME insns[k].op = "RET", slots[o] >= 0
                   PROVE  k > Body(o) /\ insns[k - 1] = TakesAddress(o)
        OBVIOUS
      <4>1. m - 1 > 1 + h /\ code[m - 1] = TakesAddress(o)
        BY <2>2, <2>5
      <4>2. m - 1 \in 1 .. Len(code) /\ k - 1 = s + (m - 1)
        BY <1>3, <1>4, <2>1, <4>1
      <4>3. insns[k - 1] = code[m - 1]
        BY <1>2, <4>2
      <4> QED
        BY <1>3, <1>4, <1>6, <2>1, <4>1, <4>3
    <3> QED
      BY <2>2, <2>5, <3>1, <3>2, <3>3 DEF InBody
  <2> QED
    BY <1>5, <2>3, <2>4, <2>5
<1>15. EndOf(o) \in Nat /\ Body(o) <= EndOf(o) + 1
  BY <1>2, <1>3, <1>4, <1>6
<1> QED
  BY <1>3, <1>4, <1>6, <1>10, <1>11, <1>12, <1>13, <1>14, <1>15 DEF s, h


\* The pieces follow each other and leave no gap.
LEMMA PiecesFollow ==
    ASSUME Done
    PROVE  /\ \A o, p \in Places : o < p => EndOf(o) <= starts[p]
           /\ \A k \in DOMAIN insns : \E o \in Places : k \in InPiece(o)
           /\ \A o \in Places : \A k \in InPiece(o) : k \in DOMAIN insns
<1> DEFINE n == Len(program)
           size == [o \in 1 .. n |-> Len(Piece(o))]
<1>1. /\ n \in Nat /\ Len(starts) = n /\ Len(insns) \in Nat /\ DOMAIN insns = 1 .. Len(insns)
      /\ IF starts = <<>> THEN insns = <<>> ELSE starts[1] = 0
  <2>1. Len(program) \in Nat
    BY ProgramFacts DEF Done, CodeInv, OrderInv
  <2>2. insns \in Seq(InsnSet) /\ Len(starts) = n /\ IF starts = <<>> THEN insns = <<>> ELSE starts[1] = 0
    BY DEF Done, CodeInv, PiecesInv
  <2> QED
    BY <2>1, <2>2, LenProperties
<1>2. \A o \in 1 .. n : /\ starts[o] \in Nat /\ size[o] \in Nat
                        /\ EndOf(o) = starts[o] + size[o] /\ EndOf(o) <= Len(insns)
  <2> SUFFICES ASSUME NEW o \in 1 .. n
               PROVE  /\ starts[o] \in Nat /\ Len(Piece(o)) \in Nat
                      /\ EndOf(o) = starts[o] + Len(Piece(o)) /\ EndOf(o) <= Len(insns)
    OBVIOUS
  <2>1. o \in Places /\ o \in DOMAIN starts
    <3>1. starts \in Seq(0 .. Len(insns))
      BY DEF Done, CodeInv, PiecesInv
    <3> QED
      BY <1>1, <3>1 DEF Places
  <2>2. PiecePlaced(o)
    BY <2>1 DEF Done, CodeInv, PiecesInv
  <2>3. Ready /\ Unresolved(o) = {}
    BY <2>2, ReadyFacts DEF Done, PiecePlaced
  <2>4. Len(Piece(o)) \in Nat
    BY <2>1, <2>3, PieceShape
  <2> QED
    BY <2>1, <2>2, <2>4, CodeShape DEF PiecePlaced
<1>3. \A o \in 1 .. n : EndOf(o) = IF o < n THEN starts[o + 1] ELSE Len(insns)
  BY <1>1 DEF EndOf
<1>4. Places = 1 .. n
  BY DEF Places
<1>5. n >= 1 => starts[1] = 0
  <2>1. starts = <<>> => n = 0
    BY <1>1
  <2> QED
    BY <1>1, <2>1
<1>6. n = 0 => Len(insns) = 0
  <2>1. starts \in Seq(0 .. Len(insns))
    BY DEF Done, CodeInv, PiecesInv
  <2>2. n = 0 => starts = <<>>
    BY <1>1, <2>1, EmptySeq
  <2> QED
    BY <1>1, <2>2
<1> HIDE DEF n, size
<1>7. \A o \in 1 .. n : o + 1 \in 1 .. n => starts[o + 1] = starts[o] + size[o]
  BY <1>1, <1>2, <1>3
<1>8. \A o, p \in 1 .. n : o < p => starts[o] + size[o] <= starts[p]
  <2>1. \A o \in 1 .. n : starts[o] \in Nat /\ size[o] \in Nat
    BY <1>2
  <2>2. n \in Nat
    BY <1>1
  <2> QED
    BY <1>7, <2>1, <2>2, Stacked
<1>9. ASSUME NEW k \in DOMAIN insns PROVE \E o \in Places : k \in InPiece(o)
  <2> DEFINE S == {o \in 1 .. n : k <= EndOf(o)}
  <2>1. k \in 1 .. Len(insns) /\ n >= 1
    BY <1>1, <1>6
  <2>2. n \in S
    BY <1>1, <1>3, <2>1
  <2>3. S \in SUBSET Nat /\ S # {}
    BY <1>1, <2>2
  <2>4. PICK o \in S : \A p \in S : o <= p
    <3> HIDE DEF S
    <3> QED
      BY <2>3, LeastNumber
  <2>5. o \in 1 .. n /\ k <= EndOf(o)
    OBVIOUS
  <2>6. k > starts[o]
    <3>1. CASE o = 1
      BY <1>5, <2>1, <3>1
    <3>2. CASE o # 1
      <4>1. o - 1 \in 1 .. n /\ (o - 1) + 1 = o /\ o - 1 < n /\ o - 1 < o
        BY <1>1, <2>5, <3>2
      <4>2. EndOf(o - 1) = starts[o]
        BY <1>3, <4>1
      <4>3. o - 1 \notin S
        BY <2>4, <4>1
      <4>4. ~(k <= EndOf(o - 1))
        BY <4>1, <4>3
      <4> QED
        BY <1>2, <2>1, <2>5, <4>2, <4>4
    <3> QED
      BY <3>1, <3>2
  <2>7. k \in starts[o] + 1 .. EndOf(o)
    BY <1>2, <2>1, <2>5, <2>6
  <2> QED
    BY <1>4, <2>5, <2>7 DEF InPiece
<1>10. ASSUME NEW o \in 1 .. n, NEW k \in starts[o] + 1 .. EndOf(o) PROVE k \in DOMAIN insns
  <2>1. starts[o] \in Nat /\ EndOf(o) <= Len(insns) /\ EndOf(o) \in Nat
    BY <1>2
  <2> QED
    BY <1>1, <2>1
<1> QED
  BY <1>1, <1>2, <1>4, <1>8, <1>9, <1>10 DEF InPiece

\* No instruction is of two functions.
LEMMA PiecesApart ==
    ASSUME Done, NEW o \in Places, NEW p \in Places, NEW k \in InPiece(o), k \in InPiece(p)
    PROVE  o = p
<1>1. \A q \in Places : starts[q] \in Nat /\ EndOf(q) \in Nat
  BY CodeShape
<1>2. o < p => EndOf(o) <= starts[p]
  BY PiecesFollow
<1>3. p < o => EndOf(p) <= starts[o]
  BY PiecesFollow
<1> QED
  BY <1>1, <1>2, <1>3 DEF InPiece, Places

\* The moves of a prologue.
LEMMA PrologueMoves ==
    ASSUME Ready, NEW o \in Places, NEW i \in 1 .. Len(Prologue(o))
    PROVE  /\ Len(FunctionAt(o).param_phys) \in Nat /\ Len(Prologue(o)) = SlotMove(o) + Len(FunctionAt(o).param_phys)
           /\ SlotMove(o) = IF slots[o] >= 0 THEN 1 ELSE 0
           /\ \/ slots[o] >= 0 /\ i = 1 /\ Prologue(o)[i] = Mov(slots[o], PhysReg(LinkRegister))
              \/ \E p \in 1 .. Len(FunctionAt(o).param_phys) :
                     /\ i = SlotMove(o) + p
                     /\ Prologue(o)[i] = Mov(FunctionAt(o).param_phys[p], PhysReg(p - 1))
<1> DEFINE params == FunctionAt(o).param_phys
<1>1. Len(params) \in Nat
  <2>1. params \in Seq(Nat)
    BY FunctionFacts DEF Ready
  <2> QED
    BY <2>1, LenProperties
<1>2. /\ Len(Prologue(o)) = SlotMove(o) + Len(params)
      /\ slots[o] >= 0 => Prologue(o)[1] = Mov(slots[o], PhysReg(LinkRegister))
      /\ \A p \in 1 .. Len(params) : Prologue(o)[SlotMove(o) + p] = Mov(params[p], PhysReg(p - 1))
  BY PrologueFacts
<1>3. SlotMove(o) = IF slots[o] >= 0 THEN 1 ELSE 0
  BY DEF SlotMove
<1>4. CASE slots[o] >= 0 /\ i = 1
  BY <1>1, <1>2, <1>3, <1>4
<1>5. CASE ~(slots[o] >= 0 /\ i = 1)
  <2>1. i - SlotMove(o) \in 1 .. Len(params) /\ i = SlotMove(o) + (i - SlotMove(o))
    <3> HIDE DEF params
    <3> QED
      BY <1>1, <1>2, <1>3, <1>5
  <2>2. Prologue(o)[i] = Mov(params[i - SlotMove(o)], PhysReg((i - SlotMove(o)) - 1))
    BY <1>2, <2>1
  <2> QED
    BY <1>1, <1>2, <1>3, <2>1, <2>2
<1> QED
  BY <1>4, <1>5

\* A label stands in one place.
LEMMA LabelsFound ==
    ASSUME Done, NEW o \in Places, NEW b \in Blocks(o)
    PROVE  /\ LabelAt(o, b) \in DOMAIN insns
           /\ insns[LabelAt(o, b)].op = "LABEL" /\ insns[LabelAt(o, b)].target = LabelOf(o, b - 1)
           /\ \A k \in DOMAIN insns :
                  insns[k].op = "LABEL" /\ insns[k].target = LabelOf(o, b - 1) => k = LabelAt(o, b)
           /\ LabelIndex(LabelOf(o, b - 1)) = LabelAt(o, b)
           /\ LabelOf(o, b - 1) \in Labels
<1>1. Ready
  BY ReadyFacts DEF Done
<1>2. \A p \in Places : \A c \in Blocks(p) :
          /\ LabelAt(p, c) \in DOMAIN insns
          /\ insns[LabelAt(p, c)].op = "LABEL" /\ insns[LabelAt(p, c)].target = LabelOf(p, c - 1)
  <2> SUFFICES ASSUME NEW p \in Places, NEW c \in Blocks(p)
               PROVE  /\ LabelAt(p, c) \in DOMAIN insns
                      /\ insns[LabelAt(p, c)].op = "LABEL" /\ insns[LabelAt(p, c)].target = LabelOf(p, c - 1)
    OBVIOUS
  <2>1. LabelAt(p, c) \in InPiece(p) /\ insns[LabelAt(p, c)] = LabelInsn(p, c)
    BY CodeShape
  <2>2. LabelAt(p, c) \in DOMAIN insns
    BY <2>1, PiecesFollow
  <2> QED
    BY <2>1, <2>2, Fields DEF LabelInsn
<1>3. ASSUME NEW k \in DOMAIN insns, insns[k].op = "LABEL", insns[k].target = LabelOf(o, b - 1)
      PROVE  k = LabelAt(o, b)
  <2>1. PICK p \in Places : k \in InPiece(p)
    BY PiecesFollow
  <2>2. ASSUME NEW i \in 1 .. Len(Prologue(p)), k = starts[p] + 1 + i PROVE FALSE
    <3>1. insns[k] = Prologue(p)[i]
      BY <2>2, CodeShape
    <3>2. Prologue(p)[i].op = "MOV"
      BY <1>1, PrologueMoves, MoveFields
    <3> QED
      BY <1>3, <3>1, <3>2
  <2>3. ASSUME NEW c \in Blocks(p), InBody(p, c, k) PROVE FALSE
    BY <1>3, <2>3 DEF InBody, BodyInsn
  <2>4. PICK c \in Blocks(p) : k = LabelAt(p, c)
    BY <2>1, <2>2, <2>3, CodeShape
  <2>5. LabelOf(p, c - 1) = LabelOf(o, b - 1)
    BY <1>2, <1>3, <2>4
  <2>6. p = o /\ c = b
    BY <2>5, LabelsDiffer DEF Done
  <2> QED
    BY <2>4, <2>6
<1>4. LabelIndex(LabelOf(o, b - 1)) = LabelAt(o, b)
  BY <1>2, <1>3 DEF LabelIndex
<1>5. LabelOf(o, b - 1) \in Labels
  BY <1>2 DEF Labels
<1> QED
  BY <1>2, <1>3, <1>4, <1>5


-----------------------------------------------------------------------------
(* BranchesLand: where the words of the text section are *)

Written == CodeInv /\ WordInv /\ pass = "written"

\* The sum of differences.
LEMMA Telescope ==
    ASSUME NEW n \in Nat, NEW f, NEW g, \A k \in 1 .. n : f[k] \in Nat,
           \A k \in 0 .. n : g[k] \in Nat, \A k \in 1 .. n : g[k] = g[k - 1] + f[k]
    PROVE  \A k \in 0 .. n : g[k] = g[0] + SumTo(f, k)
<1>1. /\ SumTo(f, 0) = 0
      /\ \A k \in 1 .. n : SumTo(f, k) = SumTo(f, k - 1) + f[k]
      /\ \A k \in 0 .. n : SumTo(f, k) \in Nat
  BY Sums
<1> DEFINE S == {k \in Nat : k <= n => g[k] = g[0] + SumTo(f, k)}
<1>2. 0 \in S
  BY <1>1
<1>3. ASSUME NEW k \in S PROVE k + 1 \in S
  <2> SUFFICES ASSUME k + 1 <= n PROVE g[k + 1] = g[0] + SumTo(f, k + 1)
    OBVIOUS
  <2>1. k \in Nat /\ k <= n /\ g[k] = g[0] + SumTo(f, k) /\ k + 1 \in 1 .. n /\ (k + 1) - 1 = k
    OBVIOUS
  <2>2. g[k + 1] = g[k] + f[k + 1] /\ SumTo(f, k + 1) = SumTo(f, k) + f[k + 1]
    BY <1>1, <2>1
  <2>3. g[0] \in Nat /\ f[k + 1] \in Nat /\ SumTo(f, k) \in Nat
    BY <1>1, <2>1
  <2> QED
    BY <2>1, <2>2, <2>3
<1>4. S \in SUBSET Nat
  OBVIOUS
<1>5. \A k \in Nat : k \in S
  <2> HIDE DEF S
  <2> QED
    BY <1>2, <1>3, <1>4, CountingUp
<1> QED
  BY <1>5

\* The borders of the functions, and the words of one.
LEMMA Borders ==
    ASSUME Written
    PROVE  LET n == Len(program)
               T == {out[m] : m \in 1 .. Len(out)}
           IN  /\ n \in Nat /\ n >= 1 /\ main_index = 1 /\ Len(out) \in Nat
               /\ piece_borders[1] = 0 /\ piece_borders[n + 1] = Len(out)
               /\ \A o \in 1 .. n + 1 : piece_borders[o] \in Nat
               /\ \A o \in 1 .. n : /\ piece_borders[o] <= piece_borders[o + 1]
                                    /\ piece_borders[o + 1] <= Len(out)
                                    /\ PieceWords(o) \in Seq(T)
                                    /\ Len(PieceWords(o)) = piece_borders[o + 1] - piece_borders[o]
                                    /\ \A i \in 1 .. Len(PieceWords(o)) :
                                           PieceWords(o)[i] = out[piece_borders[o] + i]
<1> DEFINE n == Len(program)
           T == {out[m] : m \in 1 .. Len(out)}
           ends == Len(insns)
<1>1. /\ n \in Nat /\ n >= 1 /\ main_index = 1 /\ Done /\ Places = 1 .. n
      /\ piece_borders = [o \in 1 .. n + 1 |->
                             IF o <= n THEN Position(starts[o] + 1) ELSE Position(ends + 1)]
      /\ LiesIn(out, WordCode, WordCounts, ends)
  <2>1. Len(program) \in Nat
    BY ProgramFacts DEF Written, CodeInv, OrderInv
  <2> QED
    BY <2>1 DEF Written, WordInv, Done, Places
<1>2. /\ ends \in Nat /\ DOMAIN insns = 1 .. ends
      /\ \A k \in 1 .. ends : WordCounts[k] = Words(insns[k]) /\ WordCounts[k] \in Nat
      /\ \A k \in 1 .. ends + 1 : Position(k) = SumTo(WordCounts, k - 1) /\ Position(k) \in Nat
      /\ Position(1) = 0
  BY PositionFacts DEF Written, CodeInv, PiecesInv
<1>3. Len(out) = SumTo(WordCounts, ends)
  BY <1>1 DEF LiesIn
<1>4. \A o \in 1 .. n : /\ starts[o] \in Nat /\ EndOf(o) \in Nat
                        /\ starts[o] <= EndOf(o) /\ EndOf(o) <= ends
  <2> SUFFICES ASSUME NEW o \in 1 .. n
               PROVE  starts[o] \in Nat /\ EndOf(o) \in Nat /\ starts[o] <= EndOf(o) /\ EndOf(o) <= ends
    OBVIOUS
  <2>1. o \in Places /\ Done
    BY <1>1
  <2>2. starts[o] \in Nat /\ EndOf(o) \in Nat /\ EndOf(o) <= ends /\ 1 \in Blocks(o)
        /\ LabelAt(o, 1) = starts[o] + 1 /\ LabelAt(o, 1) \in InPiece(o)
    BY <2>1, CodeShape
  <2> QED
    BY <2>2 DEF InPiece
<1>5. \A o \in 1 .. n : EndOf(o) = IF o < n THEN starts[o + 1] ELSE ends
  <2>1. Len(starts) = n
    BY DEF Written, CodeInv, PiecesInv, WordInv
  <2> QED
    BY <2>1 DEF EndOf
<1>6. starts[1] = 0
  <2>1. starts \in Seq(0 .. Len(insns)) /\ Len(starts) = n
    BY <1>1 DEF Done, CodeInv, PiecesInv
  <2>2. starts # <<>>
    BY <1>1, <2>1
  <2> QED
    BY <2>2 DEF Written, CodeInv, PiecesInv
<1> HIDE DEF n, ends, T
<1>7. \A o \in 1 .. n : /\ piece_borders[o] = SumTo(WordCounts, starts[o])
                        /\ piece_borders[o + 1] = SumTo(WordCounts, EndOf(o))
  <2> SUFFICES ASSUME NEW o \in 1 .. n
               PROVE  /\ piece_borders[o] = SumTo(WordCounts, starts[o])
                      /\ piece_borders[o + 1] = SumTo(WordCounts, EndOf(o))
    OBVIOUS
  <2>1. o \in 1 .. n + 1 /\ o <= n /\ o + 1 \in 1 .. n + 1
    BY <1>1
  <2>2. starts[o] + 1 \in 1 .. ends + 1 /\ (starts[o] + 1) - 1 = starts[o]
        /\ EndOf(o) + 1 \in 1 .. ends + 1 /\ (EndOf(o) + 1) - 1 = EndOf(o)
    BY <1>2, <1>4
  <2>3. Position(starts[o] + 1) = SumTo(WordCounts, starts[o])
        /\ Position(EndOf(o) + 1) = SumTo(WordCounts, EndOf(o))
    BY <1>2, <2>2
  <2>4. piece_borders[o] = Position(starts[o] + 1)
    BY <1>1, <2>1
  <2>5. piece_borders[o + 1] = Position(EndOf(o) + 1)
    <3>1. o + 1 <= n <=> o < n
      BY <1>1
    <3> QED
      BY <1>1, <1>5, <2>1, <3>1
  <2> QED
    BY <2>3, <2>4, <2>5
<1>8. \A k \in 0 .. ends : SumTo(WordCounts, k) \in Nat
  <2>1. \A k \in 1 .. ends : WordCounts[k] \in Nat
    BY <1>2
  <2>2. ends \in Nat
    BY <1>2
  <2> QED
    BY <2>1, <2>2, Sums
<1>9. \A o \in 1 .. n : /\ piece_borders[o] <= piece_borders[o + 1] /\ piece_borders[o + 1] <= Len(out)
                        /\ piece_borders[o] \in Nat /\ piece_borders[o + 1] \in Nat
  <2> SUFFICES ASSUME NEW o \in 1 .. n
               PROVE  /\ piece_borders[o] <= piece_borders[o + 1] /\ piece_borders[o + 1] <= Len(out)
                      /\ piece_borders[o] \in Nat /\ piece_borders[o + 1] \in Nat
    OBVIOUS
  <2>1. starts[o] \in 0 .. ends /\ EndOf(o) \in 0 .. ends
        /\ EndOf(o) \in starts[o] .. ends /\ ends \in EndOf(o) .. ends
    BY <1>2, <1>4
  <2>2. ends \in Nat /\ \A k \in 1 .. ends : WordCounts[k] \in Nat
    BY <1>2
  <2>3. SumTo(WordCounts, starts[o]) <= SumTo(WordCounts, EndOf(o))
    BY <2>1, <2>2, SumsGrow
  <2>4. SumTo(WordCounts, EndOf(o)) <= SumTo(WordCounts, ends)
    BY <2>1, <2>2, SumsGrow
  <2> QED
    BY <1>3, <1>7, <1>8, <2>1, <2>3, <2>4
<1>10. piece_borders[1] = 0 /\ piece_borders[n + 1] = Len(out) /\ Len(out) \in Nat
  <2>1. 1 \in 1 .. n /\ n \in 1 .. n /\ 0 \in 0 .. ends /\ ends \in 0 .. ends
    BY <1>1, <1>2
  <2>2. EndOf(n) = ends
    BY <1>5, <2>1
  <2>3. SumTo(WordCounts, 0) = 0
    <3>1. 1 \in 1 .. ends + 1 /\ 1 - 1 = 0
      BY <1>2
    <3> QED
      BY <1>2, <3>1
  <2> QED
    BY <1>3, <1>6, <1>7, <1>8, <2>1, <2>2, <2>3
<1>11. \A o \in 1 .. n + 1 : piece_borders[o] \in Nat
  <2>1. \A o \in 1 .. n + 1 : o \in 1 .. n \/ o = n + 1
    BY <1>1
  <2> QED
    BY <1>9, <1>10, <2>1
<1>12. ASSUME NEW o \in 1 .. n
       PROVE  /\ PieceWords(o) \in Seq(T)
              /\ Len(PieceWords(o)) = piece_borders[o + 1] - piece_borders[o]
              /\ \A i \in 1 .. Len(PieceWords(o)) : PieceWords(o)[i] = out[piece_borders[o] + i]
  <2> DEFINE p == piece_borders[o]
             q == piece_borders[o + 1]
  <2>1. p \in Nat /\ q \in Nat /\ p <= q /\ q <= Len(out)
    BY <1>9
  <2>2. PieceWords(o) = SubSeq(out, p + 1, q)
    BY DEF PieceWords
  <2> HIDE DEF p, q
  <2>3. p + 1 \in Int /\ q \in Int /\ \A i \in p + 1 .. q : out[i] \in T
    BY <1>10, <2>1 DEF T
  <2>4. /\ SubSeq(out, p + 1, q) \in Seq(T)
        /\ Len(SubSeq(out, p + 1, q)) = IF p + 1 <= q THEN q - (p + 1) + 1 ELSE 0
        /\ \A i \in 1 .. q - (p + 1) + 1 : SubSeq(out, p + 1, q)[i] = out[(p + 1) + i - 1]
    BY <2>3, SubSeqProperties
  <2>5. q - (p + 1) + 1 = q - p /\ (~(p + 1 <= q) => q - p = 0)
    BY <2>1
  <2>6. \A i \in 1 .. q - p : (p + 1) + i - 1 = p + i
    BY <2>1
  <2> QED
    BY <2>2, <2>4, <2>5, <2>6 DEF p, q
<1> QED
  BY <1>1, <1>9, <1>10, <1>11, <1>12 DEF n, T


\* Since main comes first in the code, the text section is the five words and
\* all words in their order.
LEMMA TextPlaced ==
    ASSUME Written
    PROVE  /\ Len(out) \in Nat /\ DOMAIN text = 1 .. 5 + Len(out)
           /\ \A i \in 1 .. 5 : text[i] = EntryCode[i]
           /\ \A m \in 1 .. Len(out) : text[5 + m] = out[m]
<1> DEFINE n == Len(program)
           T == {out[m] : m \in 1 .. Len(out)}
           E == {EntryCode[i] : i \in 1 .. 5}
           W == T \cup E
           border == piece_borders
           others == [k \in 1 .. n - 1 |-> PieceWords(k + 1)]
           lens == [k \in 1 .. n - 1 |-> Len(PieceWords(k + 1))]
           rest == FlattenSeq(others)
           main == PieceWords(1)
<1>1. /\ n \in Nat /\ n >= 1 /\ main_index = 1 /\ Len(out) \in Nat
      /\ border[1] = 0 /\ border[n + 1] = Len(out)
      /\ \A o \in 1 .. n + 1 : border[o] \in Nat
      /\ \A o \in 1 .. n : /\ border[o] <= border[o + 1]
                           /\ border[o + 1] <= Len(out)
                           /\ PieceWords(o) \in Seq(T)
                           /\ Len(PieceWords(o)) = border[o + 1] - border[o]
                           /\ \A i \in 1 .. Len(PieceWords(o)) : PieceWords(o)[i] = out[border[o] + i]
  BY Borders
<1>2. text = EntryCode \o main \o rest
  <2>1. [k \in DOMAIN Others |-> PieceWords(Others[k])] = others
    BY <1>1 DEF Others
  <2> QED
    BY <2>1 DEF Written, WordInv
<1>3. EntryCode \in Seq(E) /\ Len(EntryCode) = 5
  BY DEF EntryCode
<1> HIDE DEF n, T, E, W
<1>4. n - 1 \in Nat /\ \A k \in 1 .. n - 1 : k + 1 \in 1 .. n
  BY <1>1
<1>5. \A k \in 1 .. n - 1 : /\ others[k] = PieceWords(k + 1) /\ others[k] \in Seq(T)
                            /\ lens[k] = Len(others[k])
                            /\ lens[k] = border[(k + 1) + 1] - border[k + 1]
                            /\ border[(k + 1) + 1] \in Nat /\ border[k + 1] \in Nat
                            /\ border[k + 1] <= border[(k + 1) + 1]
                            /\ \A i \in 1 .. lens[k] : others[k][i] = out[border[k + 1] + i]
  <2> SUFFICES ASSUME NEW k \in 1 .. n - 1
               PROVE  /\ others[k] = PieceWords(k + 1) /\ others[k] \in Seq(T)
                      /\ lens[k] = Len(others[k])
                      /\ lens[k] = border[(k + 1) + 1] - border[k + 1]
                      /\ border[(k + 1) + 1] \in Nat /\ border[k + 1] \in Nat
                      /\ border[k + 1] <= border[(k + 1) + 1]
                      /\ \A i \in 1 .. lens[k] : others[k][i] = out[border[k + 1] + i]
    OBVIOUS
  <2>1. k + 1 \in 1 .. n /\ k + 1 \in 1 .. n + 1 /\ (k + 1) + 1 \in 1 .. n + 1
    BY SMTT(45), <1>1
  <2> QED
    BY <1>1, <2>1
<1>6. others \in Seq(Seq(T)) /\ Len(others) = n - 1
  <2> DEFINE m == n - 1
  <2>1. m \in Nat /\ \A k \in 1 .. m : others[k] \in Seq(T)
    BY <1>4, <1>5
  <2>2. others = [k \in 1 .. m |-> others[k]]
    OBVIOUS
  <2> HIDE DEF others, m
  <2>3. others \in [1 .. m -> Seq(T)]
    BY <2>1, <2>2
  <2> QED
    BY <2>1, <2>3 DEF m
<1> HIDE DEF others, lens, main, border
<1>7. rest \in Seq(T) /\ LiesIn(rest, others, lens, n - 1)
  <2>1. \A k \in 1 .. Len(others) : lens[k] = Len(others[k])
    BY <1>5, <1>6
  <2>2. others \in Seq(Seq(T))
    BY <1>6
  <2>3. FlattenSeq(others) \in Seq(T) /\ LiesIn(FlattenSeq(others), others, lens, Len(others))
    BY <2>1, <2>2, Flattened
  <2> QED
    BY <1>6, <2>3
<1> HIDE DEF rest
<1>8. \A k \in 0 .. n - 1 : border[(k + 1) + 1] = border[1 + 1] + SumTo(lens, k)
  <2> DEFINE g == [k \in 0 .. n - 1 |-> border[(k + 1) + 1]]
             m == n - 1
  <2>1. m \in Nat /\ \A k \in 1 .. m : lens[k] \in Nat
    BY <1>4, <1>5
  <2>2. \A k \in 0 .. m : g[k] \in Nat
    <3> SUFFICES ASSUME NEW k \in 0 .. m PROVE border[(k + 1) + 1] \in Nat
      OBVIOUS
    <3>1. (k + 1) + 1 \in 1 .. n + 1
      BY <1>1
    <3> QED
      BY <1>1, <3>1
  <2>3. \A k \in 1 .. m : g[k] = g[k - 1] + lens[k]
    <3> SUFFICES ASSUME NEW k \in 1 .. m PROVE g[k] = g[k - 1] + lens[k]
      OBVIOUS
    <3>1. k - 1 \in 0 .. m /\ k \in 0 .. m /\ (k - 1) + 1 = k
      BY <1>1
    <3>2. g[k] = border[(k + 1) + 1] /\ g[k - 1] = border[k + 1]
      BY <3>1
    <3> QED
      BY <1>5, <3>2
  <2>4. g[0] = border[1 + 1] /\ 0 \in 0 .. m
    BY <2>1
  <2> HIDE DEF g, m
  <2>5. \A k \in 0 .. m : g[k] = g[0] + SumTo(lens, k)
    BY <2>1, <2>2, <2>3, Telescope
  <2> QED
    BY <1>4, <2>4, <2>5 DEF g, m
<1>9. Len(main) = border[1 + 1] /\ border[1 + 1] \in Nat /\ border[1 + 1] <= Len(out)
      /\ main \in Seq(T) /\ \A i \in 1 .. Len(main) : main[i] = out[i]
  <2>1. 1 \in 1 .. n /\ 1 + 1 \in 1 .. n + 1
    BY <1>1
  <2>2. Len(main) = border[1 + 1] - border[1] /\ main \in Seq(T)
        /\ \A i \in 1 .. Len(main) : main[i] = out[border[1] + i]
    BY <1>1, <2>1 DEF main
  <2>3. border[1 + 1] \in Nat /\ border[1 + 1] <= Len(out)
    BY <1>1, <2>1
  <2>4. \A i \in 1 .. Len(main) : border[1] + i = i
    BY <1>1
  <2> QED
    BY <1>1, <2>2, <2>3, <2>4
<1>10. SumTo(lens, n - 1) = Len(out) - Len(main) /\ Len(rest) = Len(out) - Len(main)
  <2>1. n - 1 \in 0 .. n - 1 /\ ((n - 1) + 1) + 1 = n + 1
    BY <1>1
  <2>2. border[n + 1] = border[1 + 1] + SumTo(lens, n - 1)
    BY <1>8, <2>1
  <2>3. SumTo(lens, n - 1) \in Nat
    <3>1. n - 1 \in Nat /\ \A k \in 1 .. n - 1 : lens[k] \in Nat
      BY <1>4, <1>5
    <3> DEFINE m == n - 1
    <3>2. m \in Nat /\ \A k \in 1 .. m : lens[k] \in Nat
      BY <3>1
    <3> HIDE DEF m
    <3>3. \A k \in 0 .. m : SumTo(lens, k) \in Nat
      BY <3>2, Sums
    <3> QED
      BY <2>1, <3>3 DEF m
  <2>4. Len(rest) = SumTo(lens, n - 1)
    BY <1>7 DEF LiesIn
  <2> QED
    BY <1>1, <1>9, <2>2, <2>3, <2>4
<1>11. \A m \in 1 .. Len(rest) : rest[m] = out[Len(main) + m]
  <2> DEFINE l == n - 1
  <2>1. l \in Nat /\ (\A k \in 1 .. l : lens[k] \in Nat) /\ LiesIn(rest, others, lens, l)
    <3>1. n - 1 \in Nat
      BY <1>4
    <3>2. \A k \in 1 .. n - 1 : lens[k] \in Nat
      BY <1>5
    <3> QED
      BY <1>7, <3>1, <3>2
  <2> SUFFICES ASSUME NEW m \in 1 .. Len(rest) PROVE rest[m] = out[Len(main) + m]
    OBVIOUS
  <2> HIDE DEF l
  <2>2. Covered(rest, others, lens, l)
    BY <2>1, PlaceInWhole
  <2>3. PICK j \in 1 .. l : \E i \in 1 .. lens[j] : m = SumTo(lens, j - 1) + i /\ rest[m] = others[j][i]
    BY <2>2 DEF Covered
  <2>4. PICK i \in 1 .. lens[j] : m = SumTo(lens, j - 1) + i /\ rest[m] = others[j][i]
    BY <2>3
  <2>5. j \in 1 .. n - 1 /\ j - 1 \in 0 .. n - 1 /\ (j - 1) + 1 = j /\ j - 1 \in 0 .. l
    BY <1>4 DEF l
  <2>6. border[j + 1] = Len(main) + SumTo(lens, j - 1)
    BY <1>8, <1>9, <2>5
  <2>7. SumTo(lens, j - 1) \in Nat
    <3>1. \A k \in 0 .. l : SumTo(lens, k) \in Nat
      BY <2>1, Sums
    <3> QED
      BY <2>5, <3>1
  <2>8. rest[m] = out[border[j + 1] + i]
    BY <1>5, <2>4, <2>5
  <2>9. border[j + 1] + i = Len(main) + m
    <3>1. lens[j] \in Nat /\ Len(main) \in Nat
      BY <1>9, <2>1
    <3> QED
      BY <2>4, <2>6, <2>7, <3>1
  <2> QED
    BY <2>8, <2>9
<1>12. EntryCode \in Seq(W) /\ main \in Seq(W) /\ rest \in Seq(W)
  <2>1. T \subseteq W /\ E \subseteq W
    BY DEF W
  <2> QED
    BY <1>3, <1>7, <1>9, <2>1
<1> DEFINE front == EntryCode \o main
<1>13. /\ front \in Seq(W)
       /\ Len(front) = Len(EntryCode) + Len(main)
       /\ \A i \in 1 .. Len(EntryCode) : front[i] = EntryCode[i]
       /\ \A i \in 1 .. Len(main) : front[Len(EntryCode) + i] = main[i]
  BY <1>12, Behind
<1>14. text = front \o rest
  BY <1>2
<1> HIDE DEF front
<1>15. /\ text \in Seq(W)
       /\ Len(text) = Len(front) + Len(rest)
       /\ \A i \in 1 .. Len(front) : text[i] = front[i]
       /\ \A i \in 1 .. Len(rest) : text[Len(front) + i] = rest[i]
  <2>1. front \in Seq(W) /\ rest \in Seq(W)
    BY <1>12, <1>13
  <2>2. /\ front \o rest \in Seq(W)
        /\ Len(front \o rest) = Len(front) + Len(rest)
        /\ \A i \in 1 .. Len(front) : (front \o rest)[i] = front[i]
        /\ \A i \in 1 .. Len(rest) : (front \o rest)[Len(front) + i] = rest[i]
    BY <2>1, Behind
  <2> QED
    BY <1>14, <2>2
<1>16. Len(front) = 5 + Len(main) /\ Len(text) = 5 + Len(out) /\ Len(main) \in Nat
  <2>1. Len(EntryCode) = 5
    BY <1>3
  <2>2. Len(front) = Len(EntryCode) + Len(main)
    BY <1>13
  <2>3. Len(text) = Len(front) + Len(rest)
    BY <1>15
  <2>4. Len(rest) = Len(out) - Len(main)
    BY <1>10
  <2>5. Len(main) \in Nat
    BY <1>9
  <2>6. Len(out) \in Nat
    BY <1>1, LenProperties
  <2> DEFINE lf == Len(front)
             lt == Len(text)
             lr == Len(rest)
             lo == Len(out)
             lm == Len(main)
  <2>7. lf = 5 + lm /\ lt = lf + lr /\ lr = lo - lm /\ lm \in Nat /\ lo \in Nat
    BY <2>1, <2>2, <2>3, <2>4, <2>5, <2>6
  <2> HIDE DEF lf, lt, lr, lo, lm
  <2>8. lt = 5 + lo
    BY <2>7
  <2> QED
    BY <2>7, <2>8 DEF lf, lt, lo, lm
<1>17. DOMAIN text = 1 .. 5 + Len(out)
  BY <1>15, <1>16
<1>18. \A i \in 1 .. 5 : text[i] = EntryCode[i]
  BY <1>3, <1>13, <1>15, <1>16
<1>19. ASSUME NEW m \in 1 .. Len(out) PROVE text[5 + m] = out[m]
  <2>1. CASE m <= Len(main)
    <3>1. m \in 1 .. Len(main) /\ 5 + m \in 1 .. Len(front)
      BY <1>16, <2>1
    <3> QED
      BY <1>3, <1>9, <1>13, <1>15, <3>1
  <2>2. CASE m > Len(main)
    <3>1. m - Len(main) \in 1 .. Len(rest) /\ 5 + m = Len(front) + (m - Len(main))
          /\ Len(main) + (m - Len(main)) = m
      BY <1>1, <1>10, <1>16, <2>2
    <3> QED
      BY <1>11, <1>15, <3>1
  <2> QED
    BY <1>16, <2>1, <2>2
<1> QED
  BY <1>1, <1>17, <1>18, <1>19


\* The word w of instruction k, and every word behind the five is one.
LEMMA WordsInText ==
    ASSUME Written
    PROVE  /\ \A k \in DOMAIN insns : \A w \in 1 .. Words(insns[k]) :
                  /\ 5 + (Position(k) + w) \in DOMAIN text
                  /\ text[5 + (Position(k) + w)] = Encode(k, Position(k))[w]
           /\ \A a \in DOMAIN text : a \in 1 .. 5 \/
                  \E k \in DOMAIN insns : \E w \in 1 .. Words(insns[k]) : a = 5 + (Position(k) + w)
<1> DEFINE n == Len(insns)
<1>1. /\ n \in Nat /\ DOMAIN insns = 1 .. n
      /\ \A k \in 1 .. n : WordCounts[k] = Words(insns[k]) /\ WordCounts[k] \in Nat
      /\ \A k \in 1 .. n + 1 : Position(k) = SumTo(WordCounts, k - 1) /\ Position(k) \in Nat
  BY PositionFacts DEF Written, CodeInv, PiecesInv
<1>2. LiesIn(out, WordCode, WordCounts, n)
  BY DEF Written, WordInv
<1>3. /\ Len(out) \in Nat /\ DOMAIN text = 1 .. 5 + Len(out)
      /\ \A m \in 1 .. Len(out) : text[5 + m] = out[m]
  BY TextPlaced
<1>4. \A k \in 1 .. n : WordCode[k] = Encode(k, Position(k))
  BY <1>1 DEF WordCode
<1> HIDE DEF n
<1>5. n \in Nat /\ \A k \in 1 .. n : WordCounts[k] \in Nat
  BY <1>1
<1>6. ASSUME NEW k \in 1 .. n, NEW w \in 1 .. Words(insns[k])
      PROVE  /\ 5 + (Position(k) + w) \in DOMAIN text
             /\ text[5 + (Position(k) + w)] = Encode(k, Position(k))[w]
  <2>1. w \in 1 .. WordCounts[k] /\ Position(k) = SumTo(WordCounts, k - 1) /\ Position(k) \in Nat
        /\ WordCounts[k] \in Nat /\ k - 1 \in 0 .. n /\ k \in 0 .. n /\ n \in k .. n
    BY <1>1
  <2>2. SumTo(WordCounts, k) = SumTo(WordCounts, k - 1) + WordCounts[k] /\ SumTo(WordCounts, n) \in Nat
    <3>1. /\ \A j \in 1 .. n : SumTo(WordCounts, j) = SumTo(WordCounts, j - 1) + WordCounts[j]
          /\ \A j \in 0 .. n : SumTo(WordCounts, j) \in Nat
      BY <1>5, Sums
    <3>2. n \in 0 .. n
      BY <1>5
    <3> QED
      BY <3>1, <3>2
  <2>3. SumTo(WordCounts, k) <= SumTo(WordCounts, n)
    BY <1>5, <2>1, SumsGrow
  <2>4. Len(out) = SumTo(WordCounts, n) /\ out[SumTo(WordCounts, k - 1) + w] = WordCode[k][w]
    BY <1>2, <2>1 DEF LiesIn
  <2>5. Position(k) + w \in 1 .. Len(out)
    BY <2>1, <2>2, <2>3, <2>4
  <2>6. text[5 + (Position(k) + w)] = Encode(k, Position(k))[w]
    BY <1>3, <1>4, <2>1, <2>4, <2>5
  <2> QED
    BY <1>3, <2>5, <2>6
<1>7. ASSUME NEW a \in DOMAIN text, a \notin 1 .. 5
      PROVE  \E k \in 1 .. n : \E w \in 1 .. Words(insns[k]) : a = 5 + (Position(k) + w)
  <2>1. a - 5 \in 1 .. Len(out) /\ a = 5 + (a - 5)
    BY <1>3, <1>7
  <2>2. Covered(out, WordCode, WordCounts, n)
    BY <1>2, <1>5, PlaceInWhole
  <2>3. PICK k \in 1 .. n : \E w \in 1 .. WordCounts[k] : a - 5 = SumTo(WordCounts, k - 1) + w
    BY <2>1, <2>2 DEF Covered
  <2>4. Position(k) = SumTo(WordCounts, k - 1) /\ WordCounts[k] = Words(insns[k])
    BY <1>1
  <2> QED
    BY <2>1, <2>3, <2>4
<1> QED
  BY <1>1, <1>6, <1>7

\* What a word says.
LEMMA EncodedWord ==
    ASSUME insns \in Seq(InsnSet), NEW k \in DOMAIN insns, NEW pos, NEW w \in 1 .. Words(insns[k])
    PROVE  LET word == Encode(k, pos)[w]
               ins == insns[k]
           IN  /\ word.from = k
               /\ \/ word.kind = "plain"
                  \/ ins.op = "JMP" /\ w = 1 /\ word = Word("b", Offset(ins.target, pos), k)
                  \/ ins.op = "JE" /\ w = 1 /\ word = Word("cbnz", Offset(ins.target, pos), k)
                  \/ ins.op = "JE" /\ w = 2 /\ word = Word("b", Offset(ins.target2, pos + 1), k)
                  \/ ins.op = "CALL" /\ w = 1 /\ word = Word("bl", Offset(ins.target, pos), k)
<1> DEFINE ins == insns[k]
           word == Encode(k, pos)[w]
<1>1. ins \in InsnSet
  OBVIOUS
<1>2. /\ Words(ins) \in Nat
      /\ ins.op = "LABEL" => Words(ins) = 0
      /\ ins.op = "JMP" => Words(ins) = 1
      /\ ins.op \in {"JE", "CALL"} => Words(ins) = 2
  BY <1>1, WordsFacts
<1>3. \A kind, offset : Word(kind, offset, k).from = k /\ Word(kind, offset, k).kind = kind
  BY DEF Word
<1>4. CASE ins.op = "LABEL"
  BY <1>2, <1>4
<1>5. CASE ins.op = "JMP"
  <2>1. Encode(k, pos) = <<Word("b", Offset(insns[k].target, pos), k)>>
    BY <1>5 DEF Encode
  <2> QED
    BY <1>2, <1>3, <1>5, <2>1
<1>6. CASE ins.op = "JE"
  <2>1. Encode(k, pos) = <<Word("cbnz", Offset(insns[k].target, pos), k),
                           Word("b", Offset(insns[k].target2, pos + 1), k)>>
    BY <1>6 DEF Encode, EncodeJe
  <2>2. w = 1 \/ w = 2
    BY <1>2, <1>6
  <2> QED
    BY <1>3, <1>6, <2>1, <2>2
<1>7. CASE ins.op = "CALL"
  <2>1. Encode(k, pos) = <<Word("bl", Offset(insns[k].target, pos), k), Word("plain", 0, k)>>
    BY <1>7 DEF Encode
  <2>2. w = 1 \/ w = 2
    BY <1>2, <1>7
  <2> QED
    BY <1>3, <1>7, <2>1, <2>2
<1>8. CASE ins.op \notin {"LABEL", "JMP", "JE", "CALL"}
  <2>1. Encode(k, pos) = [v \in 1 .. Words(insns[k]) |-> Word("plain", 0, k)]
    BY <1>8 DEF Encode
  <2>2. word = Word("plain", 0, k)
    BY <2>1
  <2> QED
    BY <1>3, <2>2
<1> QED
  BY <1>4, <1>5, <1>6, <1>7, <1>8


\* The first word of an instruction that has words.
LEMMA FirstWords ==
    ASSUME Written, NEW j \in DOMAIN insns, Words(insns[j]) > 0
    PROVE  FirstWord(j) = 6 + Position(j)
<1> DEFINE S == {a \in DOMAIN text : text[a].from = j}
           first == 5 + (Position(j) + 1)
<1>1. insns \in Seq(InsnSet) /\ insns[j] \in InsnSet
  BY DEF Written, CodeInv, PiecesInv
<1>2. /\ Words(insns[j]) \in Nat
      /\ \A k \in DOMAIN insns : Position(k) \in Nat
      /\ \A k \in DOMAIN insns : Words(insns[k]) \in Nat
      /\ \A k \in DOMAIN insns : k \in 1 .. Len(insns)
  <2>1. /\ Len(insns) \in Nat /\ DOMAIN insns = 1 .. Len(insns)
        /\ \A k \in 1 .. Len(insns) + 1 : Position(k) \in Nat
    BY <1>1, PositionFacts
  <2>2. \A k \in DOMAIN insns : insns[k] \in InsnSet
    BY <1>1
  <2>3. \A k \in DOMAIN insns : Words(insns[k]) \in Nat
    BY <2>2, WordsFacts
  <2> QED
    BY <2>1, <2>3
<1>3. first \in S
  <2>1. 1 \in 1 .. Words(insns[j])
    BY <1>2
  <2>2. first \in DOMAIN text /\ text[first] = Encode(j, Position(j))[1]
    BY <2>1, WordsInText
  <2>3. Encode(j, Position(j))[1].from = j
    BY <1>1, <2>1, EncodedWord
  <2> QED
    BY <2>2, <2>3
<1>4. ASSUME NEW a \in S PROVE first <= a
  <2>1. a \in DOMAIN text /\ text[a].from = j
    OBVIOUS
  <2>2. a \notin 1 .. 5
    <3>1. \A i \in 1 .. 5 : text[i].from = 0
      <4>1. \A i \in 1 .. 5 : text[i] = EntryCode[i]
        BY TextPlaced
      <4>2. \A kind, offset : Word(kind, offset, 0).from = 0
        BY DEF Word
      <4>3. \A i \in 1 .. 5 : EntryCode[i].from = 0
        BY <4>2 DEF EntryCode
      <4> QED
        BY <4>1, <4>3
    <3> QED
      BY <1>2, <2>1, <3>1
  <2>0. PICK k \in DOMAIN insns : \E w \in 1 .. Words(insns[k]) : a = 5 + (Position(k) + w)
    BY <2>1, <2>2, WordsInText
  <2>3. PICK w \in 1 .. Words(insns[k]) : a = 5 + (Position(k) + w)
    BY <2>0
  <2>4. text[a] = Encode(k, Position(k))[w]
    BY <2>3, WordsInText
  <2>5. text[a].from = k
    BY <1>1, <2>4, EncodedWord
  <2>6. k = j
    BY <2>1, <2>5
  <2> QED
    BY <1>2, <2>3, <2>6
<1>5. \A a \in S : a \in Nat
  <2>1. DOMAIN text = 1 .. 5 + Len(out) /\ Len(out) \in Nat
    BY TextPlaced
  <2> QED
    BY <2>1
<1>6. FirstWord(j) = CHOOSE a \in S : \A c \in S : a <= c
  BY DEF FirstWord, Min
<1>7. first \in Nat
  BY <1>2
<1> HIDE DEF S, first
<1>8. FirstWord(j) = first
  <2>1. FirstWord(j) \in S /\ \A c \in S : FirstWord(j) <= c
    BY <1>3, <1>4, <1>6
  <2> QED
    BY <1>3, <1>4, <1>5, <2>1
<1> QED
  BY <1>2, <1>8 DEF first

\* Between a label and the code behind it there are no words.
LEMMA CodeBehindLabel ==
    ASSUME Written, NEW k \in DOMAIN insns, insns[k].op = "LABEL", CodeBehind(k) # {}
    PROVE  FirstWord(Min(CodeBehind(k))) = 6 + Position(k)
<1> DEFINE n == Len(insns)
           S == CodeBehind(k)
           j == Min(S)
<1>1. /\ n \in Nat /\ DOMAIN insns = 1 .. n
      /\ \A i \in 1 .. n : WordCounts[i] = Words(insns[i]) /\ WordCounts[i] \in Nat
      /\ \A i \in 1 .. n + 1 : Position(i) = SumTo(WordCounts, i - 1) /\ Position(i) \in Nat
      /\ \A i \in 1 .. n : Position(i + 1) = Position(i) + Words(insns[i])
  BY PositionFacts DEF Written, CodeInv, PiecesInv
<1>2. S \in SUBSET Nat /\ \A i \in S : i \in DOMAIN insns /\ i > k /\ Words(insns[i]) > 0
  BY <1>1 DEF CodeBehind
<1>3. j \in S /\ \A i \in S : j <= i
  <2>1. \E m \in S : \A i \in S : m <= i
    BY <1>2, LeastNumber
  <2> QED
    BY <2>1 DEF Min
<1>4. insns[k] \in InsnSet
  BY DEF Written, CodeInv, PiecesInv
<1>5. Words(insns[k]) = 0
  BY <1>4, WordsFacts
<1> HIDE DEF n, j
<1>6. \A i \in 1 .. n : k < i /\ i < j => Words(insns[i]) = 0
  <2> SUFFICES ASSUME NEW i \in 1 .. n, k < i, i < j, Words(insns[i]) # 0 PROVE FALSE
    OBVIOUS
  <2>0. Words(insns[i]) \in Nat
    BY <1>1
  <2>1. Words(insns[i]) > 0
    BY <2>0
  <2>2. i \in S
    BY <1>1, <2>1 DEF CodeBehind
  <2> QED
    BY <1>1, <1>2, <1>3, <2>2
<1> HIDE DEF S
<1> DEFINE A == {d \in Nat : (k + 1) + d <= j => Position((k + 1) + d) = Position(k)}
<1>7. n \in Nat /\ k \in 1 .. n /\ j \in 1 .. n /\ k < j
  BY <1>1, <1>2, <1>3
<1>8. 0 \in A
  BY SMTT(45), <1>1, <1>5, <1>7
<1>9. ASSUME NEW d \in A PROVE d + 1 \in A
  <2> SUFFICES ASSUME (k + 1) + (d + 1) <= j PROVE Position((k + 1) + (d + 1)) = Position(k)
    OBVIOUS
  <2>1. d \in Nat /\ (k + 1) + d <= j /\ Position((k + 1) + d) = Position(k)
    BY <1>7
  <2>2. (k + 1) + d \in 1 .. n /\ k < (k + 1) + d /\ (k + 1) + d < j /\ (k + 1) + (d + 1) = ((k + 1) + d) + 1
    BY <1>7, <2>1
  <2> HIDE DEF A
  <2>3. Words(insns[(k + 1) + d]) = 0 /\ Position(((k + 1) + d) + 1) = Position((k + 1) + d) + Words(insns[(k + 1) + d])
    BY <1>1, <1>6, <2>2
  <2>4. Position((k + 1) + d) \in Nat
    <3>1. (k + 1) + d \in 1 .. n + 1
      BY <1>1, <2>2
    <3> QED
      BY <1>1, <3>1
  <2> QED
    BY <2>1, <2>2, <2>3, <2>4
<1>10. j - (k + 1) \in Nat /\ (k + 1) + (j - (k + 1)) = j /\ j <= j
  BY <1>7
<1>11. Position(j) = Position(k)
  <2>1. A \in SUBSET Nat
    OBVIOUS
  <2>2. j - (k + 1) \in A
    <3> HIDE DEF A
    <3> QED
      BY <1>8, <1>9, <1>10, <2>1, CountingUp
  <2> QED
    BY <1>10, <2>2
<1>12. j \in DOMAIN insns /\ Words(insns[j]) > 0
  BY <1>2, <1>3
<1>13. FirstWord(j) = 6 + Position(j)
  BY <1>12, FirstWords
<1> QED
  BY <1>11, <1>13 DEF j, S


\* Labels that blocks have.
HasPlace(label) == \E o \in Places : \E b \in Blocks(o) : label = LabelOf(o, b - 1)

LEMMA JumpsFound ==
    ASSUME Done, NEW k \in DOMAIN insns
    PROVE  /\ insns[k].op \in {"JMP", "JE", "CALL"} => HasPlace(insns[k].target)
           /\ insns[k].op = "JE" => HasPlace(insns[k].target2)
<1>1. Ready
  BY ReadyFacts DEF Done
<1>2. PICK o \in Places : k \in InPiece(o)
  BY PiecesFollow
<1> SUFFICES ASSUME insns[k].op \in {"JMP", "JE", "CALL"}
             PROVE  /\ HasPlace(insns[k].target)
                    /\ insns[k].op = "JE" => HasPlace(insns[k].target2)
  OBVIOUS
<1>3. ASSUME NEW b \in Blocks(o), k = LabelAt(o, b) PROVE FALSE
  BY <1>3, LabelsFound
<1>4. ASSUME NEW i \in 1 .. Len(Prologue(o)), k = starts[o] + 1 + i PROVE FALSE
  <2>1. insns[k] = Prologue(o)[i]
    BY <1>4, CodeShape
  <2>2. Prologue(o)[i].op = "MOV"
    BY <1>1, PrologueMoves, MoveFields
  <2> QED
    BY <2>1, <2>2
<1>5. PICK b \in Blocks(o) : InBody(o, b, k)
  BY <1>2, <1>3, <1>4, CodeShape
<1>6. \A label : GoodLabel(o, b, label) => HasPlace(label)
  BY DEF GoodLabel, HasPlace
<1>7. ASSUME insns[k].op = "CALL" PROVE HasPlace(insns[k].target)
  <2>1. PICK p \in Callees(o) : insns[k].target = LabelOf(p, 0)
    BY <1>5, <1>7 DEF InBody, BodyInsn
  <2>2. p \in Places
    BY <2>1 DEF Callees
  <2>3. 1 \in Blocks(p) /\ 1 - 1 = 0
    BY <2>2, CodeShape
  <2> QED
    BY <2>1, <2>2, <2>3 DEF HasPlace
<1> QED
  BY <1>5, <1>6, <1>7 DEF InBody, BodyInsn

\* Where the branch to a label ought to go, and what the passes make of it.
LEMMA LabelLands ==
    ASSUME Written, NEW label, HasPlace(label)
    PROVE  /\ label \in Labels
           /\ label_addr[label] \in Nat
           /\ \A k \in DOMAIN insns :
                  insns[k].op = "LABEL" /\ insns[k].target = label /\ CodeBehind(k) # {} =>
                      6 + label_addr[label] = FirstWord(Min(CodeBehind(k)))
<1>1. Done
  BY DEF Written, WordInv, Done
<1>2. PICK o \in Places : \E b \in Blocks(o) : label = LabelOf(o, b - 1)
  BY DEF HasPlace
<1>3. PICK b \in Blocks(o) : label = LabelOf(o, b - 1)
  BY <1>2
<1>4. /\ LabelAt(o, b) \in DOMAIN insns
      /\ \A k \in DOMAIN insns : insns[k].op = "LABEL" /\ insns[k].target = label => k = LabelAt(o, b)
      /\ LabelIndex(label) = LabelAt(o, b)
      /\ label \in Labels
  BY <1>1, <1>3, LabelsFound
<1>5. label_addr[label] = Position(LabelAt(o, b))
  BY <1>4 DEF Written, WordInv
<1>6. Position(LabelAt(o, b)) \in Nat
  <2>1. /\ Len(insns) \in Nat /\ DOMAIN insns = 1 .. Len(insns)
        /\ \A i \in 1 .. Len(insns) + 1 : Position(i) \in Nat
    BY PositionFacts DEF Written, CodeInv, PiecesInv
  <2> QED
    BY <1>4, <2>1
<1>7. ASSUME NEW k \in DOMAIN insns, insns[k].op = "LABEL", insns[k].target = label, CodeBehind(k) # {}
      PROVE  6 + label_addr[label] = FirstWord(Min(CodeBehind(k)))
  <2>1. k = LabelAt(o, b)
    BY <1>4, <1>7
  <2>2. FirstWord(Min(CodeBehind(k))) = 6 + Position(k)
    BY <1>7, CodeBehindLabel
  <2> QED
    BY <1>5, <2>1, <2>2
<1> QED
  BY <1>4, <1>5, <1>6, <1>7

LEMMA BranchesGoHome ==
    ASSUME CodeInv, WordInv
    PROVE  BranchesLand
<1> SUFFICES ASSUME Written, NEW a \in DOMAIN text, text[a].kind # "plain", NEW label \in Targets(text[a])
             PROVE  /\ label \in Labels
                    /\ \A k \in DOMAIN insns :
                           insns[k].op = "LABEL" /\ insns[k].target = label /\ CodeBehind(k) # {} =>
                               a + text[a].offset = FirstWord(Min(CodeBehind(k)))
  BY DEF BranchesLand, Written
<1>1. Done /\ main_index = 1 /\ 1 \in Places /\ insns \in Seq(InsnSet)
  BY DEF Written, WordInv, Done, CodeInv, PiecesInv
<1> SUFFICES HasPlace(label) /\ (label_addr[label] \in Nat => a + text[a].offset = 6 + label_addr[label])
  BY LabelLands
<1>2. \A kind, offset, k : /\ Word(kind, offset, k).kind = kind
                           /\ Word(kind, offset, k).offset = offset
                           /\ Word(kind, offset, k).from = k
  BY DEF Word
<1>3. CASE a \in 1 .. 5
  <2>1. text[a] = EntryCode[a]
    BY <1>3, TextPlaced
  <2>2. a = 3 /\ text[a] = Word("bl", 3, 0)
    BY <1>2, <1>3, <2>1 DEF EntryCode
  <2>3. label = LabelOf(1, 0)
    BY <1>1, <1>2, <2>2 DEF Targets
  <2>4. 1 \in Blocks(1) /\ 1 - 1 = 0 /\ LabelAt(1, 1) = starts[1] + 1
    BY <1>1, CodeShape
  <2>5. starts[1] = 0
    <3>1. starts \in Seq(0 .. Len(insns)) /\ Len(starts) = Len(program) /\ 1 \in 1 .. Len(program)
      BY <1>1 DEF Done, CodeInv, PiecesInv, Places
    <3>2. starts # <<>>
      BY <3>1
    <3> QED
      BY <3>2 DEF Written, CodeInv, PiecesInv
  <2>6. LabelIndex(label) = 1 /\ label \in Labels
    BY <1>1, <2>3, <2>4, <2>5, LabelsFound
  <2>7. label_addr[label] = 0
    <3>1. Position(1) = 0
      BY <1>1, PositionFacts
    <3> QED
      BY <2>6, <3>1 DEF Written, WordInv
  <2> QED
    BY <1>1, <1>2, <2>2, <2>3, <2>4, <2>7 DEF HasPlace
<1>4. CASE a \notin 1 .. 5
  <2>1. PICK k \in DOMAIN insns : \E w \in 1 .. Words(insns[k]) : a = 5 + (Position(k) + w)
    BY <1>4, WordsInText
  <2>2. PICK w \in 1 .. Words(insns[k]) : a = 5 + (Position(k) + w)
    BY <2>1
  <2> DEFINE pos == Position(k)
             ins == insns[k]
  <2>3. text[a] = Encode(k, pos)[w]
    BY <2>2, WordsInText
  <2>4. pos \in Nat /\ k # 0
    <3>1. /\ Len(insns) \in Nat /\ DOMAIN insns = 1 .. Len(insns)
          /\ \A i \in 1 .. Len(insns) + 1 : Position(i) \in Nat
      BY <1>1, PositionFacts
    <3> QED
      BY <3>1
  <2>5. /\ text[a].from = k
        /\ \/ ins.op = "JMP" /\ w = 1 /\ text[a] = Word("b", Offset(ins.target, pos), k)
           \/ ins.op = "JE" /\ w = 1 /\ text[a] = Word("cbnz", Offset(ins.target, pos), k)
           \/ ins.op = "JE" /\ w = 2 /\ text[a] = Word("b", Offset(ins.target2, pos + 1), k)
           \/ ins.op = "CALL" /\ w = 1 /\ text[a] = Word("bl", Offset(ins.target, pos), k)
    BY <1>1, <2>3, EncodedWord
  <2> HIDE DEF pos
  <2>6. CASE w = 1 /\ ins.op \in {"JMP", "JE", "CALL"} /\ text[a].offset = Offset(ins.target, pos)
             /\ label = ins.target
    <3>1. HasPlace(label)
      BY <1>1, <2>6, JumpsFound
    <3>2. text[a].offset = label_addr[label] - pos /\ a = 5 + (pos + 1)
      BY <2>2, <2>6 DEF Offset, pos
    <3> QED
      BY <2>4, <3>1, <3>2
  <2>7. CASE w = 2 /\ ins.op = "JE" /\ text[a].offset = Offset(ins.target2, pos + 1) /\ label = ins.target2
    <3>1. HasPlace(label)
      BY <1>1, <2>7, JumpsFound
    <3>2. text[a].offset = label_addr[label] - (pos + 1) /\ a = 5 + (pos + 2)
      BY <2>2, <2>7 DEF Offset, pos
    <3> QED
      BY <2>4, <3>1, <3>2
  <2>8. Targets(text[a]) = IF text[a].kind \in {"cbnz", "bl"} \/ ins.op = "JMP" THEN {ins.target} ELSE {ins.target2}
    <3>1. text[a].from = k /\ k # 0 /\ text[a].kind \in {"cbnz", "bl", "b"}
      BY <1>2, <2>4, <2>5
    <3>2. CASE text[a].kind \in {"cbnz", "bl"}
      BY <3>1, <3>2 DEF Targets
    <3>3. CASE text[a].kind = "b"
      BY <3>1, <3>3 DEF Targets
    <3> QED
      BY <3>1, <3>2, <3>3
  <2> QED
    BY <1>2, <2>5, <2>6, <2>7, <2>8
<1> QED
  BY <1>3, <1>4

\* In every text section that is written each branch and call, that of main
\* included, goes to the first word of the code behind the label it names.
THEOREM EveryBranchLands == RunSpec => []BranchesLand
<1>1. RunInit => CodeInv /\ WordInv
  BY CodeInvInit, WordInvInit DEF RunInit, AsmInit
<1>2. CodeInv /\ WordInv /\ [RunNext]_<<asmVars, runVars>> => (CodeInv /\ WordInv)'
  BY AsmOfRun, AsmStep
<1>3. CodeInv /\ WordInv => BranchesLand
  BY BranchesGoHome
<1> QED
  BY <1>1, <1>2, <1>3, PTL DEF RunSpec


-----------------------------------------------------------------------------
(* The states of a run *)

ValueSet == ({"number"} \X Int) \cup ({"made", "initially", "after"} \X Nat)
CallSet == [at : Nat, sent : [Register -> ValueSet]]

\* Return addresses are those that calls leave.
Sound(v) ==
    v[1] = "after" => v = Home \/ \E k \in DOMAIN insns : insns[k].op = "CALL" /\ v = After(k)

Registers(y) == y \in [Register -> ValueSet] /\ \A r \in Register : Sound(y[r])
Calls(c) ==
    /\ c \in Seq(CallSet)
    /\ Len(c) <= MaxCalls
    /\ \A i \in DOMAIN c : c[i].at \in DOMAIN insns /\ insns[c[i].at].op = "CALL"

StateInv ==
    /\ running \in {"no", "yes", "exit", "lost"}
    /\ running = "no" => pc = 0 /\ calls = <<>> /\ \A r \in Register : x[r][1] # "after"
    /\ running # "no" => pass = "written" /\ pc \in 1 .. Len(insns) + 1
    /\ Registers(x)
    /\ Calls(calls)

LEMMA ValueFacts ==
    /\ \A n \in Int : Number(n) \in ValueSet /\ Number(n)[1] = "number"
    /\ \A k \in Nat : Made(k) \in ValueSet /\ Made(k)[1] = "made"
    /\ \A k \in Nat : Initially(k) \in ValueSet /\ Initially(k)[1] = "initially"
    /\ \A k \in Nat : After(k) \in ValueSet /\ After(k)[1] = "after" /\ After(k)[2] = k
    /\ Home = After(0)
BY DEF Number, Made, Initially, After, Home, ValueSet

\* Registers by their five bits.
LEMMA FieldFacts ==
    /\ \A r \in Int : Field(r) \in Register
    /\ \A r \in Register : Field(r) = r
    /\ \A r \in Pool : r \in Register /\ r # LinkRegister /\ r # ZeroRegister /\ r \notin {16, 17, 18}
    /\ LinkRegister \in Register /\ Scratch \in Register
BY DEF Field, Register, Pool, LinkRegister, ZeroRegister, Scratch

\* Nothing is assembled or compiled once the text is written.
LEMMA NothingAssembled ==
    ASSUME CodeInv, WordInv, pass = "written", AsmNext
    PROVE  FALSE
BY DEF CodeInv, WordInv, AsmNext, Compile, Next, OrderFunctions, AssignSlot, SlotsAssigned, LabelFunction,
       LabelsDone, CompileFunction, CompileEnd, FirstPass, SecondPass, SplitBytes, WriteText

LEMMA OperandFacts ==
    ASSUME Done, NEW k \in DOMAIN insns
    PROVE  insns[k] \in InsnSet /\ insns[k].src1 \in Operand /\ insns[k].reg \in Nat /\ k \in 1 .. Len(insns)
           /\ Len(insns) \in Nat
<1>1. insns \in Seq(InsnSet)
  BY DEF Done, CodeInv, PiecesInv
<1>2. insns[k] \in InsnSet
  BY <1>1
<1> QED
  BY <1>1, <1>2 DEF InsnSet

LEMMA ValueRead ==
    ASSUME Registers(x), NEW operand \in Operand
    PROVE  ValueOf(operand) \in ValueSet /\ Sound(ValueOf(operand))
<1>1. operand.src \in Int
  BY DEF Operand
<1>2. Field(operand.src) \in Register
  BY <1>1, FieldFacts
<1>3. \A n \in Int : Number(n) \in ValueSet /\ Sound(Number(n))
  BY ValueFacts DEF Sound
<1> QED
  BY <1>1, <1>2, <1>3 DEF ValueOf, Registers

LEMMA RunInvInit == RunInit => StateInv
<1> SUFFICES ASSUME RunInit PROVE StateInv
  OBVIOUS
<1>1. Register \subseteq Nat
  BY DEF Register
<1>2. x = [r \in Register |-> Initially(r)] /\ running = "no" /\ pc = 0 /\ calls = <<>>
  BY DEF RunInit
<1>3. x \in [Register -> ValueSet] /\ \A r \in Register : x[r][1] # "after"
  BY <1>1, <1>2, ValueFacts
<1>4. Registers(x)
  BY <1>3 DEF Registers, Sound
<1>5. Calls(calls)
  BY <1>2, MaxCallsAssumption DEF Calls
<1> QED
  BY <1>2, <1>3, <1>4, <1>5 DEF StateInv

\* What a step of the machine has to keep.
LEMMA MachineStep ==
    ASSUME StateInv, UNCHANGED asmVars, pass = "written", running' \in {"yes", "exit", "lost"},
           pc' \in 1 .. Len(insns) + 1, Registers(x'), Calls(calls')
    PROVE  StateInv'
<1>1. UNCHANGED <<insns, pass>>
  BY DEF asmVars, codeVars, wordVars
<1>2. Registers(x)' /\ Calls(calls)'
  BY <1>1 DEF Registers, Sound, Calls
<1> QED
  BY <1>1, <1>2 DEF StateInv


\* Where a jump leads.
LEMMA PlaceFound ==
    ASSUME Done, NEW label, HasPlace(label)
    PROVE  LabelIndex(label) \in DOMAIN insns /\ LabelIndex(label) \in 1 .. Len(insns) + 1
<1>1. PICK o \in Places : \E b \in Blocks(o) : label = LabelOf(o, b - 1)
  BY DEF HasPlace
<1>2. PICK b \in Blocks(o) : label = LabelOf(o, b - 1)
  BY <1>1
<1>3. LabelIndex(label) \in DOMAIN insns
  BY <1>2, LabelsFound
<1> QED
  BY <1>3, OperandFacts

LEMMA DoneWhenRunning ==
    ASSUME CodeInv, WordInv, StateInv, running = "yes"
    PROVE  Done /\ Written /\ Ready /\ main_index = 1 /\ 1 \in Places
BY ReadyFacts DEF Done, Written, WordInv, StateInv

LEMMA StartStep ==
    ASSUME CodeInv, WordInv, StateInv, StartProgram
    PROVE  /\ StateInv'
           /\ UNCHANGED asmVars /\ running' = "yes" /\ calls' = <<>>
           /\ pc' = LabelAt(1, 1) /\ x' = [x EXCEPT ![LinkRegister] = Home]
<1>1. Done /\ main_index = 1 /\ 1 \in Places /\ pass = "written"
  BY DEF StartProgram, Done, WordInv
<1>2. UNCHANGED asmVars /\ running' = "yes" /\ calls' = calls /\ calls = <<>>
      /\ pc' = LabelIndex(LabelOf(1, 0)) /\ x' = [x EXCEPT ![LinkRegister] = Home]
  BY <1>1 DEF StartProgram, Enter, StateInv
<1>3. 1 \in Blocks(1) /\ 1 - 1 = 0
  BY <1>1, CodeShape
<1>4. pc' = LabelAt(1, 1) /\ LabelAt(1, 1) \in DOMAIN insns
  BY <1>1, <1>2, <1>3, LabelsFound
<1>5. pc' \in 1 .. Len(insns) + 1
  BY <1>1, <1>4, OperandFacts
<1>6. Home \in ValueSet /\ Sound(Home)
  BY ValueFacts DEF Sound
<1>7. Registers(x')
  BY <1>2, <1>6 DEF Registers, StateInv
<1>8. Calls(calls')
  BY <1>2 DEF StateInv
<1>9. StateInv'
  BY <1>1, <1>2, <1>5, <1>7, <1>8, MachineStep
<1> QED
  BY <1>2, <1>4, <1>9

LEMMA MoveStep ==
    ASSUME CodeInv, WordInv, StateInv, Pass \/ Move \/ Compute
    PROVE  StateInv'
<1>1. running = "yes" /\ pc <= Len(insns) /\ UNCHANGED asmVars /\ running' = running /\ calls' = calls /\ pc' = pc + 1
  BY DEF Pass, Move, Compute, At
<1>2. Done /\ pass = "written" /\ pc \in 1 .. Len(insns) + 1 /\ Registers(x) /\ Calls(calls)
  BY <1>1, DoneWhenRunning DEF StateInv
<1>3. pc \in DOMAIN insns /\ Len(insns) \in Nat
  <2>1. insns \in Seq(InsnSet)
    BY <1>2 DEF Done, CodeInv, PiecesInv
  <2> QED
    BY <1>1, <1>2, <2>1
<1>4. insns[pc].src1 \in Operand /\ insns[pc].reg \in Nat
  BY <1>2, <1>3, OperandFacts
<1>5. pc' \in 1 .. Len(insns) + 1
  BY <1>1, <1>2, <1>3
<1>6. x \in [Register -> ValueSet] /\ \A r \in Register : Sound(x[r])
  BY <1>2 DEF Registers
<1>7. Registers(x')
  <2>1. CASE Pass
    BY <1>2, <2>1 DEF Pass
  <2>2. CASE Move
    <3> DEFINE v == ValueOf(insns[pc].src1)
               d == Field(insns[pc].reg)
    <3>1. v \in ValueSet /\ Sound(v)
      BY <1>2, <1>4, ValueRead
    <3>2. x' = [x EXCEPT ![d] = v]
      BY <2>2 DEF Move
    <3> HIDE DEF v, d
    <3> QED
      BY <1>6, <3>1, <3>2 DEF Registers
  <2>3. CASE Compute
    <3> DEFINE d == Field(insns[pc].reg)
    <3>1. Made(pc) \in ValueSet /\ Sound(Made(pc))
      BY <1>2, ValueFacts DEF Sound
    <3>2. x' = [r \in Register |->
                   IF r = d THEN Made(pc)
                   ELSE IF r = Scratch /\ WritesScratch(insns[pc]) THEN Made(pc) ELSE x[r]]
      BY <2>3 DEF Compute
    <3> HIDE DEF d
    <3> QED
      BY <1>6, <3>1, <3>2 DEF Registers
  <2> QED
    BY <2>1, <2>2, <2>3
<1> QED
  BY <1>1, <1>2, <1>5, <1>7, MachineStep

LEMMA JumpStep ==
    ASSUME CodeInv, WordInv, StateInv, Jump \/ Branch
    PROVE  StateInv'
<1>1. running = "yes" /\ pc <= Len(insns) /\ UNCHANGED <<asmVars, running, x, calls>>
      /\ insns[pc].op \in {"JMP", "JE"}
      /\ \/ pc' = LabelIndex(insns[pc].target)
         \/ insns[pc].op = "JE" /\ pc' = LabelIndex(insns[pc].target2)
  BY DEF Jump, Branch, At, Enter
<1>2. Done /\ pass = "written" /\ pc \in 1 .. Len(insns) + 1 /\ Registers(x) /\ Calls(calls)
  BY <1>1, DoneWhenRunning DEF StateInv
<1>3. pc \in DOMAIN insns
  <2>1. insns \in Seq(InsnSet)
    BY <1>2 DEF Done, CodeInv, PiecesInv
  <2> QED
    BY <1>1, <1>2, <2>1
<1>4. pc' \in 1 .. Len(insns) + 1
  BY <1>1, <1>2, <1>3, JumpsFound, PlaceFound
<1> QED
  BY <1>1, <1>2, <1>4, MachineStep

LEMMA CallStep ==
    ASSUME CodeInv, WordInv, StateInv, CallFunction
    PROVE  StateInv'
<1>1. running = "yes" /\ pc <= Len(insns) /\ UNCHANGED <<asmVars, running>> /\ insns[pc].op = "CALL"
      /\ pc' = LabelIndex(insns[pc].target)
      /\ x' = [x EXCEPT ![LinkRegister] = After(pc)]
      /\ calls' = Append(calls, [at |-> pc, sent |-> x]) /\ Len(calls) < MaxCalls
  BY DEF CallFunction, At, Enter
<1>2. Done /\ pass = "written" /\ pc \in 1 .. Len(insns) + 1 /\ Registers(x) /\ Calls(calls)
  BY <1>1, DoneWhenRunning DEF StateInv
<1>3. pc \in DOMAIN insns /\ pc \in Nat
  <2>1. insns \in Seq(InsnSet)
    BY <1>2 DEF Done, CodeInv, PiecesInv
  <2> QED
    BY <1>1, <1>2, <2>1
<1>4. pc' \in 1 .. Len(insns) + 1
  BY <1>1, <1>2, <1>3, JumpsFound, PlaceFound
<1>5. After(pc) \in ValueSet /\ Sound(After(pc))
  BY <1>1, <1>3, ValueFacts DEF Sound
<1>6. Registers(x')
  BY <1>1, <1>2, <1>5 DEF Registers
<1>7. Calls(calls')
  <2>1. [at |-> pc, sent |-> x] \in CallSet
    BY <1>2, <1>3 DEF CallSet, Registers
  <2>2. calls \in Seq(CallSet) /\ Len(calls) \in Nat
    BY <1>2 DEF Calls
  <2>3. calls' \in Seq(CallSet) /\ Len(calls') = Len(calls) + 1
        /\ \A i \in DOMAIN calls' : IF i \in DOMAIN calls THEN calls'[i] = calls[i]
                                    ELSE calls'[i] = [at |-> pc, sent |-> x]
    BY <1>1, <2>1, <2>2
  <2>4. Len(calls') <= MaxCalls
    BY <1>1, <2>2, <2>3, MaxCallsAssumption
  <2>5. \A i \in DOMAIN calls' : calls'[i].at \in DOMAIN insns /\ insns[calls'[i].at].op = "CALL"
    BY <1>1, <1>2, <1>3, <2>3 DEF Calls
  <2> QED
    BY <2>3, <2>4, <2>5 DEF Calls
<1> QED
  BY <1>1, <1>2, <1>4, <1>6, <1>7, MachineStep

\* What is left of the calls behind a return.
LEMMA FrontOfCalls ==
    ASSUME Calls(calls)
    PROVE  LET rest == IF calls = <<>> THEN <<>> ELSE Front(calls)
           IN  /\ Calls(rest)
               /\ Len(calls) \in Nat
               /\ Len(rest) = IF calls = <<>> THEN 0 ELSE Len(calls) - 1
               /\ \A i \in 1 .. Len(rest) : rest[i] = calls[i]
<1>1. CASE calls = <<>>
  BY <1>1
<1>2. CASE calls # <<>>
  <2> DEFINE n == Len(calls)
  <2>1. calls \in Seq(CallSet) /\ n \in Nat /\ n >= 1
    BY <1>2 DEF Calls
  <2>2. Front(calls) = SubSeq(calls, 1, n - 1)
    BY DEF Front
  <2>3. \A i \in 1 .. n : calls[i] \in CallSet
    BY <2>1
  <2> HIDE DEF n
  <2>4. 1 \in Int /\ n - 1 \in Int /\ \A i \in 1 .. n - 1 : calls[i] \in CallSet
    BY <2>1, <2>3
  <2>5. /\ SubSeq(calls, 1, n - 1) \in Seq(CallSet)
        /\ Len(SubSeq(calls, 1, n - 1)) = IF 1 <= n - 1 THEN (n - 1) - 1 + 1 ELSE 0
        /\ \A i \in 1 .. (n - 1) - 1 + 1 : SubSeq(calls, 1, n - 1)[i] = calls[1 + i - 1]
    BY <2>4, SubSeqProperties
  <2>6. /\ Front(calls) \in Seq(CallSet) /\ Len(Front(calls)) = n - 1
        /\ \A i \in 1 .. n - 1 : Front(calls)[i] = calls[i]
    <3>1. (n - 1) - 1 + 1 = n - 1 /\ (~(1 <= n - 1) => n - 1 = 0) /\ \A i \in 1 .. n - 1 : 1 + i - 1 = i
      BY <2>1
    <3> QED
      BY <2>2, <2>5, <3>1
  <2>7. Calls(Front(calls))
    <3>1. DOMAIN Front(calls) = 1 .. n - 1
      BY <2>6
    <3>2. DOMAIN calls = 1 .. n
      BY <2>1 DEF n
    <3>3. \A i \in 1 .. n - 1 : i \in DOMAIN calls
      BY <2>1, <3>2
    <3>4. n <= MaxCalls
      BY DEF Calls, n
    <3>5. n - 1 <= MaxCalls
      BY <2>1, <3>4, MaxCallsAssumption
    <3> QED
      BY <2>6, <3>1, <3>3, <3>5 DEF Calls
  <2> QED
    BY <1>2, <2>1, <2>6, <2>7 DEF n
<1> QED
  BY <1>1, <1>2


\* A return ends the run, or goes behind a call of the program.
LEMMA ReturnFacts ==
    ASSUME CodeInv, WordInv, StateInv, ReturnFunction
    PROVE  /\ UNCHANGED asmVars /\ running = "yes" /\ pc \in DOMAIN insns /\ insns[pc].op = "RET"
           /\ calls' = IF calls = <<>> THEN <<>> ELSE Front(calls)
           /\ \/ running' \in {"lost", "exit"} /\ UNCHANGED <<pc, x>>
              \/ /\ running' = "yes"
                 /\ \E k \in DOMAIN insns :
                        /\ insns[k].op = "CALL" /\ x[LinkRegister] = After(k) /\ pc' = k + 1
                        /\ \E v \in ValueSet : /\ Sound(v)
                                               /\ x' = [x EXCEPT ![0] = v, ![Field(insns[k].reg)] = v]
<1> DEFINE value == ValueOf(insns[pc].src1)
           back == x[LinkRegister]
<1>1. /\ running = "yes" /\ pc <= Len(insns) /\ UNCHANGED asmVars /\ insns[pc].op = "RET"
      /\ calls' = IF calls = <<>> THEN <<>> ELSE Front(calls)
      /\ IF back[1] # "after" THEN running' = "lost" /\ UNCHANGED <<pc, x>>
         ELSE IF back = Home THEN running' = "exit" /\ UNCHANGED <<pc, x>>
         ELSE /\ pc' = back[2] + 1
              /\ x' = [x EXCEPT ![0] = value, ![Field(insns[back[2]].reg)] = value]
              /\ UNCHANGED running
  BY DEF ReturnFunction, At
<1>2. Done /\ pc \in 1 .. Len(insns) + 1 /\ Registers(x)
  BY <1>1, DoneWhenRunning DEF StateInv
<1>3. pc \in DOMAIN insns
  <2>1. insns \in Seq(InsnSet)
    BY <1>2 DEF Done, CodeInv, PiecesInv
  <2> QED
    BY <1>1, <1>2, <2>1
<1>4. insns[pc].src1 \in Operand
  BY <1>2, <1>3, OperandFacts
<1>5. value \in ValueSet /\ Sound(value)
  BY <1>2, <1>4, ValueRead
<1>6. Sound(back)
  BY <1>2, FieldFacts DEF Registers
<1> HIDE DEF value
<1>7. CASE back[1] # "after" \/ back = Home
  BY <1>1, <1>3, <1>7
<1>8. CASE back[1] = "after" /\ back # Home
  <2>1. PICK k \in DOMAIN insns : insns[k].op = "CALL" /\ back = After(k)
    BY <1>6, <1>8 DEF Sound
  <2>2. back[2] = k
    <3>1. k \in Nat
      BY <1>2, OperandFacts
    <3> QED
      BY <2>1, <3>1, ValueFacts
  <2>3. /\ insns[k].op = "CALL" /\ x[LinkRegister] = After(k) /\ pc' = k + 1
        /\ x' = [x EXCEPT ![0] = value, ![Field(insns[k].reg)] = value]
        /\ running' = "yes"
    BY <1>1, <1>8, <2>1, <2>2
  <2> QED
    BY <1>1, <1>3, <1>5, <2>3
<1> QED
  BY <1>7, <1>8

LEMMA ReturnStep ==
    ASSUME CodeInv, WordInv, StateInv, ReturnFunction
    PROVE  StateInv'
<1>1. /\ UNCHANGED asmVars /\ running = "yes"
      /\ calls' = IF calls = <<>> THEN <<>> ELSE Front(calls)
  BY ReturnFacts
<1>2. Done /\ pass = "written" /\ pc \in 1 .. Len(insns) + 1 /\ Registers(x) /\ Calls(calls)
  BY <1>1, DoneWhenRunning DEF StateInv
<1>3. Calls(calls')
  BY <1>1, <1>2, FrontOfCalls
<1>4. CASE running' \in {"lost", "exit"} /\ UNCHANGED <<pc, x>>
  BY <1>1, <1>2, <1>3, <1>4, MachineStep
<1>5. ASSUME running' = "yes", NEW k \in DOMAIN insns, NEW v \in ValueSet, pc' = k + 1, Sound(v),
             x' = [x EXCEPT ![0] = v, ![Field(insns[k].reg)] = v]
      PROVE  StateInv'
  <2>1. pc' \in 1 .. Len(insns) + 1
    BY <1>2, <1>5, OperandFacts
  <2> DEFINE d == Field(insns[k].reg)
  <2> HIDE DEF d
  <2>2. Registers(x')
    <3>1. x' = [x EXCEPT ![0] = v, ![d] = v]
      BY <1>5 DEF d
    <3>2. 0 \in Register
      BY DEF Register
    <3> QED
      BY <1>2, <1>5, <3>1, <3>2 DEF Registers
  <2> QED
    BY <1>1, <1>2, <1>3, <1>5, <2>1, <2>2, MachineStep
<1> QED
  BY <1>4, <1>5, ReturnFacts

LEMMA StateInvStep ==
    ASSUME CodeInv, WordInv, StateInv, RunNext \/ UNCHANGED <<asmVars, runVars>>
    PROVE  StateInv'
<1>1. CASE (Assemble \/ UNCHANGED <<asmVars, runVars>>) /\ running = "no"
  <2>1. UNCHANGED runVars
    BY <1>1 DEF Assemble
  <2>2. Registers(x)'
    BY <1>1, <2>1 DEF Registers, Sound, runVars, StateInv
  <2>3. Calls(calls)'
    <3>1. calls' = <<>>
      BY <1>1, <2>1 DEF StateInv, runVars
    <3> QED
      BY <3>1, MaxCallsAssumption DEF Calls
  <2> QED
    BY <1>1, <2>1, <2>2, <2>3 DEF StateInv, runVars
<1>2. CASE (Assemble \/ UNCHANGED <<asmVars, runVars>>) /\ running # "no"
  <2>1. pass = "written"
    BY <1>2 DEF StateInv
  <2>2. UNCHANGED <<asmVars, runVars>>
    BY <1>2, <2>1, NothingAssembled DEF Assemble
  <2>3. UNCHANGED <<insns, pass, running, pc, x, calls>>
    BY <2>2 DEF asmVars, codeVars, wordVars, runVars
  <2> QED
    BY <2>3 DEF StateInv, Registers, Sound, Calls
<1> QED
  BY <1>1, <1>2, StartStep, MoveStep, JumpStep, CallStep, ReturnStep DEF RunNext, Instructions

\* All of this in every run.
RunInv == CodeInv /\ WordInv /\ StateInv

LEMMA RunInvHolds == RunSpec => []RunInv
<1>1. RunInit => RunInv
  BY CodeInvInit, WordInvInit, RunInvInit DEF RunInit, AsmInit, RunInv
<1>2. RunInv /\ [RunNext]_<<asmVars, runVars>> => RunInv'
  BY AsmOfRun, AsmStep, StateInvStep DEF RunInv
<1> QED
  BY <1>1, <1>2, PTL DEF RunSpec

\* The types of code generation, the assembler and the run: the order names
\* every function once, and no jump, call or return leads out of the code.
THEOREM RunTypes == RunSpec => []RunTypeOK
<1>1. RunInv => RunTypeOK
  <2> SUFFICES ASSUME RunInv PROVE RunTypeOK
    OBVIOUS
  <2>1. AsmTypeOK
    BY AsmTypes DEF RunInv
  <2>2. Len(insns) \in Nat
    <3>1. insns \in Seq(InsnSet)
      BY DEF RunInv, CodeInv, PiecesInv
    <3> QED
      BY <3>1
  <2>3. pc \in 0 .. Len(insns) + 1
    BY <2>2 DEF RunInv, StateInv
  <2>4. DOMAIN x = Register
    BY DEF RunInv, StateInv, Registers
  <2> QED
    BY <2>1, <2>3, <2>4 DEF RunTypeOK, RunInv, StateInv, Calls
<1> QED
  BY <1>1, RunInvHolds, PTL


-----------------------------------------------------------------------------
(* Where control goes *)

\* An instruction that is no label and no move of a prologue.
LEMMA BodyPlace ==
    ASSUME Done, NEW o \in Places, NEW k \in InPiece(o), insns[k].op \notin {"LABEL", "MOV"}
    PROVE  \E b \in Blocks(o) : InBody(o, b, k)
<1>1. Ready
  BY ReadyFacts DEF Done
<1>2. ASSUME NEW b \in Blocks(o), k = LabelAt(o, b) PROVE FALSE
  BY <1>2, LabelsFound
<1>3. ASSUME NEW i \in 1 .. Len(Prologue(o)), k = starts[o] + 1 + i PROVE FALSE
  <2>1. insns[k] = Prologue(o)[i]
    BY <1>3, CodeShape
  <2>2. Prologue(o)[i].op = "MOV"
    BY <1>1, PrologueMoves, MoveFields
  <2> QED
    BY <2>1, <2>2
<1> QED
  BY <1>2, <1>3, CodeShape

\* The last instruction of a function that does not run on.
LEMMA LastOfPiece ==
    ASSUME Done, Closed, NEW o \in Places
    PROVE  EndOf(o) \in InPiece(o) /\ insns[EndOf(o)].op \in {"RET", "JMP", "JE"} /\ Body(o) \in InPiece(o)
<1>1. insns[EndOf(o)].op \in {"RET", "JMP", "JE"}
  <2>1. starts \in Seq(0 .. Len(insns)) /\ Len(starts) = Len(program)
    BY DEF Done, CodeInv, PiecesInv
  <2>2. o \in DOMAIN starts
    BY <2>1 DEF Places
  <2> QED
    BY <2>2 DEF Closed
<1>2. /\ starts[o] \in Nat /\ EndOf(o) \in Nat /\ Len(Prologue(o)) \in Nat
      /\ Body(o) = starts[o] + 2 + Len(Prologue(o))
      /\ 1 \in Blocks(o) /\ LabelAt(o, 1) = starts[o] + 1 /\ LabelAt(o, 1) \in InPiece(o)
  BY CodeShape
<1>3. EndOf(o) \in InPiece(o)
  BY <1>2 DEF InPiece
<1>4. PICK b \in Blocks(o) : InBody(o, b, EndOf(o))
  BY <1>1, <1>3, BodyPlace
<1>5. Body(o) <= EndOf(o)
  BY <1>2, <1>4 DEF InBody
<1> QED
  BY <1>1, <1>2, <1>3, <1>5 DEF InPiece

\* Control that goes on stays in the function.
LEMMA GoesOn ==
    ASSUME Done, Closed, NEW o \in Places, NEW k \in InPiece(o), insns[k].op \notin {"RET", "JMP", "JE"}
    PROVE  k + 1 \in InPiece(o)
<1>1. k # EndOf(o)
  BY LastOfPiece
<1>2. starts[o] \in Nat /\ EndOf(o) \in Nat
  BY CodeShape
<1> QED
  BY <1>1, <1>2 DEF InPiece

\* A jump leads to a later block of the function.
LEMMA JumpsStay ==
    ASSUME Done, NEW o \in Places, NEW k \in InPiece(o), insns[k].op \in {"JMP", "JE"},
           NEW label, label = insns[k].target \/ (insns[k].op = "JE" /\ label = insns[k].target2)
    PROVE  /\ LabelIndex(label) \in InPiece(o) /\ LabelIndex(label) > Body(o)
           /\ insns[LabelIndex(label)].op = "LABEL"
<1>1. PICK b \in Blocks(o) : InBody(o, b, k)
  BY BodyPlace
<1>2. PICK c \in Blocks(o) : c > b /\ label = LabelOf(o, c - 1)
  BY <1>1 DEF InBody, BodyInsn, GoodLabel
<1>3. LabelIndex(label) = LabelAt(o, c) /\ insns[LabelAt(o, c)].op = "LABEL"
  BY <1>2, LabelsFound
<1>4. k < LabelAt(o, c) /\ k >= Body(o)
  BY <1>1, <1>2 DEF InBody
<1>5. LabelAt(o, c) \in InPiece(o)
  BY CodeShape
<1>6. Body(o) \in Int /\ starts[o] \in Int /\ EndOf(o) \in Int
  BY CodeShape
<1> QED
  BY <1>3, <1>4, <1>5, <1>6 DEF InPiece

\* A call leads to the first instruction of a function.
LEMMA CallsEnter ==
    ASSUME Done, NEW o \in Places, NEW k \in InPiece(o), insns[k].op = "CALL"
    PROVE  /\ k >= Body(o) /\ HasCall(FunctionAt(o)) /\ slots[o] >= 0
           /\ \E p \in Callees(o) : /\ p \in Places
                                    /\ insns[k].target = LabelOf(p, 0)
                                    /\ LabelIndex(insns[k].target) = starts[p] + 1
<1>1. PICK b \in Blocks(o) : InBody(o, b, k)
  BY BodyPlace
<1>2. k >= Body(o) /\ HasCall(FunctionAt(o))
  BY <1>1 DEF InBody, BodyInsn
<1>3. PICK p \in Callees(o) : insns[k].target = LabelOf(p, 0)
  BY <1>1 DEF InBody, BodyInsn
<1>4. p \in Places
  BY DEF Callees
<1>5. 1 \in Blocks(p) /\ 1 - 1 = 0 /\ LabelAt(p, 1) = starts[p] + 1
  BY <1>4, CodeShape
<1>6. LabelIndex(LabelOf(p, 0)) = LabelAt(p, 1)
  BY <1>4, <1>5, LabelsFound
<1>7. Ready
  BY ReadyFacts DEF Done
<1>8. slots[o] >= 0
  BY <1>2, <1>7 DEF Ready
<1> QED
  BY <1>2, <1>3, <1>4, <1>5, <1>6, <1>8

\* The moves of a prologue when the registers fit: plain moves of registers.
LEMMA FittingMoves ==
    ASSUME Done, Fits, NEW o \in Places, NEW i \in 1 .. Len(Prologue(o))
    PROVE  LET move == Prologue(o)[i]
           IN  /\ move.op = "MOV"
               /\ move.reg \in Register \ {LinkRegister} /\ Field(move.reg) = move.reg
               /\ move.src1.src \in Register
               /\ ValueOf(move.src1) = x[move.src1.src]
<1> DEFINE params == FunctionAt(o).param_phys
           move == Prologue(o)[i]
<1>1. Ready
  BY ReadyFacts DEF Done
<1>2. Len(params) \in Nat /\ Len(params) <= 16 /\ Range(params) \subseteq Pool
  BY <1>1, PrologueMoves DEF Fits
<1>3. \A r : /\ PhysReg(r).src = r /\ PhysReg(r).is_num = FALSE
  BY DEF PhysReg
<1>4. \A r \in Register \ {ZeroRegister} : ValueOf(PhysReg(r)) = x[r]
  BY <1>3, FieldFacts DEF ValueOf
<1>5. CASE slots[o] >= 0 /\ move = Mov(slots[o], PhysReg(LinkRegister))
  <2>1. slots[o] \in {16, 17, 18}
    BY <1>1, <1>5 DEF Ready
  <2>2. slots[o] \in Register \ {LinkRegister} /\ LinkRegister \in Register \ {ZeroRegister}
    BY <2>1 DEF Register, LinkRegister, ZeroRegister
  <2> QED
    BY <1>3, <1>4, <1>5, <2>2, MoveFields, FieldFacts
<1>6. CASE \E p \in 1 .. Len(params) : move = Mov(params[p], PhysReg(p - 1))
  <2>1. PICK p \in 1 .. Len(params) : move = Mov(params[p], PhysReg(p - 1))
    BY <1>6
  <2>2. params[p] \in Pool
    <3>1. params \in Seq(Nat)
      BY <1>1, FunctionFacts DEF Ready
    <3>2. p \in DOMAIN params
      BY <3>1
    <3> QED
      BY <1>2, <3>2 DEF Range
  <2>3. params[p] \in Register \ {LinkRegister}
    BY <2>2, FieldFacts
  <2>4. p - 1 \in Register \ {ZeroRegister}
    BY <1>2 DEF Register, ZeroRegister
  <2> QED
    BY <1>3, <1>4, <2>1, <2>3, <2>4, MoveFields, FieldFacts
<1> QED
  BY <1>1, <1>5, <1>6, PrologueMoves


-----------------------------------------------------------------------------
(* ArgumentsArrive *)

\* At place k, when the first j - 1 moves of a prologue are done: what a move
\* takes is there until it is taken, and what it has written stays.
IsParameter(move) == move.src1.src # LinkRegister
Holder(move, i, j) == IF i < j THEN move.reg ELSE move.src1.src

ArgumentsAt(k, y, c) ==
    c # <<>> /\ Fits /\ Closed =>
        \A o \in Places : ~MovesCross(o) =>
            \A j \in 0 .. Len(Prologue(o)) + 1 : k = starts[o] + 1 + j =>
                \A i \in 1 .. Len(Prologue(o)) :
                    IsParameter(Prologue(o)[i]) =>
                        y[Holder(Prologue(o)[i], i, j)] = Last(c).sent[Prologue(o)[i].src1.src]

ArgsInv == running = "yes" => ArgumentsAt(pc, x, calls)

\* These places are in the function, and none is behind the first of its body.
LEMMA EntryPlaces ==
    ASSUME Done, Closed, NEW o \in Places, NEW j \in 0 .. Len(Prologue(o)) + 1
    PROVE  /\ starts[o] + 1 + j \in InPiece(o) /\ starts[o] + 1 + j <= Body(o)
           /\ j = 0 => insns[starts[o] + 1 + j].op = "LABEL"
           /\ j \in 1 .. Len(Prologue(o)) => insns[starts[o] + 1 + j] = Prologue(o)[j]
<1>1. /\ starts[o] \in Nat /\ EndOf(o) \in Nat /\ Len(Prologue(o)) \in Nat
      /\ Body(o) = starts[o] + 2 + Len(Prologue(o))
      /\ 1 \in Blocks(o) /\ LabelAt(o, 1) = starts[o] + 1
      /\ \A i \in 1 .. Len(Prologue(o)) : insns[starts[o] + 1 + i] = Prologue(o)[i]
  BY CodeShape
<1>2. insns[LabelAt(o, 1)].op = "LABEL"
  BY <1>1, LabelsFound
<1>3. Body(o) <= EndOf(o)
  BY <1>1, LastOfPiece DEF InPiece
<1> QED
  BY SMTT(45), <1>1, <1>2, <1>3 DEF InPiece

\* Elsewhere nothing is said.
LEMMA NoEntry ==
    ASSUME Done, NEW o \in Places, NEW k \in InPiece(o), k > Body(o), NEW y, NEW c
    PROVE  ArgumentsAt(k, y, c)
<1> SUFFICES ASSUME Fits, Closed, NEW p \in Places, NEW j \in 0 .. Len(Prologue(p)) + 1, k = starts[p] + 1 + j
             PROVE  FALSE
  BY DEF ArgumentsAt
<1>1. k \in InPiece(p) /\ k <= Body(p)
  BY EntryPlaces
<1>2. p = o
  BY <1>1, PiecesApart
<1>3. Body(o) \in Int /\ k \in Int
  <2>1. /\ starts[o] \in Nat /\ EndOf(o) \in Nat /\ Len(Prologue(o)) \in Nat
        /\ Body(o) = starts[o] + 2 + Len(Prologue(o))
    BY CodeShape
  <2> QED
    BY <2>1 DEF InPiece
<1> QED
  BY <1>1, <1>2, <1>3

\* Control that goes on, with or without a move.
LEMMA ArgumentsOn ==
    ASSUME Done, ArgumentsAt(pc, x, calls), pc \in DOMAIN insns, insns[pc].op \notin {"RET", "JMP", "JE", "CALL"},
           Registers(x), NEW y,
           insns[pc].op = "LABEL" => y = x,
           insns[pc].op = "MOV" => y = [x EXCEPT ![Field(insns[pc].reg)] = ValueOf(insns[pc].src1)]
    PROVE  ArgumentsAt(pc + 1, y, calls)
<1> SUFFICES ASSUME calls # <<>>, Fits, Closed, NEW o \in Places, ~MovesCross(o),
                    NEW j \in 0 .. Len(Prologue(o)) + 1, pc + 1 = starts[o] + 1 + j,
                    NEW i \in 1 .. Len(Prologue(o)), IsParameter(Prologue(o)[i])
             PROVE  y[Holder(Prologue(o)[i], i, j)] = Last(calls).sent[Prologue(o)[i].src1.src]
  BY DEF ArgumentsAt
<1> DEFINE h == Len(Prologue(o))
           move(n) == Prologue(o)[n]
<1>1. PICK p \in Places : pc \in InPiece(p)
  BY PiecesFollow
<1>2. pc + 1 \in InPiece(p) /\ pc + 1 \in InPiece(o)
  BY <1>1, GoesOn, EntryPlaces
<1>3. p = o
  BY <1>2, PiecesApart
<1>4. starts[o] \in Nat /\ h \in Nat /\ pc \in Int /\ EndOf(o) \in Nat
  <2>1. starts[o] \in Nat /\ h \in Nat /\ EndOf(o) \in Nat
    BY CodeShape
  <2> QED
    BY <1>1, <1>3, <2>1 DEF InPiece
<1> HIDE DEF h
<1>5. j \in 1 .. h + 1 /\ j - 1 \in 0 .. h + 1 /\ pc = starts[o] + 1 + (j - 1)
  <2>1. j # 0
    BY <1>1, <1>3, <1>4 DEF InPiece
  <2> DEFINE s == starts[o]
  <2>2. j \in 0 .. h + 1 /\ pc + 1 = s + 1 + j /\ s \in Nat
    BY <1>4 DEF h
  <2> HIDE DEF s
  <2>3. j \in 1 .. h + 1 /\ j - 1 \in 0 .. h + 1 /\ pc = s + 1 + (j - 1)
    BY <1>4, <2>1, <2>2
  <2> QED
    BY <2>3 DEF s
<1>6. x[Holder(move(i), i, j - 1)] = Last(calls).sent[move(i).src1.src]
  BY <1>5 DEF ArgumentsAt, h
<1>7. CASE j = 1
  <2>1. insns[pc].op = "LABEL"
    <3>1. j - 1 = 0
      BY <1>7
    <3> QED
      BY <1>5, <3>1, EntryPlaces DEF h
  <2>2. y = x
    BY <2>1
  <2>3. ~(i < j) /\ ~(i < j - 1)
    BY <1>4, <1>7 DEF h
  <2> QED
    BY <1>6, <2>2, <2>3 DEF Holder
<1>8. CASE j # 1
  <2>1. j - 1 \in 1 .. h
    BY <1>4, <1>5, <1>8
  <2>2. insns[pc] = move(j - 1)
    BY <1>5, <2>1, EntryPlaces DEF h
  <2>3. /\ insns[pc].op = "MOV" /\ move(j - 1).reg \in Register
        /\ Field(insns[pc].reg) = move(j - 1).reg
        /\ ValueOf(insns[pc].src1) = x[move(j - 1).src1.src]
    BY <2>1, <2>2, FittingMoves DEF h
  <2>4. y = [x EXCEPT ![move(j - 1).reg] = x[move(j - 1).src1.src]]
    BY <2>3
  <2>5. move(i).reg \in Register /\ move(i).src1.src \in Register
    BY FittingMoves
  <2>6. \A m, n \in 1 .. h : m < n => move(m).reg # move(n).src1.src /\ move(m).reg # move(n).reg
    <3>1. DOMAIN Prologue(o) = 1 .. h
      <4>1. Ready
        BY ReadyFacts DEF Done
      <4>2. Prologue(o) \in Seq(InsnSet)
        BY <4>1, PrologueFacts
      <4> QED
        BY <4>2 DEF h
    <3> QED
      BY <3>1 DEF MovesCross
  <2>7. i \in 1 .. h /\ i \in Int
    BY DEF h
  <2>8. x \in [Register -> ValueSet]
    BY DEF Registers
  <2> HIDE DEF move
  <2>9. CASE i = j - 1
    <3>1. i < j /\ ~(i < j - 1)
      BY <1>4, <1>5, <2>7, <2>9
    <3> QED
      BY <1>6, <2>3, <2>4, <2>8, <2>9, <3>1 DEF Holder, move
  <2>10. CASE i < j - 1
    <3>1. i < j
      BY <1>4, <1>5, <2>7, <2>10
    <3>2. move(i).reg # move(j - 1).reg
      BY <2>1, <2>6, <2>7, <2>10
    <3>3. y[move(i).reg] = x[move(i).reg]
      BY <2>4, <2>5, <2>8, <3>2
    <3> QED
      BY <1>6, <2>10, <3>1, <3>3 DEF Holder, move
  <2>11. CASE j - 1 < i
    <3>1. ~(i < j) /\ ~(i < j - 1)
      BY SMTT(45), <1>4, <1>5, <2>7, <2>11
    <3>2. move(j - 1).reg # move(i).src1.src
      BY <2>1, <2>6, <2>7, <2>11
    <3>3. y[move(i).src1.src] = x[move(i).src1.src]
      BY <2>4, <2>5, <2>8, <3>2
    <3> QED
      BY <1>6, <3>1, <3>3 DEF Holder, move
  <2> QED
    BY <1>4, <1>5, <2>7, <2>9, <2>10, <2>11
<1> QED
  BY <1>7, <1>8


\* A call puts every argument where the first move will find it.
LEMMA ArgumentsSent ==
    ASSUME Done, pc \in DOMAIN insns, insns[pc].op = "CALL", Registers(x), Calls(calls), NEW y, NEW c,
           y = [x EXCEPT ![LinkRegister] = After(pc)],
           c = Append(calls, [at |-> pc, sent |-> x])
    PROVE  ArgumentsAt(LabelIndex(insns[pc].target), y, c)
<1> SUFFICES ASSUME Fits, Closed, NEW o \in Places, NEW j \in 0 .. Len(Prologue(o)) + 1,
                    LabelIndex(insns[pc].target) = starts[o] + 1 + j,
                    NEW i \in 1 .. Len(Prologue(o)), IsParameter(Prologue(o)[i])
             PROVE  y[Holder(Prologue(o)[i], i, j)] = Last(c).sent[Prologue(o)[i].src1.src]
  BY DEF ArgumentsAt
<1> DEFINE move == Prologue(o)[i]
<1>1. PICK p \in Places : pc \in InPiece(p)
  BY PiecesFollow
<1>2. PICK q \in Places : LabelIndex(insns[pc].target) = starts[q] + 1
  BY <1>1, CallsEnter
<1>3. starts[q] + 1 \in InPiece(q) /\ starts[o] + 1 + j \in InPiece(o)
  <2>1. LabelAt(q, 1) = starts[q] + 1 /\ 1 \in Blocks(q)
    BY CodeShape
  <2>2. LabelAt(q, 1) \in InPiece(q)
    BY <2>1, CodeShape
  <2> QED
    BY <2>1, <2>2, EntryPlaces
<1>4. q = o
  BY <1>2, <1>3, PiecesApart
<1>5. starts[o] \in Nat /\ Len(Prologue(o)) \in Nat
  BY CodeShape
<1>6. j = 0 /\ ~(i < j)
  BY <1>2, <1>4, <1>5
<1>7. Holder(move, i, j) = move.src1.src
  BY <1>6 DEF Holder
<1>8. move.src1.src \in Register /\ move.src1.src # LinkRegister
  BY FittingMoves DEF IsParameter
<1>9. y[move.src1.src] = x[move.src1.src]
  BY <1>8 DEF Registers
<1>10. Last(c).sent = x
  <2>1. calls \in Seq(CallSet)
    BY DEF Calls
  <2>2. c = Append(calls, [at |-> pc, sent |-> x])
    OBVIOUS
  <2>3. c[Len(c)] = [at |-> pc, sent |-> x]
    BY <2>1, <2>2
  <2> QED
    BY <2>3 DEF Last
<1> QED
  BY <1>7, <1>9, <1>10

\* What is said of the code stays while the code does.
LEMMA TextKept ==
    ASSUME UNCHANGED asmVars
    PROVE  /\ UNCHANGED <<program, order, slots, label_base, insns, starts>>
           /\ Places' = Places /\ Fits' = Fits /\ Closed' = Closed
           /\ \A o : FunctionAt(o)' = FunctionAt(o)
           /\ \A o : Prologue(o)' = Prologue(o)
           /\ \A o : MovesCross(o)' = MovesCross(o)
           /\ \A o : EndOf(o)' = EndOf(o)
<1>1. UNCHANGED <<program, order, slots, label_base, insns, starts>>
  BY DEF asmVars, codeVars
<1>2. Places' = Places
  BY <1>1 DEF Places
<1>3. \A o : FunctionAt(o)' = FunctionAt(o)
  BY <1>1 DEF FunctionAt
<1>4. \A o : Prologue(o)' = Prologue(o)
  BY <1>1, <1>3 DEF Prologue
<1>5. \A o : MovesCross(o)' = MovesCross(o)
  BY <1>4 DEF MovesCross
<1>6. \A o : EndOf(o)' = EndOf(o)
  BY <1>1 DEF EndOf
<1>7. Closed' = Closed
  BY <1>1, <1>6 DEF Closed
<1>8. \A o : QuadsIn(FunctionAt(o))' = QuadsIn(FunctionAt(o))
  BY <1>3 DEF QuadsIn
<1>9. Fits' = Fits
  BY <1>2, <1>3, <1>8 DEF Fits
<1> QED
  BY <1>1, <1>2, <1>3, <1>4, <1>5, <1>6, <1>7, <1>9

LEMMA ArgsKept ==
    ASSUME UNCHANGED asmVars, ArgumentsAt(pc', x', calls')
    PROVE  ArgsInv'
<1>1. ArgumentsAt(pc, x, calls)'
  <2>1. /\ Places' = Places /\ Fits' = Fits /\ Closed' = Closed /\ starts' = starts
        /\ \A o : Prologue(o)' = Prologue(o)
        /\ \A o : MovesCross(o)' = MovesCross(o)
    BY TextKept
  <2> QED
    BY <2>1 DEF ArgumentsAt, Holder, IsParameter
<1> QED
  BY <1>1 DEF ArgsInv


\* Where control is when a step is made, and what a step that is none leaves.
LEMMA Running ==
    ASSUME RunInv, running = "yes", pc <= Len(insns)
    PROVE  Done /\ pc \in DOMAIN insns /\ Registers(x) /\ Calls(calls)
<1>1. Done /\ pc \in 1 .. Len(insns) + 1 /\ Registers(x) /\ Calls(calls)
  BY DoneWhenRunning DEF RunInv, StateInv
<1>2. insns \in Seq(InsnSet)
  BY <1>1 DEF Done, CodeInv, PiecesInv
<1> QED
  BY <1>1, <1>2

LEMMA NothingRuns ==
    ASSUME RunInv, Assemble \/ UNCHANGED <<asmVars, runVars>>
    PROVE  UNCHANGED runVars /\ (running = "yes" => UNCHANGED asmVars)
<1>1. UNCHANGED runVars
  BY DEF Assemble
<1>2. ASSUME running = "yes", AsmNext PROVE FALSE
  BY <1>2, NothingAssembled DEF RunInv, StateInv
<1> QED
  BY <1>1, <1>2 DEF Assemble

LEMMA ArgsInvStep ==
    ASSUME RunInv, ArgsInv, RunNext \/ UNCHANGED <<asmVars, runVars>>
    PROVE  ArgsInv'
<1>1. CASE Assemble \/ UNCHANGED <<asmVars, runVars>>
  <2> SUFFICES ASSUME running' = "yes" PROVE ArgsInv'
    BY DEF ArgsInv
  <2>1. UNCHANGED <<running, pc, x, calls>> /\ UNCHANGED asmVars
    BY <1>1, NothingRuns DEF runVars
  <2>2. ArgumentsAt(pc', x', calls')
    BY <2>1 DEF ArgsInv
  <2> QED
    BY <2>1, <2>2, ArgsKept
<1>2. CASE StartProgram
  <2>1. UNCHANGED asmVars /\ calls' = <<>>
    BY <1>2, StartStep DEF RunInv
  <2> QED
    BY <2>1, ArgsKept DEF ArgumentsAt
<1>3. CASE Pass \/ Move \/ Compute
  <2>1. /\ running = "yes" /\ pc <= Len(insns) /\ UNCHANGED asmVars /\ calls' = calls /\ pc' = pc + 1
        /\ insns[pc].op \in {"LABEL", "MOV", "ADD", "SUB", "CMP", "NEG", "MULT", "DIV"}
        /\ insns[pc].op = "LABEL" => x' = x
        /\ insns[pc].op = "MOV" => x' = [x EXCEPT ![Field(insns[pc].reg)] = ValueOf(insns[pc].src1)]
    BY <1>3 DEF Pass, Move, Compute, At
  <2>2. Done /\ pc \in DOMAIN insns /\ Registers(x) /\ ArgumentsAt(pc, x, calls)
    BY <2>1, Running DEF ArgsInv
  <2>3. ArgumentsAt(pc + 1, x', calls)
    BY <2>1, <2>2, ArgumentsOn
  <2> QED
    BY <2>1, <2>3, ArgsKept
<1>4. CASE Jump \/ Branch
  <2>1. /\ running = "yes" /\ pc <= Len(insns) /\ UNCHANGED asmVars /\ insns[pc].op \in {"JMP", "JE"}
        /\ \E label : /\ label = insns[pc].target \/ (insns[pc].op = "JE" /\ label = insns[pc].target2)
                      /\ pc' = LabelIndex(label)
    BY <1>4 DEF Jump, Branch, At, Enter
  <2>2. Done /\ pc \in DOMAIN insns
    BY <2>1, Running
  <2>3. PICK o \in Places : pc \in InPiece(o)
    BY <2>2, PiecesFollow
  <2>4. pc' \in InPiece(o) /\ pc' > Body(o)
    BY <2>1, <2>2, <2>3, JumpsStay
  <2>5. ArgumentsAt(pc', x', calls')
    BY <2>2, <2>4, NoEntry
  <2> QED
    BY <2>1, <2>5, ArgsKept
<1>5. CASE CallFunction
  <2>1. /\ running = "yes" /\ pc <= Len(insns) /\ UNCHANGED asmVars /\ insns[pc].op = "CALL"
        /\ pc' = LabelIndex(insns[pc].target)
        /\ x' = [x EXCEPT ![LinkRegister] = After(pc)]
        /\ calls' = Append(calls, [at |-> pc, sent |-> x])
    BY <1>5 DEF CallFunction, At, Enter
  <2>2. Done /\ pc \in DOMAIN insns /\ Registers(x) /\ Calls(calls)
    BY <2>1, Running
  <2>3. ArgumentsAt(pc', x', calls')
    BY <2>1, <2>2, ArgumentsSent
  <2> QED
    BY <2>1, <2>3, ArgsKept
<1>6. CASE ReturnFunction
  <2>1. CASE running' # "yes"
    BY <2>1 DEF ArgsInv
  <2>2. CASE running' = "yes"
    <3>1. /\ UNCHANGED asmVars /\ running = "yes"
          /\ \E k \in DOMAIN insns : insns[k].op = "CALL" /\ pc' = k + 1
      BY <1>6, <2>2, ReturnFacts DEF RunInv
    <3>2. PICK k \in DOMAIN insns : insns[k].op = "CALL" /\ pc' = k + 1
      BY <3>1
    <3>3. Done
      BY <3>1, DoneWhenRunning DEF RunInv
    <3>4. PICK o \in Places : k \in InPiece(o)
      BY <3>3, PiecesFollow
    <3>5. k >= Body(o)
      BY <3>2, <3>3, <3>4, CallsEnter
    <3>6. ArgumentsAt(pc', x', calls')
      <4>1. CASE ~Closed
        BY <4>1 DEF ArgumentsAt
      <4>2. CASE Closed
        <5>1. pc' \in InPiece(o)
          BY <3>2, <3>3, <3>4, <4>2, GoesOn
        <5>2. Body(o) \in Int /\ k \in Int
          <6>1. /\ starts[o] \in Nat /\ EndOf(o) \in Nat /\ Len(Prologue(o)) \in Nat
                /\ Body(o) = starts[o] + 2 + Len(Prologue(o))
            BY <3>3, CodeShape
          <6> QED
            BY <3>4, <6>1 DEF InPiece
        <5>3. pc' > Body(o)
          BY <3>2, <3>5, <5>2
        <5> QED
          BY <3>3, <5>1, <5>3, NoEntry
      <4> QED
        BY <4>1, <4>2
    <3> QED
      BY <3>1, <3>6, ArgsKept
  <2> QED
    BY <2>1, <2>2
<1> QED
  BY <1>1, <1>2, <1>3, <1>4, <1>5, <1>6 DEF RunNext, Instructions

LEMMA ArgumentsReachBody ==
    ASSUME RunInv, ArgsInv
    PROVE  ArgumentsArrive
<1> SUFFICES ASSUME NEW o \in DOMAIN starts, running = "yes", calls # <<>>, Fits, Closed, ~MovesCross(o),
                    pc = Body(o), NEW p \in DOMAIN FunctionAt(o).param_phys
             PROVE  x[FunctionAt(o).param_phys[p]] = Last(calls).sent[p - 1]
  BY DEF ArgumentsArrive
<1> DEFINE params == FunctionAt(o).param_phys
           h == Len(Prologue(o))
           i == SlotMove(o) + p
           move == Prologue(o)[i]
<1>1. Done /\ Ready
  BY DoneWhenRunning DEF RunInv
<1>2. o \in Places
  <2>1. starts \in Seq(0 .. Len(insns)) /\ Len(starts) = Len(program)
    BY <1>1 DEF Done, CodeInv, PiecesInv
  <2> QED
    BY <2>1 DEF Places
<1>3. params \in Seq(Nat) /\ p \in 1 .. Len(params) /\ Len(params) <= 16 /\ Len(params) \in Nat
  <2>1. params \in Seq(Nat)
    BY <1>1, <1>2, FunctionFacts DEF Ready
  <2>2. Len(params) <= 16
    BY <1>2 DEF Fits
  <2> QED
    BY <2>1, <2>2
<1>4. h = SlotMove(o) + Len(params) /\ move = Mov(params[p], PhysReg(p - 1)) /\ SlotMove(o) \in {0, 1}
  BY <1>1, <1>2, <1>3, PrologueFacts DEF SlotMove
<1>5. i \in 1 .. h /\ h + 1 \in 0 .. h + 1 /\ h \in Nat /\ i < h + 1
  <2> DEFINE n == Len(params)
             s == SlotMove(o)
  <2>1. n \in Nat /\ p \in 1 .. n /\ h = s + n /\ s \in {0, 1} /\ i = s + p
    BY <1>3, <1>4
  <2> HIDE DEF n, s, h, i
  <2> QED
    BY <2>1
<1>6. pc = starts[o] + 1 + (h + 1)
  <2>1. starts[o] \in Nat /\ Body(o) = starts[o] + 2 + h
    BY <1>1, <1>2, CodeShape
  <2> QED
    BY <1>5, <2>1
<1>7. move.reg = params[p] /\ move.src1.src = p - 1
  <2>1. PhysReg(p - 1).src = p - 1
    BY DEF PhysReg
  <2> QED
    BY <1>4, <2>1, MoveFields
<1>8. IsParameter(move)
  BY <1>3, <1>7 DEF IsParameter, LinkRegister
<1>9. x[Holder(move, i, h + 1)] = Last(calls).sent[move.src1.src]
  BY <1>2, <1>5, <1>6, <1>8 DEF ArgsInv, ArgumentsAt
<1>10. Holder(move, i, h + 1) = move.reg
  BY <1>5 DEF Holder
<1> QED
  BY <1>7, <1>9, <1>10

\* In every run, however deep the calls and with recursion too, the parameters
\* of a function hold what the call sent when its body begins, as long as the
\* registers fit, no function runs on, and the moves of its prologue do not
\* cross.
THEOREM EveryArgumentArrives == RunSpec => []ArgumentsArrive
<1>1. RunInit => ArgsInv
  BY DEF RunInit, ArgsInv
<1>2. RunInv /\ ArgsInv /\ [RunNext]_<<asmVars, runVars>> => ArgsInv'
  BY ArgsInvStep
<1>3. RunInv /\ ArgsInv => ArgumentsArrive
  BY ArgumentsReachBody
<1> QED
  BY <1>1, <1>2, <1>3, RunInvHolds, PTL DEF RunSpec


-----------------------------------------------------------------------------
(* SlotsBringHome *)

\* The functions that are active, each called by the one before it, and where
\* each returns to.
Callee(k) == CHOOSE p \in Places : insns[k].target = LabelOf(p, 0)
Active(c, i) == IF i = 1 THEN 1 ELSE Callee(c[i - 1].at)
Back(c, i) == IF i = 1 THEN Home ELSE After(c[i - 1].at)

Regular == ~IsRecursive /\ ScratchUnused /\ Fits /\ Closed

\* Where the function that runs keeps its return address.
KeepsAddress(o, address, k, y) ==
    /\ slots[o] < 0 \/ k <= starts[o] + 2 \/ insns[k].op = "RET" => y[LinkRegister] = address
    /\ slots[o] >= 0 /\ k > starts[o] + 2 => y[slots[o]] = address

\* No function is active twice, and those that have called keep theirs in their
\* slot registers.
CallersKeep(c, y) ==
    /\ \A i \in 1 .. Len(c) : c[i].at \in InPiece(Active(c, i)) /\ y[slots[Active(c, i)]] = Back(c, i)
    /\ \A i \in 1 .. Len(c) + 1 : Active(c, i) \in Places
    /\ \A i, j \in 1 .. Len(c) + 1 : i < j => Active(c, i) # Active(c, j)

ChainAt(k, y, c) ==
    Regular =>
        /\ CallersKeep(c, y)
        /\ k \in InPiece(Active(c, Len(c) + 1))
        /\ KeepsAddress(Active(c, Len(c) + 1), Back(c, Len(c) + 1), k, y)

ChainInv == running = "yes" => ChainAt(pc, x, calls)

LEMMA SlotFacts ==
    ASSUME Done
    PROVE  /\ \A o \in Places : slots[o] \in {-1, 16, 17, 18}
           /\ \A o \in Places : slots[o] >= 0 => slots[o] \in Register /\ slots[o] \notin Pool
                                                   /\ slots[o] # LinkRegister /\ slots[o] # 0
           /\ \A o, p \in Places : slots[o] = slots[p] /\ slots[o] >= 0 => o = p
           /\ LinkRegister \in Register /\ LinkRegister \notin Pool /\ LinkRegister # 0
<1>1. Ready
  BY ReadyFacts DEF Done
<1>2. \A o \in Places : slots[o] \in {-1, 16, 17, 18}
  BY <1>1 DEF Ready
<1>3. DOMAIN slots = Places
  <2>1. slots \in Seq(SlotNumbers) /\ Len(slots) = Len(program)
    BY DEF Done, CodeInv, SlotsInv
  <2> QED
    BY <2>1 DEF Places
<1>4. \A o, p \in Places : slots[o] = slots[p] /\ slots[o] # -1 => o = p
  BY <1>3 DEF Done, CodeInv, SlotsInv
<1> QED
  BY <1>2, <1>4 DEF Register, Pool, LinkRegister

\* A function that calls has a move in front that saves its return address.
LEMMA SavesAddress ==
    ASSUME Done, NEW o \in Places, slots[o] >= 0
    PROVE  /\ insns[starts[o] + 2] = Mov(slots[o], PhysReg(LinkRegister))
           /\ Body(o) > starts[o] + 2 /\ Body(o) \in Nat /\ starts[o] \in Nat
<1>1. Ready
  BY ReadyFacts DEF Done
<1> DEFINE h == Len(Prologue(o))
           params == FunctionAt(o).param_phys
<1>2. h = 1 + Len(params) /\ Len(params) \in Nat /\ Prologue(o)[1] = Mov(slots[o], PhysReg(LinkRegister))
  <2>1. params \in Seq(Nat)
    BY <1>1, FunctionFacts DEF Ready
  <2>2. Len(params) \in Nat
    BY <2>1, LenProperties
  <2>3. h = SlotMove(o) + Len(params) /\ Prologue(o)[1] = Mov(slots[o], PhysReg(LinkRegister))
    BY <1>1, PrologueFacts
  <2> QED
    BY <2>2, <2>3 DEF SlotMove
<1>3. /\ starts[o] \in Nat /\ Body(o) = starts[o] + 2 + h
      /\ \A i \in 1 .. h : insns[starts[o] + 1 + i] = Prologue(o)[i]
  BY CodeShape
<1> HIDE DEF h, params
<1>4. 1 \in 1 .. h /\ starts[o] + 1 + 1 = starts[o] + 2
  BY <1>2, <1>3
<1> QED
  BY <1>2, <1>3, <1>4

\* A return takes the address back right before.
LEMMA ReturnTakes ==
    ASSUME Done, NEW o \in Places, NEW k \in InPiece(o), insns[k].op = "RET", slots[o] >= 0
    PROVE  k > Body(o) /\ insns[k - 1] = TakesAddress(o)
<1>1. PICK b \in Blocks(o) : InBody(o, b, k)
  BY BodyPlace
<1> QED
  BY <1>1 DEF InBody

\* The register an instruction writes.
LEMMA Writes ==
    ASSUME Done, Fits, NEW o \in Places, NEW k \in InPiece(o),
           insns[k].op \notin {"LABEL", "JMP", "JE", "RET"}
    PROVE  \/ Field(insns[k].reg) \in Pool
           \/ /\ slots[o] >= 0 /\ insns[k] = TakesAddress(o) /\ Field(insns[k].reg) = LinkRegister
              /\ k >= Body(o)
           \/ /\ slots[o] >= 0 /\ k = starts[o] + 2 /\ insns[k] = Mov(slots[o], PhysReg(LinkRegister))
              /\ Field(insns[k].reg) = slots[o]
<1>1. Ready
  BY ReadyFacts DEF Done
<1>2. CASE \E b \in Blocks(o) : InBody(o, b, k)
  <2>1. PICK b \in Blocks(o) : InBody(o, b, k)
    BY <1>2
  <2>2. k >= Body(o) /\ (insns[k].reg \in Pool \/ (slots[o] >= 0 /\ insns[k] = TakesAddress(o)))
    BY <2>1 DEF InBody, BodyInsn
  <2>3. insns[k] = TakesAddress(o) => insns[k].reg = LinkRegister
    BY MoveFields DEF TakesAddress
  <2> QED
    BY <2>2, <2>3, FieldFacts
<1>3. CASE \E i \in 1 .. Len(Prologue(o)) : k = starts[o] + 1 + i
  <2>1. PICK i \in 1 .. Len(Prologue(o)) : k = starts[o] + 1 + i
    BY <1>3
  <2>2. insns[k] = Prologue(o)[i] /\ starts[o] \in Nat
    BY <2>1, CodeShape
  <2>3. CASE slots[o] >= 0 /\ i = 1 /\ Prologue(o)[i] = Mov(slots[o], PhysReg(LinkRegister))
    <3>1. slots[o] \in Register
      BY <2>3, SlotFacts
    <3>2. Field(insns[k].reg) = slots[o]
      BY <2>2, <2>3, <3>1, MoveFields, FieldFacts
    <3>3. k = starts[o] + 2
      BY <2>1, <2>2, <2>3
    <3> QED
      BY <2>2, <2>3, <3>2, <3>3
  <2>4. CASE \E p \in 1 .. Len(FunctionAt(o).param_phys) :
                 Prologue(o)[i] = Mov(FunctionAt(o).param_phys[p], PhysReg(p - 1))
    <3>1. PICK p \in 1 .. Len(FunctionAt(o).param_phys) :
                 Prologue(o)[i] = Mov(FunctionAt(o).param_phys[p], PhysReg(p - 1))
      BY <2>4
    <3>2. FunctionAt(o).param_phys[p] \in Pool
      <4>1. FunctionAt(o).param_phys \in Seq(Nat)
        BY <1>1, FunctionFacts DEF Ready
      <4>2. p \in DOMAIN FunctionAt(o).param_phys
        BY <4>1
      <4>3. Range(FunctionAt(o).param_phys) \subseteq Pool
        BY DEF Fits
      <4> QED
        BY <4>2, <4>3 DEF Range
    <3> QED
      BY <2>2, <3>1, <3>2, MoveFields, FieldFacts
  <2> QED
    BY <1>1, <2>3, <2>4, PrologueMoves
<1>4. CASE \E b \in Blocks(o) : k = LabelAt(o, b)
  BY <1>4, LabelsFound
<1> QED
  BY <1>2, <1>3, <1>4, CodeShape


\* The function that a call leads to.
LEMMA CalleeFacts ==
    ASSUME Done, NEW o \in Places, NEW k \in InPiece(o), insns[k].op = "CALL"
    PROVE  /\ slots[o] >= 0 /\ k >= Body(o)
           /\ Callee(k) \in Callees(o) /\ Callee(k) \in Places
           /\ LabelIndex(insns[k].target) = starts[Callee(k)] + 1
<1>1. /\ k >= Body(o) /\ slots[o] >= 0
      /\ \E p \in Callees(o) : /\ p \in Places
                               /\ insns[k].target = LabelOf(p, 0)
                               /\ LabelIndex(insns[k].target) = starts[p] + 1
  BY CallsEnter
<1>2. PICK p \in Callees(o) : /\ p \in Places
                              /\ insns[k].target = LabelOf(p, 0)
                              /\ LabelIndex(insns[k].target) = starts[p] + 1
  BY <1>1
<1>3. ASSUME NEW q \in Places, insns[k].target = LabelOf(q, 0) PROVE q = p
  <2>1. 1 \in Blocks(p) /\ 1 \in Blocks(q) /\ 1 - 1 = 0
    BY <1>2, CodeShape
  <2>2. LabelOf(q, 1 - 1) = LabelOf(p, 1 - 1)
    BY <1>2, <1>3, <2>1
  <2> QED
    BY <1>2, <2>1, <2>2, LabelsDiffer DEF Done
<1>4. Callee(k) = p
  BY <1>2, <1>3 DEF Callee
<1> QED
  BY <1>1, <1>2, <1>4

\* A call that is active is of a function that saves its return address.
LEMMA CallersSave ==
    ASSUME Done, Calls(calls), CallersKeep(calls, x), NEW i \in 1 .. Len(calls)
    PROVE  LET o == Active(calls, i)
               k == calls[i].at
           IN  /\ o \in Places /\ slots[o] >= 0 /\ k \in DOMAIN insns /\ insns[k].op = "CALL" /\ k \in InPiece(o)
               /\ Callee(k) \in Callees(o) /\ Callee(k) \in Places
               /\ LabelIndex(insns[k].target) = starts[Callee(k)] + 1
               /\ Active(calls, i + 1) = Callee(k)
<1>1. calls \in Seq(CallSet) /\ Len(calls) \in Nat /\ i \in 1 .. Len(calls) + 1 /\ i \in DOMAIN calls
  BY DEF Calls
<1>2. /\ Active(calls, i) \in Places /\ calls[i].at \in InPiece(Active(calls, i))
      /\ calls[i].at \in DOMAIN insns /\ insns[calls[i].at].op = "CALL"
  BY <1>1 DEF CallersKeep, Calls
<1>3. i + 1 # 1 /\ (i + 1) - 1 = i
  BY <1>1
<1>4. Active(calls, i + 1) = Callee(calls[i].at)
  BY <1>3 DEF Active
<1> QED
  BY <1>2, <1>4, CalleeFacts



LEMMA ChainOn ==
    ASSUME Done, pc \in DOMAIN insns, insns[pc].op \notin {"RET", "JMP", "JE", "CALL"},
           Calls(calls), ChainAt(pc, x, calls), NEW y,
           insns[pc].op = "LABEL" => y = x,
           ScratchUnused => \A r \in Register : r # Field(insns[pc].reg) => y[r] = x[r],
           insns[pc].op = "MOV" => y[Field(insns[pc].reg)] = ValueOf(insns[pc].src1)
    PROVE  ChainAt(pc + 1, y, calls)
<1> SUFFICES ASSUME Regular
             PROVE  /\ CallersKeep(calls, y)
                    /\ pc + 1 \in InPiece(Active(calls, Len(calls) + 1))
                    /\ KeepsAddress(Active(calls, Len(calls) + 1), Back(calls, Len(calls) + 1), pc + 1, y)
  BY DEF ChainAt
<1> DEFINE n == Len(calls)
           o == Active(calls, n + 1)
           address == Back(calls, n + 1)
           d == Field(insns[pc].reg)
<1>1. /\ Fits /\ Closed /\ ScratchUnused
      /\ CallersKeep(calls, x) /\ pc \in InPiece(o) /\ KeepsAddress(o, address, pc, x)
  BY DEF Regular, ChainAt
<1>2. n \in Nat /\ n + 1 \in 1 .. n + 1 /\ o \in Places
  <2>1. n \in Nat
    BY DEF Calls
  <2> QED
    BY <1>1, <2>1 DEF CallersKeep
<1>3. pc + 1 \in InPiece(o)
  BY <1>1, <1>2, GoesOn
<1>4. pc \in Nat /\ starts[o] \in Nat /\ pc >= starts[o] + 1
  <2>1. starts[o] \in Nat /\ EndOf(o) \in Nat
    BY <1>2, CodeShape
  <2> QED
    BY <1>1, <2>1 DEF InPiece
<1>5. \A r \in Register : r # d => y[r] = x[r]
  BY <1>1
<1>6. \A i \in 1 .. n : Active(calls, i) \in Places /\ slots[Active(calls, i)] >= 0 /\ Active(calls, i) # o
  <2> SUFFICES ASSUME NEW i \in 1 .. n
               PROVE  Active(calls, i) \in Places /\ slots[Active(calls, i)] >= 0 /\ Active(calls, i) # o
    OBVIOUS
  <2>1. i \in 1 .. n + 1 /\ i < n + 1
    BY <1>2
  <2> QED
    BY <1>1, <1>2, <2>1, CallersSave DEF CallersKeep
<1> HIDE DEF n, o, address, d
<1>7. insns[pc].op # "LABEL" =>
          \/ d \in Pool
          \/ slots[o] >= 0 /\ insns[pc] = TakesAddress(o) /\ d = LinkRegister /\ pc >= Body(o)
          \/ slots[o] >= 0 /\ pc = starts[o] + 2 /\ insns[pc] = Mov(slots[o], PhysReg(LinkRegister)) /\ d = slots[o]
  BY <1>1, <1>2, Writes DEF d
<1>8. ASSUME NEW i \in 1 .. n PROVE y[slots[Active(calls, i)]] = x[slots[Active(calls, i)]]
  <2>1. CASE insns[pc].op = "LABEL"
    BY <2>1
  <2>2. CASE insns[pc].op # "LABEL"
    <3>1. slots[Active(calls, i)] \in Register /\ slots[Active(calls, i)] \notin Pool
          /\ slots[Active(calls, i)] # LinkRegister
      BY <1>6, SlotFacts
    <3>2. slots[o] >= 0 => slots[o] # slots[Active(calls, i)]
      BY <1>2, <1>6, SlotFacts
    <3> QED
      BY <1>5, <1>7, <2>2, <3>1, <3>2
  <2> QED
    BY <2>1, <2>2
<1>9. CallersKeep(calls, y)
  BY <1>1, <1>8 DEF CallersKeep, n
<1>10. ASSUME slots[o] < 0 \/ pc + 1 <= starts[o] + 2 PROVE y[LinkRegister] = address
  <2>1. x[LinkRegister] = address
    BY <1>1, <1>4, <1>10 DEF KeepsAddress
  <2>2. CASE insns[pc].op = "LABEL"
    BY <2>1, <2>2
  <2>3. CASE insns[pc].op # "LABEL"
    <3>1. d # LinkRegister
      <4>1. CASE slots[o] >= 0
        <5>1. Body(o) > starts[o] + 2 /\ Body(o) \in Nat
          BY <1>2, <4>1, SavesAddress
        <5> QED
          BY <1>2, <1>4, <1>7, <1>10, <2>3, <4>1, <5>1, SlotFacts
      <4>2. CASE slots[o] < 0
        <5>1. slots[o] \in {-1, 16, 17, 18}
          BY <1>2, SlotFacts
        <5> QED
          BY <1>7, <2>3, <4>2, <5>1, SlotFacts
      <4>3. slots[o] \in {-1, 16, 17, 18}
        BY <1>2, SlotFacts
      <4> QED
        BY <4>1, <4>2, <4>3
    <3> QED
      BY <1>5, <2>1, <3>1, SlotFacts
  <2> QED
    BY <2>2, <2>3
<1>11. ASSUME slots[o] >= 0, pc + 1 > starts[o] + 2 PROVE y[slots[o]] = address
  <2>1. slots[o] \in Register /\ slots[o] \notin Pool /\ slots[o] # LinkRegister
    BY <1>2, <1>11, SlotFacts
  <2>2. CASE pc = starts[o] + 2
    <3>1. insns[pc] = Mov(slots[o], PhysReg(LinkRegister))
      BY <1>2, <1>11, <2>2, SavesAddress
    <3>2. insns[pc].op = "MOV" /\ insns[pc].src1 = PhysReg(LinkRegister) /\ d = slots[o]
      BY <2>1, <3>1, MoveFields, FieldFacts DEF d
    <3>3. ValueOf(PhysReg(LinkRegister)) = x[LinkRegister]
      BY DEF ValueOf, PhysReg, Field, LinkRegister, ZeroRegister
    <3>4. x[LinkRegister] = address
      BY <1>1, <1>4, <2>2 DEF KeepsAddress
    <3> QED
      BY <3>2, <3>3, <3>4 DEF d
  <2>3. CASE pc # starts[o] + 2
    <3>1. pc > starts[o] + 2
      BY <1>4, <1>11, <2>3
    <3>2. x[slots[o]] = address
      BY <1>1, <1>11, <3>1 DEF KeepsAddress
    <3>3. CASE insns[pc].op = "LABEL"
      BY <3>2, <3>3
    <3>4. CASE insns[pc].op # "LABEL"
      BY <1>5, <1>7, <2>1, <2>3, <3>2, <3>4
    <3> QED
      BY <3>3, <3>4
  <2> QED
    BY <2>2, <2>3
<1>12. ASSUME insns[pc + 1].op = "RET", slots[o] >= 0 PROVE y[LinkRegister] = address
  <2>1. pc + 1 > Body(o) /\ insns[(pc + 1) - 1] = TakesAddress(o)
    BY <1>2, <1>3, <1>12, ReturnTakes
  <2>2. (pc + 1) - 1 = pc /\ pc > starts[o] + 2
    <3>1. Body(o) > starts[o] + 2 /\ Body(o) \in Nat
      BY <1>2, <1>12, SavesAddress
    <3> QED
      BY <1>4, <2>1, <3>1
  <2>3. insns[pc] = Mov(LinkRegister, PhysReg(slots[o]))
    BY <2>1, <2>2 DEF TakesAddress
  <2>4. insns[pc].op = "MOV" /\ insns[pc].src1 = PhysReg(slots[o]) /\ d = LinkRegister
    BY <2>3, MoveFields, FieldFacts, SlotFacts DEF d
  <2>5. ValueOf(PhysReg(slots[o])) = x[slots[o]]
    <3>1. slots[o] \in {16, 17, 18}
      <4>1. slots[o] \in {-1, 16, 17, 18}
        BY <1>2, SlotFacts
      <4> QED
        BY <1>12, <4>1
    <3> QED
      BY <3>1 DEF ValueOf, PhysReg, Field, ZeroRegister
  <2>6. x[slots[o]] = address
    BY <1>1, <1>12, <2>2 DEF KeepsAddress
  <2> QED
    BY <2>4, <2>5, <2>6 DEF d
<1>13. KeepsAddress(o, address, pc + 1, y)
  <2>1. slots[o] < 0 \/ slots[o] >= 0
    <3>1. slots[o] \in {-1, 16, 17, 18}
      BY <1>2, SlotFacts
    <3> QED
      BY <3>1
  <2> QED
    BY <1>10, <1>11, <1>12, <2>1 DEF KeepsAddress
<1> QED
  BY <1>3, <1>9, <1>13 DEF n, o, address


LEMMA ChainJump ==
    ASSUME Done, pc \in DOMAIN insns, insns[pc].op \in {"JMP", "JE"}, Calls(calls), ChainAt(pc, x, calls),
           NEW label, label = insns[pc].target \/ (insns[pc].op = "JE" /\ label = insns[pc].target2)
    PROVE  ChainAt(LabelIndex(label), x, calls)
<1> SUFFICES ASSUME Regular
             PROVE  /\ CallersKeep(calls, x)
                    /\ LabelIndex(label) \in InPiece(Active(calls, Len(calls) + 1))
                    /\ KeepsAddress(Active(calls, Len(calls) + 1), Back(calls, Len(calls) + 1), LabelIndex(label), x)
  BY DEF ChainAt
<1> DEFINE n == Len(calls)
           o == Active(calls, n + 1)
           address == Back(calls, n + 1)
           k == LabelIndex(label)
<1>1. CallersKeep(calls, x) /\ pc \in InPiece(o) /\ KeepsAddress(o, address, pc, x)
  BY DEF Regular, ChainAt
<1>2. n \in Nat /\ o \in Places
  <2>1. n \in Nat
    BY DEF Calls
  <2>2. n + 1 \in 1 .. n + 1
    BY <2>1
  <2> QED
    BY <1>1, <2>1, <2>2 DEF CallersKeep
<1> HIDE DEF n, o, address
<1>3. k \in InPiece(o) /\ k > Body(o) /\ insns[k].op = "LABEL"
  BY <1>1, <1>2, JumpsStay
<1>4. k \in Int /\ pc \in Int /\ starts[o] \in Nat
      /\ Len(Prologue(o)) \in Nat /\ Body(o) = starts[o] + 2 + Len(Prologue(o))
  <2>1. /\ starts[o] \in Nat /\ EndOf(o) \in Nat
        /\ Len(Prologue(o)) \in Nat /\ Body(o) = starts[o] + 2 + Len(Prologue(o))
    BY <1>2, CodeShape
  <2> QED
    BY <1>1, <1>3, <2>1 DEF InPiece
<1>5. ~(k <= starts[o] + 2)
  BY <1>3, <1>4
<1>6. ASSUME slots[o] >= 0 PROVE x[slots[o]] = address
  <2>1. PICK b \in Blocks(o) : InBody(o, b, pc)
    BY <1>1, <1>2, BodyPlace
  <2>2. Body(o) > starts[o] + 2 /\ pc >= Body(o)
    BY <1>2, <1>6, <2>1, SavesAddress DEF InBody
  <2>3. pc > starts[o] + 2
    BY <1>4, <2>2
  <2> QED
    BY <1>1, <1>6, <2>3 DEF KeepsAddress
<1>7. slots[o] < 0 => x[LinkRegister] = address
  BY <1>1 DEF KeepsAddress
<1>8. KeepsAddress(o, address, k, x)
  BY <1>3, <1>5, <1>6, <1>7 DEF KeepsAddress
<1> QED
  BY <1>1, <1>3, <1>8 DEF n, o, address

\* Without recursion a call does not enter a function that is active.
LEMMA CalleeNotActive ==
    ASSUME Done, Calls(calls), CallersKeep(calls, x), ~IsRecursive, NEW k \in DOMAIN insns,
           insns[k].op = "CALL", k \in InPiece(Active(calls, Len(calls) + 1)),
           NEW j \in 1 .. Len(calls) + 1
    PROVE  Active(calls, j) # Callee(k)
<1> DEFINE n == Len(calls)
           S == {Active(calls, i) : i \in j .. n + 1}
<1>1. n \in Nat /\ \A i \in 1 .. n + 1 : Active(calls, i) \in Places
  BY DEF Calls, CallersKeep
<1>2. Callee(k) \in Callees(Active(calls, n + 1))
  <2>1. Active(calls, n + 1) \in Places
    <3>1. n + 1 \in 1 .. n + 1
      BY <1>1
    <3> QED
      BY <1>1, <3>1
  <2> QED
    BY <2>1, CalleeFacts
<1>3. \A i \in 1 .. n : Active(calls, i + 1) \in Callees(Active(calls, i))
  BY CallersSave
<1> SUFFICES ASSUME Active(calls, j) = Callee(k) PROVE FALSE
  OBVIOUS
<1> HIDE DEF n
<1>4. S \in SUBSET Places
  <2>1. \A i \in j .. n + 1 : i \in 1 .. n + 1
    BY <1>1 DEF n
  <2> QED
    BY <1>1, <2>1
<1>5. Active(calls, j) \in S
  <2>1. j \in j .. n + 1
    BY <1>1 DEF n
  <2> QED
    BY <2>1
<1>6. ASSUME NEW i \in j .. n + 1 PROVE Callees(Active(calls, i)) \cap S # {}
  <2>1. j \in 1 .. n + 1
    BY DEF n
  <2>2. CASE i = n + 1
    BY <1>2, <1>5, <2>2
  <2>3. CASE i # n + 1
    <3>1. i \in 1 .. n /\ i + 1 \in j .. n + 1
      BY <1>1, <2>1, <2>3
    <3>2. Active(calls, i + 1) \in S
      BY <3>1
    <3> QED
      BY <1>3, <3>1, <3>2
  <2> QED
    BY <2>2, <2>3
<1>7. \A q \in S : Callees(q) \cap S # {}
  BY <1>6
<1> HIDE DEF S
<1> QED
  BY <1>4, <1>5, <1>7 DEF IsRecursive

LEMMA ChainCall ==
    ASSUME Done, pc \in DOMAIN insns, insns[pc].op = "CALL", Registers(x), Calls(calls),
           ChainAt(pc, x, calls), NEW y, NEW c,
           y = [x EXCEPT ![LinkRegister] = After(pc)],
           c = Append(calls, [at |-> pc, sent |-> x])
    PROVE  ChainAt(LabelIndex(insns[pc].target), y, c)
<1> SUFFICES ASSUME Regular
             PROVE  /\ CallersKeep(c, y)
                    /\ LabelIndex(insns[pc].target) \in InPiece(Active(c, Len(c) + 1))
                    /\ KeepsAddress(Active(c, Len(c) + 1), Back(c, Len(c) + 1), LabelIndex(insns[pc].target), y)
  BY DEF ChainAt
<1> DEFINE n == Len(calls)
           o == Active(calls, n + 1)
           p == Callee(pc)
<1>1. CallersKeep(calls, x) /\ pc \in InPiece(o) /\ KeepsAddress(o, Back(calls, n + 1), pc, x) /\ ~IsRecursive
  BY DEF Regular, ChainAt
<1>2. n \in Nat /\ o \in Places /\ n + 1 \in 1 .. n + 1
  <2>1. n \in Nat
    BY DEF Calls
  <2>2. n + 1 \in 1 .. n + 1
    BY <2>1
  <2> QED
    BY <1>1, <2>1, <2>2 DEF CallersKeep
<1>3. /\ Len(c) = n + 1
      /\ \A i \in 1 .. n : c[i].at = calls[i].at
      /\ c[n + 1].at = pc
  <2>1. calls \in Seq(CallSet)
    BY DEF Calls
  <2>2. c = Append(calls, [at |-> pc, sent |-> x])
    OBVIOUS
  <2>3. Len(c) = n + 1 /\ (\A i \in 1 .. n : c[i] = calls[i]) /\ c[n + 1] = [at |-> pc, sent |-> x]
    BY <2>1, <2>2
  <2> QED
    BY <2>3
<1>4. /\ slots[o] >= 0 /\ pc >= Body(o) /\ p \in Places
      /\ LabelIndex(insns[pc].target) = starts[p] + 1
  BY <1>1, <1>2, CalleeFacts
<1> HIDE DEF n, p
<1>5. \A i \in 1 .. n + 1 : Active(c, i) = Active(calls, i) /\ Back(c, i) = Back(calls, i)
  <2> SUFFICES ASSUME NEW i \in 1 .. n + 1
               PROVE  Active(c, i) = Active(calls, i) /\ Back(c, i) = Back(calls, i)
    OBVIOUS
  <2>1. i # 1 => i - 1 \in 1 .. n
    BY <1>2
  <2> QED
    BY <1>3, <2>1 DEF Active, Back
<1>6. Active(c, (n + 1) + 1) = p /\ Back(c, (n + 1) + 1) = After(pc)
  <2>1. (n + 1) + 1 # 1 /\ ((n + 1) + 1) - 1 = n + 1
    BY <1>2
  <2> QED
    BY <1>3, <2>1 DEF Active, Back, p
<1>7. y[LinkRegister] = After(pc) /\ \A r \in Register : r # LinkRegister => y[r] = x[r]
  BY FieldFacts DEF Registers
<1>8. x[slots[o]] = Back(calls, n + 1)
  <2>1. Body(o) > starts[o] + 2 /\ Body(o) \in Nat /\ starts[o] \in Nat
    BY <1>2, <1>4, SavesAddress
  <2>2. pc \in Int
    BY OperandFacts
  <2>3. pc > starts[o] + 2
    BY <1>4, <2>1, <2>2
  <2> QED
    BY <1>1, <1>4, <2>3 DEF KeepsAddress
<1>9. ASSUME NEW i \in 1 .. n + 1
      PROVE  c[i].at \in InPiece(Active(c, i)) /\ y[slots[Active(c, i)]] = Back(c, i)
  <2>1. CASE i = n + 1
    <3>1. slots[o] \in Register /\ slots[o] # LinkRegister
      BY <1>2, <1>4, SlotFacts
    <3> QED
      BY <1>1, <1>2, <1>3, <1>5, <1>7, <1>8, <2>1, <3>1 DEF n
  <2>2. CASE i # n + 1
    <3>1. i \in 1 .. n
      BY <1>2, <2>2
    <3>2. Active(calls, i) \in Places /\ slots[Active(calls, i)] >= 0
          /\ calls[i].at \in InPiece(Active(calls, i)) /\ x[slots[Active(calls, i)]] = Back(calls, i)
      BY <1>1, <3>1, CallersSave DEF n, CallersKeep
    <3>3. slots[Active(calls, i)] \in Register /\ slots[Active(calls, i)] # LinkRegister
      BY <3>2, SlotFacts
    <3> QED
      BY <1>3, <1>5, <1>7, <3>1, <3>2, <3>3
  <2> QED
    BY <2>1, <2>2
<1>10. \A i \in 1 .. (n + 1) + 1 : i \in 1 .. n + 1 \/ i = (n + 1) + 1
  BY <1>2
<1>11. \A i \in 1 .. n + 1 : Active(calls, i) \in Places /\ Active(calls, i) # p
  <2>1. \A i \in 1 .. n + 1 : Active(calls, i) \in Places
    BY <1>1 DEF CallersKeep, n
  <2>2. \A i \in 1 .. n + 1 : Active(calls, i) # p
    BY <1>1, CalleeNotActive DEF n, p
  <2> QED
    BY <2>1, <2>2
<1>12. \A i \in 1 .. (n + 1) + 1 : Active(c, i) \in Places
  BY <1>4, <1>5, <1>6, <1>10, <1>11
<1>13. ASSUME NEW i \in 1 .. (n + 1) + 1, NEW j \in 1 .. (n + 1) + 1, i < j
       PROVE  Active(c, i) # Active(c, j)
  <2>1. i \in 1 .. n + 1
    BY <1>2, <1>13
  <2>2. CASE j = (n + 1) + 1
    BY <1>5, <1>6, <1>11, <2>1, <2>2
  <2>3. CASE j \in 1 .. n + 1
    BY <1>1, <1>5, <1>13, <2>1, <2>3 DEF CallersKeep, n
  <2> QED
    BY <1>10, <2>2, <2>3
<1>14. CallersKeep(c, y)
  BY <1>3, <1>9, <1>12, <1>13 DEF CallersKeep
<1>15. starts[p] \in Nat /\ starts[p] + 1 \in InPiece(p)
  <2>1. LabelAt(p, 1) = starts[p] + 1 /\ 1 \in Blocks(p) /\ starts[p] \in Nat
    BY <1>4, CodeShape
  <2>2. LabelAt(p, 1) \in InPiece(p)
    BY <1>4, <2>1, CodeShape
  <2> QED
    BY <2>1, <2>2
<1>16. KeepsAddress(p, After(pc), starts[p] + 1, y)
  BY <1>7, <1>15 DEF KeepsAddress
<1> QED
  BY <1>3, <1>4, <1>6, <1>14, <1>15, <1>16


\* A return goes back to the caller.
LEMMA ChainReturn ==
    ASSUME Done, pc \in DOMAIN insns, insns[pc].op = "RET", Registers(x), Calls(calls), ChainAt(pc, x, calls),
           NEW k \in DOMAIN insns, x[LinkRegister] = After(k),
           NEW v, NEW y, y = [x EXCEPT ![0] = v, ![Field(insns[k].reg)] = v],
           NEW c, c = IF calls = <<>> THEN <<>> ELSE Front(calls)
    PROVE  ChainAt(k + 1, y, c)
<1> SUFFICES ASSUME Regular
             PROVE  /\ CallersKeep(c, y)
                    /\ k + 1 \in InPiece(Active(c, Len(c) + 1))
                    /\ KeepsAddress(Active(c, Len(c) + 1), Back(c, Len(c) + 1), k + 1, y)
  BY DEF ChainAt
<1> DEFINE n == Len(calls)
           o == Active(calls, n)
<1>1. /\ CallersKeep(calls, x) /\ Fits /\ Closed
      /\ x[LinkRegister] = Back(calls, n + 1)
  BY DEF Regular, ChainAt, KeepsAddress
<1>2. n \in Nat /\ k \in Nat /\ k # 0
  <2>1. n \in Nat
    BY DEF Calls
  <2> QED
    BY <2>1, OperandFacts
<1>3. n >= 1
  <2> SUFFICES ASSUME n = 0 PROVE FALSE
    BY <1>2
  <2>1. After(k) = After(0)
    BY <1>1, ValueFacts DEF Back
  <2> QED
    BY <1>2, <2>1, ValueFacts
<1>4. /\ n \in 1 .. n
      /\ Len(c) = n - 1
      /\ \A i \in 1 .. n - 1 : c[i] = calls[i]
  BY <1>2, <1>3, FrontOfCalls
<1>5. calls[n].at = k
  <2>1. Back(calls, n + 1) = After(calls[n].at)
    <3>1. n + 1 # 1 /\ (n + 1) - 1 = n
      BY <1>2, <1>3
    <3> QED
      BY <3>1 DEF Back
  <2>2. calls[n].at \in Nat
    <3>1. calls \in Seq(CallSet)
      BY DEF Calls
    <3>2. calls[n] \in CallSet
      BY <1>4, <3>1
    <3> QED
      BY <3>2 DEF CallSet
  <2>3. After(k) = After(calls[n].at)
    BY <1>1, <2>1
  <2>4. After(k)[2] = k /\ After(calls[n].at)[2] = calls[n].at
    BY DEF After
  <2> QED
    BY <2>3, <2>4
<1>6. o \in Places /\ slots[o] >= 0 /\ insns[k].op = "CALL" /\ k \in InPiece(o)
  BY <1>1, <1>4, <1>5, CallersSave
<1>7. x[slots[o]] = Back(calls, n)
  BY <1>1, <1>4 DEF CallersKeep
<1>8. k + 1 \in InPiece(o) /\ k >= Body(o)
  BY <1>1, <1>6, GoesOn, CalleeFacts
<1> DEFINE d == Field(insns[k].reg)
<1>9. d \in Pool
  <2>1. PICK b \in Blocks(o) : InBody(o, b, k)
    BY <1>6, BodyPlace
  <2>2. insns[k] # TakesAddress(o)
    BY <1>6, MoveFields DEF TakesAddress
  <2>3. insns[k].reg \in Pool
    BY <1>1, <1>6, <2>1, <2>2 DEF InBody, BodyInsn
  <2> QED
    BY <2>3, FieldFacts
<1> HIDE DEF d, n, o
<1>10. ASSUME NEW r \in Register, r \notin Pool, r # 0 PROVE y[r] = x[r]
  <2>1. y = [x EXCEPT ![0] = v, ![d] = v]
    BY DEF d
  <2>2. r # d
    BY <1>9, <1>10
  <2> QED
    BY <1>10, <2>1, <2>2 DEF Registers
<1>11. \A i \in 1 .. n : Active(c, i) = Active(calls, i) /\ Back(c, i) = Back(calls, i)
  <2> SUFFICES ASSUME NEW i \in 1 .. n
               PROVE  Active(c, i) = Active(calls, i) /\ Back(c, i) = Back(calls, i)
    OBVIOUS
  <2>1. i # 1 => i - 1 \in 1 .. n - 1
    BY <1>2
  <2> QED
    BY <1>4, <2>1 DEF Active, Back
<1>12. \A i \in 1 .. n : y[slots[Active(calls, i)]] = x[slots[Active(calls, i)]]
  <2> SUFFICES ASSUME NEW i \in 1 .. n PROVE y[slots[Active(calls, i)]] = x[slots[Active(calls, i)]]
    OBVIOUS
  <2>1. Active(calls, i) \in Places /\ slots[Active(calls, i)] >= 0
    BY <1>1, CallersSave DEF n
  <2>2. slots[Active(calls, i)] \in Register /\ slots[Active(calls, i)] \notin Pool /\ slots[Active(calls, i)] # 0
    BY <2>1, SlotFacts
  <2> QED
    BY <1>10, <2>2
<1>13. CallersKeep(c, y)
  <2>1. \A i \in 1 .. n - 1 : i \in 1 .. n
    BY <1>2
  <2>2. \A i \in 1 .. n : i \in 1 .. n + 1
    BY <1>2
  <2>3. (n - 1) + 1 = n
    BY <1>2
  <2>4. ASSUME NEW i \in 1 .. n - 1
        PROVE  c[i].at \in InPiece(Active(c, i)) /\ y[slots[Active(c, i)]] = Back(c, i)
    BY ZenonT(45), <1>1, <1>4, <1>11, <1>12, <2>1 DEF CallersKeep, n
  <2>5. \A i \in 1 .. n : Active(c, i) \in Places
    BY <1>1, <1>11, <2>2 DEF CallersKeep, n
  <2>6. \A i, j \in 1 .. n : i < j => Active(c, i) # Active(c, j)
    BY <1>1, <1>11, <2>2 DEF CallersKeep, n
  <2>7. 1 .. Len(c) = 1 .. n - 1 /\ 1 .. Len(c) + 1 = 1 .. n
    <3>1. Len(c) = n - 1
      BY <1>4
    <3> QED
      BY <2>3, <3>1
  <2> QED
    BY <2>4, <2>5, <2>6, <2>7 DEF CallersKeep
<1>14. Len(c) + 1 = n
  BY <1>2, <1>4
<1>15. Active(c, n) = o /\ Back(c, n) = Back(calls, n)
  BY <1>4, <1>11 DEF o
<1>16. KeepsAddress(o, Back(calls, n), k + 1, y)
  <2>1. insns[k + 1].op # "RET"
    <3> SUFFICES ASSUME insns[k + 1].op = "RET" PROVE FALSE
      OBVIOUS
    <3>1. insns[(k + 1) - 1] = TakesAddress(o)
      BY <1>6, <1>8, ReturnTakes
    <3>2. (k + 1) - 1 = k
      BY <1>2
    <3> QED
      BY <1>6, <3>1, <3>2, MoveFields DEF TakesAddress
  <2>2. Body(o) > starts[o] + 2 /\ Body(o) \in Nat /\ starts[o] \in Nat
    BY <1>6, SavesAddress
  <2>3. ~(k + 1 <= starts[o] + 2) /\ ~(slots[o] < 0)
    <3>1. slots[o] \in {-1, 16, 17, 18}
      BY <1>6, SlotFacts
    <3> QED
      BY <1>2, <1>6, <1>8, <2>2, <3>1
  <2>4. y[slots[o]] = Back(calls, n)
    BY <1>4, <1>7, <1>12 DEF o
  <2> QED
    BY <2>1, <2>3, <2>4 DEF KeepsAddress
<1> QED
  BY <1>8, <1>13, <1>14, <1>15, <1>16

LEMMA ChainKept ==
    ASSUME UNCHANGED asmVars, ChainAt(pc', x', calls')
    PROVE  ChainInv'
<1>1. /\ UNCHANGED <<program, order, slots, label_base, insns, starts>>
      /\ Places' = Places /\ Fits' = Fits /\ Closed' = Closed
      /\ \A o : FunctionAt(o)' = FunctionAt(o)
      /\ \A o : EndOf(o)' = EndOf(o)
  BY TextKept
<1>2. \A o : QuadsIn(FunctionAt(o))' = QuadsIn(FunctionAt(o))
  BY <1>1 DEF QuadsIn
<1>3. \A name : Declared(name)' = Declared(name)
  BY <1>1 DEF Declared
<1>4. \A o : Callees(o)' = Callees(o)
  BY <1>1, <1>2, <1>3 DEF Callees
<1>5. IsRecursive' = IsRecursive
  BY <1>1, <1>4 DEF IsRecursive
<1>6. ScratchUnused' = ScratchUnused
  BY <1>1 DEF ScratchUnused, WritesScratch, LoadsScratch
<1>7. Regular' = Regular
  BY <1>1, <1>5, <1>6 DEF Regular
<1>8. \A k : Callee(k)' = Callee(k)
  BY <1>1 DEF Callee, LabelOf
<1>9. \A o : InPiece(o)' = InPiece(o)
  BY <1>1 DEF InPiece
<1>10. \A i : Active(calls, i)' = Active(calls', i) /\ Back(calls, i)' = Back(calls', i)
  BY <1>8 DEF Active, Back
<1>11. CallersKeep(calls, x)' = CallersKeep(calls', x')
  BY <1>1, <1>9, <1>10 DEF CallersKeep
<1>12. \A o, address : KeepsAddress(o, address, pc, x)' = KeepsAddress(o, address, pc', x')
  BY <1>1 DEF KeepsAddress
<1> QED
  BY <1>7, <1>9, <1>10, <1>11, <1>12 DEF ChainInv, ChainAt

LEMMA ChainStart ==
    ASSUME Done, 1 \in Places, Registers(x), NEW y, y = [x EXCEPT ![LinkRegister] = Home]
    PROVE  ChainAt(LabelAt(1, 1), y, <<>>)
<1> SUFFICES ASSUME Regular
             PROVE  /\ CallersKeep(<<>>, y)
                    /\ LabelAt(1, 1) \in InPiece(1)
                    /\ KeepsAddress(1, Home, LabelAt(1, 1), y)
  <2>1. Len(<<>>) + 1 = 1 /\ Active(<<>>, 1) = 1 /\ Back(<<>>, 1) = Home
    BY DEF Active, Back
  <2> QED
    BY <2>1 DEF ChainAt
<1>1. 1 \in Places
  OBVIOUS
<1>2. LabelAt(1, 1) = starts[1] + 1 /\ LabelAt(1, 1) \in InPiece(1) /\ starts[1] \in Nat
  <2>1. 1 \in Blocks(1) /\ LabelAt(1, 1) = starts[1] + 1 /\ starts[1] \in Nat
    BY <1>1, CodeShape
  <2>2. LabelAt(1, 1) \in InPiece(1)
    BY <1>1, <2>1, CodeShape
  <2> QED
    BY <2>1, <2>2
<1>3. CallersKeep(<<>>, y)
  <2>1. 1 .. Len(<<>>) = {} /\ 1 .. Len(<<>>) + 1 = {1}
    OBVIOUS
  <2>2. Active(<<>>, 1) \in Places
    BY <1>1 DEF Active
  <2>3. \A i \in 1 .. Len(<<>>) + 1 : Active(<<>>, i) \in Places
    BY <2>1, <2>2
  <2>4. \A i, j \in {1} : ~(i < j)
    OBVIOUS
  <2>5. \A i, j \in 1 .. Len(<<>>) + 1 : i < j => Active(<<>>, i) # Active(<<>>, j)
    BY <2>1, <2>4
  <2> QED
    BY <2>1, <2>3, <2>5 DEF CallersKeep
<1>4. y[LinkRegister] = Home
  BY SlotFacts DEF Registers
<1>5. ~(LabelAt(1, 1) > starts[1] + 2)
  BY <1>2
<1>6. KeepsAddress(1, Home, LabelAt(1, 1), y)
  BY <1>4, <1>5 DEF KeepsAddress
<1> QED
  BY <1>2, <1>3, <1>6

LEMMA ChainInvStep ==
    ASSUME RunInv, ChainInv, RunNext \/ UNCHANGED <<asmVars, runVars>>
    PROVE  ChainInv'
<1>1. CASE Assemble \/ UNCHANGED <<asmVars, runVars>>
  <2> SUFFICES ASSUME running' = "yes" PROVE ChainInv'
    BY DEF ChainInv
  <2>1. UNCHANGED <<running, pc, x, calls>> /\ UNCHANGED asmVars
    BY <1>1, NothingRuns DEF runVars
  <2>2. ChainAt(pc', x', calls')
    BY <2>1 DEF ChainInv
  <2> QED
    BY <2>1, <2>2, ChainKept
<1>2. CASE StartProgram
  <2>1. /\ UNCHANGED asmVars /\ calls' = <<>> /\ pc' = LabelAt(1, 1)
        /\ x' = [x EXCEPT ![LinkRegister] = Home]
    BY <1>2, StartStep DEF RunInv
  <2>2. pass = "written" /\ Registers(x)
    BY <1>2 DEF RunInv, StateInv, StartProgram
  <2>3. Done /\ 1 \in Places
    BY <2>2 DEF RunInv, Done, WordInv
  <2>4. ChainAt(pc', x', calls')
    BY <2>1, <2>2, <2>3, ChainStart
  <2> QED
    BY <2>1, <2>4, ChainKept
<1>3. CASE Pass \/ Move \/ Compute
  <2>1. /\ running = "yes" /\ pc <= Len(insns) /\ UNCHANGED asmVars /\ calls' = calls /\ pc' = pc + 1
        /\ insns[pc].op \in {"LABEL", "MOV", "ADD", "SUB", "CMP", "NEG", "MULT", "DIV"}
        /\ insns[pc].op = "LABEL" => x' = x
        /\ insns[pc].op = "MOV" => x' = [x EXCEPT ![Field(insns[pc].reg)] = ValueOf(insns[pc].src1)]
        /\ insns[pc].op \notin {"LABEL", "MOV"} =>
              x' = [r \in Register |->
                       IF r = Field(insns[pc].reg) THEN Made(pc)
                       ELSE IF r = Scratch /\ WritesScratch(insns[pc]) THEN Made(pc) ELSE x[r]]
    BY <1>3 DEF Pass, Move, Compute, At
  <2>2. Done /\ pc \in DOMAIN insns /\ Registers(x) /\ Calls(calls) /\ ChainAt(pc, x, calls)
    BY <2>1, Running DEF ChainInv
  <2>3. Field(insns[pc].reg) \in Register
    BY <2>2, OperandFacts, FieldFacts
  <2>4. ASSUME ScratchUnused, NEW r \in Register, r # Field(insns[pc].reg) PROVE x'[r] = x[r]
    <3>1. ~WritesScratch(insns[pc])
      BY <2>2, <2>4 DEF ScratchUnused
    <3> QED
      BY <2>1, <2>2, <2>4, <3>1 DEF Registers
  <2>5. insns[pc].op = "MOV" => x'[Field(insns[pc].reg)] = ValueOf(insns[pc].src1)
    BY <2>1, <2>2, <2>3 DEF Registers
  <2>6. insns[pc].op \notin {"RET", "JMP", "JE", "CALL"}
    BY <2>1
  <2>7. ChainAt(pc + 1, x', calls)
    BY <2>1, <2>2, <2>4, <2>5, <2>6, ChainOn
  <2> QED
    BY <2>1, <2>7, ChainKept
<1>4. CASE Jump \/ Branch
  <2>1. /\ running = "yes" /\ pc <= Len(insns) /\ UNCHANGED asmVars /\ insns[pc].op \in {"JMP", "JE"}
        /\ x' = x /\ calls' = calls
        /\ \E label : /\ label = insns[pc].target \/ (insns[pc].op = "JE" /\ label = insns[pc].target2)
                      /\ pc' = LabelIndex(label)
    BY <1>4 DEF Jump, Branch, At, Enter
  <2>2. Done /\ pc \in DOMAIN insns /\ Calls(calls) /\ ChainAt(pc, x, calls)
    BY <2>1, Running DEF ChainInv
  <2>3. ChainAt(pc', x', calls')
    BY <2>1, <2>2, ChainJump
  <2> QED
    BY <2>1, <2>3, ChainKept
<1>5. CASE CallFunction
  <2>1. /\ running = "yes" /\ pc <= Len(insns) /\ UNCHANGED asmVars /\ insns[pc].op = "CALL"
        /\ pc' = LabelIndex(insns[pc].target)
        /\ x' = [x EXCEPT ![LinkRegister] = After(pc)]
        /\ calls' = Append(calls, [at |-> pc, sent |-> x])
    BY <1>5 DEF CallFunction, At, Enter
  <2>2. Done /\ pc \in DOMAIN insns /\ Registers(x) /\ Calls(calls) /\ ChainAt(pc, x, calls)
    BY <2>1, Running DEF ChainInv
  <2>3. ChainAt(pc', x', calls')
    BY <2>1, <2>2, ChainCall
  <2> QED
    BY <2>1, <2>3, ChainKept
<1>6. CASE ReturnFunction
  <2>1. CASE running' # "yes"
    BY <2>1 DEF ChainInv
  <2>2. CASE running' = "yes"
    <3>1. /\ UNCHANGED asmVars /\ running = "yes" /\ pc \in DOMAIN insns /\ insns[pc].op = "RET"
          /\ calls' = IF calls = <<>> THEN <<>> ELSE Front(calls)
          /\ \E k \in DOMAIN insns :
                 /\ x[LinkRegister] = After(k) /\ pc' = k + 1
                 /\ \E v : x' = [x EXCEPT ![0] = v, ![Field(insns[k].reg)] = v]
      BY <1>6, <2>2, ReturnFacts DEF RunInv
    <3>2. Done /\ Registers(x) /\ Calls(calls) /\ ChainAt(pc, x, calls)
      BY <3>1, DoneWhenRunning DEF RunInv, StateInv, ChainInv
    <3>3. PICK k \in DOMAIN insns :
              /\ x[LinkRegister] = After(k) /\ pc' = k + 1
              /\ \E v : x' = [x EXCEPT ![0] = v, ![Field(insns[k].reg)] = v]
      BY <3>1
    <3>4. PICK v : x' = [x EXCEPT ![0] = v, ![Field(insns[k].reg)] = v]
      BY <3>3
    <3>5. ChainAt(k + 1, x', calls')
      BY <3>1, <3>2, <3>3, <3>4, ChainReturn
    <3>6. ChainAt(pc', x', calls')
      BY <3>3, <3>5
    <3> QED
      BY <3>1, <3>6, ChainKept
  <2> QED
    BY <2>1, <2>2
<1> QED
  BY <1>1, <1>2, <1>3, <1>4, <1>5, <1>6 DEF RunNext, Instructions

LEMMA ChainBringsHome ==
    ASSUME RunInv, ChainInv
    PROVE  SlotsBringHome
<1> SUFFICES ASSUME Regular, At({"RET"})
             PROVE  x[LinkRegister] = IF calls = <<>> THEN Home ELSE After(Last(calls).at)
  BY DEF SlotsBringHome, ReturnsHome, Regular
<1>1. running = "yes" /\ pc <= Len(insns) /\ insns[pc].op = "RET"
  BY DEF At
<1>2. x[LinkRegister] = Back(calls, Len(calls) + 1)
  BY <1>1 DEF ChainInv, ChainAt, KeepsAddress
<1>3. calls \in Seq(CallSet) /\ Len(calls) \in Nat
  BY DEF RunInv, StateInv, Calls
<1>4. (Len(calls) + 1) - 1 = Len(calls) /\ (Len(calls) + 1 = 1 <=> Len(calls) = 0)
  BY <1>3
<1>5. calls = <<>> <=> Len(calls) = 0
  BY <1>3
<1> QED
  BY <1>2, <1>4, <1>5 DEF Back, Last

\* In every run of a program whose functions do not call themselves, however
\* deep its calls, each return leads behind the call that it answers, as long as
\* the registers fit, no instruction computes in a slot and no function runs on.
THEOREM EverySlotBringsHome == RunSpec => []SlotsBringHome
<1>1. RunInit => ChainInv
  BY DEF RunInit, ChainInv
<1>2. RunInv /\ ChainInv /\ [RunNext]_<<asmVars, runVars>> => ChainInv'
  BY ChainInvStep
<1>3. RunInv /\ ChainInv => SlotsBringHome
  BY ChainBringsHome
<1> QED
  BY <1>1, <1>2, <1>3, RunInvHolds, PTL DEF RunSpec


=============================================================================
