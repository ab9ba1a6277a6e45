----------------------------- MODULE SSAProofs ------------------------------
(***************************************************************************)
(* Proofs about SSA: for every function that build_cfg can leave,          *)
(* place_phi puts phis exactly at the iterated dominance frontier,         *)
(* ssa_rename defines every version once, and the state keeps its types to *)
(* the end of out_of_ssa.  PlaceInv is the invariant of the worklist,      *)
(* RenamingInv that of one block's renaming, and ValuesInv that of the     *)
(* whole construction.                                                     *)
(***************************************************************************)
EXTENDS SSARun, DominanceProofs, SequenceTheorems, FiniteSetTheorems, TLAPS

-----------------------------------------------------------------------------
(* The graph, its dominators and their frontiers *)

\* What a function of the constant looks like, in the terms of the state.
WellFormed(f) ==
    /\ f.block_count \in Nat \ {0} /\ f.reg_count \in Nat
    /\ f.successors \in [0 .. f.block_count - 1 -> Seq(0 .. f.block_count - 1)]
    /\ f.predecessors \in [0 .. f.block_count - 1 -> Seq(0 .. f.block_count - 1)]
    /\ \A x, y \in 0 .. f.block_count - 1 :
           Contains(f.successors[x], y) <=> Contains(f.predecessors[y], x)
    /\ DOMAIN f.code = 0 .. f.block_count - 1
    /\ \A b \in 0 .. f.block_count - 1 :
           /\ f.code[b] \in Seq(Range(f.code[b]))
           /\ \A q \in Range(f.code[b]) :
                  /\ {"id", "op", "reads", "args", "result"} \subseteq DOMAIN q
                  /\ q.result \in NoReg .. f.reg_count - 1
                  /\ q.reads \in Seq(0 .. f.reg_count - 1)

LEMMA FunctionsWellFormed ==
    ASSUME NEW f \in Functions
    PROVE  WellFormed(f)
BY FunctionAssumption DEF WellFormed

LEMMA BlocksFinite ==
    ASSUME WellFormed(fn)
    PROVE  /\ IsFiniteSet(Block)
           /\ Cardinality(Block) = fn.block_count
           /\ 0 \in Block
           /\ DOMAIN fn.successors = Block
<1>1. fn.block_count \in Nat \ {0} /\ DOMAIN fn.successors = 0 .. fn.block_count - 1
  BY DEF WellFormed
<1>2. IsFiniteSet(0 .. fn.block_count - 1) /\ Cardinality(0 .. fn.block_count - 1) = fn.block_count
  BY <1>1, FS_Interval
<1> QED
  BY <1>1, <1>2 DEF Block

\* Only blocks are reached.
LEMMA ReachableIsBlocks ==
    ASSUME WellFormed(fn), NEW a
    PROVE  ReachableWithout(fn.successors, a) \subseteq Block
<1>1. IsFiniteSet(Block) /\ 0 \in Block /\ DOMAIN fn.successors = Block
  BY BlocksFinite
<1>2. NoBlock \notin Block
  BY DEF Block, NoBlock, WellFormed
<1>3. Graph(fn.successors)
  BY <1>1, <1>2 DEF Graph
<1> QED
  BY <1>1, <1>3, ReachableStays

\* A block of a frontier has a predecessor, so that a phi there has an entry.
LEMMA FrontierHasEntries ==
    ASSUME WellFormed(fn), NEW x,
           NEW y \in Frontier(fn.successors, DominatorsOf(fn.successors), x)
    PROVE  /\ y \in Block
           /\ Len(fn.predecessors[y]) \in Nat \ {0}
<1> DEFINE doms == DominatorsOf(fn.successors)
<1>1. DOMAIN doms = ReachableWithout(fn.successors, NoBlock)
  BY DEF DominatorsOf, Reachable
<1>2. DOMAIN doms \subseteq Block
  BY <1>1, ReachableIsBlocks
<1>3. y \in DOMAIN doms /\ \E p \in DOMAIN doms : Edge(fn.successors, p, y)
  BY DEF Frontier
<1> HIDE DEF doms
<1>4. PICK p \in Block : Contains(fn.successors[p], y)
  BY <1>2, <1>3 DEF Edge
<1>5. y \in Block
  BY <1>2, <1>3
<1>6. Contains(fn.predecessors[y], p)
  BY <1>4, <1>5 DEF WellFormed, Block
<1>7. fn.predecessors[y] \in Seq(Block)
  BY <1>5 DEF WellFormed, Block
<1>8. Len(fn.predecessors[y]) \in Nat
  BY <1>7
<1>9. Len(fn.predecessors[y]) # 0
  BY <1>6, <1>8 DEF Contains
<1> QED
  BY <1>5, <1>8, <1>9

-----------------------------------------------------------------------------
(* A set as a sequence *)

LEMMA SetToSeqHasAll ==
    ASSUME NEW S, IsFiniteSet(S)
    PROVE  /\ SetToSeq(S) \in Seq(S)
           /\ \A x \in S : \E i \in 1 .. Len(SetToSeq(S)) : SetToSeq(S)[i] = x
<1> DEFINE n == Cardinality(S)
<1>1. n \in Nat /\ ExistsBijection(1 .. n, S)
  BY FS_CardinalityType
<1>2. IsFiniteSet(1 .. n) /\ Cardinality(1 .. n) = n
  BY <1>1, FS_Interval
<1>3. PICK g : g \in Bijection(1 .. n, S)
  BY <1>1 DEF ExistsBijection
<1>4. g \in [1 .. n -> S] /\ IsInjective(g)
  BY <1>3 DEF Bijection, Injection, IsInjective
<1>5. SetToSeq(S) \in [1 .. n -> S] /\ IsInjective(SetToSeq(S))
  BY <1>4 DEF SetToSeq
<1> DEFINE s == SetToSeq(S)
<1> HIDE DEF s
<1>6. s \in Injection(1 .. n, S)
  BY <1>5 DEF s, Injection, IsInjective
<1>7. s \in Surjection(1 .. n, S)
  BY <1>2, <1>6, FS_Injection
<1>8. s \in Seq(S) /\ Len(s) = n
  BY <1>1, <1>5 DEF s
<1>9. \A x \in S : \E i \in 1 .. n : s[i] = x
  BY <1>7 DEF Surjection
<1> QED
  BY <1>8, <1>9 DEF s

-----------------------------------------------------------------------------
(* place_phi: the phis of a block as a sequence of entries *)

Entry == [result_reg : Nat, orig_var : Nat, reg_index : Nat, from_label : Block]

\* OnePhi and HasPhi of a given sequence.
OneIn(s, y, r) ==
    \E k \in 0 .. Len(s) :
        /\ {i \in DOMAIN s : s[i].orig_var = r} = k + 1 .. k + Len(fn.predecessors[y])
        /\ \A p \in 1 .. Len(fn.predecessors[y]) : s[k + p].from_label = fn.predecessors[y][p]
HasIn(s, r) == \E i \in DOMAIN s : s[i].result_reg = r

LEMMA InTermsOfSequences ==
    ASSUME NEW b, NEW r
    PROVE  /\ OnePhi(b, r) <=> OneIn(phis[b], b, r)
           /\ HasPhi(b, r) <=> HasIn(phis[b], r)
BY DEF OnePhi, OneIn, PhisFor, HasPhi, HasIn, Range

LEMMA NewPhiShape ==
    ASSUME WellFormed(fn), NEW y \in Block, NEW r \in Nat
    PROVE  /\ NewPhi(y, r) \in Seq(Entry)
           /\ Len(NewPhi(y, r)) = Len(fn.predecessors[y])
           /\ Len(fn.predecessors[y]) \in Nat
           /\ \A p \in 1 .. Len(fn.predecessors[y]) :
                  /\ NewPhi(y, r)[p].result_reg = r
                  /\ NewPhi(y, r)[p].orig_var = r
                  /\ NewPhi(y, r)[p].from_label = fn.predecessors[y][p]
<1> DEFINE n == Len(fn.predecessors[y])
<1>1. fn.predecessors[y] \in Seq(Block)
  BY DEF WellFormed, Block
<1>2. n \in Nat /\ \A p \in 1 .. n : fn.predecessors[y][p] \in Block
  BY <1>1
<1>3. \A p \in 1 .. n : [result_reg |-> r, orig_var |-> r, reg_index |-> 0,
                         from_label |-> fn.predecessors[y][p]] \in Entry
  BY <1>2 DEF Entry
<1>4. NewPhi(y, r) \in [1 .. n -> Entry]
  BY <1>3 DEF NewPhi
<1>5. NewPhi(y, r) \in Seq(Entry) /\ Len(NewPhi(y, r)) = n
  BY <1>2, <1>4
<1>6. \A p \in 1 .. n : NewPhi(y, r)[p] = [result_reg |-> r, orig_var |-> r, reg_index |-> 0,
                                           from_label |-> fn.predecessors[y][p]]
  BY DEF NewPhi
<1>7. ASSUME NEW p \in 1 .. n
      PROVE  /\ NewPhi(y, r)[p].result_reg = r
             /\ NewPhi(y, r)[p].orig_var = r
             /\ NewPhi(y, r)[p].from_label = fn.predecessors[y][p]
  <2>1. NewPhi(y, r)[p] = [result_reg |-> r, orig_var |-> r, reg_index |-> 0,
                           from_label |-> fn.predecessors[y][p]]
    BY <1>6
  <2> QED
    BY <2>1
<1> QED
  BY <1>2, <1>5, <1>7

\* What the entries of one more phi change.
LEMMA WithNewPhi ==
    ASSUME WellFormed(fn), NEW y \in Block, NEW r \in Nat, NEW s \in Seq(Entry),
           \A i \in DOMAIN s : s[i].result_reg = s[i].orig_var, ~HasIn(s, r),
           Len(fn.predecessors[y]) # 0
    PROVE  LET t == s \o NewPhi(y, r)
           IN  /\ t \in Seq(Entry)
               /\ \A i \in DOMAIN t : t[i].result_reg = t[i].orig_var
               /\ \A v : HasIn(t, v) <=> HasIn(s, v) \/ v = r
               /\ OneIn(t, y, r)
               /\ \A v : v # r /\ OneIn(s, y, v) => OneIn(t, y, v)
<1> DEFINE new == NewPhi(y, r)
           t == s \o new
           n == Len(fn.predecessors[y])
           m == Len(s)
<1>1. /\ new \in Seq(Entry) /\ Len(new) = n /\ n \in Nat \ {0} /\ m \in Nat
      /\ \A p \in 1 .. n : /\ new[p].result_reg = r /\ new[p].orig_var = r
                           /\ new[p].from_label = fn.predecessors[y][p]
  BY NewPhiShape
<1> HIDE DEF new
<1>2. /\ t \in Seq(Entry) /\ Len(t) = m + n
      /\ \A i \in 1 .. m + n : t[i] = IF i <= m THEN s[i] ELSE new[i - m]
  <2>1. new \in Seq(Entry) /\ s \in Seq(Entry) /\ Len(new) = n
    BY <1>1
  <2>2. /\ t \in Seq(Entry) /\ Len(t) = Len(s) + Len(new)
        /\ \A i \in 1 .. Len(s) + Len(new) : t[i] = IF i <= Len(s) THEN s[i] ELSE new[i - Len(s)]
    BY ONLY <2>1, ConcatProperties
  <2> QED
    BY <2>1, <2>2
<1>3. DOMAIN t = 1 .. m + n /\ DOMAIN s = 1 .. m
  BY <1>2
<1> HIDE DEF t, n, m
<1>4. \A i \in 1 .. m : i \in 1 .. m + n /\ t[i] = s[i]
  BY <1>1, <1>2
<1>5. \A i \in 1 .. m + n : i \notin 1 .. m =>
          t[i].result_reg = r /\ t[i].orig_var = r
  <2> SUFFICES ASSUME NEW i \in 1 .. m + n, i \notin 1 .. m
               PROVE  t[i].result_reg = r /\ t[i].orig_var = r
    OBVIOUS
  <2>1. i - m \in 1 .. n /\ ~ (i <= m)
    BY <1>1
  <2> QED
    BY <1>1, <1>2, <2>1
<1>6. \A p \in 1 .. n : m + p \in 1 .. m + n /\ t[m + p] = new[p] /\ m + p \notin 1 .. m
  <2> SUFFICES ASSUME NEW p \in 1 .. n
               PROVE  m + p \in 1 .. m + n /\ t[m + p] = new[p] /\ m + p \notin 1 .. m
    OBVIOUS
  <2>1. m + p \in 1 .. m + n /\ ~ (m + p <= m) /\ (m + p) - m = p
    BY <1>1
  <2> QED
    BY <1>2, <2>1
<1>7. \A i \in DOMAIN t : t[i].result_reg = t[i].orig_var
  BY <1>3, <1>4, <1>5
<1>8. \A v : HasIn(t, v) <=> HasIn(s, v) \/ v = r
  <2> TAKE v
  <2>1. ASSUME HasIn(s, v) PROVE HasIn(t, v)
    <3>1. PICK i \in 1 .. m : s[i].result_reg = v
      BY <1>3, <2>1 DEF HasIn
    <3> QED
      BY <1>3, <1>4, <3>1 DEF HasIn
  <2>2. ASSUME v = r PROVE HasIn(t, v)
    <3>1. 1 \in 1 .. n
      BY <1>1
    <3>2. m + 1 \in 1 .. m + n /\ m + 1 \notin 1 .. m
      BY <1>6, <3>1
    <3> QED
      BY <1>3, <1>5, <2>2, <3>2 DEF HasIn
  <2>3. ASSUME HasIn(t, v), v # r PROVE HasIn(s, v)
    <3>1. PICK i \in 1 .. m + n : t[i].result_reg = v
      BY <1>3, <2>3 DEF HasIn
    <3>2. i \in 1 .. m
      BY <1>5, <2>3, <3>1
    <3> QED
      BY <1>3, <1>4, <3>1, <3>2 DEF HasIn
  <2> QED
    BY <2>1, <2>2, <2>3
<1>9. OneIn(t, y, r)
  <2>1. {i \in DOMAIN t : t[i].orig_var = r} = m + 1 .. m + n
    <3>1. \A i \in 1 .. m : t[i].orig_var # r
      BY <1>3, <1>4 DEF HasIn
    <3>2. m + 1 .. m + n = (1 .. m + n) \ (1 .. m)
      BY <1>1
    <3> QED
      BY <1>3, <1>5, <3>1, <3>2
  <2>2. m \in 0 .. Len(t)
    BY <1>1, <1>2
  <2>3. \A p \in 1 .. n : t[m + p].from_label = fn.predecessors[y][p]
    BY <1>1, <1>6
  <2> QED
    BY <2>1, <2>2, <2>3 DEF OneIn, n
<1>10. ASSUME NEW v, v # r, OneIn(s, y, v) PROVE OneIn(t, y, v)
  <2>1. PICK k \in 0 .. m :
            /\ {i \in DOMAIN s : s[i].orig_var = v} = k + 1 .. k + n
            /\ \A p \in 1 .. n : s[k + p].from_label = fn.predecessors[y][p]
    BY <1>10 DEF OneIn, n, m
  <2>2. {i \in DOMAIN t : t[i].orig_var = v} = {i \in DOMAIN s : s[i].orig_var = v}
    BY <1>3, <1>4, <1>5, <1>10
  <2>3. \A p \in 1 .. n : k + p \in 1 .. m
    <3>1. k + 1 .. k + n \subseteq 1 .. m
      BY <1>3, <2>1
    <3>2. \A p \in 1 .. n : k + p \in k + 1 .. k + n
      BY <1>1
    <3> QED
      BY <3>1, <3>2
  <2>4. \A p \in 1 .. n : t[k + p].from_label = fn.predecessors[y][p]
    BY <1>4, <2>1, <2>3
  <2>5. k \in 0 .. Len(t)
    BY <1>1, <1>2
  <2> QED
    BY <2>1, <2>2, <2>4, <2>5 DEF OneIn, n
<1> QED
  BY <1>2, <1>7, <1>8, <1>9, <1>10 DEF t, new

-----------------------------------------------------------------------------
(* place_phi: where the phis are *)

LEMMA FrontierClosed ==
    ASSUME NEW r, NEW b \in Block, b \in DefiningBlocks(r) \cup IteratedFrontier(r)
    PROVE  df[b] \subseteq IteratedFrontier(r)
<1> SUFFICES ASSUME NEW y \in df[b] PROVE y \in IteratedFrontier(r)
  OBVIOUS
<1>1. y \in FrontierBlocks
  BY DEF FrontierBlocks
<1>2. ASSUME NEW S \in SUBSET FrontierBlocks, Closed(S, r) PROVE y \in S
  <2>1. b \in DefiningBlocks(r) \cup S
    BY <1>2 DEF IteratedFrontier
  <2> QED
    BY <1>2, <2>1 DEF Closed
<1> QED
  BY <1>1, <1>2 DEF IteratedFrontier

LEMMA FrontierLeast ==
    ASSUME NEW r, NEW S \in SUBSET IteratedFrontier(r), Closed(S, r)
    PROVE  S = IteratedFrontier(r)
<1>1. S \in SUBSET FrontierBlocks
  BY DEF IteratedFrontier
<1> QED
  BY <1>1 DEF IteratedFrontier

LEMMA FrontierIsBlocks ==
    ASSUME df \in [Block -> SUBSET Block], NEW r
    PROVE  IteratedFrontier(r) \subseteq Block
BY DEF IteratedFrontier, FrontierBlocks

\* A register that no quad can define has no phi.
LEMMA NothingBeyond ==
    ASSUME WellFormed(fn), NEW r \in Nat, r >= fn.reg_count
    PROVE  DefiningBlocks(r) = {} /\ IteratedFrontier(r) = {}
<1>1. DefiningBlocks(r) = {}
  <2> SUFFICES ASSUME NEW b \in Block, NEW q \in Range(fn.code[b]), q.result = r PROVE FALSE
    BY DEF DefiningBlocks
  <2>1. q.result \in NoReg .. fn.reg_count - 1 /\ fn.reg_count \in Nat
    BY DEF WellFormed, Block
  <2> QED
    BY <2>1 DEF NoReg
<1>2. Closed({}, r)
  BY <1>1 DEF Closed
<1> QED
  BY <1>1, <1>2 DEF IteratedFrontier

LEMMA DefiningFinite ==
    ASSUME WellFormed(fn), NEW r
    PROVE  IsFiniteSet(DefiningBlocks(r)) /\ DefiningBlocks(r) \subseteq Block
<1>1. DefiningBlocks(r) \in SUBSET Block
  BY DEF DefiningBlocks
<1> QED
  BY <1>1, BlocksFinite, FS_Subset

\* What build_dominators leaves, as far as place_phi relies on it.
TreeInv ==
    stage # "dominators" =>
        /\ df \in [Block -> SUBSET Block]
        /\ \A b \in Block : \A y \in df[b] : Len(fn.predecessors[y]) # 0

NothingPlaced ==
    stage = "dominators" =>
        /\ phis = [b \in Block |-> <<>>]
        /\ reg = 0
        /\ in_queue = {}

Waiting(x) == \E i \in 1 .. Len(queue) : queue[i] = x

\* place_phi in the middle of its work: the registers before reg are done; of
\* reg, every block that defines it or has a phi for it waits, or its frontier
\* has phis.
PlaceInv ==
    stage = "place" =>
        /\ reg \in Nat /\ (reg < fn.reg_count \/ reg = 0)
        /\ queue \in Seq(Block)
        /\ \A x \in Block : Waiting(x) => x \in DefiningBlocks(reg) \cup IteratedFrontier(reg)
        /\ phis \in [Block -> Seq(Entry)]
        /\ \A b \in Block : \A i \in DOMAIN phis[b] : phis[b][i].result_reg = phis[b][i].orig_var
        /\ \A b \in Block, r \in Nat :
               HasPhi(b, r) => r <= reg /\ b \in IteratedFrontier(r) /\ OnePhi(b, r)
        /\ \A r \in Nat : r < reg => \A b \in IteratedFrontier(r) : HasPhi(b, r)
        /\ \A x \in Block : x \in DefiningBlocks(reg) \/ HasPhi(x, reg) =>
               Waiting(x) \/ \A y \in df[x] : HasPhi(y, reg)
        /\ in_queue \subseteq Block
        /\ \A y \in in_queue : HasPhi(y, reg)

FnInv == WellFormed(fn)

PlacingInv == FnInv /\ TreeInv /\ NothingPlaced /\ PlaceInv

\* Every action keeps the function.
LEMMA FunctionKept ==
    ASSUME FnInv, [Next]_vars
    PROVE  FnInv' /\ fn' = fn /\ Block' = Block /\ Regs' = Regs /\ Entry' = Entry
<1>1. fn' = fn
  BY DEF Next, BuildDominators, PlacePhi, PlaceNextReg, RenameHead, RenameChild, RenameLeave,
         OutOfSsa, SkipBlock, OutEnd, vars
<1> QED
  BY <1>1 DEF FnInv, WellFormed, Block, Regs, Entry

LEMMA TreeBuilt ==
    ASSUME FnInv, BuildDominators
    PROVE  /\ df' \in [Block -> SUBSET Block]
           /\ \A b \in Block : \A y \in df'[b] : Len(fn.predecessors[y]) # 0
<1> DEFINE doms == DominatorsOf(fn.successors)
<1>1. df' = [b \in Block |-> IF b \in DOMAIN doms THEN Frontier(fn.successors, doms, b) ELSE {}]
  BY DEF BuildDominators
<1>2. ASSUME NEW b \in Block, NEW y \in df'[b] PROVE y \in Block /\ Len(fn.predecessors[y]) # 0
  <2>1. y \in Frontier(fn.successors, doms, b)
    BY <1>1, <1>2
  <2> QED
    BY <2>1, FrontierHasEntries DEF FnInv
<1>3. \A b \in Block : df'[b] \subseteq Block
  BY <1>2
<1>4. df' = [b \in Block |-> df'[b]]
  BY <1>1
<1> QED
  BY <1>2, <1>3, <1>4

LEMMA TreeKept ==
    ASSUME FnInv, TreeInv, [Next]_vars
    PROVE  TreeInv'
<1>1. fn' = fn /\ Block' = Block
  BY FunctionKept
<1>2. CASE BuildDominators
  BY <1>1, <1>2, TreeBuilt DEF TreeInv
<1>3. CASE ~BuildDominators
  <2>1. df' = df /\ (stage' # "dominators" => stage # "dominators")
    BY <1>3 DEF Next, PlacePhi, PlaceNextReg, RenameHead, RenameChild, RenameLeave,
                OutOfSsa, SkipBlock, OutEnd, vars, treeVars
  <2> QED
    BY <1>1, <2>1 DEF TreeInv
<1> QED
  BY <1>2, <1>3

LEMMA NothingPlacedKept ==
    ASSUME NothingPlaced, [Next]_vars, FnInv
    PROVE  NothingPlaced'
<1>1. stage' # "dominators" \/ UNCHANGED vars
  BY DEF Next, BuildDominators, PlacePhi, PlaceNextReg, RenameHead, RenameChild, RenameLeave,
         OutOfSsa, SkipBlock, OutEnd, vars
<1>2. Block' = Block
  BY FunctionKept
<1> QED
  BY <1>1, <1>2 DEF NothingPlaced, vars, workVars

\* The worklist of a register when place_phi turns to it.
LEMMA WaitingDefinitions ==
    ASSUME FnInv, NEW r, queue' = SetToSeq(DefiningBlocks(r))
    PROVE  /\ queue' \in Seq(Block)
           /\ \A x : Waiting(x)' <=> x \in DefiningBlocks(r)
<1> DEFINE D == DefiningBlocks(r)
<1>1. IsFiniteSet(D) /\ D \subseteq Block
  BY DefiningFinite DEF FnInv
<1> HIDE DEF D
<1>2. /\ SetToSeq(D) \in Seq(D)
      /\ \A x \in D : \E i \in 1 .. Len(SetToSeq(D)) : SetToSeq(D)[i] = x
  BY <1>1, SetToSeqHasAll
<1>3. queue' = SetToSeq(D)
  BY DEF D
<1> DEFINE q == queue'
<1>4. q \in Seq(D) /\ \A x \in D : \E i \in 1 .. Len(q) : q[i] = x
  BY <1>2, <1>3
<1>5. \A x : Waiting(x)' <=> \E i \in 1 .. Len(q) : q[i] = x
  BY DEF Waiting
<1> HIDE DEF q
<1>6. q \in Seq(Block) /\ \A i \in 1 .. Len(q) : q[i] \in D
  BY <1>1, <1>4
<1>7. \A x : Waiting(x)' <=> x \in D
  BY <1>4, <1>5, <1>6
<1> QED
  BY <1>6, <1>7 DEF D, q

LEMMA FirstRegister ==
    ASSUME PlacingInv, BuildDominators
    PROVE  PlaceInv'
<1>1. /\ fn' = fn /\ Block' = Block /\ Entry' = Entry /\ phis' = phis /\ reg' = reg /\ in_queue' = in_queue
      /\ stage = "dominators" /\ queue' = SetToSeq(DefiningBlocks(reg))
  BY FunctionKept DEF PlacingInv, BuildDominators, Next
<1>2. phis = [b \in Block |-> <<>>] /\ reg = 0 /\ in_queue = {}
  BY <1>1 DEF PlacingInv, NothingPlaced
<1>3. /\ queue' \in Seq(Block)
      /\ \A x : Waiting(x)' <=> x \in DefiningBlocks(0)
  BY <1>1, <1>2, WaitingDefinitions DEF PlacingInv
<1>4. DefiningBlocks(0)' = DefiningBlocks(0)
  BY <1>1 DEF DefiningBlocks
<1>5. phis' \in [Block -> Seq(Entry)] /\ \A b \in Block : phis'[b] = <<>>
  BY <1>1, <1>2
<1>6. \A b \in Block : \A r : ~HasPhi(b, r)'
  BY <1>5 DEF HasPhi, Range
<1>7. \A b \in Block : DOMAIN phis'[b] = {}
  BY <1>5
<1> QED
  BY <1>1, <1>2, <1>3, <1>4, <1>5, <1>6, <1>7 DEF PlaceInv

\* When nothing waits, the register has its phis.
LEMMA RegisterDone ==
    ASSUME PlacingInv, stage = "place", queue = <<>>
    PROVE  \A b \in Block : HasPhi(b, reg) <=> b \in IteratedFrontier(reg)
<1> DEFINE S == {b \in Block : HasPhi(b, reg)}
<1>1. reg \in Nat /\ \A b \in Block : HasPhi(b, reg) => b \in IteratedFrontier(reg)
  BY DEF PlacingInv, PlaceInv
<1>2. S \in SUBSET IteratedFrontier(reg)
  BY <1>1
<1>3. df \in [Block -> SUBSET Block]
  BY DEF PlacingInv, TreeInv
<1>4. \A x : ~Waiting(x)
  BY DEF Waiting
<1>5. ASSUME NEW b \in DefiningBlocks(reg) \cup S PROVE df[b] \subseteq S
  <2>1. b \in Block /\ (b \in DefiningBlocks(reg) \/ HasPhi(b, reg))
    BY DEF DefiningBlocks
  <2>2. \A y \in df[b] : HasPhi(y, reg)
    BY <1>4, <2>1 DEF PlacingInv, PlaceInv
  <2>3. df[b] \subseteq Block
    BY <1>3, <2>1
  <2> QED
    BY <2>2, <2>3
<1>6. Closed(S, reg)
  BY <1>5 DEF Closed
<1> HIDE DEF S
<1>7. S = IteratedFrontier(reg)
  BY <1>2, <1>6, FrontierLeast
<1> QED
  BY <1>7 DEF S

LEMMA NextRegister ==
    ASSUME PlacingInv, PlaceNextReg
    PROVE  PlaceInv'
<1>1. /\ fn' = fn /\ Block' = Block /\ Entry' = Entry /\ phis' = phis /\ df' = df
      /\ reg' = reg + 1 /\ in_queue' = {} /\ reg + 1 < fn.reg_count
      /\ stage = "place" /\ queue = <<>> /\ queue' = SetToSeq(DefiningBlocks(reg + 1))
  BY FunctionKept DEF PlacingInv, PlaceNextReg, Next, treeVars
<1>2. /\ reg \in Nat
      /\ phis \in [Block -> Seq(Entry)]
      /\ \A b \in Block : \A i \in DOMAIN phis[b] : phis[b][i].result_reg = phis[b][i].orig_var
      /\ \A b \in Block, r \in Nat :
             HasPhi(b, r) => r <= reg /\ b \in IteratedFrontier(r) /\ OnePhi(b, r)
      /\ \A r \in Nat : r < reg => \A b \in IteratedFrontier(r) : HasPhi(b, r)
  BY <1>1 DEF PlacingInv, PlaceInv
<1>3. /\ \A r : IteratedFrontier(r)' = IteratedFrontier(r)
      /\ \A r : DefiningBlocks(r)' = DefiningBlocks(r)
      /\ \A b, r : HasPhi(b, r)' <=> HasPhi(b, r)
      /\ \A b, r : OnePhi(b, r)' <=> OnePhi(b, r)
  BY <1>1 DEF IteratedFrontier, FrontierBlocks, Closed, DefiningBlocks, HasPhi, OnePhi, PhisFor
<1>4. /\ queue' \in Seq(Block)
      /\ \A x : Waiting(x)' <=> x \in DefiningBlocks(reg + 1)
  BY <1>1, WaitingDefinitions DEF PlacingInv
<1>5. \A b \in IteratedFrontier(reg) : HasPhi(b, reg)
  <2>1. df \in [Block -> SUBSET Block]
    BY <1>1 DEF PlacingInv, TreeInv
  <2> QED
    BY <1>1, <2>1, FrontierIsBlocks, RegisterDone
<1>6. \A r \in Nat : r < reg + 1 => \A b \in IteratedFrontier(r) : HasPhi(b, r)
  <2> SUFFICES ASSUME NEW r \in Nat, r < reg + 1, NEW b \in IteratedFrontier(r) PROVE HasPhi(b, r)
    OBVIOUS
  <2>1. r < reg \/ r = reg
    BY <1>2
  <2> QED
    BY <1>2, <1>5, <2>1
<1>7. \A b \in Block : ~HasPhi(b, reg + 1)
  BY <1>2
<1>8. \A b \in Block, r \in Nat :
          HasPhi(b, r)' => r <= reg + 1 /\ b \in IteratedFrontier(r)' /\ OnePhi(b, r)'
  BY <1>2, <1>3
<1>9. reg + 1 \in Nat /\ (reg + 1 < fn.reg_count \/ reg + 1 = 0)
  BY <1>1, <1>2
<1>10. \A r \in Nat : r < reg + 1 => \A b \in IteratedFrontier(r)' : HasPhi(b, r)'
  BY <1>3, <1>6
<1>11. \A x \in Block : x \in DefiningBlocks(reg)' \/ HasPhi(x, reg)' => Waiting(x)'
  BY <1>1, <1>3, <1>4, <1>7
<1>12. \A x : Waiting(x)' => x \in DefiningBlocks(reg)'
  BY <1>1, <1>3, <1>4
<1> QED
  BY <1>1, <1>2, <1>4, <1>8, <1>9, <1>10, <1>11, <1>12 DEF PlaceInv

LEMMA PhisPlaced ==
    ASSUME PlacingInv, PlacePhi
    PROVE  PlaceInv'
<1> DEFINE h == Head(queue)
           gets == {y \in df[h] : ~HasPhi(y, reg)}
<1>1. /\ fn' = fn /\ Block' = Block /\ Entry' = Entry /\ df' = df /\ reg' = reg
      /\ stage = "place" /\ queue # <<>>
      /\ phis' = [y \in Block |-> IF y \in gets THEN phis[y] \o NewPhi(y, reg) ELSE phis[y]]
      /\ queue' = Tail(queue) \o SetToSeq(gets \ in_queue)
      /\ in_queue' = in_queue \cup gets
  BY FunctionKept DEF PlacingInv, PlacePhi, Next, treeVars, Enqueues
<1>2. /\ reg \in Nat /\ (reg < fn.reg_count \/ reg = 0)
      /\ queue \in Seq(Block)
      /\ \A x \in Block : Waiting(x) => x \in DefiningBlocks(reg) \cup IteratedFrontier(reg)
      /\ phis \in [Block -> Seq(Entry)]
      /\ in_queue \subseteq Block
      /\ \A y \in in_queue : HasPhi(y, reg)
  BY <1>1 DEF PlacingInv, PlaceInv
<1>3. /\ \A b \in Block : \A i \in DOMAIN phis[b] : phis[b][i].result_reg = phis[b][i].orig_var
      /\ \A b \in Block, r \in Nat :
             HasPhi(b, r) => r <= reg /\ b \in IteratedFrontier(r) /\ OnePhi(b, r)
      /\ \A r \in Nat : r < reg => \A b \in IteratedFrontier(r) : HasPhi(b, r)
      /\ \A x \in Block : x \in DefiningBlocks(reg) \/ HasPhi(x, reg) =>
             Waiting(x) \/ \A y \in df[x] : HasPhi(y, reg)
  BY <1>1 DEF PlacingInv, PlaceInv
<1>4. /\ df \in [Block -> SUBSET Block]
      /\ \A b \in Block : \A y \in df[b] : Len(fn.predecessors[y]) # 0
  BY <1>1 DEF PlacingInv, TreeInv
<1>5. /\ Len(queue) \in Nat \ {0} /\ h = queue[1]
      /\ Tail(queue) \in Seq(Block) /\ Len(Tail(queue)) = Len(queue) - 1
      /\ \A i \in 1 .. Len(queue) - 1 : Tail(queue)[i] = queue[i + 1]
  BY <1>1, <1>2
<1>6. h \in Block /\ Waiting(h)
  BY <1>2, <1>5 DEF Waiting
<1>7. h \in DefiningBlocks(reg) \cup IteratedFrontier(reg)
  BY <1>2, <1>6
<1>8. df[h] \subseteq IteratedFrontier(reg) /\ df[h] \subseteq Block
  BY <1>4, <1>6, <1>7, FrontierClosed
<1>9. /\ \A y \in gets : y \in Block /\ y \in IteratedFrontier(reg) /\ ~HasPhi(y, reg)
                         /\ Len(fn.predecessors[y]) # 0
      /\ \A y \in df[h] : y \notin gets => HasPhi(y, reg)
  BY <1>4, <1>6, <1>8
<1> HIDE DEF gets, h
<1>10. /\ \A r : IteratedFrontier(r)' = IteratedFrontier(r)
       /\ \A r : DefiningBlocks(r)' = DefiningBlocks(r)
  BY <1>1 DEF IteratedFrontier, FrontierBlocks, Closed, DefiningBlocks
<1>11. \A y \in Block : y \in gets =>
           /\ phis'[y] \in Seq(Entry)
           /\ \A i \in DOMAIN phis'[y] : phis'[y][i].result_reg = phis'[y][i].orig_var
           /\ \A v : HasIn(phis'[y], v) <=> HasIn(phis[y], v) \/ v = reg
           /\ OneIn(phis'[y], y, reg)
           /\ \A v : v # reg /\ OneIn(phis[y], y, v) => OneIn(phis'[y], y, v)
  <2> SUFFICES ASSUME NEW y \in Block, y \in gets
               PROVE  /\ phis'[y] \in Seq(Entry)
                      /\ \A i \in DOMAIN phis'[y] : phis'[y][i].result_reg = phis'[y][i].orig_var
                      /\ \A v : HasIn(phis'[y], v) <=> HasIn(phis[y], v) \/ v = reg
                      /\ OneIn(phis'[y], y, reg)
                      /\ \A v : v # reg /\ OneIn(phis[y], y, v) => OneIn(phis'[y], y, v)
    OBVIOUS
  <2>1. phis'[y] = phis[y] \o NewPhi(y, reg)
    BY <1>1
  <2>2. /\ WellFormed(fn) /\ phis[y] \in Seq(Entry)
        /\ \A i \in DOMAIN phis[y] : phis[y][i].result_reg = phis[y][i].orig_var
        /\ ~HasIn(phis[y], reg) /\ Len(fn.predecessors[y]) # 0
    BY <1>2, <1>3, <1>9, InTermsOfSequences DEF PlacingInv, FnInv
  <2> DEFINE s == phis[y]
             t == s \o NewPhi(y, reg)
  <2>3. /\ t \in Seq(Entry)
        /\ \A i \in DOMAIN t : t[i].result_reg = t[i].orig_var
        /\ \A v : HasIn(t, v) <=> HasIn(s, v) \/ v = reg
        /\ OneIn(t, y, reg)
        /\ \A v : v # reg /\ OneIn(s, y, v) => OneIn(t, y, v)
    BY <1>2, <2>2, WithNewPhi
  <2> QED
    BY <2>1, <2>3
<1>12. /\ \A b, r : HasPhi(b, r)' <=> HasIn(phis'[b], r)
       /\ \A b, r : OnePhi(b, r)' <=> OneIn(phis'[b], b, r)
  <2>1. \A b, r : HasPhi(b, r)' <=> HasIn(phis'[b], r)
    BY DEF HasPhi, HasIn, Range
  <2>2. ASSUME NEW b, NEW r PROVE OnePhi(b, r)' <=> OneIn(phis'[b], b, r)
    BY <1>1 DEF OnePhi, OneIn, PhisFor
  <2> QED
    BY <2>1, <2>2
<1>13. \A y \in Block : y \notin gets => phis'[y] = phis[y]
  BY <1>1
<1>14. phis' \in [Block -> Seq(Entry)]
  <2>1. \A y \in Block : phis'[y] \in Seq(Entry)
    BY <1>2, <1>11, <1>13
  <2>2. phis' = [y \in Block |-> phis'[y]]
    BY <1>1
  <2> QED
    BY <2>1, <2>2
<1>15. \A b \in Block : \A i \in DOMAIN phis'[b] : phis'[b][i].result_reg = phis'[b][i].orig_var
  BY <1>3, <1>11, <1>13
<1>16. \A b \in Block : \A r : HasPhi(b, r)' <=> HasPhi(b, r) \/ (b \in gets /\ r = reg)
  BY <1>11, <1>12, <1>13, InTermsOfSequences
<1>17. \A b \in Block, r \in Nat :
           HasPhi(b, r)' => r <= reg /\ b \in IteratedFrontier(r)' /\ OnePhi(b, r)'
  <2> SUFFICES ASSUME NEW b \in Block, NEW r \in Nat, HasPhi(b, r)'
               PROVE  r <= reg /\ b \in IteratedFrontier(r) /\ OnePhi(b, r)'
    BY <1>10
  <2>1. CASE b \in gets /\ r = reg
    BY <1>2, <1>9, <1>11, <1>12, <2>1
  <2>2. CASE HasPhi(b, r)
    <3>1. r <= reg /\ b \in IteratedFrontier(r) /\ OneIn(phis[b], b, r)
      BY <1>3, <2>2, InTermsOfSequences
    <3>2. OneIn(phis'[b], b, r)
      <4>1. CASE b \notin gets
        BY <1>13, <3>1, <4>1
      <4>2. CASE b \in gets
        BY <1>11, <3>1, <4>2
      <4> QED
        BY <4>1, <4>2
    <3> QED
      BY <1>12, <3>1, <3>2
  <2> QED
    BY <1>16, <2>1, <2>2
<1>18. \A r \in Nat : r < reg => \A b \in IteratedFrontier(r)' : HasPhi(b, r)'
  <2>1. \A r : IteratedFrontier(r) \subseteq Block
    BY <1>4, FrontierIsBlocks
  <2> QED
    BY <1>3, <1>10, <1>16, <2>1
<1>19. \A y \in in_queue' : HasPhi(y, reg)'
  BY <1>1, <1>2, <1>9, <1>16
<1>20. gets \ in_queue = gets
  BY <1>2, <1>9
<1>21. IsFiniteSet(gets) /\ gets \subseteq Block
  <2>1. gets \in SUBSET Block
    BY <1>9
  <2> QED
    BY <2>1, BlocksFinite, FS_Subset DEF PlacingInv, FnInv
<1> DEFINE more == SetToSeq(gets)
<1>22. more \in Seq(gets) /\ \A x \in gets : \E i \in 1 .. Len(more) : more[i] = x
  BY <1>21, SetToSeqHasAll
<1>23. queue' = Tail(queue) \o more
  BY <1>1, <1>20
<1> HIDE DEF more
<1> DEFINE n == Len(queue) - 1
           m == Len(more)
<1>24. /\ queue' \in Seq(Block) /\ Len(queue') = n + m /\ n \in Nat /\ m \in Nat
       /\ \A i \in 1 .. n + m : queue'[i] = IF i <= n THEN Tail(queue)[i] ELSE more[i - n]
  <2> DEFINE t == Tail(queue)
  <2>1. t \in Seq(Block) /\ more \in Seq(Block) /\ Len(t) = n /\ n \in Nat /\ m \in Nat
    BY <1>5, <1>21, <1>22
  <2> HIDE DEF t, n
  <2>2. /\ t \o more \in Seq(Block)
        /\ Len(t \o more) = Len(t) + Len(more)
        /\ \A i \in 1 .. Len(t) + Len(more) :
               (t \o more)[i] = IF i <= Len(t) THEN t[i] ELSE more[i - Len(t)]
    BY <2>1, ConcatProperties
  <2> QED
    BY <1>23, <2>1, <2>2 DEF t
<1> HIDE DEF n, m
<1>25. \A x : Waiting(x)' <=> \E i \in 1 .. n + m : queue'[i] = x
  BY <1>24 DEF Waiting
<1>26. ASSUME NEW x, Waiting(x), x # h PROVE Waiting(x)'
  <2>1. PICK i \in 1 .. Len(queue) : queue[i] = x
    BY <1>26 DEF Waiting
  <2>2. i # 1
    BY <1>5, <1>26, <2>1
  <2>3. i - 1 \in 1 .. n /\ (i - 1) + 1 = i /\ i - 1 <= n /\ i - 1 \in 1 .. n + m
    BY <1>5, <1>24, <2>1, <2>2 DEF n
  <2>4. Tail(queue)[i - 1] = x
    BY <1>5, <2>1, <2>3 DEF n
  <2> QED
    BY <1>24, <1>25, <2>3, <2>4
<1>27. ASSUME NEW x \in gets PROVE Waiting(x)'
  <2>1. PICK i \in 1 .. m : more[i] = x
    BY <1>22 DEF m
  <2>2. n + i \in 1 .. n + m /\ ~ (n + i <= n) /\ (n + i) - n = i
    BY <1>24, <2>1
  <2> QED
    BY <1>24, <1>25, <2>1, <2>2
<1>28. ASSUME NEW x, Waiting(x)' PROVE Waiting(x) \/ x \in gets
  <2>1. PICK i \in 1 .. n + m : queue'[i] = x
    BY <1>25, <1>28
  <2>2. CASE i <= n
    <3>1. i \in 1 .. Len(queue) - 1 /\ i + 1 \in 1 .. Len(queue)
      BY <1>5, <1>24, <2>1, <2>2 DEF n
    <3>2. x = queue[i + 1]
      BY <1>5, <1>24, <2>1, <2>2, <3>1
    <3> QED
      BY <3>1, <3>2 DEF Waiting
  <2>3. CASE ~ (i <= n)
    <3>1. i - n \in 1 .. m
      BY <1>24, <2>1, <2>3
    <3>2. more[i - n] \in gets
      BY <1>22, <3>1 DEF m
    <3> QED
      BY <1>24, <2>1, <2>3, <3>2
  <2> QED
    BY <2>2, <2>3
<1>29. \A x \in Block : Waiting(x)' => x \in DefiningBlocks(reg) \cup IteratedFrontier(reg)
  BY <1>2, <1>9, <1>28
<1>30. \A x \in Block : x \in DefiningBlocks(reg) \/ HasPhi(x, reg)' =>
           Waiting(x)' \/ \A y \in df[x] : HasPhi(y, reg)'
  <2> SUFFICES ASSUME NEW x \in Block, x \in DefiningBlocks(reg) \/ HasPhi(x, reg)', ~Waiting(x)',
                      NEW y \in df[x]
               PROVE  HasPhi(y, reg)'
    OBVIOUS
  <2>1. x \notin gets
    BY <1>27
  <2>2. y \in Block
    BY <1>4
  <2>3. CASE x = h
    BY <1>1, <1>9, <1>16, <2>2, <2>3
  <2>4. CASE x # h
    <3>1. x \in DefiningBlocks(reg) \/ HasPhi(x, reg)
      BY <1>1, <1>16, <2>1
    <3>2. ~Waiting(x)
      BY <1>26, <2>4
    <3>3. HasPhi(y, reg)
      BY <1>3, <3>1, <3>2
    <3> QED
      BY <1>1, <1>16, <2>2, <3>3
  <2> QED
    BY <2>3, <2>4
<1>31. in_queue' \subseteq Block
  BY <1>1, <1>2, <1>9
<1>32. \A x \in Block : x \in DefiningBlocks(reg)' \/ HasPhi(x, reg)' =>
           Waiting(x)' \/ \A y \in df'[x] : HasPhi(y, reg)'
  BY <1>1, <1>10, <1>30
<1>33. \A x \in Block : Waiting(x)' => x \in DefiningBlocks(reg)' \cup IteratedFrontier(reg)'
  BY <1>1, <1>10, <1>29
<1>34. queue' \in Seq(Block) /\ \A y \in in_queue' : HasPhi(y, reg)'
  BY <1>1, <1>19, <1>24
<1> QED
  BY <1>1, <1>2, <1>14, <1>15, <1>17, <1>18, <1>31, <1>32, <1>33, <1>34 DEF PlaceInv

-----------------------------------------------------------------------------
(* Sequences that grow and are cut *)

IsSeq(s) == s \in Seq(Range(s))

LEMMA Appended ==
    ASSUME NEW s, IsSeq(s), NEW e
    PROVE  /\ IsSeq(Append(s, e))
           /\ Len(s) \in Nat
           /\ Len(Append(s, e)) = Len(s) + 1
           /\ \A i \in 1 .. Len(s) : Append(s, e)[i] = s[i]
           /\ Append(s, e)[Len(s) + 1] = e
           /\ DOMAIN s = 1 .. Len(s)
           /\ DOMAIN Append(s, e) = 1 .. Len(s) + 1
<1> DEFINE S == Range(s) \cup {e}
           t == Append(s, e)
<1>1. s \in Seq(S) /\ e \in S
  <2>1. s \in Seq(Range(s))
    BY DEF IsSeq
  <2>2. Len(s) \in Nat /\ s \in [1 .. Len(s) -> Range(s)]
    BY <2>1
  <2>3. s \in [1 .. Len(s) -> S]
    BY <2>2
  <2> HIDE DEF S
  <2>4. s \in Seq(S)
    BY <2>2, <2>3
  <2> QED
    BY <2>4 DEF S
<1> HIDE DEF S
<1>2. /\ t \in Seq(S) /\ Len(t) = Len(s) + 1 /\ Len(s) \in Nat
      /\ \A i \in 1 .. Len(s) : t[i] = s[i]
      /\ t[Len(s) + 1] = e
      /\ DOMAIN s = 1 .. Len(s)
      /\ DOMAIN t = 1 .. Len(s) + 1
  BY <1>1
<1> HIDE DEF t
<1>3. t \in [1 .. Len(t) -> Range(t)] /\ Len(t) \in Nat
  BY <1>2 DEF Range
<1>4. t \in Seq(Range(t))
  BY <1>3
<1> QED
  BY <1>2, <1>4 DEF t, IsSeq

\* How often r is in the sequence p.
Count(p, r) == Cardinality({k \in 1 .. Len(p) : p[k] = r})

LEMMA CountAppended ==
    ASSUME NEW S, NEW p \in Seq(S), NEW x \in S, NEW r
    PROVE  /\ Count(p, r) \in Nat
           /\ Count(Append(p, x), r) = IF x = r THEN Count(p, r) + 1 ELSE Count(p, r)
<1> DEFINE t == Append(p, x)
           A == {k \in 1 .. Len(p) : p[k] = r}
           B == {k \in 1 .. Len(t) : t[k] = r}
<1>1. /\ Len(p) \in Nat /\ Len(t) = Len(p) + 1 /\ t[Len(p) + 1] = x
      /\ \A k \in 1 .. Len(p) : t[k] = p[k]
  OBVIOUS
<1>2. IsFiniteSet(A) /\ Cardinality(A) \in Nat
  <2>1. IsFiniteSet(1 .. Len(p)) /\ A \in SUBSET (1 .. Len(p))
    BY <1>1, FS_Interval
  <2> QED
    BY <2>1, FS_Subset, FS_CardinalityType
<1> HIDE DEF t
<1>3. 1 .. Len(p) + 1 = (1 .. Len(p)) \cup {Len(p) + 1} /\ Len(p) + 1 \notin 1 .. Len(p)
  BY <1>1
<1>4. x # r => B = A
  BY <1>1, <1>3
<1>5. x = r => B = A \cup {Len(p) + 1}
  BY <1>1, <1>3
<1>6. Len(p) + 1 \notin A
  BY <1>3
<1> HIDE DEF A, B
<1>7. Cardinality(A \cup {Len(p) + 1}) = Cardinality(A) + 1
  BY <1>2, <1>6, FS_AddElement
<1>8. Count(p, r) = Cardinality(A) /\ Count(t, r) = Cardinality(B)
  BY DEF Count, A, B
<1> QED
  BY <1>2, <1>4, <1>5, <1>7, <1>8 DEF t

LEMMA CountCut ==
    ASSUME NEW S, NEW p \in Seq(S), NEW n \in Nat, n <= Len(p), NEW r
    PROVE  /\ SubSeq(p, 1, n) \in Seq(S)
           /\ Len(SubSeq(p, 1, n)) = n
           /\ Count(SubSeq(p, 1, n), r) \in Nat
           /\ Cardinality({k \in n + 1 .. Len(p) : p[k] = r}) \in Nat
           /\ Count(p, r) = Count(SubSeq(p, 1, n), r)
                                + Cardinality({k \in n + 1 .. Len(p) : p[k] = r})
<1> DEFINE t == SubSeq(p, 1, n)
           A == {k \in 1 .. Len(t) : t[k] = r}
           B == {k \in n + 1 .. Len(p) : p[k] = r}
           C == {k \in 1 .. Len(p) : p[k] = r}
<1>1. Len(p) \in Nat /\ t \in Seq(S) /\ Len(t) = n /\ \A k \in 1 .. n : t[k] = p[k]
  <2>1. Len(p) \in Nat /\ 1 \in 1 .. Len(p) + 1 /\ n \in 0 .. Len(p)
    OBVIOUS
  <2>2. \A k \in 1 .. n : k \in 1 .. Len(p)
    BY <2>1
  <2> QED
    BY <2>1, <2>2, SubSeqProperties
<1> HIDE DEF t
<1>2. IsFiniteSet(A) /\ Cardinality(A) \in Nat /\ IsFiniteSet(B) /\ Cardinality(B) \in Nat
  <2>1. IsFiniteSet(1 .. n) /\ A \in SUBSET (1 .. n)
    BY <1>1, FS_Interval
  <2>2. IsFiniteSet(n + 1 .. Len(p)) /\ B \in SUBSET (n + 1 .. Len(p))
    BY <1>1, FS_Interval
  <2> HIDE DEF A, B
  <2> QED
    BY <2>1, <2>2, FS_Subset, FS_CardinalityType
<1>3. C = A \cup B
  BY <1>1
<1>4. A \cap B = {}
  BY <1>1
<1> HIDE DEF A, B, C
<1>5. Cardinality(A \cup B) = Cardinality(A) + Cardinality(B) - Cardinality(A \cap B)
  BY <1>2, FS_Union
<1>6. Cardinality(A \cap B) = 0
  BY <1>4, FS_EmptySet
<1>7. Count(p, r) = Cardinality(C) /\ Count(t, r) = Cardinality(A)
  BY DEF Count, A, C
<1> QED
  BY <1>1, <1>2, <1>3, <1>5, <1>6, <1>7 DEF t, B

-----------------------------------------------------------------------------
(* The stacks of ssa_rename *)

\* Stacks vs hold numbers below n, and more than their first entry each for as
\* long as p says.
Stacks(vs, p, n) ==
    /\ vs \in [Regs -> Seq(Nat)]
    /\ p \in Seq(Regs)
    /\ \A r \in Regs : \A i \in 1 .. Len(vs[r]) : vs[r][i] < n
    /\ \A r \in Regs : Len(vs[r]) = 1 + Count(p, r)

LEMMA StacksPushed ==
    ASSUME NEW vs, NEW p, NEW n \in Nat, Stacks(vs, p, n), NEW r \in Regs
    PROVE  Stacks([vs EXCEPT ![r] = Append(vs[r], n)], Append(p, r), n + 1)
<1> DEFINE ws == [vs EXCEPT ![r] = Append(vs[r], n)]
           t == Append(p, r)
<1>1. vs \in [Regs -> Seq(Nat)] /\ p \in Seq(Regs)
  BY DEF Stacks
<1>2. /\ \A x \in Regs : ws[x] = IF x = r THEN Append(vs[r], n) ELSE vs[x]
      /\ DOMAIN ws = Regs /\ ws = [x \in Regs |-> ws[x]]
  BY <1>1
<1>3. /\ Append(vs[r], n) \in Seq(Nat) /\ Len(vs[r]) \in Nat
      /\ Len(Append(vs[r], n)) = Len(vs[r]) + 1
      /\ Append(vs[r], n)[Len(vs[r]) + 1] = n
      /\ \A i \in 1 .. Len(vs[r]) : Append(vs[r], n)[i] = vs[r][i]
  BY <1>1
<1>4. t \in Seq(Regs)
  BY <1>1
<1>5. \A x \in Regs : Count(p, x) \in Nat /\ Count(t, x) = IF r = x THEN Count(p, x) + 1 ELSE Count(p, x)
  BY <1>1, CountAppended
<1> HIDE DEF ws, t
<1>6. ws \in [Regs -> Seq(Nat)]
  <2>1. \A x \in Regs : ws[x] \in Seq(Nat)
    BY <1>1, <1>2, <1>3
  <2> QED
    BY <1>2, <2>1
<1>7. ASSUME NEW x \in Regs, NEW i \in 1 .. Len(ws[x]) PROVE ws[x][i] < n + 1
  <2>1. CASE x # r
    <3>1. vs[x][i] < n /\ ws[x] = vs[x] /\ i \in 1 .. Len(vs[x])
      BY <1>2, <1>7, <2>1 DEF Stacks
    <3>2. vs[x][i] \in Nat
      BY <1>1, <3>1
    <3> QED
      BY <3>1, <3>2
  <2>2. CASE x = r
    <3>1. i \in 1 .. Len(vs[r]) + 1 /\ ws[x] = Append(vs[r], n)
      BY <1>2, <1>3, <1>7, <2>2
    <3>2. CASE i \in 1 .. Len(vs[r])
      <4>1. vs[r][i] < n /\ vs[r][i] \in Nat /\ ws[x][i] = vs[r][i]
        BY <1>1, <1>3, <3>1, <3>2 DEF Stacks
      <4> QED
        BY <4>1
    <3>3. CASE i = Len(vs[r]) + 1
      BY <1>3, <3>1, <3>3
    <3> QED
      BY <1>3, <3>1, <3>2, <3>3
  <2> QED
    BY <2>1, <2>2
<1>8. ASSUME NEW x \in Regs PROVE Len(ws[x]) = 1 + Count(t, x)
  <2>1. Len(vs[x]) = 1 + Count(p, x)
    BY DEF Stacks
  <2> QED
    BY <1>2, <1>3, <1>5, <2>1
<1> QED
  BY <1>4, <1>6, <1>7, <1>8 DEF Stacks, ws, t

LEMMA StacksCurrent ==
    ASSUME NEW vs, NEW p, NEW n \in Nat, Stacks(vs, p, n), NEW r \in Regs
    PROVE  Current(vs, r) \in Nat /\ Current(vs, r) < n
<1>1. vs[r] \in Seq(Nat) /\ p \in Seq(Regs)
  BY DEF Stacks
<1>2. Len(vs[r]) = 1 + Count(p, r) /\ Count(p, r) \in Nat
  BY <1>1, CountAppended DEF Stacks
<1>3. Len(vs[r]) \in 1 .. Len(vs[r])
  BY <1>2
<1> QED
  BY <1>1, <1>3 DEF Stacks, Current, Last

LEMMA StacksUnwound ==
    ASSUME Stacks(versions, pushed, reg_count), NEW n \in Nat, n <= Len(pushed)
    PROVE  Stacks(Unwind(n), SubSeq(pushed, 1, n), reg_count)
<1> DEFINE own(r) == {k \in n + 1 .. Len(pushed) : pushed[k] = r}
           t == SubSeq(pushed, 1, n)
           ws == Unwind(n)
<1>1. pushed \in Seq(Regs) /\ versions \in [Regs -> Seq(Nat)]
  BY DEF Stacks
<1>2. \A r : /\ t \in Seq(Regs) /\ Count(t, r) \in Nat /\ Cardinality(own(r)) \in Nat
             /\ Count(pushed, r) = Count(t, r) + Cardinality(own(r))
  <2> TAKE r
  <2>1. pushed \in Seq(Regs) /\ n \in Nat /\ n <= Len(pushed)
    BY <1>1
  <2> QED
    BY ONLY <2>1, CountCut
<1>3. ws = [r \in Regs |-> SubSeq(versions[r], 1, Len(versions[r]) - Cardinality(own(r)))]
  BY DEF Unwind
<1> HIDE DEF own, t, ws
<1>4. ASSUME NEW r \in Regs
      PROVE  /\ ws[r] \in Seq(Nat) /\ Len(ws[r]) = 1 + Count(t, r)
             /\ \A i \in 1 .. Len(ws[r]) : ws[r][i] < reg_count
  <2> DEFINE c == 1 + Count(t, r)
             v == versions[r]
  <2>1. /\ Len(v) = 1 + Count(pushed, r) /\ v \in Seq(Nat)
        /\ \A i \in 1 .. Len(v) : v[i] < reg_count
    BY <1>1 DEF Stacks
  <2>2. Len(v) - Cardinality(own(r)) = c /\ c \in Nat /\ c <= Len(v)
    BY SMTT(30), <1>2, <2>1
  <2>3. ws[r] = SubSeq(v, 1, c)
    BY <1>3, <2>2
  <2> HIDE DEF c, v
  <2>4. \A i \in 1 .. c : i \in 1 .. Len(v) /\ v[i] \in Nat
    BY <2>1, <2>2
  <2>5. /\ SubSeq(v, 1, c) \in Seq(Nat)
        /\ Len(SubSeq(v, 1, c)) = c
        /\ \A i \in 1 .. c : SubSeq(v, 1, c)[i] = v[i]
    <3>1. /\ SubSeq(v, 1, c) \in Seq(Nat)
          /\ Len(SubSeq(v, 1, c)) = IF 1 <= c THEN c - 1 + 1 ELSE 0
          /\ \A i \in 1 .. c - 1 + 1 : SubSeq(v, 1, c)[i] = v[1 + i - 1]
      BY <2>2, <2>4, SubSeqProperties
    <3> QED
      BY <2>2, <3>1
  <2>6. \A i \in 1 .. c : ws[r][i] < reg_count
    BY <2>1, <2>3, <2>4, <2>5
  <2> QED
    BY <2>3, <2>5, <2>6 DEF c
<1>5. ws \in [Regs -> Seq(Nat)]
  <2>1. \A r \in Regs : ws[r] \in Seq(Nat)
    BY <1>4
  <2>2. ws = [r \in Regs |-> ws[r]]
    BY <1>3
  <2> QED
    BY <2>1, <2>2
<1>6. t \in Seq(Regs)
  BY <1>2
<1> QED
  BY <1>4, <1>5, <1>6 DEF Stacks, ws, t

-----------------------------------------------------------------------------
(* One block of ssa_rename *)

RenameStart(b) ==
    [versions |-> versions, pushed |-> pushed, reg_count |-> reg_count,
     phis |-> phis[b], quads |-> <<>>]

Renames(f, b, n) ==
    f = [i \in 0 .. n |-> IF i = 0 THEN RenameStart(b) ELSE RenameItem(b, f[i - 1], i)]

LEMMA RenamesExists ==
    ASSUME NEW b, NEW n \in Nat
    PROVE  \E f : Renames(f, b, n)
<1> DEFINE Failing == {k \in Nat : ~ \E f : Renames(f, b, k)}
<1>1. 0 \notin Failing
  <2> DEFINE f == [j \in 0 .. 0 |-> RenameStart(b)]
  <2>1. Renames(f, b, 0)
    BY DEF Renames
  <2> QED
    BY <2>1
<1>2. ASSUME NEW k \in Nat, NEW f, Renames(f, b, k)
      PROVE  \E g : Renames(g, b, k + 1)
  <2> DEFINE g == [j \in 0 .. k + 1 |-> IF j = k + 1 THEN RenameItem(b, f[k], k + 1) ELSE f[j]]
  <2>1. \A j \in 0 .. k : f[j] = IF j = 0 THEN RenameStart(b) ELSE RenameItem(b, f[j - 1], j)
    BY <1>2 DEF Renames
  <2>2. \A j \in 0 .. k + 1 : g[j] = IF j = 0 THEN RenameStart(b) ELSE RenameItem(b, g[j - 1], j)
    <3> SUFFICES ASSUME NEW j \in 0 .. k + 1
                 PROVE  g[j] = IF j = 0 THEN RenameStart(b) ELSE RenameItem(b, g[j - 1], j)
      OBVIOUS
    <3>1. CASE j = k + 1
      <4>1. g[j] = RenameItem(b, f[k], j)
        BY <3>1
      <4>2. j # 0 /\ j - 1 = k /\ g[k] = f[k]
        BY <3>1
      <4> HIDE DEF g
      <4> QED
        BY <4>1, <4>2
    <3>2. CASE j # k + 1
      <4>1. j \in 0 .. k /\ g[j] = f[j] /\ (j # 0 => g[j - 1] = f[j - 1])
        BY <3>2
      <4> HIDE DEF g
      <4> QED
        BY <2>1, <4>1
    <3> QED
      BY <3>1, <3>2
  <2>3. DOMAIN g = 0 .. k + 1 /\ g = [j \in 0 .. k + 1 |-> g[j]]
    OBVIOUS
  <2> HIDE DEF g
  <2>4. Renames(g, b, k + 1)
    BY <2>2, <2>3 DEF Renames
  <2> QED
    BY <2>4
<1>3. Failing = {}
  <2> SUFFICES ASSUME Failing # {} PROVE FALSE
    OBVIOUS
  <2>1. PICK m \in Failing : \A k \in Failing : m <= k
    <3>1. Failing \in SUBSET Nat
      OBVIOUS
    <3> HIDE DEF Failing
    <3> QED
      BY <3>1, LeastNumber
  <2>2. m \in Nat /\ m # 0 /\ ~ \E f : Renames(f, b, m)
    BY <1>1, <2>1
  <2>3. m - 1 \in Nat /\ (m - 1) + 1 = m /\ m - 1 \notin Failing
    BY <2>1, <2>2
  <2>4. PICK f : Renames(f, b, m - 1)
    BY <2>3
  <2> QED
    BY <1>2, <2>2, <2>3, <2>4
<1> QED
  BY <1>3

LEMMA RenamingRenames ==
    ASSUME NEW b, NEW n \in Nat
    PROVE  \E f : Renames(f, b, n) /\ Renaming(b, n) = f[n]
<1> DEFINE after == CHOOSE f : f = [i \in 0 .. n |-> IF i = 0 THEN
                        [versions |-> versions, pushed |-> pushed, reg_count |-> reg_count,
                         phis |-> phis[b], quads |-> <<>>]
                        ELSE RenameItem(b, f[i - 1], i)]
<1>1. Renaming(b, n) = after[n]
  BY ONLY DEF Renaming
<1>2. Renames(after, b, n)
  <2>1. \E f : Renames(f, b, n)
    BY RenamesExists
  <2> QED
    BY <2>1 DEF Renames, RenameStart
<1> QED
  BY <1>1, <1>2

\* The state of the renaming is a record.
IsState(s) == DOMAIN s = {"versions", "pushed", "reg_count", "phis", "quads"}

LEMMA PushFields ==
    ASSUME NEW s, IsState(s), NEW r
    PROVE  /\ IsState(Push(s, r))
           /\ Push(s, r).versions = [s.versions EXCEPT ![r] = Append(s.versions[r], s.reg_count)]
           /\ Push(s, r).pushed = Append(s.pushed, r)
           /\ Push(s, r).reg_count = s.reg_count + 1
           /\ Push(s, r).phis = s.phis
           /\ Push(s, r).quads = s.quads
<1>1. IsState(Push(s, r))
  BY DEF IsState, Push
<1>2. Push(s, r).versions = [s.versions EXCEPT ![r] = Append(s.versions[r], s.reg_count)]
  BY DEF IsState, Push
<1>3. Push(s, r).pushed = Append(s.pushed, r)
  BY DEF IsState, Push
<1>4. Push(s, r).reg_count = s.reg_count + 1
  BY DEF IsState, Push
<1>5. Push(s, r).phis = s.phis /\ Push(s, r).quads = s.quads
  BY DEF IsState, Push
<1> QED
  BY <1>1, <1>2, <1>3, <1>4, <1>5

LEMMA QuadsField ==
    ASSUME NEW s, IsState(s), NEW x
    PROVE  LET t == [s EXCEPT !.quads = x]
           IN  /\ IsState(t) /\ t.quads = x
               /\ t.versions = s.versions /\ t.pushed = s.pushed
               /\ t.reg_count = s.reg_count /\ t.phis = s.phis
BY DEF IsState

\* A quad of the form under construction, with registers below n.
QuadOk(q, n) ==
    /\ {"reads", "result"} \subseteq DOMAIN q
    /\ q.result \in NoReg .. n - 1

EntryOk(e, n) == e.result_reg < n /\ e.reg_index < n /\ e.orig_var \in Regs

\* Block b before its renaming.
BlockOk(b) ==
    /\ phis[b] \in Seq(Entry)
    /\ \A j \in 1 .. Len(phis[b]) : EntryOk(phis[b][j], reg_count)
    /\ IsSeq(code[b])
    /\ \A k \in 1 .. Len(code[b]) : QuadOk(code[b][k], reg_count)

\* The renaming of block b when i items have been taken: what it has made so
\* far differs from what stood there in results of its own, one for each
\* definition.
Fresh(v, s) == v \in reg_count .. s.reg_count - 1

RenamingInv(b, i, s) ==
    /\ IsState(s) /\ s.reg_count \in Nat /\ reg_count <= s.reg_count
    /\ Stacks(s.versions, s.pushed, s.reg_count)
    /\ Len(pushed) \in 0 .. Len(s.pushed)
    /\ s.phis \in Seq(Entry) /\ Len(s.phis) = Len(phis[b])
    /\ \A j \in 1 .. Len(phis[b]) :
           /\ s.phis[j].orig_var = phis[b][j].orig_var
           /\ s.phis[j].from_label = phis[b][j].from_label
           /\ s.phis[j].reg_index = phis[b][j].reg_index
           /\ s.phis[j].result_reg = phis[b][j].result_reg \/ Fresh(s.phis[j].result_reg, s)
    /\ IsSeq(s.quads)
    /\ Len(s.quads) = IF i <= Len(phis[b]) THEN 0 ELSE i - Len(phis[b])
    /\ \A k \in 1 .. Len(s.quads) :
           /\ QuadOk(s.quads[k], s.reg_count)
           /\ s.quads[k].result = code[b][k].result \/ Fresh(s.quads[k].result, s)
    /\ \A k, l \in 1 .. Len(s.quads) :
           s.quads[k].result = s.quads[l].result /\ Fresh(s.quads[k].result, s) => k = l
    /\ \A k \in 1 .. Len(s.quads), j \in 1 .. Len(s.phis) :
           s.quads[k].result = s.phis[j].result_reg => ~Fresh(s.quads[k].result, s)

LEMMA RenamingStarts ==
    ASSUME NEW b, BlockOk(b), reg_count \in Nat, Stacks(versions, pushed, reg_count)
    PROVE  RenamingInv(b, 0, RenameStart(b))
<1> DEFINE s == RenameStart(b)
<1>1. /\ IsState(s) /\ s.reg_count = reg_count /\ s.versions = versions /\ s.pushed = pushed
      /\ s.phis = phis[b] /\ s.quads = <<>>
  BY DEF RenameStart, IsState
<1> HIDE DEF s
<1>2. IsSeq(<<>>) /\ Len(<<>>) = 0
  BY DEF IsSeq
<1>3. Len(pushed) \in Nat /\ Len(phis[b]) \in Nat /\ phis[b] \in Seq(Entry)
  BY DEF Stacks, BlockOk
<1> QED
  BY <1>1, <1>2, <1>3 DEF RenamingInv, s

\* A phi takes a fresh result, or none.
LEMMA PhiRenamed ==
    ASSUME NEW b, BlockOk(b), reg_count \in Nat,
           NEW i \in 1 .. Len(phis[b]), NEW s, RenamingInv(b, i - 1, s)
    PROVE  RenamingInv(b, i, RenamePhi(s, i))
<1> DEFINE var == s.phis[i].orig_var
           n == s.reg_count
           first == \A k \in 1 .. i - 1 : s.phis[k].orig_var # var
           p == Push(s, var)
           t == [p EXCEPT !.phis = [j \in DOMAIN s.phis |->
                    IF s.phis[j].orig_var = var THEN [s.phis[j] EXCEPT !.result_reg = n]
                    ELSE s.phis[j]]]
<1>1. /\ IsState(s) /\ n \in Nat /\ reg_count <= n
      /\ Stacks(s.versions, s.pushed, n)
      /\ Len(pushed) \in 0 .. Len(s.pushed)
      /\ s.phis \in Seq(Entry) /\ Len(s.phis) = Len(phis[b])
      /\ IsSeq(s.quads)
  BY DEF RenamingInv
<1>2. \A j \in 1 .. Len(phis[b]) :
          /\ s.phis[j].orig_var = phis[b][j].orig_var
          /\ s.phis[j].from_label = phis[b][j].from_label
          /\ s.phis[j].reg_index = phis[b][j].reg_index
          /\ s.phis[j].result_reg = phis[b][j].result_reg
                \/ s.phis[j].result_reg \in reg_count .. n - 1
  BY DEF RenamingInv, Fresh
<1>3. Len(phis[b]) \in Nat /\ phis[b] \in Seq(Entry)
  BY DEF BlockOk
<1>4. Len(s.quads) = 0 /\ i <= Len(phis[b])
  <2>1. i - 1 <= Len(phis[b])
    BY <1>3
  <2> QED
    BY <1>3, <2>1 DEF RenamingInv
<1>5. CASE ~ (first /\ ~NeedsRename(var))
  <2>1. RenamePhi(s, i) = s
    BY <1>5 DEF RenamePhi
  <2>2. RenamingInv(b, i, s)
    BY <1>1, <1>2, <1>4 DEF RenamingInv, Fresh
  <2> QED
    BY <2>1, <2>2
<1>6. CASE first /\ ~NeedsRename(var)
  <2>1. RenamePhi(s, i) = t
    BY <1>6 DEF RenamePhi
  <2>2. /\ IsState(p) /\ p.versions = [s.versions EXCEPT ![var] = Append(s.versions[var], n)]
        /\ p.pushed = Append(s.pushed, var) /\ p.reg_count = n + 1
        /\ p.phis = s.phis /\ p.quads = s.quads
    <3>1. IsState(s)
      BY <1>1
    <3>2. \A r : LET u == Push(s, r)
                 IN  /\ IsState(u) /\ u.versions = [s.versions EXCEPT ![r] = Append(s.versions[r], s.reg_count)]
                     /\ u.pushed = Append(s.pushed, r) /\ u.reg_count = s.reg_count + 1
                     /\ u.phis = s.phis /\ u.quads = s.quads
      BY ONLY <3>1, PushFields, Zenon
    <3> HIDE DEF var
    <3> QED
      BY ONLY <3>2 DEF n, p
  <2> DEFINE new == [j \in DOMAIN s.phis |->
                        IF s.phis[j].orig_var = var THEN [s.phis[j] EXCEPT !.result_reg = n]
                        ELSE s.phis[j]]
  <2> HIDE DEF p
  <2>3. /\ IsState(t) /\ t.versions = p.versions /\ t.pushed = p.pushed
        /\ t.reg_count = p.reg_count /\ t.quads = p.quads
    BY <2>2 DEF IsState
  <2>4. t.phis = new
    BY <2>2 DEF IsState
  <2>5. var \in Regs
    BY <1>2 DEF BlockOk, EntryOk
  <2> HIDE DEF t
  <2>6. Stacks(t.versions, t.pushed, t.reg_count)
    <3> DEFINE vs == s.versions
               ps == s.pushed
    <3>1. n \in Nat /\ Stacks(vs, ps, n) /\ var \in Regs
      BY <1>1, <2>5
    <3> HIDE DEF n, var, vs, ps
    <3>2. Stacks([vs EXCEPT ![var] = Append(vs[var], n)], Append(ps, var), n + 1)
      BY ONLY <3>1, StacksPushed
    <3> QED
      BY <2>2, <2>3, <3>2 DEF vs, ps
  <2>7. DOMAIN s.phis = 1 .. Len(phis[b]) /\ \A j \in 1 .. Len(phis[b]) : s.phis[j] \in Entry
    BY SMTT(30), <1>1
  <2>8. ASSUME NEW j \in 1 .. Len(phis[b])
        PROVE  /\ new[j] \in Entry
               /\ new[j].orig_var = phis[b][j].orig_var
               /\ new[j].from_label = phis[b][j].from_label
               /\ new[j].reg_index = phis[b][j].reg_index
               /\ new[j].result_reg = phis[b][j].result_reg
                      \/ new[j].result_reg \in reg_count .. n
    <3>1. CASE s.phis[j].orig_var # var
      <4>1. new[j] = s.phis[j]
        BY <2>7, <3>1
      <4> HIDE DEF new
      <4> QED
        BY SMTT(30), <1>1, <1>2, <2>7, <4>1
    <3>2. CASE s.phis[j].orig_var = var
      <4>1. new[j] = [s.phis[j] EXCEPT !.result_reg = n]
        BY <2>7, <3>2
      <4> HIDE DEF new
      <4>2. /\ new[j] \in Entry /\ new[j].result_reg = n
            /\ new[j].orig_var = s.phis[j].orig_var
            /\ new[j].from_label = s.phis[j].from_label
            /\ new[j].reg_index = s.phis[j].reg_index
        BY <1>1, <2>7, <4>1 DEF Entry
      <4> QED
        BY <1>1, <1>2, <4>2
    <3> QED
      BY <3>1, <3>2
  <2>9. new \in Seq(Entry) /\ Len(new) = Len(phis[b])
    <3>1. new \in [1 .. Len(phis[b]) -> Entry]
      <4>1. \A j \in 1 .. Len(phis[b]) : new[j] \in Entry
        BY <2>8
      <4>2. new = [j \in 1 .. Len(phis[b]) |-> new[j]]
        BY <2>7
      <4> HIDE DEF new
      <4> QED
        BY <4>1, <4>2
    <3> HIDE DEF new
    <3> QED
      BY <1>3, <3>1
  <2> HIDE DEF new
  <2>10. Len(pushed) \in 0 .. Len(t.pushed)
    <3>1. s.pushed \in Seq(Regs)
      BY <1>1 DEF Stacks
    <3>2. Len(t.pushed) = Len(s.pushed) + 1 /\ Len(s.pushed) \in Nat
      BY <2>2, <2>3, <2>5, <3>1
    <3> QED
      BY <1>1, <3>2
  <2>11. /\ t.reg_count = n + 1 /\ t.reg_count \in Nat /\ reg_count <= t.reg_count
         /\ t.quads = s.quads /\ t.phis = new
    BY SMTT(30), <1>1, <2>2, <2>3, <2>4
  <2>12. \A v : Fresh(v, t) <=> v \in reg_count .. n
    BY <1>1, <2>11 DEF Fresh
  <2>13. RenamingInv(b, i, t)
    BY SMTT(30), <1>1, <1>4, <2>3, <2>6, <2>8, <2>9, <2>10, <2>11, <2>12 DEF RenamingInv
  <2> QED
    BY <2>1, <2>13
<1> QED
  BY <1>5, <1>6

\* What needs renaming is a register of the function.
LEMMA NeedsRenameRegs ==
    ASSUME WellFormed(fn), NEW r, r # NoReg, NeedsRename(r)
    PROVE  r \in Regs
<1> DEFINE D == {q \in Quads : q.result = r}
<1>1. D # {}
  <2> SUFFICES ASSUME D = {} PROVE FALSE
    OBVIOUS
  <2>1. Cardinality(D) > 1
    BY DEF NeedsRename
  <2> HIDE DEF D
  <2> QED
    BY <2>1, FS_EmptySet
<1>2. PICK b \in Block : \E q \in Range(fn.code[b]) : q.result = r
  BY <1>1 DEF Quads
<1>3. r \in NoReg .. fn.reg_count - 1 /\ fn.reg_count \in Nat
  BY <1>2 DEF WellFormed, Block
<1> QED
  BY <1>3 DEF NoReg, Regs

LEMMA BlockLengths ==
    ASSUME NEW b, BlockOk(b)
    PROVE  Len(phis[b]) \in Nat /\ Len(code[b]) \in Nat /\ Len(phis[b]) + Len(code[b]) \in Nat
<1> DEFINE a == Len(phis[b])
           c == Len(code[b])
<1>1. a \in Nat /\ c \in Nat
  BY DEF BlockOk, IsSeq
<1> HIDE DEF a, c
<1>2. a + c \in Nat
  BY <1>1
<1> QED
  BY <1>1, <1>2 DEF a, c

LEMMA QuadsTaken ==
    ASSUME NEW b, NEW i, NEW s, RenamingInv(b, i, s)
    PROVE  Len(s.quads) = IF i <= Len(phis[b]) THEN 0 ELSE i - Len(phis[b])
BY DEF RenamingInv

\* A quad one further: what it appends to what was there.
LEMMA QuadAppended ==
    ASSUME NEW b, BlockOk(b), reg_count \in Nat,
           NEW i \in Nat, i > Len(phis[b]), i <= Len(phis[b]) + Len(code[b]),
           NEW s, RenamingInv(b, i - 1, s),
           NEW t, IsState(t), NEW q, t.quads = Append(s.quads, q), t.phis = s.phis,
           \/ /\ t.reg_count = s.reg_count /\ t.versions = s.versions /\ t.pushed = s.pushed
              /\ q.result = code[b][i - Len(phis[b])].result
           \/ /\ t.reg_count = s.reg_count + 1
              /\ Stacks(t.versions, t.pushed, t.reg_count)
              /\ Len(t.pushed) = Len(s.pushed) + 1
              /\ q.result = s.reg_count,
           {"reads", "result"} \subseteq DOMAIN q
    PROVE  RenamingInv(b, i, t)
<1> DEFINE n == s.reg_count
           m == Len(s.quads)
<1>1. /\ n \in Nat /\ reg_count <= n
      /\ Stacks(s.versions, s.pushed, n)
      /\ Len(pushed) \in 0 .. Len(s.pushed)
      /\ s.phis \in Seq(Entry) /\ Len(s.phis) = Len(phis[b])
      /\ IsSeq(s.quads)
  BY DEF RenamingInv
<1>2. \A j \in 1 .. Len(phis[b]) :
          /\ s.phis[j].orig_var = phis[b][j].orig_var
          /\ s.phis[j].from_label = phis[b][j].from_label
          /\ s.phis[j].reg_index = phis[b][j].reg_index
          /\ s.phis[j].result_reg = phis[b][j].result_reg
                \/ s.phis[j].result_reg \in reg_count .. n - 1
  BY DEF RenamingInv, Fresh
<1>3. /\ \A k \in 1 .. m : /\ QuadOk(s.quads[k], n)
                           /\ s.quads[k].result = code[b][k].result
                                 \/ s.quads[k].result \in reg_count .. n - 1
      /\ \A k, l \in 1 .. m :
             s.quads[k].result = s.quads[l].result /\ s.quads[k].result \in reg_count .. n - 1
                => k = l
      /\ \A k \in 1 .. m, j \in 1 .. Len(s.phis) :
             s.quads[k].result = s.phis[j].result_reg => s.quads[k].result \notin reg_count .. n - 1
  BY DEF RenamingInv, Fresh
<1>4. Len(phis[b]) \in Nat /\ IsSeq(code[b]) /\ Len(code[b]) \in Nat
  BY DEF BlockOk, IsSeq
<1>5. m = i - 1 - Len(phis[b]) /\ m \in Nat /\ m + 1 = i - Len(phis[b]) /\ m + 1 <= Len(code[b])
  <2>1. m = IF i - 1 <= Len(phis[b]) THEN 0 ELSE i - 1 - Len(phis[b])
    BY <1>4, QuadsTaken
  <2> DEFINE a == Len(phis[b])
             c == Len(code[b])
  <2>2. a \in Nat /\ c \in Nat /\ i \in Nat /\ i > a /\ i <= a + c
    BY <1>4
  <2>3. m = IF i - 1 <= a THEN 0 ELSE i - 1 - a
    BY <2>1
  <2> HIDE DEF m, a, c
  <2>4. m = i - 1 - a
    BY ONLY <2>2, <2>3
  <2>5. m \in Nat /\ m + 1 = i - a /\ m + 1 <= c
    BY ONLY <2>2, <2>4
  <2> QED
    BY ONLY <2>4, <2>5 DEF a, c
<1>6. /\ IsSeq(t.quads) /\ Len(t.quads) = m + 1
      /\ \A k \in 1 .. m : t.quads[k] = s.quads[k]
      /\ t.quads[m + 1] = q
  <2>1. IsSeq(s.quads)
    BY <1>1
  <2>2. /\ IsSeq(Append(s.quads, q)) /\ Len(Append(s.quads, q)) = Len(s.quads) + 1
        /\ \A k \in 1 .. Len(s.quads) : Append(s.quads, q)[k] = s.quads[k]
        /\ Append(s.quads, q)[Len(s.quads) + 1] = q
    BY ONLY <2>1, Appended
  <2> QED
    BY ONLY <2>2, t.quads = Append(s.quads, q) DEF m
<1>7. QuadOk(code[b][m + 1], reg_count)
  <2> DEFINE c == Len(code[b])
  <2>0. c \in Nat /\ m \in Nat /\ m + 1 <= c
    BY <1>4, <1>5
  <2> HIDE DEF m, c
  <2>1. m + 1 \in 1 .. c
    BY ONLY <2>0
  <2>2. \A k \in 1 .. c : QuadOk(code[b][k], reg_count)
    BY DEF BlockOk, c
  <2> QED
    BY ONLY <2>1, <2>2
<1>8. /\ t.reg_count \in Nat /\ reg_count <= t.reg_count /\ n <= t.reg_count
      /\ Stacks(t.versions, t.pushed, t.reg_count)
      /\ Len(pushed) \in 0 .. Len(t.pushed)
      /\ q.result \in NoReg .. t.reg_count - 1
      /\ \/ q.result = code[b][m + 1].result /\ q.result \in NoReg .. reg_count - 1
         \/ q.result = n /\ t.reg_count = n + 1
  <2>0. Len(s.pushed) \in Nat
    BY <1>1 DEF Stacks
  <2>1. CASE /\ t.reg_count = n /\ t.versions = s.versions /\ t.pushed = s.pushed
             /\ q.result = code[b][i - Len(phis[b])].result
    <3>1. q.result = code[b][m + 1].result /\ q.result \in NoReg .. reg_count - 1
      BY <1>5, <1>7, <2>1 DEF QuadOk
    <3>2. Stacks(t.versions, t.pushed, t.reg_count) /\ Len(pushed) \in 0 .. Len(t.pushed)
      BY <1>1, <2>1
    <3>3. q.result \in NoReg .. t.reg_count - 1
      BY ONLY <1>1, <2>1, <3>1, reg_count \in Nat DEF NoReg
    <3>4. t.reg_count \in Nat /\ reg_count <= t.reg_count /\ n <= t.reg_count
      BY ONLY <1>1, <2>1, reg_count \in Nat
    <3> QED
      BY ONLY <3>1, <3>2, <3>3, <3>4
  <2>2. CASE /\ t.reg_count = n + 1 /\ Stacks(t.versions, t.pushed, t.reg_count)
             /\ Len(t.pushed) = Len(s.pushed) + 1 /\ q.result = n
    BY SMTT(30), <1>1, <2>0, <2>2 DEF NoReg
  <2> QED
    BY <2>1, <2>2
<1> HIDE DEF n, m
<1>0. n \in Nat /\ t.reg_count \in Nat /\ reg_count \in Nat /\ reg_count <= n /\ n <= t.reg_count
  BY <1>1, <1>8
<1>9. \A k \in 1 .. m + 1 : k \in 1 .. m \/ k = m + 1
  BY <1>5
<1>10. ASSUME NEW k \in 1 .. m + 1
       PROVE  /\ QuadOk(t.quads[k], t.reg_count)
              /\ t.quads[k].result = code[b][k].result \/ Fresh(t.quads[k].result, t)
  <2>1. CASE k \in 1 .. m
    <3>1. t.quads[k] = s.quads[k] /\ QuadOk(s.quads[k], n)
          /\ (s.quads[k].result = code[b][k].result \/ s.quads[k].result \in reg_count .. n - 1)
      BY <1>3, <1>6, <2>1
    <3>2. /\ {"reads", "result"} \subseteq DOMAIN t.quads[k]
          /\ t.quads[k].result \in NoReg .. n - 1
          /\ t.quads[k].result = code[b][k].result \/ t.quads[k].result \in reg_count .. n - 1
      BY ONLY <3>1 DEF QuadOk
    <3>3. NoReg .. n - 1 \subseteq NoReg .. t.reg_count - 1
      BY ONLY <1>0 DEF NoReg
    <3>4. reg_count .. n - 1 \subseteq reg_count .. t.reg_count - 1
      BY ONLY <1>0
    <3> QED
      BY ONLY <3>2, <3>3, <3>4 DEF QuadOk, Fresh
  <2>2. CASE k = m + 1
    <3>1. /\ t.quads[k] = q /\ {"reads", "result"} \subseteq DOMAIN q
          /\ q.result \in NoReg .. t.reg_count - 1
      BY <1>6, <1>8, <2>2
    <3>2. q.result = code[b][k].result \/ q.result \in reg_count .. t.reg_count - 1
      <4>1. CASE q.result = code[b][m + 1].result
        BY <2>2, <4>1
      <4>2. CASE q.result = n /\ t.reg_count = n + 1
        BY ONLY <1>0, <4>2
      <4> QED
        BY <1>8, <4>1, <4>2
    <3> QED
      BY ONLY <3>1, <3>2 DEF QuadOk, Fresh
  <2> QED
    BY <1>9, <2>1, <2>2
<1>11. ASSUME NEW k \in 1 .. m
       PROVE  /\ t.quads[k].result \in NoReg .. n - 1
              /\ t.quads[k].result # n
              /\ Fresh(t.quads[k].result, t) => t.quads[k].result \in reg_count .. n - 1
  <2>1. t.quads[k].result \in NoReg .. n - 1
    BY <1>3, <1>6 DEF QuadOk
  <2>2. n \in Nat /\ t.reg_count \in Nat
    BY <1>1, <1>8
  <2> DEFINE v == t.quads[k].result
  <2>3. v \in NoReg .. n - 1
    BY <2>1
  <2>4. Fresh(v, t) => v \in reg_count .. t.reg_count - 1
    BY DEF Fresh
  <2> HIDE DEF v
  <2>5. v # n /\ (Fresh(v, t) => v \in reg_count .. n - 1)
    BY ONLY <2>2, <2>3, <2>4, reg_count \in Nat DEF NoReg
  <2> QED
    BY <2>3, <2>5 DEF v
<1>12. Fresh(q.result, t) => q.result = n
  BY <1>1, <1>8 DEF Fresh, NoReg
<1>13. ASSUME NEW k \in 1 .. m + 1, NEW l \in 1 .. m + 1,
              t.quads[k].result = t.quads[l].result, Fresh(t.quads[k].result, t)
       PROVE  k = l
  <2>1. CASE k \in 1 .. m /\ l \in 1 .. m
    BY <1>3, <1>6, <1>11, <1>13, <2>1
  <2>2. CASE k = m + 1 /\ l \in 1 .. m
    BY <1>6, <1>11, <1>12, <1>13, <2>2
  <2>3. CASE l = m + 1 /\ k \in 1 .. m
    BY <1>6, <1>11, <1>12, <1>13, <2>3
  <2> QED
    BY <1>9, <2>1, <2>2, <2>3
<1>14. ASSUME NEW k \in 1 .. m + 1, NEW j \in 1 .. Len(s.phis),
              t.quads[k].result = s.phis[j].result_reg, Fresh(t.quads[k].result, t)
       PROVE  FALSE
  <2>1. CASE k \in 1 .. m
    BY <1>3, <1>6, <1>11, <1>14, <2>1
  <2>2. CASE k = m + 1
    <3>1. s.phis[j].result_reg = n
      BY <1>6, <1>12, <1>14, <2>2
    <3>2. j \in 1 .. Len(phis[b])
      BY <1>1
    <3>3. phis[b][j].result_reg < reg_count /\ phis[b][j] \in Entry
      BY <3>2 DEF BlockOk, EntryOk
    <3>4. n = phis[b][j].result_reg \/ n \in reg_count .. n - 1
      BY <1>2, <3>1, <3>2
    <3> QED
      BY <1>1, <3>3, <3>4
  <2> QED
    BY <1>9, <2>1, <2>2
<1>15. ASSUME NEW j \in 1 .. Len(phis[b])
       PROVE  /\ t.phis[j].orig_var = phis[b][j].orig_var
              /\ t.phis[j].from_label = phis[b][j].from_label
              /\ t.phis[j].reg_index = phis[b][j].reg_index
              /\ t.phis[j].result_reg = phis[b][j].result_reg \/ Fresh(t.phis[j].result_reg, t)
  <2>1. t.phis[j].result_reg = phis[b][j].result_reg \/ t.phis[j].result_reg \in reg_count .. n - 1
    BY <1>2
  <2>2. t.phis[j].result_reg \in reg_count .. n - 1 => Fresh(t.phis[j].result_reg, t)
    BY ONLY <1>0 DEF Fresh
  <2>3. /\ t.phis[j].orig_var = phis[b][j].orig_var
        /\ t.phis[j].from_label = phis[b][j].from_label
        /\ t.phis[j].reg_index = phis[b][j].reg_index
    BY <1>2
  <2> QED
    BY ONLY <2>1, <2>2, <2>3
<1>16. Len(t.quads) = IF i <= Len(phis[b]) THEN 0 ELSE i - Len(phis[b])
  BY <1>4, <1>5, <1>6
<1>17. Len(t.quads) = m + 1 /\ t.phis = s.phis /\ IsState(t)
  BY <1>6
<1> QED
  BY <1>1, <1>6, <1>8, <1>10, <1>13, <1>14, <1>15, <1>16, <1>17 DEF RenamingInv

\* A quad takes a fresh result, or keeps its own.
LEMMA QuadRenamed ==
    ASSUME NEW b, BlockOk(b), reg_count \in Nat, WellFormed(fn),
           NEW i \in Nat, i > Len(phis[b]), i <= Len(phis[b]) + Len(code[b]),
           NEW s, RenamingInv(b, i - 1, s)
    PROVE  RenamingInv(b, i, RenameQuad(s, code[b][i - Len(phis[b])]))
<1> DEFINE q == code[b][i - Len(phis[b])]
           read == [q EXCEPT !.reads = [k \in DOMAIN q.reads |-> Renamed(s, q.reads[k])]]
           own == [read EXCEPT !.result = s.reg_count]
           p == Push(s, q.result)
<1>1. /\ IsState(s) /\ s.reg_count \in Nat
      /\ Stacks(s.versions, s.pushed, s.reg_count)
  BY DEF RenamingInv
<1>2. {"reads", "result"} \subseteq DOMAIN q
  <2> DEFINE a == Len(phis[b])
             c == Len(code[b])
  <2>1. a \in Nat /\ c \in Nat /\ i > a /\ i <= a + c
    BY BlockLengths
  <2> HIDE DEF a, c
  <2>2. i - a \in 1 .. c
    BY ONLY <2>1, i \in Nat
  <2> QED
    BY <2>2 DEF BlockOk, QuadOk, a, c
<1>3. /\ {"reads", "result"} \subseteq DOMAIN read /\ read.result = q.result
      /\ {"reads", "result"} \subseteq DOMAIN own /\ own.result = s.reg_count
  BY <1>2
<1>4. CASE ~ (q.result # NoReg /\ NeedsRename(q.result))
  <2> DEFINE t == [s EXCEPT !.quads = Append(s.quads, read)]
  <2>1. RenameQuad(s, q) = t
    BY <1>4, Zenon DEF RenameQuad
  <2>2. t.quads = Append(s.quads, read)
    BY <1>1 DEF IsState
  <2>3. /\ IsState(t) /\ t.reg_count = s.reg_count /\ t.versions = s.versions
        /\ t.pushed = s.pushed /\ t.phis = s.phis
    BY <1>1 DEF IsState
  <2> HIDE DEF t, read, own
  <2>4. RenamingInv(b, i, t)
    <3>1. /\ BlockOk(b) /\ reg_count \in Nat /\ i \in Nat /\ i > Len(phis[b])
          /\ i <= Len(phis[b]) + Len(code[b]) /\ RenamingInv(b, i - 1, s)
      OBVIOUS
    <3>2. read.result = code[b][i - Len(phis[b])].result /\ {"reads", "result"} \subseteq DOMAIN read
      BY <1>3
    <3> QED
      BY ONLY <2>2, <2>3, <3>1, <3>2, QuadAppended, Zenon
  <2> QED
    BY ONLY <2>1, <2>4, Zenon
<1>5. CASE q.result # NoReg /\ NeedsRename(q.result)
  <2> DEFINE t == [p EXCEPT !.quads = Append(p.quads, own)]
  <2>1. RenameQuad(s, q) = t
    BY <1>5 DEF RenameQuad
  <2>2. q.result \in Regs
    BY ONLY WellFormed(fn), <1>5, NeedsRenameRegs, Zenon
  <2>3. /\ IsState(p)
        /\ p.versions = [s.versions EXCEPT ![q.result] = Append(s.versions[q.result], s.reg_count)]
        /\ p.pushed = Append(s.pushed, q.result) /\ p.reg_count = s.reg_count + 1
        /\ p.phis = s.phis /\ p.quads = s.quads
    <3>1. IsState(s)
      BY <1>1
    <3>2. \A r : LET u == Push(s, r)
                 IN  /\ IsState(u) /\ u.versions = [s.versions EXCEPT ![r] = Append(s.versions[r], s.reg_count)]
                     /\ u.pushed = Append(s.pushed, r) /\ u.reg_count = s.reg_count + 1
                     /\ u.phis = s.phis /\ u.quads = s.quads
      BY ONLY <3>1, PushFields, ZenonT(60)
    <3> QED
      BY ONLY <3>2, Zenon DEF p
  <2>4. Stacks(p.versions, p.pushed, p.reg_count)
    <3> DEFINE vs == s.versions
               ps == s.pushed
               n == s.reg_count
               r == q.result
    <3>1. n \in Nat /\ Stacks(vs, ps, n) /\ r \in Regs
      BY <1>1, <2>2
    <3> HIDE DEF n, vs, ps, r
    <3>2. Stacks([vs EXCEPT ![r] = Append(vs[r], n)], Append(ps, r), n + 1)
      BY ONLY <3>1, StacksPushed
    <3> HIDE DEF p
    <3>3. /\ p.versions = [vs EXCEPT ![r] = Append(vs[r], n)]
          /\ p.pushed = Append(ps, r) /\ p.reg_count = n + 1
      BY ONLY <2>3 DEF vs, ps, n, r
    <3> QED
      BY ONLY <3>2, <3>3
  <2>5. Len(p.pushed) = Len(s.pushed) + 1
    <3> DEFINE ps == s.pushed
               r == q.result
    <3>1. ps \in Seq(Regs) /\ r \in Regs
      BY SMTT(30), <1>1, <2>2 DEF Stacks
    <3> HIDE DEF p
    <3>2. p.pushed = Append(ps, r)
      BY ONLY <2>3
    <3> HIDE DEF ps, r
    <3>3. Len(Append(ps, r)) = Len(ps) + 1
      BY ONLY <3>1
    <3> QED
      BY ONLY <3>2, <3>3 DEF ps
  <2> HIDE DEF p, read, own
  <2>6. /\ IsState(t) /\ t.quads = Append(p.quads, own) /\ t.versions = p.versions
        /\ t.pushed = p.pushed /\ t.reg_count = p.reg_count /\ t.phis = p.phis
    <3>1. IsState(p)
      BY <2>3
    <3>2. \A x : LET u == [p EXCEPT !.quads = x]
                 IN  /\ IsState(u) /\ u.quads = x /\ u.versions = p.versions
                     /\ u.pushed = p.pushed /\ u.reg_count = p.reg_count /\ u.phis = p.phis
      BY ONLY <3>1, QuadsField, ZenonT(60)
    <3> QED
      BY ONLY <3>2, ZenonT(60)
  <2> HIDE DEF t
  <2>7. /\ IsState(t) /\ t.reg_count = s.reg_count + 1
        /\ t.phis = s.phis /\ t.quads = Append(s.quads, own)
    BY ONLY <2>3, <2>6
  <2>8. Stacks(t.versions, t.pushed, t.reg_count) /\ Len(t.pushed) = Len(s.pushed) + 1
    BY ONLY <2>4, <2>5, <2>6
  <2>9. RenamingInv(b, i, t)
    <3>1. /\ BlockOk(b) /\ reg_count \in Nat /\ i \in Nat /\ i > Len(phis[b])
          /\ i <= Len(phis[b]) + Len(code[b]) /\ RenamingInv(b, i - 1, s)
      OBVIOUS
    <3>2. own.result = s.reg_count /\ {"reads", "result"} \subseteq DOMAIN own
      BY <1>3 DEF own
    <3> QED
      BY ONLY <2>7, <2>8, <3>1, <3>2, QuadAppended, Zenon
  <2> QED
    BY <2>1, <2>9 DEF p
<1> QED
  BY <1>4, <1>5

\* The renaming of a whole block.
LEMMA BlockRenamed ==
    ASSUME NEW b, BlockOk(b), reg_count \in Nat, WellFormed(fn), Stacks(versions, pushed, reg_count)
    PROVE  LET n == Len(phis[b]) + Len(code[b])
           IN  RenamingInv(b, n, Renaming(b, n))
<1> DEFINE h == Len(phis[b])
           n == Len(phis[b]) + Len(code[b])
<1>1. h \in Nat /\ n \in Nat
  BY BlockLengths
<1>2. PICK f : Renames(f, b, n) /\ Renaming(b, n) = f[n]
  BY <1>1, RenamingRenames
<1> HIDE DEF n, h
<1>3. \A i \in 0 .. n : f[i] = IF i = 0 THEN RenameStart(b) ELSE RenameItem(b, f[i - 1], i)
  BY <1>2 DEF Renames
<1> DEFINE Bad == {i \in 0 .. n : ~RenamingInv(b, i, f[i])}
<1>4. Bad = {}
  <2> SUFFICES ASSUME Bad # {} PROVE FALSE
    OBVIOUS
  <2>1. PICK m \in Bad : \A k \in Bad : m <= k
    <3>1. Bad \in SUBSET Nat
      BY <1>1
    <3> HIDE DEF Bad
    <3> QED
      BY <3>1, LeastNumber
  <2>2. m # 0
    <3>1. f[0] = RenameStart(b)
      BY <1>1, <1>3
    <3> QED
      BY <2>1, <3>1, RenamingStarts
  <2>3. m - 1 \in 0 .. n /\ m \in 1 .. n /\ ~ (m <= m - 1)
    BY <1>1, <2>1, <2>2
  <2>4. RenamingInv(b, m - 1, f[m - 1])
    BY <2>1, <2>3
  <2>5. f[m] = RenameItem(b, f[m - 1], m)
    BY <1>3, <2>2, <2>3
  <2> HIDE DEF Bad
  <2>6. CASE m <= h
    <3>0. m \in 1 .. h
      BY <1>1, <2>3, <2>6
    <3>1. m \in 1 .. Len(phis[b]) /\ f[m] = RenamePhi(f[m - 1], m)
      BY <2>5, <2>6, <3>0 DEF RenameItem, h
    <3>2. RenamingInv(b, m, f[m])
      BY <2>4, <3>1, PhiRenamed
    <3> QED
      BY <2>1, <3>2 DEF Bad
  <2>7. CASE ~ (m <= h)
    <3>0. m \in Nat /\ m > h /\ m <= n
      BY <1>1, <2>3, <2>7
    <3>1. m \in Nat /\ m > Len(phis[b]) /\ m <= Len(phis[b]) + Len(code[b])
      BY <3>0 DEF n, h
    <3>2. f[m] = RenameQuad(f[m - 1], code[b][m - Len(phis[b])])
      BY <2>5, <2>7 DEF RenameItem, h
    <3>3. RenamingInv(b, m, f[m])
      BY <2>4, <3>1, <3>2, QuadRenamed
    <3> QED
      BY <2>1, <3>3 DEF Bad
  <2> QED
    BY <2>6, <2>7
<1>5. n \in 0 .. n
  BY <1>1
<1>6. RenamingInv(b, n, Renaming(b, n))
  BY <1>2, <1>4, <1>5
<1> QED
  BY <1>6 DEF n

-----------------------------------------------------------------------------
(* What the call of ssa_rename for one block does to the function *)

ValuesInv ==
    /\ reg_count \in Nat /\ fn.reg_count <= reg_count
    /\ phis \in [Block -> Seq(Entry)]
    /\ \A b \in Block : \A j \in 1 .. Len(phis[b]) :
           /\ EntryOk(phis[b][j], reg_count)
           /\ Contains(fn.predecessors[b], phis[b][j].from_label)
    /\ DOMAIN code = Block
    /\ \A b \in Block : /\ IsSeq(code[b])
                        /\ \A k \in 1 .. Len(code[b]) : QuadOk(code[b][k], reg_count)
    /\ Stacks(versions, pushed, reg_count)

\* A number that the call for the block hands out.
Given(v) == v \in reg_count .. reg_count' - 1

RenameEffect(c) ==
    /\ reg_count' \in Nat /\ reg_count <= reg_count'
    /\ Stacks(versions', pushed', reg_count')
    /\ Len(pushed) \in 0 .. Len(pushed')
    /\ phis' \in [Block -> Seq(Entry)]
    /\ \A b \in Block :
           /\ Len(phis'[b]) = Len(phis[b])
           /\ \A j \in 1 .. Len(phis[b]) :
                  /\ phis'[b][j].orig_var = phis[b][j].orig_var
                  /\ phis'[b][j].from_label = phis[b][j].from_label
                  /\ phis'[b][j].reg_index < reg_count'
                  /\ phis'[b][j].result_reg = phis[b][j].result_reg
                        \/ (b = c /\ Given(phis'[b][j].result_reg))
    /\ DOMAIN code' = Block
    /\ \A b \in Block :
           /\ IsSeq(code'[b]) /\ Len(code'[b]) = Len(code[b])
           /\ \A k \in 1 .. Len(code[b]) :
                  /\ QuadOk(code'[b][k], reg_count')
                  /\ code'[b][k].result = code[b][k].result
                        \/ (b = c /\ Given(code'[b][k].result))
    /\ \A k, l \in 1 .. Len(code[c]) :
           code'[c][k].result = code'[c][l].result /\ Given(code'[c][k].result) => k = l
    /\ \A k \in 1 .. Len(code[c]), j \in 1 .. Len(phis[c]) :
           code'[c][k].result = phis'[c][j].result_reg => ~Given(code'[c][k].result)

\* An entry that has taken the version of its variable at the end of block b.
LEMMA EntryFilled ==
    ASSUME NEW e \in Entry, NEW v \in Nat
    PROVE  LET f == [e EXCEPT !.reg_index = v]
           IN  /\ f \in Entry /\ f.reg_index = v
               /\ f.orig_var = e.orig_var /\ f.from_label = e.from_label
               /\ f.result_reg = e.result_reg
BY DEF Entry

LEMMA BlockEffect ==
    ASSUME FnInv, ValuesInv, NEW c \in Block, RenameBlock(c)
    PROVE  RenameEffect(c)
<1> DEFINE n == Len(phis[c]) + Len(code[c])
           s == Renaming(c, n)
           now(y) == IF y = c THEN s.phis ELSE phis[y]
           filled(e) == IF e.from_label = c
                        THEN [e EXCEPT !.reg_index = Current(s.versions, e.orig_var)] ELSE e
<1>1. BlockOk(c) /\ reg_count \in Nat /\ WellFormed(fn) /\ Stacks(versions, pushed, reg_count)
  BY DEF ValuesInv, BlockOk, FnInv
<1>2. RenamingInv(c, n, s)
  BY <1>1, BlockRenamed
<1>3. /\ code' = [code EXCEPT ![c] = s.quads]
      /\ phis' = [y \in Block |-> IF Contains(fn.successors[c], y)
                                  THEN [i \in DOMAIN now(y) |-> filled(now(y)[i])] ELSE now(y)]
      /\ versions' = s.versions /\ pushed' = s.pushed /\ reg_count' = s.reg_count
  BY DEF RenameBlock
<1> HIDE DEF s
<1>4. /\ s.reg_count \in Nat /\ reg_count <= s.reg_count
      /\ Stacks(s.versions, s.pushed, s.reg_count)
      /\ Len(pushed) \in 0 .. Len(s.pushed)
      /\ s.phis \in Seq(Entry) /\ Len(s.phis) = Len(phis[c])
      /\ IsSeq(s.quads)
  BY <1>2 DEF RenamingInv
<1>5. \A j \in 1 .. Len(phis[c]) :
          /\ s.phis[j].orig_var = phis[c][j].orig_var
          /\ s.phis[j].from_label = phis[c][j].from_label
          /\ s.phis[j].reg_index = phis[c][j].reg_index
          /\ s.phis[j].result_reg = phis[c][j].result_reg \/ Fresh(s.phis[j].result_reg, s)
  BY <1>2 DEF RenamingInv
<1>6. Len(s.quads) = Len(code[c])
  <2> DEFINE a == Len(phis[c])
             m == Len(code[c])
  <2>1. a \in Nat /\ m \in Nat
    BY <1>1, BlockLengths
  <2>2. Len(s.quads) = IF a + m <= a THEN 0 ELSE a + m - a
    <3> HIDE DEF n
    <3>1. Len(s.quads) = IF n <= Len(phis[c]) THEN 0 ELSE n - Len(phis[c])
      BY <1>2, QuadsTaken
    <3>2. n = a + m
      BY DEF n
    <3> HIDE DEF a, m
    <3>3. Len(s.quads) = IF n <= a THEN 0 ELSE n - a
      BY ONLY <3>1 DEF a
    <3> QED
      BY ONLY <2>1, <3>2, <3>3
  <2> HIDE DEF a, m
  <2>3. Len(s.quads) = m
    BY ONLY <2>1, <2>2
  <2> QED
    BY <2>3 DEF m
<1>7. /\ \A k \in 1 .. Len(s.quads) :
             /\ QuadOk(s.quads[k], s.reg_count)
             /\ s.quads[k].result = code[c][k].result \/ Fresh(s.quads[k].result, s)
      /\ \A k, l \in 1 .. Len(s.quads) :
             s.quads[k].result = s.quads[l].result /\ Fresh(s.quads[k].result, s) => k = l
      /\ \A k \in 1 .. Len(s.quads), j \in 1 .. Len(s.phis) :
             s.quads[k].result = s.phis[j].result_reg => ~Fresh(s.quads[k].result, s)
  BY <1>2 DEF RenamingInv
<1>8. \A v : Fresh(v, s) <=> Given(v)
  BY <1>3 DEF Fresh, Given
<1>9. \A y \in Block : /\ now(y) \in Seq(Entry) /\ Len(now(y)) = Len(phis[y])
                       /\ DOMAIN now(y) = 1 .. Len(phis[y])
  BY <1>4 DEF ValuesInv
<1>10. ASSUME NEW y \in Block, NEW j \in 1 .. Len(phis[y])
       PROVE  /\ now(y)[j] \in Entry
              /\ now(y)[j].orig_var = phis[y][j].orig_var /\ now(y)[j].orig_var \in Regs
              /\ now(y)[j].from_label = phis[y][j].from_label
              /\ now(y)[j].reg_index < s.reg_count
              /\ \/ now(y)[j].result_reg = phis[y][j].result_reg
                 \/ y = c /\ Given(now(y)[j].result_reg)
  <2>1. now(y)[j] \in Entry
    BY <1>9
  <2>2. EntryOk(phis[y][j], reg_count) /\ phis[y][j] \in Entry
    BY DEF ValuesInv
  <2>3. phis[y][j].reg_index < s.reg_count /\ phis[y][j].orig_var \in Regs
    <3>1. phis[y][j].reg_index \in Nat /\ phis[y][j].reg_index < reg_count
      BY <2>2 DEF EntryOk, Entry
    <3> QED
      BY <1>1, <1>4, <2>2, <3>1 DEF EntryOk
  <2>4. CASE y = c
    BY <1>5, <1>8, <2>1, <2>3, <2>4
  <2>5. CASE y # c
    BY <2>1, <2>3, <2>5
  <2> QED
    BY <2>4, <2>5
<1> HIDE DEF now
<1>11. ASSUME NEW e \in Entry, e.orig_var \in Regs, e.reg_index < s.reg_count
       PROVE  /\ filled(e) \in Entry /\ filled(e).reg_index < s.reg_count
              /\ filled(e).orig_var = e.orig_var /\ filled(e).from_label = e.from_label
              /\ filled(e).result_reg = e.result_reg
  <2>1. Current(s.versions, e.orig_var) \in Nat /\ Current(s.versions, e.orig_var) < s.reg_count
    BY <1>4, <1>11, StacksCurrent
  <2>2. CASE e.from_label = c
    <3> DEFINE v == Current(s.versions, e.orig_var)
               f == [e EXCEPT !.reg_index = v]
    <3>1. filled(e) = f
      BY <2>2
    <3> HIDE DEF v
    <3>2. v \in Nat /\ v < s.reg_count
      BY <2>1 DEF v
    <3>3. /\ f \in Entry /\ f.reg_index = v
          /\ f.orig_var = e.orig_var /\ f.from_label = e.from_label
          /\ f.result_reg = e.result_reg
      BY <3>2, EntryFilled
    <3> HIDE DEF f, filled
    <3> QED
      BY <3>1, <3>2, <3>3
  <2>3. CASE e.from_label # c
    BY <1>11, <2>3
  <2> QED
    BY <2>2, <2>3
<1> HIDE DEF filled
<1>12. ASSUME NEW y \in Block, NEW j \in 1 .. Len(phis[y])
       PROVE  /\ phis'[y][j] \in Entry
              /\ phis'[y][j].orig_var = phis[y][j].orig_var
              /\ phis'[y][j].from_label = phis[y][j].from_label
              /\ phis'[y][j].reg_index < s.reg_count
              /\ phis'[y][j].result_reg = now(y)[j].result_reg
  <2>1. \/ phis'[y][j] = filled(now(y)[j])
        \/ phis'[y][j] = now(y)[j]
    BY <1>3, <1>9
  <2> QED
    BY <1>10, <1>11, <2>1
<1>13. ASSUME NEW y \in Block
       PROVE  phis'[y] \in Seq(Entry) /\ Len(phis'[y]) = Len(phis[y])
  <2>1. Len(phis[y]) \in Nat
    BY DEF ValuesInv
  <2>2. \/ phis'[y] = [i \in 1 .. Len(phis[y]) |-> filled(now(y)[i])]
        \/ phis'[y] = now(y)
    BY <1>3, <1>9
  <2>3. CASE phis'[y] = now(y)
    BY <1>9, <2>3
  <2>4. CASE phis'[y] = [i \in 1 .. Len(phis[y]) |-> filled(now(y)[i])]
    <3>1. \A i \in 1 .. Len(phis[y]) : filled(now(y)[i]) \in Entry
      BY <1>10, <1>11
    <3>2. phis'[y] \in [1 .. Len(phis[y]) -> Entry]
      BY <2>4, <3>1
    <3> QED
      BY <2>1, <3>2
  <2> QED
    BY <2>2, <2>3, <2>4
<1>14. phis' \in [Block -> Seq(Entry)]
  <2>1. phis' = [y \in Block |-> phis'[y]]
    BY <1>3
  <2> QED
    BY <1>13, <2>1
<1>15. DOMAIN code' = Block /\ \A b \in Block : code'[b] = IF b = c THEN s.quads ELSE code[b]
  BY <1>3 DEF ValuesInv
<1>16. ASSUME NEW b \in Block
       PROVE  /\ IsSeq(code'[b]) /\ Len(code'[b]) = Len(code[b])
              /\ \A k \in 1 .. Len(code[b]) :
                     /\ QuadOk(code'[b][k], s.reg_count)
                     /\ code'[b][k].result = code[b][k].result
                           \/ (b = c /\ Given(code'[b][k].result))
  <2>1. CASE b = c
    BY <1>4, <1>6, <1>7, <1>8, <1>15, <2>1
  <2>2. CASE b # c
    <3>1. code'[b] = code[b] /\ IsSeq(code[b])
          /\ \A k \in 1 .. Len(code[b]) : QuadOk(code[b][k], reg_count)
      BY <1>15, <2>2 DEF ValuesInv
    <3>2. ASSUME NEW k \in 1 .. Len(code[b]) PROVE QuadOk(code[b][k], s.reg_count)
      <4>1. QuadOk(code[b][k], reg_count)
        BY <3>1
      <4>2. NoReg .. reg_count - 1 \subseteq NoReg .. s.reg_count - 1
        BY <1>1, <1>4 DEF NoReg
      <4> QED
        BY <4>1, <4>2 DEF QuadOk
    <3> QED
      BY <3>1, <3>2
  <2> QED
    BY <2>1, <2>2
<1>17. \A k, l \in 1 .. Len(code[c]) :
           code'[c][k].result = code'[c][l].result /\ Given(code'[c][k].result) => k = l
  BY <1>6, <1>7, <1>8, <1>15
<1>18. \A k \in 1 .. Len(code[c]), j \in 1 .. Len(phis[c]) :
           code'[c][k].result = phis'[c][j].result_reg => ~Given(code'[c][k].result)
  <2> SUFFICES ASSUME NEW k \in 1 .. Len(code[c]), NEW j \in 1 .. Len(phis[c]),
                      code'[c][k].result = phis'[c][j].result_reg
               PROVE  ~Given(code'[c][k].result)
    OBVIOUS
  <2>1. phis'[c][j].result_reg = s.phis[j].result_reg
    BY <1>12 DEF now
  <2>2. code'[c][k] = s.quads[k] /\ k \in 1 .. Len(s.quads) /\ j \in 1 .. Len(s.phis)
    BY <1>4, <1>6, <1>15
  <2> QED
    BY <1>7, <1>8, <2>1, <2>2
<1>19. ASSUME NEW y \in Block, NEW j \in 1 .. Len(phis[y])
       PROVE  phis'[y][j].result_reg = phis[y][j].result_reg
                  \/ (y = c /\ Given(phis'[y][j].result_reg))
  BY <1>10, <1>12
<1>20. reg_count' = s.reg_count
  BY <1>3
<1>21. /\ reg_count' \in Nat /\ reg_count <= reg_count'
       /\ Stacks(versions', pushed', reg_count')
       /\ Len(pushed) \in 0 .. Len(pushed')
  BY <1>3, <1>4
<1>22. \A b \in Block :
           /\ Len(phis'[b]) = Len(phis[b])
           /\ \A j \in 1 .. Len(phis[b]) :
                  /\ phis'[b][j].orig_var = phis[b][j].orig_var
                  /\ phis'[b][j].from_label = phis[b][j].from_label
                  /\ phis'[b][j].reg_index < reg_count'
                  /\ phis'[b][j].result_reg = phis[b][j].result_reg
                        \/ (b = c /\ Given(phis'[b][j].result_reg))
  BY ONLY <1>12, <1>13, <1>19, <1>20
<1>23. \A b \in Block :
           /\ IsSeq(code'[b]) /\ Len(code'[b]) = Len(code[b])
           /\ \A k \in 1 .. Len(code[b]) :
                  /\ QuadOk(code'[b][k], reg_count')
                  /\ code'[b][k].result = code[b][k].result
                        \/ (b = c /\ Given(code'[b][k].result))
  BY ONLY <1>16, <1>20
<1> QED
  BY ONLY <1>14, <1>15, <1>17, <1>18, <1>21, <1>22, <1>23 DEF RenameEffect

-----------------------------------------------------------------------------
(* The values of the construction *)

\* The worklist and the calls, and what has not begun yet.
WorkInv ==
    /\ reg \in Nat /\ reg <= fn.reg_count
    /\ queue \in Seq(Block)
    /\ in_queue \in SUBSET Block

CallsInv ==
    /\ frames \in Seq([block : Block, start : Nat, next : 0 .. fn.block_count])
    /\ \A i \in 1 .. Len(frames) : frames[i].start <= Len(pushed)
    /\ \A i, j \in 1 .. Len(frames) : i < j => frames[i].start <= frames[j].start

StageInv ==
    /\ stage \in {"dominators", "place", "rename", "copies", "done"}
    /\ block \in 0 .. fn.block_count
    /\ stage \in {"dominators", "place"} => reg_count = fn.reg_count
    /\ stage \in {"dominators", "place", "rename"} => block = 0

ConstructionInv == PlacingInv /\ WorkInv /\ CallsInv /\ StageInv /\ ValuesInv

LEMMA PlacingKept ==
    ASSUME PlacingInv, [Next]_vars
    PROVE  PlacingInv'
<1>1. FnInv' /\ fn' = fn /\ Block' = Block /\ Entry' = Entry
  BY FunctionKept DEF PlacingInv
<1>2. TreeInv'
  BY TreeKept DEF PlacingInv
<1>3. NothingPlaced'
  BY NothingPlacedKept DEF PlacingInv
<1>4. PlaceInv'
  <2>1. CASE BuildDominators
    BY <2>1, FirstRegister
  <2>2. CASE PlacePhi
    BY <2>2, PhisPlaced
  <2>3. CASE PlaceNextReg
    BY <2>3, NextRegister
  <2>4. CASE UNCHANGED vars
    <3>1. /\ fn' = fn /\ stage' = stage /\ df' = df /\ reg' = reg /\ queue' = queue
          /\ in_queue' = in_queue /\ phis' = phis
      BY <2>4 DEF vars, workVars, treeVars
    <3>2. \A r : DefiningBlocks(r)' = DefiningBlocks(r) /\ IteratedFrontier(r)' = IteratedFrontier(r)
      BY <1>1, <3>1 DEF IteratedFrontier, FrontierBlocks, Closed, DefiningBlocks
    <3>3. \A b, r : (HasPhi(b, r)' <=> HasPhi(b, r)) /\ (OnePhi(b, r)' <=> OnePhi(b, r))
      BY <3>1 DEF HasPhi, OnePhi, PhisFor
    <3>4. \A x : Waiting(x)' <=> Waiting(x)
      BY <3>1 DEF Waiting
    <3>5. /\ \A b : HasPhi(b, reg)' <=> HasPhi(b, reg)
          /\ DefiningBlocks(reg)' = DefiningBlocks(reg)
          /\ IteratedFrontier(reg)' = IteratedFrontier(reg)
      BY <3>1, <3>2, <3>3
    <3> QED
      BY <1>1, <3>1, <3>2, <3>3, <3>4, <3>5 DEF PlacingInv, PlaceInv
  <2>5. CASE stage' # "place"
    BY <2>5 DEF PlaceInv
  <2>6. BuildDominators \/ PlacePhi \/ PlaceNextReg \/ UNCHANGED vars \/ stage' # "place"
    BY DEF Next, RenameHead, RenameChild, RenameLeave, OutOfSsa, SkipBlock, OutEnd
  <2> QED
    BY <2>1, <2>2, <2>3, <2>4, <2>5, <2>6
<1> QED
  BY <1>1, <1>2, <1>3, <1>4 DEF PlacingInv

LEMMA WorkKept ==
    ASSUME PlacingInv, WorkInv, [Next]_vars
    PROVE  WorkInv'
<1>1. PlacingInv'
  BY PlacingKept
<1>2. fn' = fn /\ Block' = Block
  BY FunctionKept DEF PlacingInv
<1>3. CASE stage' = "place"
  <2>1. /\ reg' \in Nat /\ (reg' < fn.reg_count \/ reg' = 0)
        /\ queue' \in Seq(Block) /\ in_queue' \subseteq Block
    BY <1>1, <1>2, <1>3 DEF PlacingInv, PlaceInv
  <2>2. fn.reg_count \in Nat
    BY DEF PlacingInv, FnInv, WellFormed
  <2> QED
    BY <1>2, <2>1, <2>2 DEF WorkInv
<1>4. CASE stage' # "place"
  <2>1. reg' = reg /\ queue' = queue /\ in_queue' = in_queue
    BY <1>4 DEF Next, BuildDominators, PlacePhi, PlaceNextReg, RenameHead, RenameChild, RenameLeave,
                OutOfSsa, SkipBlock, OutEnd, vars, workVars
  <2> QED
    BY <1>2, <2>1 DEF WorkInv
<1> QED
  BY <1>3, <1>4

LEMMA StageKept ==
    ASSUME FnInv, StageInv, [Next]_vars
    PROVE  StageInv'
<1>1. fn' = fn /\ fn.block_count \in Nat
  BY FunctionKept DEF FnInv, WellFormed
<1>2. CASE BuildDominators \/ PlacePhi \/ PlaceNextReg
  BY <1>1, <1>2 DEF StageInv, BuildDominators, PlacePhi, PlaceNextReg
<1>3. CASE RenameHead \/ RenameChild \/ RenameLeave
  BY <1>1, <1>3 DEF StageInv, RenameHead, RenameChild, RenameLeave
<1>4. CASE OutOfSsa \/ SkipBlock \/ OutEnd
  BY <1>1, <1>4 DEF StageInv, OutOfSsa, SkipBlock, OutEnd
<1>5. CASE UNCHANGED vars
  BY <1>1, <1>5 DEF StageInv, vars
<1> QED
  BY <1>2, <1>3, <1>4, <1>5 DEF Next

LEMMA FrontAndLast ==
    ASSUME NEW S, NEW s \in Seq(S), s # <<>>
    PROVE  /\ Len(s) \in Nat \ {0}
           /\ Last(s) = s[Len(s)] /\ Last(s) \in S
           /\ Front(s) \in Seq(S) /\ Len(Front(s)) = Len(s) - 1
           /\ \A i \in 1 .. Len(s) - 1 : i \in 1 .. Len(s) /\ Front(s)[i] = s[i]
<1> DEFINE n == Len(s)
<1>1. n \in Nat \ {0}
  OBVIOUS
<1>2. \A i \in 1 .. n - 1 : i \in 1 .. n /\ s[i] \in S
  BY <1>1
<1>3. Last(s) = s[n] /\ Last(s) \in S
  BY <1>1 DEF Last
<1>4. Front(s) = SubSeq(s, 1, n - 1)
  BY DEF Front
<1> HIDE DEF n
<1>5. /\ SubSeq(s, 1, n - 1) \in Seq(S)
      /\ Len(SubSeq(s, 1, n - 1)) = n - 1
      /\ \A i \in 1 .. n - 1 : SubSeq(s, 1, n - 1)[i] = s[i]
  <2>1. /\ SubSeq(s, 1, n - 1) \in Seq(S)
        /\ Len(SubSeq(s, 1, n - 1)) = IF 1 <= n - 1 THEN n - 1 - 1 + 1 ELSE 0
        /\ \A i \in 1 .. n - 1 - 1 + 1 : SubSeq(s, 1, n - 1)[i] = s[1 + i - 1]
    BY <1>1, <1>2, SubSeqProperties
  <2> QED
    BY <1>1, <2>1
<1> QED
  BY <1>1, <1>2, <1>3, <1>4, <1>5 DEF n

Frame == [block : Block, start : Nat, next : 0 .. fn.block_count]

\* Starts that do not go down, and stay within m entries.
Nested(fs, m) ==
    /\ fs \in Seq(Frame)
    /\ \A i \in 1 .. Len(fs) : fs[i].start <= m
    /\ \A i, j \in 1 .. Len(fs) : i < j => fs[i].start <= fs[j].start

LEMMA NestedDeeper ==
    ASSUME NEW fs, NEW m \in Nat, Nested(fs, m), NEW f \in Frame, f.start = m,
           NEW n \in Nat, m <= n
    PROVE  Nested(Append(fs, f), n)
<1> DEFINE gs == Append(fs, f)
           k == Len(fs)
<1>1. /\ fs \in Seq(Frame) /\ k \in Nat /\ gs \in Seq(Frame) /\ Len(gs) = k + 1
      /\ gs[k + 1] = f /\ \A i \in 1 .. k : gs[i] = fs[i]
  BY DEF Nested
<1>2. ASSUME NEW i \in 1 .. k PROVE fs[i].start <= m /\ fs[i].start \in Nat
  <2>1. fs[i] \in Frame
    BY DEF Nested
  <2>2. fs[i].start \in Nat
    BY <2>1 DEF Frame
  <2> QED
    BY <2>2 DEF Nested
<1>3. \A i, j \in 1 .. k : i < j => fs[i].start <= fs[j].start
  BY DEF Nested
<1> HIDE DEF gs, k
<1>4. ASSUME NEW i \in 1 .. k + 1 PROVE gs[i].start <= n
  <2>1. i \in 1 .. k \/ i = k + 1
    BY <1>1
  <2>2. CASE i \in 1 .. k
    <3>1. gs[i] = fs[i] /\ fs[i].start <= m /\ fs[i].start \in Nat
      BY <1>1, <1>2, <2>2
    <3> QED
      BY <3>1
  <2>3. CASE i = k + 1
    BY <1>1, <2>3
  <2> QED
    BY <2>1, <2>2, <2>3
<1>5. ASSUME NEW i \in 1 .. k + 1, NEW j \in 1 .. k + 1, i < j
      PROVE  gs[i].start <= gs[j].start
  <2>1. i \in 1 .. k /\ (j \in 1 .. k \/ j = k + 1)
    BY <1>1, <1>5
  <2>2. CASE j \in 1 .. k
    BY <1>1, <1>3, <1>5, <2>1, <2>2
  <2>3. CASE j = k + 1
    BY <1>1, <1>2, <2>1, <2>3
  <2> QED
    BY <2>1, <2>2, <2>3
<1> QED
  BY <1>1, <1>4, <1>5 DEF Nested, gs

\* The innermost call turns to its next child.
LEMMA NestedTurns ==
    ASSUME NEW fs, NEW m, Nested(fs, m), fs # <<>>, NEW c \in 0 .. fn.block_count
    PROVE  Nested(Append(Front(fs), [Last(fs) EXCEPT !.next = c]), m)
<1> DEFINE k == Len(fs)
           f == [Last(fs) EXCEPT !.next = c]
           hs == Front(fs)
           gs == Append(hs, f)
<1>1. fs \in Seq(Frame)
  BY DEF Nested
<1>2. /\ k \in Nat \ {0} /\ Last(fs) = fs[k] /\ Last(fs) \in Frame
      /\ hs \in Seq(Frame) /\ Len(hs) = k - 1
      /\ \A i \in 1 .. k - 1 : i \in 1 .. k /\ hs[i] = fs[i]
  BY <1>1, FrontAndLast
<1>3. f \in Frame /\ f.start = fs[k].start
  BY <1>2 DEF Frame
<1> HIDE DEF hs, f
<1>4. /\ gs \in Seq(Frame) /\ Len(gs) = k /\ gs[k] = f
      /\ \A i \in 1 .. k - 1 : gs[i] = fs[i]
  BY <1>2, <1>3
<1> HIDE DEF gs, k
<1>5. ASSUME NEW i \in 1 .. k PROVE gs[i].start = fs[i].start
  <2>1. i \in 1 .. k - 1 \/ i = k
    BY <1>2
  <2> QED
    BY <1>3, <1>4, <2>1
<1>6. \A i \in 1 .. k : gs[i].start <= m
  BY <1>5 DEF Nested, k
<1>7. \A i, j \in 1 .. k : i < j => gs[i].start <= gs[j].start
  BY <1>5 DEF Nested, k
<1> QED
  BY <1>4, <1>6, <1>7 DEF Nested, gs, hs, f

\* The innermost call returns: what it pushed is gone.
LEMMA NestedReturns ==
    ASSUME NEW fs, NEW m, Nested(fs, m), fs # <<>>
    PROVE  Nested(Front(fs), Last(fs).start) /\ Last(fs).start \in Nat /\ Last(fs).start <= m
<1> DEFINE k == Len(fs)
           hs == Front(fs)
<1>1. fs \in Seq(Frame)
  BY DEF Nested
<1>2. /\ k \in Nat \ {0} /\ Last(fs) = fs[k] /\ Last(fs) \in Frame
      /\ hs \in Seq(Frame) /\ Len(hs) = k - 1
      /\ \A i \in 1 .. k - 1 : i \in 1 .. k /\ hs[i] = fs[i]
  BY <1>1, FrontAndLast
<1> HIDE DEF hs
<1>3. k \in 1 .. k /\ \A i \in 1 .. k - 1 : i < k
  BY <1>2
<1>4. \A i \in 1 .. k - 1 : hs[i].start <= fs[k].start
  BY <1>2, <1>3 DEF Nested
<1>5. \A i, j \in 1 .. k - 1 : i < j => hs[i].start <= hs[j].start
  BY <1>2 DEF Nested
<1>6. fs[k].start <= m /\ Last(fs).start \in Nat
  BY <1>2, <1>3 DEF Nested, Frame
<1> QED
  BY <1>2, <1>4, <1>5, <1>6 DEF Nested, hs

\* What a block of the tree is renamed with: every action that renames one.
LEMMA RenamingActions ==
    ASSUME FnInv, ValuesInv, RenameHead \/ RenameChild
    PROVE  \E c \in Block :
               /\ RenameBlock(c) /\ RenameEffect(c)
               /\ RenameHead => /\ c = 0
                                /\ frames' = <<[block |-> 0, start |-> 0, next |-> 0]>>
               /\ RenameChild => frames' = Append(Append(Front(frames), [Last(frames) EXCEPT !.next = c + 1]),
                                                  [block |-> c, start |-> Len(pushed), next |-> 0])
<1>1. CASE RenameHead
  <2>1. 0 \in Block /\ RenameBlock(0) /\ frames' = <<[block |-> 0, start |-> 0, next |-> 0]>>
    BY <1>1, BlocksFinite DEF RenameHead, FnInv
  <2>2. RenameEffect(0)
    BY <2>1, BlockEffect
  <2>3. ~RenameChild
    BY <1>1 DEF RenameHead, RenameChild
  <2> QED
    BY <2>1, <2>2, <2>3
<1>2. CASE RenameChild
  <2> DEFINE c == Min(Children)
  <2>1. Children # {} /\ Children \subseteq Block
    BY <1>2 DEF RenameChild, Children
  <2>2. Block \subseteq Nat
    BY DEF Block, FnInv, WellFormed
  <2>3. \E m \in Children : \A k \in Children : m <= k
    <3>1. Children \in SUBSET Nat
      BY <2>1, <2>2
    <3> QED
      BY <2>1, <3>1, LeastNumber
  <2>4. c \in Children
    BY <2>3 DEF Min
  <2>5. /\ RenameBlock(c)
        /\ frames' = Append(Append(Front(frames), [Last(frames) EXCEPT !.next = c + 1]),
                            [block |-> c, start |-> Len(pushed), next |-> 0])
    BY <1>2 DEF RenameChild
  <2> HIDE DEF c
  <2>6. c \in Block
    BY <2>1, <2>4
  <2>7. RenameEffect(c)
    BY <2>5, <2>6, BlockEffect
  <2>8. ~RenameHead
    BY <1>2 DEF RenameHead, RenameChild
  <2> QED
    BY <2>5, <2>6, <2>7, <2>8
<1> QED
  BY <1>1, <1>2

LEMMA CallsAreNested ==
    CallsInv <=> Nested(frames, Len(pushed))
BY DEF CallsInv, Nested, Frame

LEMMA CallsKept ==
    ASSUME FnInv, ValuesInv, CallsInv, [Next]_vars
    PROVE  CallsInv'
<1>1. fn' = fn /\ Block' = Block /\ fn.block_count \in Nat
  BY FunctionKept DEF FnInv, WellFormed
<1>2. pushed \in Seq(Regs) /\ Len(pushed) \in Nat /\ Nested(frames, Len(pushed))
  BY CallsAreNested DEF ValuesInv, Stacks
<1>3. ASSUME Nested(frames', Len(pushed')) PROVE CallsInv'
  BY <1>1, <1>3 DEF CallsInv, Nested, Frame
<1>4. CASE RenameHead
  <2>1. frames' = <<[block |-> 0, start |-> 0, next |-> 0]>>
    BY <1>4 DEF RenameHead
  <2>2. Len(pushed') \in Nat
    BY <1>2, <1>4, RenamingActions DEF RenameEffect
  <2>3. [block |-> 0, start |-> 0, next |-> 0] \in Frame
    BY <1>1, BlocksFinite DEF Frame, FnInv
  <2> DEFINE f == [block |-> 0, start |-> 0, next |-> 0]
  <2>4. f \in Frame /\ f.start = 0 /\ frames' = <<f>>
    BY <2>1, <2>3
  <2> HIDE DEF f
  <2>5. frames' \in Seq(Frame) /\ Len(frames') = 1 /\ frames'[1] = f
    BY <2>4
  <2>6. Nested(frames', Len(pushed'))
    BY <2>2, <2>4, <2>5 DEF Nested
  <2> QED
    BY <1>3, <2>6
<1>5. CASE RenameChild
  <2>1. PICK c \in Block :
            /\ RenameEffect(c)
            /\ frames' = Append(Append(Front(frames), [Last(frames) EXCEPT !.next = c + 1]),
                                [block |-> c, start |-> Len(pushed), next |-> 0])
    BY <1>5, RenamingActions
  <2>2. c + 1 \in 0 .. fn.block_count
    BY <1>1 DEF Block
  <2>3. frames # <<>>
    BY <1>5 DEF RenameChild
  <2>4. Nested(Append(Front(frames), [Last(frames) EXCEPT !.next = c + 1]), Len(pushed))
    BY <1>2, <2>2, <2>3, NestedTurns
  <2> DEFINE f == [block |-> c, start |-> Len(pushed), next |-> 0]
  <2>5. f \in Frame /\ f.start = Len(pushed)
    BY <1>1, <1>2 DEF Frame
  <2>6. Len(pushed') \in Nat /\ Len(pushed) <= Len(pushed')
    BY <2>1 DEF RenameEffect
  <2>7. frames' = Append(Append(Front(frames), [Last(frames) EXCEPT !.next = c + 1]), f)
    BY <2>1
  <2> HIDE DEF f
  <2>8. Nested(frames', Len(pushed'))
    BY <1>2, <2>4, <2>5, <2>6, <2>7, NestedDeeper
  <2> QED
    BY <1>3, <2>8
<1>6. CASE RenameLeave
  <2>1. /\ frames # <<>> /\ frames' = Front(frames)
        /\ pushed' = SubSeq(pushed, 1, Last(frames).start)
    BY <1>6 DEF RenameLeave
  <2> DEFINE n == Last(frames).start
  <2>2. Nested(Front(frames), n) /\ n \in Nat /\ n <= Len(pushed)
    BY <1>2, <2>1, NestedReturns
  <2> HIDE DEF n
  <2>3. Len(SubSeq(pushed, 1, n)) = n
    BY <1>2, <2>2, CountCut
  <2>4. Len(pushed') = n
    BY <2>1, <2>3 DEF n
  <2> QED
    BY <1>3, <2>1, <2>2, <2>4
<1>7. CASE ~ (RenameHead \/ RenameChild \/ RenameLeave)
  <2>1. frames' = frames /\ pushed' = pushed
    BY <1>7 DEF Next, BuildDominators, PlacePhi, PlaceNextReg, OutOfSsa, SkipBlock, OutEnd, vars, stackVars
  <2> QED
    BY <1>2, <1>3, <2>1
<1> QED
  BY <1>4, <1>5, <1>6, <1>7

-----------------------------------------------------------------------------
(* out_of_ssa: the copies of one block *)

OneMore(b, p, here, j) ==
    IF phis[b][j].from_label = p THEN Append(here, phis[b][j]) ELSE here

Collects(f, b, p, n) ==
    f = [j \in 0 .. n |-> IF j = 0 THEN <<>> ELSE OneMore(b, p, f[j - 1], j)]

LEMMA CollectsExists ==
    ASSUME NEW b, NEW p, NEW n \in Nat
    PROVE  \E f : Collects(f, b, p, n)
<1> DEFINE Failing == {k \in Nat : ~ \E f : Collects(f, b, p, k)}
<1>1. 0 \notin Failing
  <2> DEFINE f == [j \in 0 .. 0 |-> <<>>]
  <2>1. Collects(f, b, p, 0)
    BY DEF Collects
  <2> QED
    BY <2>1
<1>2. ASSUME NEW k \in Nat, NEW f, Collects(f, b, p, k)
      PROVE  \E g : Collects(g, b, p, k + 1)
  <2> DEFINE g == [j \in 0 .. k + 1 |-> IF j = k + 1 THEN OneMore(b, p, f[k], k + 1) ELSE f[j]]
  <2>1. \A j \in 0 .. k : f[j] = IF j = 0 THEN <<>> ELSE OneMore(b, p, f[j - 1], j)
    BY <1>2 DEF Collects
  <2>2. \A j \in 0 .. k + 1 : g[j] = IF j = 0 THEN <<>> ELSE OneMore(b, p, g[j - 1], j)
    <3> SUFFICES ASSUME NEW j \in 0 .. k + 1
                 PROVE  g[j] = IF j = 0 THEN <<>> ELSE OneMore(b, p, g[j - 1], j)
      OBVIOUS
    <3>1. CASE j = k + 1
      <4>1. g[j] = OneMore(b, p, f[k], j)
        BY <3>1
      <4>2. j # 0 /\ j - 1 = k /\ g[k] = f[k]
        BY <3>1
      <4> HIDE DEF g
      <4> QED
        BY <4>1, <4>2
    <3>2. CASE j # k + 1
      <4>1. j \in 0 .. k /\ g[j] = f[j] /\ (j # 0 => g[j - 1] = f[j - 1])
        BY <3>2
      <4> HIDE DEF g
      <4> QED
        BY <2>1, <4>1
    <3> QED
      BY <3>1, <3>2
  <2>3. DOMAIN g = 0 .. k + 1 /\ g = [j \in 0 .. k + 1 |-> g[j]]
    OBVIOUS
  <2> HIDE DEF g
  <2>4. Collects(g, b, p, k + 1)
    BY <2>2, <2>3 DEF Collects
  <2> QED
    BY <2>4
<1>3. Failing = {}
  <2> SUFFICES ASSUME Failing # {} PROVE FALSE
    OBVIOUS
  <2>1. PICK m \in Failing : \A k \in Failing : m <= k
    <3>1. Failing \in SUBSET Nat
      OBVIOUS
    <3> HIDE DEF Failing
    <3> QED
      BY <3>1, LeastNumber
  <2>2. m \in Nat /\ m # 0 /\ ~ \E f : Collects(f, b, p, m)
    BY <1>1, <2>1
  <2>3. m - 1 \in Nat /\ (m - 1) + 1 = m /\ m - 1 \notin Failing
    BY <2>1, <2>2
  <2>4. PICK f : Collects(f, b, p, m - 1)
    BY <2>3
  <2> QED
    BY <1>2, <2>2, <2>3, <2>4
<1> QED
  BY <1>3

CopyingStart == [code |-> code, reg_count |-> reg_count]

Copies(f, b, n) ==
    f = [k \in 0 .. n |-> IF k = 0 THEN CopyingStart
                          ELSE AddCopies(f[k - 1], fn.predecessors[b][k])]

LEMMA CopiesExists ==
    ASSUME NEW b, NEW n \in Nat
    PROVE  \E f : Copies(f, b, n)
<1> DEFINE Failing == {k \in Nat : ~ \E f : Copies(f, b, k)}
<1>1. 0 \notin Failing
  <2> DEFINE f == [j \in 0 .. 0 |-> CopyingStart]
  <2>1. Copies(f, b, 0)
    BY DEF Copies
  <2> QED
    BY <2>1
<1>2. ASSUME NEW k \in Nat, NEW f, Copies(f, b, k)
      PROVE  \E g : Copies(g, b, k + 1)
  <2> DEFINE g == [j \in 0 .. k + 1 |-> IF j = k + 1 THEN AddCopies(f[k], fn.predecessors[b][k + 1]) ELSE f[j]]
  <2>1. \A j \in 0 .. k : f[j] = IF j = 0 THEN CopyingStart ELSE AddCopies(f[j - 1], fn.predecessors[b][j])
    BY <1>2 DEF Copies
  <2>2. \A j \in 0 .. k + 1 : g[j] = IF j = 0 THEN CopyingStart ELSE AddCopies(g[j - 1], fn.predecessors[b][j])
    <3> SUFFICES ASSUME NEW j \in 0 .. k + 1
                 PROVE  g[j] = IF j = 0 THEN CopyingStart ELSE AddCopies(g[j - 1], fn.predecessors[b][j])
      OBVIOUS
    <3>1. CASE j = k + 1
      <4>1. g[j] = AddCopies(f[k], fn.predecessors[b][j])
        BY <3>1
      <4>2. j # 0 /\ j - 1 = k /\ g[k] = f[k]
        BY <3>1
      <4> HIDE DEF g
      <4> QED
        BY <4>1, <4>2
    <3>2. CASE j # k + 1
      <4>1. j \in 0 .. k /\ g[j] = f[j] /\ (j # 0 => g[j - 1] = f[j - 1])
        BY <3>2
      <4> HIDE DEF g
      <4> QED
        BY <2>1, <4>1
    <3> QED
      BY <3>1, <3>2
  <2>3. DOMAIN g = 0 .. k + 1 /\ g = [j \in 0 .. k + 1 |-> g[j]]
    OBVIOUS
  <2> HIDE DEF g
  <2>4. Copies(g, b, k + 1)
    BY <2>2, <2>3 DEF Copies
  <2> QED
    BY <2>4
<1>3. Failing = {}
  <2> SUFFICES ASSUME Failing # {} PROVE FALSE
    OBVIOUS
  <2>1. PICK m \in Failing : \A k \in Failing : m <= k
    <3>1. Failing \in SUBSET Nat
      OBVIOUS
    <3> HIDE DEF Failing
    <3> QED
      BY <3>1, LeastNumber
  <2>2. m \in Nat /\ m # 0 /\ ~ \E f : Copies(f, b, m)
    BY <1>1, <2>1
  <2>3. m - 1 \in Nat /\ (m - 1) + 1 = m /\ m - 1 \notin Failing
    BY <2>1, <2>2
  <2>4. PICK f : Copies(f, b, m - 1)
    BY <2>3
  <2> QED
    BY <1>2, <2>2, <2>3, <2>4
<1> QED
  BY <1>3

\* The entries for a predecessor are entries of the block.
LEMMA EntriesAreEntries ==
    ASSUME NEW b, phis[b] \in Seq(Entry), NEW p
    PROVE  /\ EntriesFor(b, p) \in Seq(Entry)
           /\ \A k \in 1 .. Len(EntriesFor(b, p)) :
                  \E j \in 1 .. Len(phis[b]) : EntriesFor(b, p)[k] = phis[b][j]
<1> DEFINE n == Len(phis[b])
           here == CHOOSE f : f = [j \in 0 .. n |-> IF j = 0 THEN <<>>
                       ELSE IF phis[b][j].from_label = p THEN Append(f[j - 1], phis[b][j]) ELSE f[j - 1]]
           G == {e \in Entry : \E j \in 1 .. n : e = phis[b][j]}
<1>1. n \in Nat
  OBVIOUS
<1>2. EntriesFor(b, p) = here[n]
  BY ONLY DEF EntriesFor
<1>3. Collects(here, b, p, n)
  <2>1. \E f : Collects(f, b, p, n)
    BY <1>1, CollectsExists
  <2> QED
    BY <2>1, Zenon DEF Collects, OneMore
<1> HIDE DEF here
<1>4. \A j \in 0 .. n : here[j] = IF j = 0 THEN <<>> ELSE OneMore(b, p, here[j - 1], j)
  BY <1>3 DEF Collects
<1>5. \A j \in 1 .. n : phis[b][j] \in G
  OBVIOUS
<1> HIDE DEF n, G
<1> DEFINE Bad == {j \in 0 .. n : here[j] \notin Seq(G)}
<1>6. Bad = {}
  <2> SUFFICES ASSUME Bad # {} PROVE FALSE
    OBVIOUS
  <2>1. PICK m \in Bad : \A k \in Bad : m <= k
    <3>1. Bad \in SUBSET Nat
      BY <1>1
    <3> HIDE DEF Bad
    <3> QED
      BY <3>1, LeastNumber
  <2>2. m # 0
    <3>1. 0 \in 0 .. n
      BY <1>1
    <3>2. here[0] = <<>>
      BY <1>4, <3>1
    <3>3. here[0] \in Seq(G)
      BY <3>2
    <3> QED
      BY <2>1, <3>3
  <2>3. m - 1 \in 0 .. n /\ m \in 1 .. n /\ ~ (m <= m - 1)
    BY <1>1, <2>1, <2>2
  <2>4. here[m - 1] \in Seq(G)
    BY <2>1, <2>3
  <2>5. here[m] = OneMore(b, p, here[m - 1], m)
    BY <1>4, <2>2, <2>3
  <2>6. here[m] \in Seq(G)
    BY <1>5, <2>3, <2>4, <2>5 DEF OneMore
  <2> QED
    BY <2>1, <2>6
<1>7. here[n] \in Seq(G)
  BY <1>1, <1>6
<1>8. Seq(G) \subseteq Seq(Entry)
  <2>1. G \subseteq Entry
    BY DEF G
  <2> QED
    BY <2>1
<1>9. \A k \in 1 .. Len(here[n]) : here[n][k] \in G
  BY <1>7
<1>10. \A e \in G : \E j \in 1 .. n : e = phis[b][j]
  BY DEF G
<1>11. here[n] \in Seq(Entry) /\ \A k \in 1 .. Len(here[n]) : \E j \in 1 .. n : here[n][k] = phis[b][j]
  BY ONLY <1>7, <1>8, <1>9, <1>10
<1> QED
  BY ONLY <1>2, <1>11 DEF n

\* A list of quads whose results are below n.
GoodQuads(s, n) == IsSeq(s) /\ \A k \in 1 .. Len(s) : QuadOk(s[k], n)

LEMMA GoodFromSet ==
    ASSUME NEW S, NEW n, \A q \in S : QuadOk(q, n), NEW s \in Seq(S)
    PROVE  GoodQuads(s, n)
<1>1. s \in [1 .. Len(s) -> S] /\ Len(s) \in Nat
  OBVIOUS
<1>2. \A k \in 1 .. Len(s) : s[k] \in S
  BY <1>1
<1>3. \A k \in 1 .. Len(s) : s[k] \in Range(s)
  BY <1>1 DEF Range
<1>4. s \in Seq(Range(s))
  <2>1. s \in [1 .. Len(s) -> Range(s)]
    BY <1>1, <1>3
  <2> HIDE DEF Range
  <2> QED
    BY <1>1, <2>1, SeqDef
<1> QED
  BY <1>2, <1>4 DEF GoodQuads, IsSeq

LEMMA SetFromGood ==
    ASSUME NEW n, NEW s, GoodQuads(s, n)
    PROVE  s \in Seq(Range(s)) /\ \A q \in Range(s) : QuadOk(q, n)
<1>1. s \in Seq(Range(s))
  BY DEF GoodQuads, IsSeq
<1>2. DOMAIN s = 1 .. Len(s)
  BY <1>1
<1> QED
  BY <1>1, <1>2 DEF GoodQuads, Range

LEMMA GoodGrows ==
    ASSUME NEW n \in Nat, NEW m \in Nat, n <= m, NEW s, GoodQuads(s, n)
    PROVE  GoodQuads(s, m)
<1>1. NoReg .. n - 1 \subseteq NoReg .. m - 1
  BY DEF NoReg
<1> QED
  BY <1>1 DEF GoodQuads, QuadOk

\* insert_before_terminator keeps to the quads it has and is given.
LEMMA Inserted ==
    ASSUME NEW n, NEW s, NEW t, GoodQuads(s, n), GoodQuads(t, n)
    PROVE  GoodQuads(InsertBeforeTerminator(s, t), n)
<1> DEFINE S == Range(s) \cup Range(t)
<1>1. \A q \in S : QuadOk(q, n)
  BY SetFromGood
<1>2. s \in Seq(S) /\ t \in Seq(S)
  <2>1. s \in Seq(Range(s)) /\ t \in Seq(Range(t))
    BY SetFromGood
  <2>2. Seq(Range(s)) \subseteq Seq(S) /\ Seq(Range(t)) \subseteq Seq(S)
    OBVIOUS
  <2> QED
    BY <2>1, <2>2
<1> HIDE DEF S
<1>3. CASE s # <<>> /\ Last(s).op \in {"JMP", "JE", "RET"}
  <2>1. Front(s) \in Seq(S) /\ Last(s) \in S
    BY <1>2, <1>3, FrontAndLast
  <2>2. <<Last(s)>> \in Seq(S)
    BY <2>1
  <2>3. Front(s) \o t \in Seq(S)
    BY <1>2, <2>1
  <2>4. (Front(s) \o t) \o <<Last(s)>> \in Seq(S)
    BY <2>2, <2>3
  <2>5. InsertBeforeTerminator(s, t) = (Front(s) \o t) \o <<Last(s)>>
    BY <1>3 DEF InsertBeforeTerminator
  <2> QED
    BY <1>1, <2>4, <2>5, GoodFromSet
<1>4. CASE ~ (s # <<>> /\ Last(s).op \in {"JMP", "JE", "RET"})
  <2>1. InsertBeforeTerminator(s, t) = s \o t
    BY <1>4 DEF InsertBeforeTerminator
  <2>2. s \o t \in Seq(S)
    BY <1>2
  <2> QED
    BY <1>1, <2>1, <2>2, GoodFromSet
<1> QED
  BY <1>3, <1>4

\* The copies for a predecessor use temporaries of their own from n on.
LEMMA CopiesForShape ==
    ASSUME NEW b, phis[b] \in Seq(Entry), NEW p, NEW n \in Nat,
           reg_count \in Nat, reg_count <= n,
           \A j \in 1 .. Len(phis[b]) : EntryOk(phis[b][j], reg_count)
    PROVE  LET copies == CopiesFor(b, p, n)
           IN  /\ Len(copies) \div 2 \in Nat
               /\ GoodQuads(copies, n + Len(copies) \div 2)
<1> DEFINE here == EntriesFor(b, p)
           m == Len(here)
           in == [k \in DOMAIN here |-> Copy(here[k].reg_index, n + k - 1)]
           out == [k \in DOMAIN here |-> Copy(n + k - 1, here[k].result_reg)]
           S == {q \in {Copy(x, y) : x \in Nat, y \in 0 .. (n + m) - 1} : QuadOk(q, n + m)}
<1>1. here \in Seq(Entry) /\ \A k \in 1 .. m : \E j \in 1 .. Len(phis[b]) : here[k] = phis[b][j]
  BY EntriesAreEntries
<1>2. CopiesFor(b, p, n) = in \o out
  BY DEF CopiesFor
<1> HIDE DEF here
<1>3. m \in Nat /\ DOMAIN here = 1 .. m /\ \A k \in 1 .. m : here[k] \in Entry
  BY <1>1
<1>4. \A k \in 1 .. m : here[k].reg_index \in Nat /\ here[k].result_reg \in Nat
                         /\ here[k].result_reg < n
  <2> SUFFICES ASSUME NEW k \in 1 .. m
               PROVE  here[k].reg_index \in Nat /\ here[k].result_reg \in Nat /\ here[k].result_reg < n
    OBVIOUS
  <2>1. here[k] \in Entry
    BY <1>3
  <2>2. here[k].reg_index \in Nat /\ here[k].result_reg \in Nat
    BY <2>1 DEF Entry
  <2>3. here[k].result_reg < reg_count
    BY <1>1 DEF EntryOk
  <2> QED
    BY <2>2, <2>3
<1> HIDE DEF m
<1>5. \A x \in Nat, y \in 0 .. (n + m) - 1 : Copy(x, y) \in S
  <2> SUFFICES ASSUME NEW x \in Nat, NEW y \in 0 .. (n + m) - 1 PROVE QuadOk(Copy(x, y), n + m)
    OBVIOUS
  <2>1. DOMAIN Copy(x, y) = {"id", "op", "reads", "args", "result"} /\ Copy(x, y).result = y
    BY DEF Copy
  <2>2. y \in NoReg .. (n + m) - 1
    BY DEF NoReg
  <2> QED
    BY <2>1, <2>2 DEF QuadOk
<1>6. \A q \in S : QuadOk(q, n + m)
  OBVIOUS
<1> HIDE DEF S
<1>7. in \in [1 .. m -> S]
  <2> SUFFICES ASSUME NEW k \in 1 .. m PROVE Copy(here[k].reg_index, n + k - 1) \in S
    BY <1>3
  <2>1. n + k - 1 \in 0 .. (n + m) - 1
    BY <1>3
  <2>2. here[k].reg_index \in Nat
    BY <1>4
  <2> QED
    BY <1>5, <2>1, <2>2
<1>8. out \in [1 .. m -> S]
  <2> SUFFICES ASSUME NEW k \in 1 .. m PROVE Copy(n + k - 1, here[k].result_reg) \in S
    BY <1>3
  <2>1. n + k - 1 \in Nat
    BY <1>3
  <2>2. here[k].result_reg \in 0 .. (n + m) - 1
    BY <1>3, <1>4
  <2> QED
    BY <1>5, <2>1, <2>2
<1> HIDE DEF in, out
<1>9. in \in Seq(S) /\ out \in Seq(S) /\ Len(in) = m /\ Len(out) = m
  BY <1>3, <1>7, <1>8
<1>10. in \o out \in Seq(S) /\ Len(in \o out) = m + m
  BY <1>3, <1>9
<1>11. (m + m) \div 2 = m
  BY ONLY <1>3
<1>12. GoodQuads(in \o out, n + m)
  BY <1>6, <1>10, GoodFromSet
<1> QED
  BY <1>2, <1>3, <1>10, <1>11, <1>12

\* A function and its code as out_of_ssa changes them.
CodeOk(s) ==
    /\ s.reg_count \in Nat /\ reg_count <= s.reg_count
    /\ DOMAIN s.code = Block
    /\ \A b \in Block : GoodQuads(s.code[b], s.reg_count)

LEMMA CopiesAdded ==
    ASSUME FnInv, ValuesInv, block \in Block, NEW p \in Block, NEW s, CodeOk(s)
    PROVE  CodeOk(AddCopies(s, p))
<1> DEFINE copies == CopiesFor(block, p, s.reg_count)
           d == Len(copies) \div 2
           n == s.reg_count
           t == AddCopies(s, p)
<1>1. n \in Nat /\ reg_count <= n /\ DOMAIN s.code = Block
  BY DEF CodeOk
<1>2. phis[block] \in Seq(Entry) /\ reg_count \in Nat
      /\ \A j \in 1 .. Len(phis[block]) : EntryOk(phis[block][j], reg_count)
  BY DEF ValuesInv
<1>3. d \in Nat /\ GoodQuads(copies, n + d)
  BY <1>1, <1>2, CopiesForShape
<1>4. t.code = [s.code EXCEPT ![p] = InsertBeforeTerminator(s.code[p], copies)]
      /\ t.reg_count = n + d
  BY DEF AddCopies
<1> HIDE DEF copies, d, t
<1>5. n + d \in Nat /\ n <= n + d /\ reg_count <= n + d
  BY <1>1, <1>2, <1>3
<1>6. \A b \in Block : GoodQuads(s.code[b], n + d)
  <2>1. \A b \in Block : GoodQuads(s.code[b], n)
    BY DEF CodeOk
  <2> QED
    BY <1>1, <1>5, <2>1, GoodGrows
<1>7. GoodQuads(InsertBeforeTerminator(s.code[p], copies), n + d)
  BY <1>3, <1>6, Inserted
<1>8. DOMAIN t.code = Block
  BY <1>1, <1>4
<1>9. \A b \in Block : t.code[b] = IF b = p THEN InsertBeforeTerminator(s.code[p], copies) ELSE s.code[b]
  BY <1>1, <1>4
<1> HIDE DEF n
<1>10. \A b \in Block : GoodQuads(t.code[b], n + d)
  BY <1>6, <1>7, <1>9
<1>11. CodeOk(t)
  BY ONLY <1>4, <1>5, <1>8, <1>10 DEF CodeOk
<1> QED
  BY <1>11 DEF t

LEMMA CopiesMade ==
    ASSUME FnInv, ValuesInv, block \in Block
    PROVE  CodeOk(AllCopies(block))
<1> DEFINE n == Len(fn.predecessors[block])
           after == CHOOSE f : f = [k \in 0 .. n |-> IF k = 0 THEN [code |-> code, reg_count |-> reg_count]
                       ELSE AddCopies(f[k - 1], fn.predecessors[block][k])]
<1>1. fn.predecessors[block] \in Seq(Block)
  BY DEF FnInv, WellFormed, Block
<1>2. n \in Nat /\ \A k \in 1 .. n : fn.predecessors[block][k] \in Block
  BY <1>1
<1>3. AllCopies(block) = after[n]
  BY ONLY DEF AllCopies
<1>4. Copies(after, block, n)
  <2>1. \E f : Copies(f, block, n)
    BY <1>2, CopiesExists
  <2> QED
    BY <2>1 DEF Copies, CopyingStart
<1> HIDE DEF after, n
<1>5. \A k \in 0 .. n : after[k] = IF k = 0 THEN CopyingStart
                                   ELSE AddCopies(after[k - 1], fn.predecessors[block][k])
  BY <1>4 DEF Copies
<1> DEFINE Bad == {k \in 0 .. n : ~CodeOk(after[k])}
<1>6. Bad = {}
  <2> SUFFICES ASSUME Bad # {} PROVE FALSE
    OBVIOUS
  <2>1. PICK m \in Bad : \A k \in Bad : m <= k
    <3>1. Bad \in SUBSET Nat
      BY <1>2
    <3> HIDE DEF Bad
    <3> QED
      BY <3>1, LeastNumber
  <2>2. m # 0
    <3>1. 0 \in 0 .. n
      BY <1>2
    <3>2. after[0] = CopyingStart
      BY <1>5, <3>1
    <3>3. CodeOk(CopyingStart)
      <4>1. CopyingStart.code = code /\ CopyingStart.reg_count = reg_count
        BY DEF CopyingStart
      <4>2. reg_count \in Nat /\ DOMAIN code = Block /\ \A b \in Block : GoodQuads(code[b], reg_count)
        BY DEF ValuesInv, GoodQuads
      <4> QED
        BY <4>1, <4>2 DEF CodeOk
    <3> QED
      BY <2>1, <3>2, <3>3
  <2>3. m - 1 \in 0 .. n /\ m \in 1 .. n /\ ~ (m <= m - 1)
    BY <1>2, <2>1, <2>2
  <2>4. CodeOk(after[m - 1])
    BY <2>1, <2>3
  <2>5. after[m] = AddCopies(after[m - 1], fn.predecessors[block][m])
    BY <1>5, <2>2, <2>3
  <2>6. fn.predecessors[block][m] \in Block
    BY <1>2, <2>3
  <2>7. CodeOk(after[m])
    BY <2>4, <2>5, <2>6, CopiesAdded
  <2> QED
    BY <2>1, <2>7
<1> QED
  BY <1>2, <1>3, <1>6

-----------------------------------------------------------------------------
(* Every action keeps the values *)

LEMMA NextValues ==
    ASSUME FnInv, [Next]_vars,
           reg_count' \in Nat, fn.reg_count <= reg_count',
           phis' \in [Block -> Seq(Entry)],
           \A b \in Block : \A j \in 1 .. Len(phis'[b]) :
               /\ EntryOk(phis'[b][j], reg_count')
               /\ Contains(fn.predecessors[b], phis'[b][j].from_label),
           DOMAIN code' = Block,
           \A b \in Block : GoodQuads(code'[b], reg_count'),
           Stacks(versions', pushed', reg_count')
    PROVE  ValuesInv'
<1>1. fn' = fn /\ Block' = Block /\ Regs' = Regs /\ Entry' = Entry
  BY FunctionKept
<1>2. Stacks(versions, pushed, reg_count)'
  BY <1>1 DEF Stacks
<1>3. \A b \in Block : \A j \in 1 .. Len(phis'[b]) :
          /\ EntryOk(phis[b][j], reg_count)'
          /\ Contains(fn.predecessors[b], phis[b][j].from_label)'
  BY <1>1 DEF EntryOk, Contains
<1>4. \A b \in Block : IsSeq(code'[b]) /\ \A k \in 1 .. Len(code'[b]) : QuadOk(code'[b][k], reg_count')
  BY DEF GoodQuads
<1>5. fn'.reg_count <= reg_count'
  BY <1>1
<1>6. phis' \in [Block' -> Seq(Entry')]
  BY <1>1
<1> QED
  BY <1>1, <1>2, <1>3, <1>4, <1>5, <1>6 DEF ValuesInv, IsSeq, QuadOk

LEMMA ValuesNow ==
    ASSUME ValuesInv
    PROVE  \A b \in Block : GoodQuads(code[b], reg_count)
BY DEF ValuesInv, GoodQuads

LEMMA ValuesSame ==
    ASSUME FnInv, ValuesInv, [Next]_vars,
           phis' = phis, code' = code, reg_count' = reg_count, versions' = versions, pushed' = pushed
    PROVE  ValuesInv'
<1>1. /\ reg_count' \in Nat /\ fn.reg_count <= reg_count'
      /\ phis' \in [Block -> Seq(Entry)]
      /\ \A b \in Block : \A j \in 1 .. Len(phis'[b]) :
             /\ EntryOk(phis'[b][j], reg_count')
             /\ Contains(fn.predecessors[b], phis'[b][j].from_label)
      /\ DOMAIN code' = Block
      /\ Stacks(versions', pushed', reg_count')
  BY DEF ValuesInv
<1>2. \A b \in Block : GoodQuads(code'[b], reg_count')
  BY ValuesNow
<1> QED
  BY <1>1, <1>2, NextValues

\* A register that waits is one of the function's.
LEMMA WaitingRegs ==
    ASSUME PlacingInv, stage = "place", queue # <<>>
    PROVE  reg \in Regs
<1>1. /\ WellFormed(fn) /\ reg \in Nat /\ queue \in Seq(Block)
      /\ \A x \in Block : Waiting(x) => x \in DefiningBlocks(reg) \cup IteratedFrontier(reg)
  BY DEF PlacingInv, FnInv, PlaceInv
<1>2. 1 \in 1 .. Len(queue) /\ queue[1] \in Block
  BY <1>1
<1>3. queue[1] \in DefiningBlocks(reg) \cup IteratedFrontier(reg)
  BY <1>1, <1>2 DEF Waiting
<1>4. ~ (reg >= fn.reg_count)
  BY <1>1, <1>3, NothingBeyond
<1>5. fn.reg_count \in Nat
  BY <1>1 DEF WellFormed
<1> QED
  BY <1>1, <1>4, <1>5 DEF Regs

LEMMA ValuesPlaced ==
    ASSUME PlacingInv, ValuesInv, StageInv, PlacePhi
    PROVE  ValuesInv'
<1> DEFINE gets == {y \in df[Head(queue)] : ~HasPhi(y, reg)}
<1>1. /\ [Next]_vars /\ stage = "place" /\ queue # <<>> /\ FnInv /\ WellFormed(fn)
      /\ phis' = [y \in Block |-> IF y \in gets THEN phis[y] \o NewPhi(y, reg) ELSE phis[y]]
      /\ code' = code /\ reg_count' = reg_count /\ versions' = versions /\ pushed' = pushed
  BY DEF PlacePhi, Next, PlacingInv, FnInv, stackVars
<1> HIDE DEF gets
<1>2. reg \in Regs
  BY <1>1, WaitingRegs
<1>3. /\ reg_count \in Nat /\ fn.reg_count <= reg_count /\ fn.reg_count \in Nat
      /\ phis \in [Block -> Seq(Entry)]
      /\ \A b \in Block : \A j \in 1 .. Len(phis[b]) :
             /\ EntryOk(phis[b][j], reg_count)
             /\ Contains(fn.predecessors[b], phis[b][j].from_label)
  BY <1>1 DEF ValuesInv, WellFormed
<1>4. reg \in Nat /\ reg < reg_count /\ 0 < reg_count
  BY <1>2, <1>3 DEF Regs
<1>5. ASSUME NEW y \in Block
      PROVE  LET s == phis[y] \o NewPhi(y, reg)
             IN  /\ s \in Seq(Entry)
                 /\ \A j \in 1 .. Len(s) :
                        /\ EntryOk(s[j], reg_count)
                        /\ Contains(fn.predecessors[y], s[j].from_label)
  <2> DEFINE t == NewPhi(y, reg)
             s == phis[y] \o t
  <2>1. /\ t \in Seq(Entry) /\ Len(t) = Len(fn.predecessors[y]) /\ Len(fn.predecessors[y]) \in Nat
        /\ \A p \in 1 .. Len(fn.predecessors[y]) :
               /\ t[p].result_reg = reg /\ t[p].orig_var = reg
               /\ t[p].from_label = fn.predecessors[y][p]
    BY <1>1, <1>4, NewPhiShape
  <2>2. fn.predecessors[y] \in Seq(Block)
    BY <1>1 DEF WellFormed, Block
  <2>3. \A p \in 1 .. Len(t) : t[p].reg_index = 0
    BY <2>1 DEF NewPhi
  <2> HIDE DEF t
  <2>4. \A p \in 1 .. Len(t) : EntryOk(t[p], reg_count) /\ Contains(fn.predecessors[y], t[p].from_label)
    <3>1. \A p \in 1 .. Len(t) : EntryOk(t[p], reg_count)
      BY <1>2, <1>4, <2>1, <2>3 DEF EntryOk
    <3>2. \A p \in 1 .. Len(t) : Contains(fn.predecessors[y], t[p].from_label)
      BY <2>1, <2>2 DEF Contains
    <3> QED
      BY <3>1, <3>2
  <2>5. phis[y] \in Seq(Entry)
    BY <1>3
  <2>6. s \in Seq(Entry) /\ Len(s) = Len(phis[y]) + Len(t) /\ Len(phis[y]) \in Nat /\ Len(t) \in Nat
        /\ \A j \in 1 .. Len(phis[y]) + Len(t) :
               s[j] = IF j <= Len(phis[y]) THEN phis[y][j] ELSE t[j - Len(phis[y])]
    <3> DEFINE a == phis[y]
    <3>1. a \in Seq(Entry) /\ t \in Seq(Entry) /\ s = a \o t
      BY <2>1, <2>5
    <3> HIDE DEF a, s
    <3>2. /\ a \o t \in Seq(Entry)
          /\ Len(a \o t) = Len(a) + Len(t) /\ Len(a) \in Nat /\ Len(t) \in Nat
          /\ \A j \in 1 .. Len(a) + Len(t) : (a \o t)[j] = IF j <= Len(a) THEN a[j] ELSE t[j - Len(a)]
      BY <3>1, ConcatProperties, LenProperties
    <3> QED
      BY <3>1, <3>2 DEF a
  <2> HIDE DEF s
  <2>7. ASSUME NEW j \in 1 .. Len(s)
        PROVE  EntryOk(s[j], reg_count) /\ Contains(fn.predecessors[y], s[j].from_label)
    <3>1. CASE j <= Len(phis[y])
      BY <1>3, <2>6, <3>1
    <3>2. CASE ~ (j <= Len(phis[y]))
      <4>1. j - Len(phis[y]) \in 1 .. Len(t)
        BY <2>6, <3>2
      <4> QED
        BY <2>4, <2>6, <3>2, <4>1
    <3> QED
      BY <3>1, <3>2
  <2> QED
    BY <2>6, <2>7 DEF s, t
<1>6. \A y \in Block : phis'[y] = (IF y \in gets THEN phis[y] \o NewPhi(y, reg) ELSE phis[y])
  BY <1>1
<1>7. /\ \A y \in Block : phis'[y] \in Seq(Entry)
      /\ \A y \in Block : \A j \in 1 .. Len(phis'[y]) :
             /\ EntryOk(phis'[y][j], reg_count)
             /\ Contains(fn.predecessors[y], phis'[y][j].from_label)
  BY <1>3, <1>5, <1>6
<1>8. phis' \in [Block -> Seq(Entry)]
  BY <1>1, <1>7
<1>9. \A b \in Block : GoodQuads(code'[b], reg_count')
  BY <1>1, ValuesNow
<1>10. DOMAIN code' = Block /\ Stacks(versions', pushed', reg_count')
  BY <1>1 DEF ValuesInv
<1>11. /\ reg_count' \in Nat /\ fn.reg_count <= reg_count'
       /\ \A y \in Block : \A j \in 1 .. Len(phis'[y]) :
              /\ EntryOk(phis'[y][j], reg_count')
              /\ Contains(fn.predecessors[y], phis'[y][j].from_label)
  BY <1>1, <1>3, <1>7
<1>12. [Next]_vars /\ FnInv
  BY <1>1
<1> QED
  BY ONLY <1>8, <1>9, <1>10, <1>11, <1>12, NextValues

LEMMA ValuesRenamed ==
    ASSUME FnInv, ValuesInv, RenameHead \/ RenameChild
    PROVE  ValuesInv'
<1>1. PICK c \in Block : RenameEffect(c)
  BY RenamingActions
<1>2. [Next]_vars
  BY DEF Next
<1>3. /\ reg_count \in Nat /\ fn.reg_count <= reg_count /\ fn.reg_count \in Nat
      /\ reg_count' \in Nat /\ reg_count <= reg_count'
  BY <1>1 DEF RenameEffect, ValuesInv, FnInv, WellFormed
<1>4. ASSUME NEW b \in Block, NEW j \in 1 .. Len(phis'[b])
      PROVE  /\ EntryOk(phis'[b][j], reg_count')
             /\ Contains(fn.predecessors[b], phis'[b][j].from_label)
  <2>1. j \in 1 .. Len(phis[b])
    BY <1>1 DEF RenameEffect
  <2>2. EntryOk(phis[b][j], reg_count) /\ Contains(fn.predecessors[b], phis[b][j].from_label)
    BY <2>1 DEF ValuesInv
  <2>3. /\ phis'[b][j].orig_var = phis[b][j].orig_var
        /\ phis'[b][j].from_label = phis[b][j].from_label
        /\ phis'[b][j].reg_index < reg_count'
        /\ phis'[b][j].result_reg = phis[b][j].result_reg \/ Given(phis'[b][j].result_reg)
    BY <1>1, <2>1 DEF RenameEffect
  <2>4. phis[b][j].result_reg \in Nat
    <3>1. phis[b] \in Seq(Entry)
      BY DEF ValuesInv
    <3>2. phis[b][j] \in Entry
      BY <2>1, <3>1
    <3> QED
      BY <3>2 DEF Entry
  <2>5. phis'[b][j].result_reg < reg_count'
    <3>1. CASE phis'[b][j].result_reg = phis[b][j].result_reg
      BY <1>3, <2>2, <2>4, <3>1 DEF EntryOk
    <3>2. CASE Given(phis'[b][j].result_reg)
      BY <1>3, <3>2 DEF Given
    <3> QED
      BY <2>3, <3>1, <3>2
  <2> QED
    BY <2>2, <2>3, <2>5 DEF EntryOk
<1>5. \A b \in Block : GoodQuads(code'[b], reg_count')
  BY <1>1 DEF RenameEffect, GoodQuads
<1>6. /\ phis' \in [Block -> Seq(Entry)] /\ DOMAIN code' = Block
      /\ Stacks(versions', pushed', reg_count')
  BY <1>1 DEF RenameEffect
<1>7. fn.reg_count <= reg_count'
  BY <1>3
<1> QED
  BY <1>2, <1>3, <1>4, <1>5, <1>6, <1>7, NextValues

LEMMA ValuesUnwound ==
    ASSUME FnInv, ValuesInv, CallsInv, RenameLeave
    PROVE  ValuesInv'
<1> DEFINE n == Last(frames).start
<1>1. /\ frames # <<>> /\ versions' = Unwind(n) /\ pushed' = SubSeq(pushed, 1, n)
      /\ phis' = phis /\ code' = code /\ reg_count' = reg_count /\ [Next]_vars
  BY DEF RenameLeave, Next
<1>2. Nested(frames, Len(pushed))
  BY CallsAreNested
<1>3. n \in Nat /\ n <= Len(pushed)
  BY <1>1, <1>2, NestedReturns
<1> HIDE DEF n
<1>4. Stacks(versions', pushed', reg_count')
  BY <1>1, <1>3, StacksUnwound DEF ValuesInv
<1>5. /\ reg_count' \in Nat /\ fn.reg_count <= reg_count'
      /\ phis' \in [Block -> Seq(Entry)]
      /\ \A b \in Block : \A j \in 1 .. Len(phis'[b]) :
             /\ EntryOk(phis'[b][j], reg_count')
             /\ Contains(fn.predecessors[b], phis'[b][j].from_label)
      /\ DOMAIN code' = Block
  BY <1>1 DEF ValuesInv
<1>6. \A b \in Block : GoodQuads(code'[b], reg_count')
  BY <1>1, ValuesNow
<1> QED
  BY <1>1, <1>4, <1>5, <1>6, NextValues

LEMMA ValuesCopied ==
    ASSUME FnInv, ValuesInv, StageInv, OutOfSsa
    PROVE  ValuesInv'
<1>1. /\ block < fn.block_count /\ code' = AllCopies(block).code
      /\ reg_count' = AllCopies(block).reg_count
      /\ phis' = [phis EXCEPT ![block] = <<>>]
      /\ versions' = versions /\ pushed' = pushed /\ [Next]_vars
  BY DEF OutOfSsa, stackVars, Next
<1>2. block \in Block
  BY <1>1 DEF StageInv, Block, FnInv, WellFormed
<1>3. CodeOk(AllCopies(block))
  BY <1>2, CopiesMade
<1>4. /\ reg_count' \in Nat /\ reg_count <= reg_count' /\ DOMAIN code' = Block
      /\ \A b \in Block : GoodQuads(code'[b], reg_count')
  BY <1>1, <1>3 DEF CodeOk
<1>5. /\ reg_count \in Nat /\ fn.reg_count <= reg_count /\ fn.reg_count \in Nat
      /\ phis \in [Block -> Seq(Entry)]
      /\ \A b \in Block : \A j \in 1 .. Len(phis[b]) :
             /\ EntryOk(phis[b][j], reg_count)
             /\ Contains(fn.predecessors[b], phis[b][j].from_label)
      /\ Stacks(versions, pushed, reg_count)
  BY DEF ValuesInv, FnInv, WellFormed
<1>6. fn.reg_count <= reg_count'
  BY <1>4, <1>5
<1>7. /\ phis' \in [Block -> Seq(Entry)]
      /\ \A b \in Block : phis'[b] = IF b = block THEN <<>> ELSE phis[b]
  <2>1. <<>> \in Seq(Entry)
    OBVIOUS
  <2> QED
    BY <1>1, <1>2, <1>5, <2>1
<1>8. ASSUME NEW b \in Block, NEW j \in 1 .. Len(phis'[b])
      PROVE  /\ EntryOk(phis'[b][j], reg_count')
             /\ Contains(fn.predecessors[b], phis'[b][j].from_label)
  <2>1. b # block
    BY <1>7
  <2>2. phis'[b] = phis[b] /\ j \in 1 .. Len(phis[b])
    BY <1>7, <2>1
  <2>3. EntryOk(phis[b][j], reg_count) /\ Contains(fn.predecessors[b], phis[b][j].from_label)
    BY <1>5, <2>2
  <2>4. phis[b][j].result_reg \in Nat /\ phis[b][j].reg_index \in Nat
    <3>1. phis[b] \in Seq(Entry)
      BY <1>5
    <3>2. phis[b][j] \in Entry
      BY <2>2, <3>1
    <3> QED
      BY <3>2 DEF Entry
  <2>5. phis[b][j].result_reg < reg_count' /\ phis[b][j].reg_index < reg_count'
    BY <1>4, <1>5, <2>3, <2>4 DEF EntryOk
  <2> QED
    BY <2>2, <2>3, <2>5 DEF EntryOk
<1>9. Stacks(versions', pushed', reg_count')
  <2>1. /\ versions \in [Regs -> Seq(Nat)]
        /\ \A r \in Regs : \A i \in 1 .. Len(versions[r]) : versions[r][i] < reg_count
    BY <1>5 DEF Stacks
  <2>2. ASSUME NEW r \in Regs, NEW i \in 1 .. Len(versions[r]) PROVE versions[r][i] < reg_count'
    <3>1. versions[r] \in Seq(Nat)
      BY <2>1
    <3>2. versions[r][i] \in Nat
      BY <3>1
    <3> QED
      BY <1>4, <1>5, <2>1, <3>2
  <2> QED
    BY <1>1, <1>5, <2>2 DEF Stacks
<1> QED
  BY <1>1, <1>4, <1>6, <1>7, <1>8, <1>9, NextValues

LEMMA ValuesKept ==
    ASSUME ConstructionInv, [Next]_vars
    PROVE  ValuesInv'
<1>1. PlacingInv /\ FnInv /\ ValuesInv /\ StageInv /\ CallsInv
  BY DEF ConstructionInv, PlacingInv
<1>2. CASE PlacePhi
  BY <1>1, <1>2, ValuesPlaced
<1>3. CASE RenameHead \/ RenameChild
  BY <1>1, <1>3, ValuesRenamed
<1>4. CASE RenameLeave
  BY <1>1, <1>4, ValuesUnwound
<1>5. CASE OutOfSsa
  BY <1>1, <1>5, ValuesCopied
<1>6. CASE ~ (PlacePhi \/ RenameHead \/ RenameChild \/ RenameLeave \/ OutOfSsa)
  <2>1. phis' = phis /\ code' = code /\ reg_count' = reg_count /\ versions' = versions /\ pushed' = pushed
    BY <1>6 DEF Next, BuildDominators, PlaceNextReg, SkipBlock, OutEnd, vars, stackVars
  <2> QED
    BY <1>1, <2>1, ValuesSame
<1> QED
  BY <1>2, <1>3, <1>4, <1>5, <1>6

-----------------------------------------------------------------------------
(* The invariant of the construction *)

LEMMA ConstructionStarts ==
    ASSUME Init
    PROVE  ConstructionInv
<1>1. /\ fn \in Functions /\ stage = "dominators" /\ df = [b \in Block |-> {}]
      /\ reg = 0 /\ queue = <<>> /\ in_queue = {} /\ phis = [b \in Block |-> <<>>]
      /\ code = fn.code /\ reg_count = fn.reg_count
      /\ versions = [r \in Regs |-> <<r>>] /\ pushed = <<>> /\ frames = <<>> /\ block = 0
  BY DEF Init
<1>2. WellFormed(fn)
  BY <1>1, FunctionsWellFormed
<1>3. fn.block_count \in Nat \ {0} /\ fn.reg_count \in Nat
  BY <1>2 DEF WellFormed
<1>4. PlacingInv
  BY <1>1, <1>2 DEF PlacingInv, FnInv, TreeInv, NothingPlaced, PlaceInv
<1>5. WorkInv
  BY <1>1, <1>3 DEF WorkInv
<1>6. CallsInv
  BY <1>1 DEF CallsInv
<1>7. StageInv
  BY <1>1, <1>3 DEF StageInv
<1>8. Stacks(versions, pushed, reg_count)
  <2>1. pushed \in Seq(Regs) /\ Len(pushed) = 0
    BY <1>1
  <2>2. \A r : Count(pushed, r) = 0
    <3>1. \A r : {k \in 1 .. Len(pushed) : pushed[k] = r} = {}
      BY <2>1
    <3> QED
      BY <3>1, FS_EmptySet DEF Count
  <2>3. \A r \in Regs : r \in Nat /\ r < reg_count
    BY <1>1, <1>3 DEF Regs
  <2>4. \A r \in Regs : versions[r] = <<r>>
    BY <1>1
  <2>5. \A r \in Regs : versions[r] \in Seq(Nat) /\ Len(versions[r]) = 1 /\ versions[r][1] < reg_count
    <3> SUFFICES ASSUME NEW r \in Regs
                 PROVE  versions[r] \in Seq(Nat) /\ Len(versions[r]) = 1 /\ versions[r][1] < reg_count
      OBVIOUS
    <3>1. r \in Nat /\ r < reg_count /\ versions[r] = <<r>>
      BY <2>3, <2>4
    <3> QED
      BY ONLY <3>1
  <2>6. versions \in [Regs -> Seq(Nat)]
    BY <1>1, <2>5
  <2>7. ASSUME NEW r \in Regs, NEW i \in 1 .. Len(versions[r]) PROVE versions[r][i] < reg_count
    <3>1. Len(versions[r]) = 1 /\ versions[r][1] < reg_count
      BY <2>5
    <3>2. i = 1
      BY ONLY <3>1, i \in 1 .. Len(versions[r])
    <3> QED
      BY <3>1, <3>2
  <2>8. ASSUME NEW r \in Regs PROVE Len(versions[r]) = 1 + Count(pushed, r)
    <3>1. Len(versions[r]) = 1 /\ Count(pushed, r) = 0
      BY <2>2, <2>5
    <3> QED
      BY ONLY <3>1
  <2> QED
    BY <2>1, <2>6, <2>7, <2>8 DEF Stacks
<1>9. /\ phis \in [Block -> Seq(Entry)]
      /\ \A b \in Block : phis[b] = <<>>
  <2>1. <<>> \in Seq(Entry)
    OBVIOUS
  <2> QED
    BY <1>1, <2>1
<1>10. \A b \in Block : \A j \in 1 .. Len(phis[b]) : FALSE
  BY <1>9
<1>11. DOMAIN code = Block
  BY <1>1, <1>2 DEF WellFormed, Block
<1>12. ASSUME NEW b \in Block
       PROVE  IsSeq(code[b]) /\ \A k \in 1 .. Len(code[b]) : QuadOk(code[b][k], reg_count)
  <2>1. /\ code[b] \in Seq(Range(code[b]))
        /\ \A q \in Range(code[b]) : /\ {"id", "op", "reads", "args", "result"} \subseteq DOMAIN q
                                     /\ q.result \in NoReg .. reg_count - 1
    BY <1>1, <1>2 DEF WellFormed, Block
  <2>2. \A q \in Range(code[b]) : QuadOk(q, reg_count)
    BY <2>1 DEF QuadOk
  <2> QED
    BY <2>1, <2>2, GoodFromSet DEF GoodQuads
<1>13. ValuesInv
  BY <1>1, <1>3, <1>8, <1>9, <1>10, <1>11, <1>12 DEF ValuesInv
<1> QED
  BY <1>4, <1>5, <1>6, <1>7, <1>13 DEF ConstructionInv

\* What all steps of into_ssa and out_of_ssa keep: the worklist, the stacks and
\* the calls of ssa_rename fit together, and every register of the code and the
\* phis is one that reg_count counts.
THEOREM ConstructionInvariant ==
    Spec => []ConstructionInv
<1>1. Init => ConstructionInv
  BY ConstructionStarts
<1>2. ConstructionInv /\ [Next]_vars => ConstructionInv'
  <2> SUFFICES ASSUME ConstructionInv, [Next]_vars PROVE ConstructionInv'
    OBVIOUS
  <2>1. PlacingInv /\ FnInv /\ WorkInv /\ CallsInv /\ StageInv /\ ValuesInv
    BY DEF ConstructionInv, PlacingInv
  <2>2. PlacingInv'
    BY <2>1, PlacingKept
  <2>3. WorkInv'
    BY <2>1, WorkKept
  <2>4. CallsInv'
    BY <2>1, CallsKept
  <2>5. StageInv'
    BY <2>1, StageKept
  <2>6. ValuesInv'
    BY ValuesKept
  <2> QED
    BY <2>2, <2>3, <2>4, <2>5, <2>6 DEF ConstructionInv
<1> QED
  BY <1>1, <1>2, PTL DEF Spec

-----------------------------------------------------------------------------
(* Phis stand where the dominance frontier wants them *)

PhisRight ==
    \A r \in Regs : \A b \in Block :
        IF b \in IteratedFrontier(r) THEN OnePhi(b, r) ELSE PhisFor(b, r) = {}

LEMMA PhisStay ==
    ASSUME FnInv, ValuesInv, PhisRight, [Next]_vars, df' = df,
           phis' \in [Block -> Seq(Entry)],
           \A b \in Block :
               /\ Len(phis'[b]) = Len(phis[b])
               /\ \A j \in 1 .. Len(phis[b]) :
                      /\ phis'[b][j].orig_var = phis[b][j].orig_var
                      /\ phis'[b][j].from_label = phis[b][j].from_label
    PROVE  PhisRight'
<1>1. fn' = fn /\ Block' = Block /\ Regs' = Regs
  BY FunctionKept
<1>2. \A r : IteratedFrontier(r)' = IteratedFrontier(r)
  BY <1>1 DEF IteratedFrontier, FrontierBlocks, Closed, DefiningBlocks
<1>3. ASSUME NEW b \in Block
      PROVE  /\ DOMAIN phis[b] = 1 .. Len(phis[b]) /\ DOMAIN phis'[b] = 1 .. Len(phis[b])
             /\ Len(phis'[b]) = Len(phis[b]) /\ Len(phis[b]) \in Nat
             /\ fn.predecessors[b] \in Seq(Block)
  <2>1. phis[b] \in Seq(Entry) /\ phis'[b] \in Seq(Entry)
    BY DEF ValuesInv
  <2>2. fn.predecessors[b] \in Seq(Block)
    BY DEF FnInv, WellFormed, Block
  <2> QED
    BY <2>1, <2>2
<1>4. ASSUME NEW b \in Block, NEW r
      PROVE  PhisFor(b, r)' = PhisFor(b, r)
  BY <1>3 DEF PhisFor
<1>5. ASSUME NEW b \in Block, NEW r, OnePhi(b, r)
      PROVE  OnePhi(b, r)'
  <2>1. PICK k \in 0 .. Len(phis[b]) :
            /\ PhisFor(b, r) = k + 1 .. k + Len(fn.predecessors[b])
            /\ \A p \in 1 .. Len(fn.predecessors[b]) : phis[b][k + p].from_label = fn.predecessors[b][p]
    BY <1>5 DEF OnePhi
  <2>2. ASSUME NEW p \in 1 .. Len(fn.predecessors[b])
        PROVE  phis'[b][k + p].from_label = fn.predecessors[b][p]
    <3>1. k + p \in k + 1 .. k + Len(fn.predecessors[b])
      <4> DEFINE m == Len(fn.predecessors[b])
      <4>1. m \in Nat /\ p \in 1 .. m /\ k \in Nat
        BY <1>3
      <4> HIDE DEF m
      <4>2. k + p \in k + 1 .. k + m
        BY <4>1
      <4> QED
        BY <4>2 DEF m
    <3>2. k + p \in PhisFor(b, r)
      BY <2>1, <3>1
    <3>3. k + p \in 1 .. Len(phis[b])
      BY <1>3, <3>2 DEF PhisFor
    <3> QED
      BY <2>1, <3>3
  <2>3. PhisFor(b, r)' = k + 1 .. k + Len(fn.predecessors[b])
    BY <1>4, <2>1
  <2>4. k \in 0 .. Len(phis'[b])
    BY <1>3
  <2> QED
    BY <1>1, <2>2, <2>3, <2>4 DEF OnePhi
<1> QED
  BY <1>1, <1>2, <1>4, <1>5 DEF PhisRight

\* When the last register is done.
LEMMA AllPlaced ==
    ASSUME PlacingInv, stage = "place", queue = <<>>, reg + 1 >= fn.reg_count
    PROVE  PhisRight
<1>1. /\ reg \in Nat /\ phis \in [Block -> Seq(Entry)]
      /\ \A b \in Block : \A i \in DOMAIN phis[b] : phis[b][i].result_reg = phis[b][i].orig_var
      /\ \A b \in Block, r \in Nat :
             HasPhi(b, r) => r <= reg /\ b \in IteratedFrontier(r) /\ OnePhi(b, r)
      /\ \A r \in Nat : r < reg => \A b \in IteratedFrontier(r) : HasPhi(b, r)
  BY DEF PlacingInv, PlaceInv
<1>2. \A b \in Block : HasPhi(b, reg) <=> b \in IteratedFrontier(reg)
  BY RegisterDone
<1>3. fn.reg_count \in Nat
  BY DEF PlacingInv, FnInv, WellFormed
<1> SUFFICES ASSUME NEW r \in Regs, NEW b \in Block
             PROVE  IF b \in IteratedFrontier(r) THEN OnePhi(b, r) ELSE PhisFor(b, r) = {}
  BY DEF PhisRight
<1>4. r \in Nat /\ (r < reg \/ r = reg)
  BY <1>1, <1>3 DEF Regs
<1>5. CASE b \in IteratedFrontier(r)
  <2>1. HasPhi(b, r)
    BY <1>1, <1>2, <1>4, <1>5
  <2> QED
    BY <1>1, <1>4, <1>5, <2>1
<1>6. CASE b \notin IteratedFrontier(r)
  <2>1. ~HasPhi(b, r)
    BY <1>1, <1>4, <1>6
  <2>2. \A i \in DOMAIN phis[b] : phis[b][i].result_reg # r
    BY <2>1 DEF HasPhi, Range
  <2>3. PhisFor(b, r) = {}
    BY <1>1, <2>2 DEF PhisFor
  <2> QED
    BY <1>6, <2>3
<1> QED
  BY <1>5, <1>6

\* place_phi ends with a phi for a register in the blocks of the iterated
\* dominance frontier of its definitions and in no others, each with one entry
\* for every predecessor; renaming leaves them there.
THEOREM PhisPlacedRight ==
    Spec => []PhisAtFrontier
<1>1. Init => PhisAtFrontier
  BY DEF Init, PhisAtFrontier
<1>2. ConstructionInv /\ PhisAtFrontier /\ [Next]_vars => PhisAtFrontier'
  <2> SUFFICES ASSUME ConstructionInv, PhisAtFrontier, [Next]_vars, stage' = "rename"
               PROVE  PhisRight'
    BY DEF PhisAtFrontier, PhisRight
  <2>1. PlacingInv /\ FnInv /\ ValuesInv
    BY DEF ConstructionInv, PlacingInv
  <2>2. stage = "rename" => PhisRight
    BY DEF PhisAtFrontier, PhisRight
  <2>3. ASSUME RenameHead \/ RenameChild, PhisRight, df' = df PROVE PhisRight'
    <3>1. PICK c \in Block : RenameEffect(c)
      BY <2>1, <2>3, RenamingActions
    <3>2. /\ phis' \in [Block -> Seq(Entry)]
          /\ \A b \in Block :
                 /\ Len(phis'[b]) = Len(phis[b])
                 /\ \A j \in 1 .. Len(phis[b]) :
                        /\ phis'[b][j].orig_var = phis[b][j].orig_var
                        /\ phis'[b][j].from_label = phis[b][j].from_label
      BY <3>1 DEF RenameEffect
    <3> QED
      BY <2>1, <2>3, <3>2, PhisStay
  <2>4. CASE RenameHead
    <3>1. PhisRight
      BY <2>1, <2>4, AllPlaced DEF RenameHead
    <3>2. df' = df
      BY <2>4 DEF RenameHead, treeVars
    <3> QED
      BY <2>3, <2>4, <3>1, <3>2
  <2>5. CASE RenameChild
    <3>1. PhisRight /\ df' = df
      BY <2>2, <2>5 DEF RenameChild, treeVars
    <3> QED
      BY <2>3, <2>5, <3>1
  <2>6. CASE RenameLeave \/ UNCHANGED vars
    <3>1. phis' = phis /\ df' = df /\ stage = "rename"
      BY <2>6 DEF RenameLeave, vars, treeVars
    <3>2. phis \in [Block -> Seq(Entry)]
      BY <2>1 DEF ValuesInv
    <3> QED
      BY <2>1, <2>2, <3>1, <3>2, PhisStay
  <2>7. CASE BuildDominators \/ PlacePhi \/ PlaceNextReg \/ OutOfSsa \/ SkipBlock \/ OutEnd
    BY <2>7 DEF BuildDominators, PlacePhi, PlaceNextReg, OutOfSsa, SkipBlock, OutEnd
  <2> QED
    BY <2>4, <2>5, <2>6, <2>7 DEF Next
<1> QED
  BY <1>1, <1>2, ConstructionInvariant, PTL DEF Spec

-----------------------------------------------------------------------------
(* Every version is defined once *)

New(v) == v >= fn.reg_count

Distinct ==
    /\ \A b, c \in Block : \A k \in 1 .. Len(code[b]), l \in 1 .. Len(code[c]) :
           code[b][k].result = code[c][l].result /\ New(code[b][k].result) => b = c /\ k = l
    /\ \A b, c \in Block : \A i \in 1 .. Len(phis[b]), j \in 1 .. Len(phis[c]) :
           phis[b][i].result_reg = phis[c][j].result_reg /\ New(phis[b][i].result_reg) => b = c
    /\ \A b, c \in Block : \A k \in 1 .. Len(code[b]), j \in 1 .. Len(phis[c]) :
           code[b][k].result = phis[c][j].result_reg => ~New(code[b][k].result)

\* Results are numbers below reg_count, and the code's may be none.
LEMMA ResultsBelow ==
    ASSUME FnInv, ValuesInv
    PROVE  /\ fn.reg_count \in Nat /\ reg_count \in Nat /\ fn.reg_count <= reg_count
           /\ \A b \in Block : /\ DOMAIN code[b] = 1 .. Len(code[b])
                               /\ DOMAIN phis[b] = 1 .. Len(phis[b])
           /\ \A b \in Block : \A k \in 1 .. Len(code[b]) : code[b][k].result \in -1 .. reg_count - 1
           /\ \A b \in Block : \A j \in 1 .. Len(phis[b]) : phis[b][j].result_reg \in 0 .. reg_count - 1
<1>1. fn.reg_count \in Nat /\ reg_count \in Nat /\ fn.reg_count <= reg_count
  BY DEF FnInv, WellFormed, ValuesInv
<1>2. ASSUME NEW b \in Block
      PROVE  DOMAIN code[b] = 1 .. Len(code[b]) /\ DOMAIN phis[b] = 1 .. Len(phis[b])
  <2>1. code[b] \in Seq(Range(code[b])) /\ phis[b] \in Seq(Entry)
    BY DEF ValuesInv, IsSeq
  <2> QED
    BY <2>1
<1>3. ASSUME NEW b \in Block, NEW k \in 1 .. Len(code[b])
      PROVE  code[b][k].result \in -1 .. reg_count - 1
  BY DEF ValuesInv, QuadOk, NoReg
<1>4. ASSUME NEW b \in Block, NEW j \in 1 .. Len(phis[b])
      PROVE  phis[b][j].result_reg \in 0 .. reg_count - 1
  <2>1. phis[b] \in Seq(Entry)
    BY DEF ValuesInv
  <2>2. phis[b][j] \in Entry
    BY <2>1
  <2>3. phis[b][j].result_reg \in Nat
    BY <2>2 DEF Entry
  <2>4. phis[b][j].result_reg < reg_count
    BY DEF ValuesInv, EntryOk
  <2> QED
    BY <1>1, <2>3, <2>4
<1> QED
  BY <1>1, <1>2, <1>3, <1>4

\* As long as nothing is renamed there is no version.
LEMMA DistinctStarts ==
    ASSUME FnInv, ValuesInv, reg_count = fn.reg_count
    PROVE  Distinct
<1>1. \A b \in Block : \A k \in 1 .. Len(code[b]) : ~New(code[b][k].result)
  BY ResultsBelow DEF New
<1>2. \A b \in Block : \A j \in 1 .. Len(phis[b]) : ~New(phis[b][j].result_reg)
  BY ResultsBelow DEF New
<1> QED
  BY <1>1, <1>2 DEF Distinct

LEMMA DistinctRenamed ==
    ASSUME FnInv, ValuesInv, Distinct, NEW a \in Block, RenameEffect(a), fn' = fn
    PROVE  Distinct'
<1>1. /\ fn.reg_count \in Nat /\ reg_count \in Nat /\ fn.reg_count <= reg_count
      /\ \A b \in Block : \A k \in 1 .. Len(code[b]) : code[b][k].result \in -1 .. reg_count - 1
      /\ \A b \in Block : \A j \in 1 .. Len(phis[b]) : phis[b][j].result_reg \in 0 .. reg_count - 1
  BY ResultsBelow
<1>2. Block' = Block /\ \A v : New(v)' <=> New(v)
  BY DEF Block, New
<1>3. /\ \A b \in Block : Len(phis'[b]) = Len(phis[b]) /\ Len(code'[b]) = Len(code[b])
      /\ \A b \in Block : \A j \in 1 .. Len(phis[b]) :
             \/ phis'[b][j].result_reg = phis[b][j].result_reg
             \/ b = a /\ Given(phis'[b][j].result_reg)
      /\ \A b \in Block : \A k \in 1 .. Len(code[b]) :
             \/ code'[b][k].result = code[b][k].result
             \/ b = a /\ Given(code'[b][k].result)
      /\ \A k, l \in 1 .. Len(code[a]) :
             code'[a][k].result = code'[a][l].result /\ Given(code'[a][k].result) => k = l
      /\ \A k \in 1 .. Len(code[a]), j \in 1 .. Len(phis[a]) :
             code'[a][k].result = phis'[a][j].result_reg => ~Given(code'[a][k].result)
  BY DEF RenameEffect
<1>4. reg_count' \in Nat
  BY DEF RenameEffect
<1>5. \A v, w : v \in -1 .. reg_count - 1 /\ Given(w) => v # w
  BY <1>1, <1>4 DEF Given
<1>6. ASSUME NEW b \in Block, NEW c \in Block,
             NEW k \in 1 .. Len(code[b]), NEW l \in 1 .. Len(code[c]),
             code'[b][k].result = code'[c][l].result, New(code'[b][k].result)
      PROVE  b = c /\ k = l
  <2>1. CASE code'[b][k].result = code[b][k].result
    <3>1. code'[c][l].result = code[c][l].result
      <4>1. code[b][k].result \in -1 .. reg_count - 1
        BY <1>1
      <4>2. ~Given(code'[c][l].result)
        BY <1>5, <1>6, <2>1, <4>1
      <4> QED
        BY <1>3, <4>2
    <3>2. code[b][k].result = code[c][l].result /\ New(code[b][k].result)
      BY <1>6, <2>1, <3>1
    <3>3. k \in 1 .. Len(code[b]) /\ l \in 1 .. Len(code[c])
      OBVIOUS
    <3> QED
      BY ONLY <3>2, Distinct, b \in Block, c \in Block, <3>3 DEF Distinct
  <2>2. CASE b = a /\ Given(code'[b][k].result)
    <3>1. c = a /\ Given(code'[c][l].result)
      <4>1. Given(code'[c][l].result)
        BY <1>6, <2>2
      <4>2. code[c][l].result \in -1 .. reg_count - 1
        BY <1>1
      <4>3. code'[c][l].result # code[c][l].result
        BY <1>5, <4>1, <4>2
      <4> QED
        BY <1>3, <4>1, <4>3
    <3> QED
      BY <1>3, <1>6, <2>2, <3>1
  <2> QED
    BY <1>3, <2>1, <2>2
<1>7. ASSUME NEW b \in Block, NEW c \in Block,
             NEW i \in 1 .. Len(phis[b]), NEW j \in 1 .. Len(phis[c]),
             phis'[b][i].result_reg = phis'[c][j].result_reg, New(phis'[b][i].result_reg)
      PROVE  b = c
  <2>1. CASE phis'[b][i].result_reg = phis[b][i].result_reg
    <3>1. phis'[c][j].result_reg = phis[c][j].result_reg
      <4>1. phis[b][i].result_reg \in -1 .. reg_count - 1
        BY <1>1
      <4>2. ~Given(phis'[c][j].result_reg)
        BY <1>5, <1>7, <2>1, <4>1
      <4> QED
        BY <1>3, <4>2
    <3> QED
      BY <1>7, <2>1, <3>1 DEF Distinct
  <2>2. CASE b = a /\ Given(phis'[b][i].result_reg)
    <3>1. Given(phis'[c][j].result_reg)
      BY <1>7, <2>2
    <3>2. phis[c][j].result_reg \in -1 .. reg_count - 1
      BY <1>1
    <3>3. phis'[c][j].result_reg # phis[c][j].result_reg
      BY <1>5, <3>1, <3>2
    <3> QED
      BY <1>3, <2>2, <3>1, <3>3
  <2> QED
    BY <1>3, <2>1, <2>2
<1>8. ASSUME NEW b \in Block, NEW c \in Block,
             NEW k \in 1 .. Len(code[b]), NEW j \in 1 .. Len(phis[c]),
             code'[b][k].result = phis'[c][j].result_reg
      PROVE  ~New(code'[b][k].result)
  <2>1. CASE code'[b][k].result = code[b][k].result
    <3>1. phis'[c][j].result_reg = phis[c][j].result_reg
      <4>1. code[b][k].result \in -1 .. reg_count - 1
        BY <1>1
      <4>2. ~Given(phis'[c][j].result_reg)
        BY <1>5, <1>8, <2>1, <4>1
      <4> QED
        BY <1>3, <4>2
    <3> QED
      BY <1>8, <2>1, <3>1 DEF Distinct
  <2>2. CASE b = a /\ Given(code'[b][k].result)
    <3>1. c = a
      <4>1. Given(phis'[c][j].result_reg)
        BY <1>8, <2>2
      <4>2. phis[c][j].result_reg \in -1 .. reg_count - 1
        BY <1>1
      <4>3. phis'[c][j].result_reg # phis[c][j].result_reg
        BY <1>5, <4>1, <4>2
      <4> QED
        BY <1>3, <4>1, <4>3
    <3> QED
      BY <1>3, <1>8, <2>2, <3>1
  <2> QED
    BY <1>3, <2>1, <2>2
<1>9. \A b, c \in Block : \A k \in 1 .. Len(code'[b]), l \in 1 .. Len(code'[c]) :
          code'[b][k].result = code'[c][l].result /\ New(code'[b][k].result) => b = c /\ k = l
  BY <1>3, <1>6
<1>10. \A b, c \in Block : \A i \in 1 .. Len(phis'[b]), j \in 1 .. Len(phis'[c]) :
           phis'[b][i].result_reg = phis'[c][j].result_reg /\ New(phis'[b][i].result_reg) => b = c
  BY <1>3, <1>7
<1>11. \A b, c \in Block : \A k \in 1 .. Len(code'[b]), j \in 1 .. Len(phis'[c]) :
           code'[b][k].result = phis'[c][j].result_reg => ~New(code'[b][k].result)
  BY <1>3, <1>8
<1> QED
  BY ONLY <1>2, <1>9, <1>10, <1>11, fn' = fn DEF Distinct, New

DistinctInv == stage = "rename" \/ InSsa => Distinct

LEMMA DistinctKept ==
    ASSUME ConstructionInv, DistinctInv, [Next]_vars
    PROVE  DistinctInv'
<1>1. PlacingInv /\ FnInv /\ ValuesInv /\ StageInv /\ fn' = fn /\ Block' = Block
  BY FunctionKept DEF ConstructionInv, PlacingInv
<1>2. ASSUME RenameHead \/ RenameChild, Distinct PROVE Distinct'
  <2>1. PICK c \in Block : RenameEffect(c)
    BY <1>1, <1>2, RenamingActions
  <2> QED
    BY <1>1, <1>2, <2>1, DistinctRenamed
<1>3. CASE RenameHead
  <2>1. reg_count = fn.reg_count
    BY <1>1, <1>3 DEF RenameHead, StageInv
  <2>2. Distinct
    BY <1>1, <2>1, DistinctStarts
  <2> QED
    BY <1>2, <1>3, <2>2 DEF DistinctInv
<1>4. CASE RenameChild
  <2>1. Distinct
    BY <1>4 DEF RenameChild, DistinctInv
  <2> QED
    BY <1>2, <1>4, <2>1 DEF DistinctInv
<1>5. CASE RenameLeave \/ UNCHANGED vars
  <2>1. phis' = phis /\ code' = code
    BY <1>5 DEF RenameLeave, vars
  <2>2. (stage = "rename" \/ InSsa)' => stage = "rename" \/ InSsa
    BY <1>5 DEF RenameLeave, vars, InSsa
  <2>3. Distinct => Distinct'
    BY <1>1, <2>1 DEF Distinct, New
  <2> QED
    BY <2>2, <2>3 DEF DistinctInv
<1>6. CASE OutOfSsa \/ SkipBlock
  <2>1. stage' = "copies" /\ block' = block + 1 /\ block \in Nat
    BY <1>1, <1>6 DEF OutOfSsa, SkipBlock, StageInv, FnInv, WellFormed
  <2>2. block' # 0
    BY <2>1
  <2> QED
    BY <2>1, <2>2 DEF DistinctInv, InSsa
<1>7. CASE BuildDominators \/ PlacePhi \/ PlaceNextReg \/ OutEnd
  <2>1. stage' # "rename" /\ stage' # "copies"
    BY <1>7 DEF BuildDominators, PlacePhi, PlaceNextReg, OutEnd
  <2> QED
    BY <2>1 DEF DistinctInv, InSsa
<1> QED
  BY <1>3, <1>4, <1>5, <1>6, <1>7 DEF Next

LEMMA DefinitionsAre ==
    ASSUME \A b \in Block : /\ DOMAIN code[b] = 1 .. Len(code[b])
                             /\ DOMAIN phis[b] = 1 .. Len(phis[b])
    PROVE  \A v, d : d \in DefinitionsOf(v) <=>
               \/ \E b \in Block : \E k \in 1 .. Len(code[b]) : code[b][k].result = v /\ d = <<b, k>>
               \/ \E b \in Block : \E j \in 1 .. Len(phis[b]) : phis[b][j].result_reg = v /\ d = <<b, 0>>
<1> SUFFICES ASSUME NEW v, NEW d
             PROVE  d \in DefinitionsOf(v) <=>
               \/ \E b \in Block : \E k \in 1 .. Len(code[b]) : code[b][k].result = v /\ d = <<b, k>>
               \/ \E b \in Block : \E j \in 1 .. Len(phis[b]) : phis[b][j].result_reg = v /\ d = <<b, 0>>
  OBVIOUS
<1> DEFINE Places(b) == {j \in DOMAIN code[b] : code[b][j].result = v}
           Merges == {c \in Block : \E phi \in Range(phis[c]) : phi.result_reg = v}
<1>1. d \in DefinitionsOf(v) <=> \/ d \in UNION {{<<b, i>> : i \in Places(b)} : b \in Block}
                                \/ d \in {<<b, 0>> : b \in Merges}
  BY DEF DefinitionsOf
<1>2. \A b \in Block : \A k : k \in Places(b) <=> k \in 1 .. Len(code[b]) /\ code[b][k].result = v
  OBVIOUS
<1>3. \A c : c \in Merges <=> c \in Block /\ \E j \in 1 .. Len(phis[c]) : phis[c][j].result_reg = v
  BY DEF Range
<1> HIDE DEF Places, Merges
<1>4. d \in UNION {{<<b, i>> : i \in Places(b)} : b \in Block}
          <=> \E b \in Block : \E i \in Places(b) : d = <<b, i>>
  OBVIOUS
<1> QED
  BY <1>1, <1>2, <1>3, <1>4

\* With distinct results the definitions of a version are one.
LEMMA DistinctIsOnce ==
    ASSUME ConstructionInv, DistinctInv
    PROVE  VersionsOnce
<1>1. FnInv /\ ValuesInv
  BY DEF ConstructionInv, PlacingInv
<1>2. /\ fn.reg_count \in Nat /\ reg_count \in Nat
      /\ \A b \in Block : /\ DOMAIN code[b] = 1 .. Len(code[b])
                          /\ DOMAIN phis[b] = 1 .. Len(phis[b])
      /\ \A b \in Block : \A k \in 1 .. Len(code[b]) : code[b][k].result \in -1 .. reg_count - 1
      /\ \A b \in Block : \A j \in 1 .. Len(phis[b]) : phis[b][j].result_reg \in 0 .. reg_count - 1
  BY <1>1, ResultsBelow
<1> SUFFICES ASSUME InSsa,
                    NEW v \in UNION {{q.result : q \in Range(code[b])}
                                       \cup {phi.result_reg : phi \in Range(phis[b])} : b \in Block},
                    v >= fn.reg_count
             PROVE  v < reg_count /\ Cardinality(DefinitionsOf(v)) = 1
  BY DEF VersionsOnce
<1>3. Distinct /\ New(v)
  BY DEF DistinctInv, New
<1>4. \E b \in Block : \/ \E k \in 1 .. Len(code[b]) : code[b][k].result = v
                       \/ \E j \in 1 .. Len(phis[b]) : phis[b][j].result_reg = v
  BY <1>2 DEF Range
<1>5. v < reg_count
  BY <1>2, <1>4
<1>6. \A d : d \in DefinitionsOf(v) <=>
          \/ \E b \in Block : \E k \in 1 .. Len(code[b]) : code[b][k].result = v /\ d = <<b, k>>
          \/ \E b \in Block : \E j \in 1 .. Len(phis[b]) : phis[b][j].result_reg = v /\ d = <<b, 0>>
  BY <1>2, DefinitionsAre
<1>7. \E d : DefinitionsOf(v) = {d}
  <2>1. CASE \E b \in Block : \E k \in 1 .. Len(code[b]) : code[b][k].result = v
    <3>1. PICK b \in Block : \E k \in 1 .. Len(code[b]) : code[b][k].result = v
      BY <2>1
    <3>2. PICK k \in 1 .. Len(code[b]) : code[b][k].result = v
      BY <3>1
    <3>3. <<b, k>> \in DefinitionsOf(v)
      BY <1>6, <3>2
    <3>4. ASSUME NEW d \in DefinitionsOf(v) PROVE d = <<b, k>>
      <4>1. CASE \E c \in Block : \E l \in 1 .. Len(code[c]) : code[c][l].result = v /\ d = <<c, l>>
        <5>1. PICK c \in Block : \E l \in 1 .. Len(code[c]) : code[c][l].result = v /\ d = <<c, l>>
          BY <4>1
        <5>2. PICK l \in 1 .. Len(code[c]) : code[c][l].result = v /\ d = <<c, l>>
          BY <5>1
        <5>3. b = c /\ k = l
          BY <1>3, <3>2, <5>2 DEF Distinct
        <5> QED
          BY <5>2, <5>3
      <4>2. CASE \E c \in Block : \E j \in 1 .. Len(phis[c]) : phis[c][j].result_reg = v /\ d = <<c, 0>>
        <5>1. PICK c \in Block : \E j \in 1 .. Len(phis[c]) : phis[c][j].result_reg = v
          BY <4>2
        <5>2. PICK j \in 1 .. Len(phis[c]) : phis[c][j].result_reg = v
          BY <5>1
        <5>3. FALSE
          BY <1>3, <3>2, <5>2 DEF Distinct
        <5> QED
          BY <5>3
      <4> QED
        BY <1>6, <4>1, <4>2
    <3> QED
      BY <3>3, <3>4
  <2>2. CASE ~ \E b \in Block : \E k \in 1 .. Len(code[b]) : code[b][k].result = v
    <3>1. PICK b \in Block : \E j \in 1 .. Len(phis[b]) : phis[b][j].result_reg = v
      BY <1>4, <2>2
    <3>2. PICK j \in 1 .. Len(phis[b]) : phis[b][j].result_reg = v
      BY <3>1
    <3>3. <<b, 0>> \in DefinitionsOf(v)
      BY <1>6, <3>2
    <3>4. ASSUME NEW d \in DefinitionsOf(v) PROVE d = <<b, 0>>
      <4>1. PICK c \in Block : \E i \in 1 .. Len(phis[c]) : phis[c][i].result_reg = v /\ d = <<c, 0>>
        BY <1>6, <2>2
      <4>2. PICK i \in 1 .. Len(phis[c]) : phis[c][i].result_reg = v /\ d = <<c, 0>>
        BY <4>1
      <4>3. b = c
        BY <1>3, <3>2, <4>2 DEF Distinct
      <4> QED
        BY <4>2, <4>3
    <3> QED
      BY <3>3, <3>4
  <2> QED
    BY <2>1, <2>2
<1> QED
  BY <1>5, <1>7, FS_Singleton

\* When ssa_rename returns, a register that it made is the result of one quad or
\* of the phis of one block, never of two places, whatever the dominator tree.
THEOREM VersionsUnique ==
    Spec => []VersionsOnce
<1>1. Init => DistinctInv
  BY DEF Init, DistinctInv, InSsa
<1>2. ConstructionInv /\ DistinctInv /\ [Next]_vars => DistinctInv'
  BY DistinctKept
<1>3. ConstructionInv /\ DistinctInv => VersionsOnce
  BY DistinctIsOnce
<1> QED
  BY <1>1, <1>2, <1>3, ConstructionInvariant, PTL DEF Spec

-----------------------------------------------------------------------------
(* The types *)

TreeTypes ==
    /\ idom \in [Block -> Block \cup {NoBlock}]
    /\ df \in [Block -> SUBSET Block]

LEMMA TreeTypesKept ==
    ASSUME FnInv, TreeTypes, [Next]_vars
    PROVE  TreeTypes'
<1>1. fn' = fn /\ Block' = Block
  BY FunctionKept
<1>2. CASE BuildDominators
  <2> DEFINE doms == DominatorsOf(fn.successors)
  <2>1. df' \in [Block -> SUBSET Block]
    BY <1>2, TreeBuilt
  <2>2. idom' = [b \in Block |-> IF b \in DOMAIN doms \ {0} THEN ImmediateDominator(doms, b) ELSE NoBlock]
    BY <1>2 DEF BuildDominators
  <2>3. Graph(fn.successors) /\ DOMAIN doms = Reachable(fn.successors) /\ Reachable(fn.successors) \subseteq Block
    <3>1. IsFiniteSet(Block) /\ 0 \in Block /\ DOMAIN fn.successors = Block
      BY BlocksFinite DEF FnInv
    <3>2. NoBlock \notin Block
      BY DEF Block, NoBlock, FnInv, WellFormed
    <3>3. Graph(fn.successors)
      BY <3>1, <3>2 DEF Graph
    <3> QED
      BY <3>1, <3>3, ReachableAll, DominatorsAre
  <2>4. ASSUME NEW b \in Block, b \in DOMAIN doms \ {0}
        PROVE  ImmediateDominator(doms, b) \in Block
    <3>1. b \in Reachable(fn.successors) /\ b # 0
      BY <2>3, <2>4
    <3>2. ImmediateDominator(doms, b) \in doms[b]
      BY <2>3, <3>1, DominatorTree
    <3>3. doms[b] \subseteq Reachable(fn.successors)
      BY <3>1, DominatorsAre
    <3> QED
      BY <2>3, <3>2, <3>3
  <2> HIDE DEF doms
  <2>5. idom' \in [Block -> Block \cup {NoBlock}]
    BY <2>2, <2>4
  <2> QED
    BY <1>1, <2>1, <2>5 DEF TreeTypes
<1>3. CASE ~BuildDominators
  <2>1. idom' = idom /\ df' = df
    BY <1>3 DEF Next, PlacePhi, PlaceNextReg, RenameHead, RenameChild, RenameLeave, OutOfSsa,
                SkipBlock, OutEnd, vars, treeVars
  <2> QED
    BY <1>1, <2>1 DEF TreeTypes
<1> QED
  BY <1>2, <1>3

LEMMA PhisTyped ==
    ASSUME FnInv, ValuesInv
    PROVE  phis \in [Block -> Seq(Phi)]
<1>1. phis \in [Block -> Seq(Entry)] /\ reg_count \in Nat
  BY DEF ValuesInv
<1>2. ASSUME NEW b \in Block PROVE phis[b] \in Seq(Phi)
  <2>1. phis[b] \in Seq(Entry)
    BY <1>1
  <2>2. ASSUME NEW j \in 1 .. Len(phis[b]) PROVE phis[b][j] \in Phi
    <3> DEFINE e == phis[b][j]
    <3>1. e \in Entry
      BY <2>1
    <3>2. e.result_reg < reg_count /\ e.reg_index < reg_count /\ e.orig_var \in Regs
      BY DEF ValuesInv, EntryOk
    <3> HIDE DEF e
    <3>3. /\ e = [result_reg |-> e.result_reg, orig_var |-> e.orig_var,
                  reg_index |-> e.reg_index, from_label |-> e.from_label]
          /\ e.result_reg \in Nat /\ e.reg_index \in Nat /\ e.from_label \in Block
      BY <3>1 DEF Entry
    <3>4. e.result_reg \in 0 .. reg_count - 1 /\ e.reg_index \in 0 .. reg_count - 1
      BY <1>1, <3>2, <3>3
    <3>5. e \in Phi
      BY <3>2, <3>3, <3>4 DEF Phi
    <3> QED
      BY <3>5 DEF e
  <2>3. Len(phis[b]) \in Nat /\ phis[b] = [j \in 1 .. Len(phis[b]) |-> phis[b][j]]
    BY <2>1
  <2>4. phis[b] \in [1 .. Len(phis[b]) -> Phi]
    BY <2>2, <2>3
  <2> QED
    BY <2>3, <2>4, SeqDef
<1> QED
  BY <1>1, <1>2

LEMMA VersionsTyped ==
    ASSUME ValuesInv
    PROVE  versions \in [Regs -> Seq(0 .. reg_count - 1)]
<1>1. /\ versions \in [Regs -> Seq(Nat)] /\ reg_count \in Nat
      /\ \A r \in Regs : \A i \in 1 .. Len(versions[r]) : versions[r][i] < reg_count
  BY DEF ValuesInv, Stacks
<1>2. ASSUME NEW r \in Regs PROVE versions[r] \in Seq(0 .. reg_count - 1)
  <2>1. versions[r] \in Seq(Nat)
    BY <1>1
  <2>2. Len(versions[r]) \in Nat /\ versions[r] = [i \in 1 .. Len(versions[r]) |-> versions[r][i]]
    BY SMTT(30), <2>1
  <2>3. ASSUME NEW i \in 1 .. Len(versions[r]) PROVE versions[r][i] \in 0 .. reg_count - 1
    <3>1. versions[r][i] \in Nat
      BY <2>1
    <3>2. versions[r][i] < reg_count
      BY <1>1
    <3> QED
      BY <1>1, <3>1, <3>2
  <2>4. versions[r] \in [1 .. Len(versions[r]) -> 0 .. reg_count - 1]
    BY <2>2, <2>3
  <2> QED
    BY <2>2, <2>4, SeqDef
<1> QED
  BY <1>1, <1>2

\* Every variable of the construction keeps its type: in particular each block's
\* idom is a block or none, the stacks hold registers below reg_count, and an
\* entry's from_label is a predecessor of its block.
THEOREM SsaTypes ==
    Spec => []SsaTypeOK
<1>1. Init => TreeTypes
  <2> SUFFICES ASSUME Init PROVE TreeTypes
    OBVIOUS
  <2>1. idom = [b \in Block |-> NoBlock] /\ df = [b \in Block |-> {}]
    BY DEF Init
  <2> QED
    BY <2>1 DEF TreeTypes
<1>2. ConstructionInv /\ TreeTypes /\ [Next]_vars => TreeTypes'
  BY TreeTypesKept DEF ConstructionInv, PlacingInv
<1>3. ConstructionInv /\ TreeTypes => SsaTypeOK
  <2> SUFFICES ASSUME ConstructionInv, TreeTypes PROVE SsaTypeOK
    OBVIOUS
  <2>1. FnInv /\ WorkInv /\ CallsInv /\ StageInv /\ ValuesInv
    BY DEF ConstructionInv, PlacingInv
  <2>2. fn.reg_count \in Nat
    BY <2>1 DEF FnInv, WellFormed
  <2>3. /\ stage \in {"dominators", "place", "rename", "copies", "done"}
        /\ block \in 0 .. fn.block_count
    BY <2>1 DEF StageInv
  <2>4. idom \in [Block -> Block \cup {NoBlock}] /\ df \in [Block -> SUBSET Block]
    BY DEF TreeTypes
  <2>5. reg \in 0 .. fn.reg_count /\ queue \in Seq(Block) /\ in_queue \in SUBSET Block
    BY <2>1, <2>2 DEF WorkInv
  <2>6. phis \in [Block -> Seq(Phi)]
    BY <2>1, PhisTyped
  <2>7. \A b \in Block : \A i \in DOMAIN phis[b] : Contains(fn.predecessors[b], phis[b][i].from_label)
    BY <2>1, ResultsBelow DEF ValuesInv
  <2>8. DOMAIN code = Block
    BY <2>1 DEF ValuesInv
  <2>9. ASSUME NEW b \in Block, NEW q \in Range(code[b])
        PROVE  q.result \in NoReg .. reg_count - 1
    <3>1. PICK k \in 1 .. Len(code[b]) : q = code[b][k]
      BY <2>1, ResultsBelow DEF Range
    <3> QED
      BY <2>1, <3>1 DEF ValuesInv, QuadOk
  <2>10. versions \in [Regs -> Seq(0 .. reg_count - 1)] /\ pushed \in Seq(Regs)
    BY <2>1, VersionsTyped DEF ValuesInv, Stacks
  <2>11. frames \in Seq([block : Block, start : Nat, next : 0 .. fn.block_count])
    BY <2>1 DEF CallsInv
  <2> QED
    BY <2>3, <2>4, <2>5, <2>6, <2>7, <2>8, <2>9, <2>10, <2>11 DEF SsaTypeOK
<1> QED
  BY <1>1, <1>2, <1>3, ConstructionInvariant, PTL DEF Spec

-----------------------------------------------------------------------------
(* Construction inside the side-by-side runs *)

\* SSARun's runs go through SSA's states: executing the three forms changes
\* nothing of the function, so that what is proved of Spec holds there.
THEOREM RunsConstruct ==
    RunSpec => Spec
<1>1. RunInit => Init
  BY DEF RunInit
<1>2. [RunNext]_<<vars, runVars>> => [Next]_vars
  <2> SUFFICES ASSUME [RunNext]_<<vars, runVars>> PROVE Next \/ UNCHANGED vars
    OBVIOUS
  <2>1. CASE Translate
    BY <2>1 DEF Translate
  <2>2. CASE Start \/ Follow
    BY <2>2 DEF Start, Follow, EnterBlock
  <2>3. CASE UNCHANGED <<vars, runVars>>
    BY <2>3
  <2> QED
    BY <2>1, <2>2, <2>3 DEF RunNext
<1> QED
  BY <1>1, <1>2, PTL DEF RunSpec, Spec

\* And so the runs place phis and define versions as the theorems say.
COROLLARY RunsAreRight ==
    RunSpec => [](SsaTypeOK /\ PhisAtFrontier /\ VersionsOnce)
BY RunsConstruct, SsaTypes, PhisPlacedRight, VersionsUnique, PTL

=============================================================================
