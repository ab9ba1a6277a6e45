--------------------------- MODULE LivenessProofs ---------------------------
(***************************************************************************)
(* What Liveness promises, for every graph and every set of registers:     *)
(* type correctness, the fixpoint equations at the end, the agreement of   *)
(* the block summaries with the scan, monotone growth, and that the result *)
(* is liveness itself: what some path through the blocks reads.            *)
(***************************************************************************)
EXTENDS Liveness, SequenceTheorems, FiniteSetTheorems, WellFoundedInduction, TLAPS

-----------------------------------------------------------------------------
(* The inductive invariant *)

\* Where the loop counters stand relative to the block the loop is at.
Positions ==
    /\ pc = "local" => IF blk < graph.block_count
                       THEN quad_index \in graph.first[blk] .. graph.first[blk + 1]
                       ELSE quad_index = graph.quad_count
    /\ pc \in {"sweep", "scan"} => total_quads = graph.first[blk]
    /\ pc = "scan" => /\ blk < graph.block_count
                      /\ quad_index \in graph.first[blk] .. graph.first[blk + 1]

\* The quads the local pass has processed.
Processed == IF pc = "local" THEN 0 .. quad_index - 1 ELSE QuadIds(graph)

\* How far into block b the local pass has come.
Reached(b) ==
    IF pc # "local" \/ b < blk THEN graph.first[b + 1]
    ELSE IF b = blk THEN quad_index ELSE graph.first[b]

Bits ==
    /\ \A i \in Processed : quad[i] = QuadBits(graph.quads[i])
    /\ \A b \in BlockIds(graph) :
        /\ block[b].b_use = {r \in Reg : ExposedUse(graph.first[b], Reached(b), r)}
        /\ block[b].b_def = {r \in Reg : ~Untouched(graph.first[b], Reached(b), r)}

Succs(b) == UNION {block[s].live_in : s \in graph.succ[b]}

\* Nothing is ahead of the equations, and the local pass leaves all empty.
Behind ==
    /\ pc = "local" => \A b \in BlockIds(graph) :
                          block[b].live_in = {} /\ block[b].live_out = {}
    /\ \A b \in BlockIds(graph) :
        /\ block[b].live_in \subseteq BlockTransfer(b, block[b].live_out)
        /\ block[b].live_out \subseteq Succs(b)

Scanning ==
    pc = "scan" =>
        /\ live = LiveBefore(quad_index, graph.first[blk + 1], block[blk].live_out)
        /\ block[blk].live_out = Succs(blk)

Solved(b) ==
    /\ block[b].live_out = Succs(b)
    /\ block[b].live_in = BlockTransfer(b, block[b].live_out)

\* While the sweep has changed nothing, the blocks behind it are solved.
Settled ==
    /\ pc \in {"sweep", "scan"} /\ ~changed => \A b \in 0 .. blk - 1 : Solved(b)
    /\ pc = "done" => \A b \in BlockIds(graph) : Solved(b)

IInv == TypeOK /\ Positions /\ Bits /\ Behind /\ Scanning /\ Settled

-----------------------------------------------------------------------------
(* Lemmas about the operators *)

\* What a well-formed graph gives about a block and about a quad.
LEMMA BlockFacts ==
    ASSUME graph \in Graph, NEW b \in BlockIds(graph)
    PROVE  /\ graph.block_count \in Nat \ {0} /\ graph.quad_count \in Nat
           /\ b \in Int /\ b + 1 \in 0 .. graph.block_count
           /\ graph.first[0] = 0 /\ graph.first[graph.block_count] = graph.quad_count
           /\ graph.first[b] \in 0 .. graph.quad_count
           /\ graph.first[b + 1] \in 0 .. graph.quad_count
           /\ graph.first[b] <= graph.first[b + 1]
           /\ graph.succ[b] \subseteq BlockIds(graph)
  <1>1. WellFormed(graph)
    BY GraphAssumption
  <1>2. /\ graph.block_count \in Nat \ {0} /\ graph.quad_count \in Nat
        /\ graph.first[0] = 0 /\ graph.first[graph.block_count] = graph.quad_count
        /\ graph.first \in [0 .. graph.block_count -> 0 .. graph.quad_count]
        /\ graph.first[b] <= graph.first[b + 1]
        /\ graph.succ \in [BlockIds(graph) -> SUBSET BlockIds(graph)]
    BY <1>1 DEF WellFormed
  <1>3. b \in Int /\ b \in 0 .. graph.block_count /\ b + 1 \in 0 .. graph.block_count
    BY <1>2 DEF BlockIds
  <1> QED BY <1>2, <1>3

LEMMA GraphFacts ==
    ASSUME graph \in Graph
    PROVE  /\ graph.block_count \in Nat \ {0} /\ graph.quad_count \in Nat
           /\ 0 \in BlockIds(graph)
           /\ graph.first[0] = 0 /\ graph.first[graph.block_count] = graph.quad_count
           /\ \A b \in 0 .. graph.block_count : graph.first[b] \in 0 .. graph.quad_count
  <1>1. WellFormed(graph)
    BY GraphAssumption
  <1>2. /\ graph.block_count \in Nat \ {0} /\ graph.quad_count \in Nat
        /\ graph.first[0] = 0 /\ graph.first[graph.block_count] = graph.quad_count
        /\ graph.first \in [0 .. graph.block_count -> 0 .. graph.quad_count]
    BY <1>1 DEF WellFormed
  <1>3. 0 \in BlockIds(graph)
    BY <1>2 DEF BlockIds
  <1> QED BY <1>2, <1>3

LEMMA QuadFacts ==
    ASSUME graph \in Graph, NEW i \in QuadIds(graph)
    PROVE  /\ graph.quads[i] \in Quads
           /\ graph.quads[i].reads \subseteq Reg
           /\ graph.quads[i].result \subseteq Reg
           /\ QuadBits(graph.quads[i]) \in [use : SUBSET Reg, def : SUBSET Reg]
           /\ QuadBits(graph.quads[i]).use = graph.quads[i].reads
           /\ QuadBits(graph.quads[i]).def = graph.quads[i].result
  <1>1. graph.quads[i] \in Quads
    BY GraphAssumption DEF WellFormed
  <1> QED BY <1>1 DEF Quads, QuadBits

\* Scanning no quad, and scanning one more quad at the front.
LEMMA LiveBeforeNone ==
    ASSUME NEW lo \in Int, NEW L \in SUBSET Reg
    PROVE  LiveBefore(lo, lo, L) = L
  BY DEF LiveBefore, ExposedUse, Untouched

LEMMA LiveBeforeStep ==
    ASSUME graph \in Graph, NEW lo \in QuadIds(graph), NEW hi \in Int, lo < hi,
           NEW L \in SUBSET Reg
    PROVE  LiveBefore(lo, hi, L) =
               (LiveBefore(lo + 1, hi, L) \ graph.quads[lo].result)
                   \cup graph.quads[lo].reads
  <1>0. lo \in Int /\ graph.quads[lo].reads \subseteq Reg
    BY QuadFacts DEF QuadIds
  <1>1. ASSUME NEW r \in Reg
        PROVE  ExposedUse(lo, hi, r) <=>
                  \/ r \in graph.quads[lo].reads
                  \/ r \notin graph.quads[lo].result /\ ExposedUse(lo + 1, hi, r)
    <2>1. ASSUME r \in graph.quads[lo].reads PROVE ExposedUse(lo, hi, r)
      BY <1>0, <2>1 DEF ExposedUse
    <2>2. ASSUME r \notin graph.quads[lo].result, ExposedUse(lo + 1, hi, r)
          PROVE  ExposedUse(lo, hi, r)
      BY <1>0, <2>2 DEF ExposedUse
    <2>3. ASSUME ExposedUse(lo, hi, r), r \notin graph.quads[lo].reads
          PROVE  r \notin graph.quads[lo].result /\ ExposedUse(lo + 1, hi, r)
      <3>1. PICK j \in lo .. hi - 1 :
                /\ r \in graph.quads[j].reads
                /\ \A k \in lo .. j - 1 : r \notin graph.quads[k].result
        BY <2>3 DEF ExposedUse
      <3>2. j # lo /\ j \in lo + 1 .. hi - 1 /\ lo \in lo .. j - 1
        BY <1>0, <2>3, <3>1
      <3>3. \A k \in lo + 1 .. j - 1 : k \in lo .. j - 1
        BY <1>0
      <3> QED BY <3>1, <3>2, <3>3 DEF ExposedUse
    <2> QED BY <2>1, <2>2, <2>3
  <1>2. ASSUME NEW r \in Reg
        PROVE  Untouched(lo, hi, r) <=>
                  r \notin graph.quads[lo].result /\ Untouched(lo + 1, hi, r)
    <2>1. lo .. hi - 1 = {lo} \cup (lo + 1 .. hi - 1)
      BY <1>0
    <2> QED BY <2>1 DEF Untouched
  <1> QED BY <1>0, <1>1, <1>2 DEF LiveBefore

LEMMA LiveBeforeMonotone ==
    ASSUME NEW lo, NEW hi, NEW L, NEW M, L \subseteq M
    PROVE  LiveBefore(lo, hi, L) \subseteq LiveBefore(lo, hi, M)
  BY DEF LiveBefore

LEMMA LiveBeforeType ==
    ASSUME NEW lo, NEW hi, NEW L
    PROVE  LiveBefore(lo, hi, L) \in SUBSET Reg
  BY DEF LiveBefore

\* One more quad at the end of the stretch the local pass has seen.
LEMMA ExposedUseStep ==
    ASSUME NEW lo \in Int, NEW hi \in Int, lo <= hi, NEW r
    PROVE  ExposedUse(lo, hi + 1, r) <=>
              \/ ExposedUse(lo, hi, r)
              \/ r \in graph.quads[hi].reads /\ Untouched(lo, hi, r)
  <1>1. lo .. (hi + 1) - 1 = (lo .. hi - 1) \cup {hi}
    OBVIOUS
  <1> QED BY <1>1 DEF ExposedUse, Untouched

LEMMA UntouchedStep ==
    ASSUME NEW lo \in Int, NEW hi \in Int, lo <= hi, NEW r
    PROVE  Untouched(lo, hi + 1, r) <=>
              Untouched(lo, hi, r) /\ r \notin graph.quads[hi].result
  <1>1. lo .. (hi + 1) - 1 = (lo .. hi - 1) \cup {hi}
    OBVIOUS
  <1> QED BY <1>1 DEF Untouched

-----------------------------------------------------------------------------
(* The invariant is inductive: the initial states and the local pass *)

LEMMA InitIInv == Init => IInv
  <1> SUFFICES ASSUME Init PROVE IInv
    OBVIOUS
  <1> USE DEF Init
  <1>0. graph \in Graph
    OBVIOUS
  <1>1. TypeOK
    <2>1. 0 \in 0 .. graph.block_count /\ 0 \in 0 .. graph.quad_count
      BY <1>0, GraphFacts
    <2>2. /\ NoBits \in [use : SUBSET Reg, def : SUBSET Reg]
          /\ NoBlockBits \in [b_use : SUBSET Reg, b_def : SUBSET Reg,
                              live_in : SUBSET Reg, live_out : SUBSET Reg]
      BY DEF NoBits, NoBlockBits
    <2> QED BY <2>1, <2>2 DEF TypeOK
  <1>2. Positions
    <2>1. 0 < graph.block_count /\ 0 \in graph.first[0] .. graph.first[0 + 1]
      BY <1>0, BlockFacts, GraphFacts
    <2> QED BY <2>1 DEF Positions
  <1>3. Bits
    <2>1. Processed = {}
      BY DEF Processed
    <2>2. ASSUME NEW b \in BlockIds(graph)
          PROVE  /\ Reached(b) = graph.first[b] /\ graph.first[b] \in Int
                 /\ block[b].b_use = {} /\ block[b].b_def = {}
      <3>1. b \in Nat
        BY GraphFacts DEF BlockIds
      <3> QED BY <1>0, <3>1, BlockFacts, GraphFacts DEF Reached, NoBlockBits
    <2> QED BY <2>1, <2>2 DEF Bits, ExposedUse, Untouched
  <1>4. Behind
    BY DEF Behind, NoBlockBits
  <1> QED BY <1>1, <1>2, <1>3, <1>4 DEF IInv, Scanning, Settled

\* The local pass sets the bits of one quad and folds them into its block's.
LEMMA LocalQuadIInv == IInv /\ LocalQuad => IInv'
  <1> SUFFICES ASSUME IInv, LocalQuad PROVE IInv'
    OBVIOUS
  <1> USE DEF LocalQuad, AddUses
  <1> DEFINE bits == QuadBits(graph.quads[quad_index])
             old  == block[blk]
             new  == [old EXCEPT !.b_use = old.b_use \cup (bits.use \ old.b_def),
                                 !.b_def = old.b_def \cup bits.def]
  <1>0. /\ graph \in Graph /\ blk \in BlockIds(graph) /\ quad_index \in QuadIds(graph)
        /\ graph.first[blk] <= quad_index /\ quad_index < graph.first[blk + 1]
        /\ graph.first[blk] \in Int
    <2>1. graph \in Graph /\ blk \in BlockIds(graph) /\ blk < graph.block_count
      BY GraphFacts DEF IInv, TypeOK, BlockIds
    <2>2. quad_index \in graph.first[blk] .. graph.first[blk + 1] /\ quad_index < graph.first[blk + 1]
      BY <2>1, GraphFacts, BlockFacts DEF IInv, TypeOK, Positions
    <2>3. /\ graph.quad_count \in Nat /\ graph.first[blk] \in 0 .. graph.quad_count
          /\ graph.first[blk + 1] \in 0 .. graph.quad_count
      BY <2>1, BlockFacts
    <2> QED BY ONLY <2>1, <2>2, <2>3 DEF QuadIds
  <1>1. /\ bits \in [use : SUBSET Reg, def : SUBSET Reg]
        /\ bits.use = graph.quads[quad_index].reads
        /\ bits.def = graph.quads[quad_index].result
    BY <1>0, QuadFacts
  <1>2. old \in [b_use : SUBSET Reg, b_def : SUBSET Reg,
                  live_in : SUBSET Reg, live_out : SUBSET Reg]
    BY <1>0 DEF IInv, TypeOK
  <1>3. /\ quad' = [quad EXCEPT ![quad_index] = bits]
        /\ block' = [block EXCEPT ![blk] = new]
    BY <1>0, <1>2 DEF IInv, TypeOK
  <1>4. TypeOK'
    <2>1. quad' \in [QuadIds(graph) -> [use : SUBSET Reg, def : SUBSET Reg]]
      BY <1>1, <1>3 DEF IInv, TypeOK
    <2>2. new \in [b_use : SUBSET Reg, b_def : SUBSET Reg,
                    live_in : SUBSET Reg, live_out : SUBSET Reg]
      BY <1>1, <1>2
    <2>3. block' \in [BlockIds(graph) -> [b_use : SUBSET Reg, b_def : SUBSET Reg,
                         live_in : SUBSET Reg, live_out : SUBSET Reg]]
      BY <2>2, <1>3 DEF IInv, TypeOK
    <2>4. quad_index' \in 0 .. graph.quad_count
      BY <1>0, GraphFacts DEF QuadIds
    <2> QED BY <2>1, <2>3, <2>4 DEF IInv, TypeOK
  <1>5. Positions'
    BY <1>0, BlockFacts DEF IInv, TypeOK, Positions
  <1>6. Bits'
    <2>1. \A i \in Processed' : quad'[i] = QuadBits(graph.quads[i])
      <3>1. Processed' = Processed \cup {quad_index} /\ quad_index \notin Processed
        BY <1>0 DEF Processed, QuadIds
      <3>2. Processed' \subseteq QuadIds(graph)
        <4>1. graph.quad_count \in Nat /\ quad_index' = quad_index + 1 /\ pc' = "local"
          BY <1>0, GraphFacts
        <4>2. quad_index \in 0 .. graph.quad_count - 1
          BY <1>0 DEF QuadIds
        <4>3. Processed' = 0 .. quad_index
          BY <4>1, <4>2 DEF Processed
        <4> QED BY <4>1, <4>2, <4>3 DEF QuadIds
      <3> QED BY <1>3, <3>1, <3>2 DEF IInv, Bits, TypeOK
    <2>2. ASSUME NEW b \in BlockIds(graph)
          PROVE  /\ block'[b].b_use = {r \in Reg : ExposedUse(graph.first[b], Reached(b)', r)}
                 /\ block'[b].b_def = {r \in Reg : ~Untouched(graph.first[b], Reached(b)', r)}
      <3>1. CASE b # blk
        <4>1. Reached(b)' = Reached(b)
          BY <3>1 DEF Reached
        <4>2. block'[b] = block[b]
          BY <1>0, <1>3, <2>2, <3>1 DEF IInv, TypeOK
        <4>3. Bits
          BY DEF IInv
        <4> QED BY ONLY <2>2, <4>1, <4>2, <4>3 DEF Bits
      <3>2. CASE b = blk
        <4>1. Reached(b) = quad_index /\ Reached(b)' = quad_index + 1
          BY <1>0, <3>2 DEF Reached, BlockIds
        <4>2. /\ old.b_use = {r \in Reg : ExposedUse(graph.first[blk], quad_index, r)}
              /\ old.b_def = {r \in Reg : ~Untouched(graph.first[blk], quad_index, r)}
          BY <1>0, <3>2, <4>1 DEF IInv, Bits
        <4>3. /\ block'[b].b_use = old.b_use \cup (bits.use \ old.b_def)
              /\ block'[b].b_def = old.b_def \cup bits.def
          BY <1>0, <1>2, <1>3, <3>2 DEF IInv, TypeOK
        <4>4. quad_index \in Int
          BY <1>0 DEF QuadIds
        <4>5. ASSUME NEW r \in Reg
              PROVE  /\ ExposedUse(graph.first[blk], quad_index + 1, r) <=>
                          r \in old.b_use \cup (bits.use \ old.b_def)
                     /\ ~Untouched(graph.first[blk], quad_index + 1, r) <=>
                          r \in old.b_def \cup bits.def
          BY <1>0, <1>1, <4>2, <4>4, ExposedUseStep, UntouchedStep
        <4>6. bits.use \subseteq Reg /\ bits.def \subseteq Reg
          BY <1>1
        <4> QED BY <3>2, <4>1, <4>2, <4>3, <4>5, <4>6
      <3> QED BY <3>1, <3>2
    <2>3. graph' = graph
      OBVIOUS
    <2> HIDE DEF LocalQuad, AddUses, bits, old, new
    <2> QED BY <2>1, <2>2, <2>3 DEF Bits, ExposedUse, Untouched
  <1>7. Behind' /\ Scanning' /\ Settled'
    <2>1. \A b \in BlockIds(graph) : /\ block'[b].live_in = block[b].live_in
                                    /\ block'[b].live_out = block[b].live_out
      BY <1>2, <1>3 DEF IInv, TypeOK
    <2>2. \A b \in BlockIds(graph) : block[b].live_in = {} /\ block[b].live_out = {}
      BY DEF IInv, Behind
    <2> QED BY <2>1, <2>2 DEF Behind, Scanning, Settled
  <1> QED BY <1>4, <1>5, <1>6, <1>7 DEF IInv

LEMMA LocalNextBlockIInv == IInv /\ LocalNextBlock => IInv'
  <1> SUFFICES ASSUME IInv, LocalNextBlock PROVE IInv'
    OBVIOUS
  <1> USE DEF LocalNextBlock
  <1>0. graph \in Graph /\ blk \in BlockIds(graph)
    BY GraphFacts DEF IInv, TypeOK, BlockIds
  <1>1. TypeOK'
    BY <1>0, BlockFacts DEF IInv, TypeOK
  <1>2. Positions'
    <2>1. CASE blk + 1 < graph.block_count
      <3>1. blk + 1 \in BlockIds(graph)
        BY <1>0, <2>1, GraphFacts DEF BlockIds
      <3>2. quad_index \in graph.first[blk + 1] .. graph.first[(blk + 1) + 1]
        BY <1>0, <3>1, BlockFacts
      <3> QED BY <2>1, <3>2 DEF IInv, Positions
    <2>2. CASE ~(blk + 1 < graph.block_count)
      <3>1. blk + 1 = graph.block_count
        BY <1>0, <2>2, GraphFacts DEF BlockIds
      <3> QED BY <1>0, <2>2, <3>1, GraphFacts DEF IInv, Positions
    <2> QED BY <2>1, <2>2
  <1>3. Bits'
    <2>1. Processed' = Processed
      BY DEF Processed
    <2>2. ASSUME NEW b \in BlockIds(graph) PROVE Reached(b)' = Reached(b)
      <3>1. b \in Int /\ blk \in Int
        BY <1>0, BlockFacts
      <3>2. CASE b < blk \/ b = blk
        BY <3>1, <3>2 DEF Reached
      <3>3. CASE b = blk + 1
        BY <3>1, <3>3 DEF Reached
      <3>4. CASE b > blk + 1
        BY <3>1, <3>4 DEF Reached
      <3> QED BY <3>1, <3>2, <3>3, <3>4
    <2> QED BY <2>1, <2>2 DEF IInv, Bits, ExposedUse, Untouched
  <1>4. Behind' /\ Scanning' /\ Settled'
    BY DEF IInv, Behind, Scanning, Settled, Succs, BlockTransfer, LiveBefore,
           ExposedUse, Untouched
  <1> QED BY <1>1, <1>2, <1>3, <1>4 DEF IInv

LEMMA LocalEndIInv == IInv /\ LocalEnd => IInv'
  <1> SUFFICES ASSUME IInv, LocalEnd PROVE IInv'
    OBVIOUS
  <1> USE DEF LocalEnd
  <1>0. graph \in Graph
    BY DEF IInv, TypeOK
  <1>1. TypeOK'
    <2>1. 0 \in 0 .. graph.block_count /\ 0 \in 0 .. graph.quad_count
      BY <1>0, GraphFacts
    <2> QED BY <2>1 DEF IInv, TypeOK
  <1>2. Positions'
    BY <1>0, GraphFacts DEF Positions
  <1>3. Bits'
    <2>1. Processed' = Processed
      BY <1>0, GraphFacts DEF IInv, Positions, Processed, QuadIds
    <2>2. ASSUME NEW b \in BlockIds(graph) PROVE Reached(b)' = Reached(b)
      <3>1. b < blk
        BY <1>0, GraphFacts DEF BlockIds
      <3> QED BY <3>1 DEF Reached
    <2> QED BY <2>1, <2>2 DEF IInv, Bits, ExposedUse, Untouched
  <1>4. Behind' /\ Scanning'
    BY DEF IInv, Behind, Scanning, Succs, BlockTransfer, LiveBefore, ExposedUse, Untouched
  <1>5. Settled'
    BY DEF Settled
  <1> QED BY <1>1, <1>2, <1>3, <1>4, <1>5 DEF IInv

-----------------------------------------------------------------------------
(* The global pass *)

LEMMA BitsKept ==
    ASSUME Bits, pc # "local", pc' # "local", graph' = graph, quad' = quad,
           \A b \in BlockIds(graph) : /\ block'[b].b_use = block[b].b_use
                                     /\ block'[b].b_def = block[b].b_def
    PROVE  Bits'
  BY DEF Bits, Processed, Reached, ExposedUse, Untouched, BlockIds, QuadIds

LEMMA TransferFacts ==
    ASSUME TypeOK, NEW b \in BlockIds(graph), NEW L \in SUBSET Reg
    PROVE  /\ BlockTransfer(b, L) \in SUBSET Reg
           /\ \A M \in SUBSET Reg : L \subseteq M => BlockTransfer(b, L) \subseteq BlockTransfer(b, M)
  BY LiveBeforeMonotone, LiveBeforeType DEF BlockTransfer

\* Joining the successors only adds to a live_out, and gives it exactly
\* what the successors have.
LEMMA JoinFacts ==
    ASSUME IInv, NEW b \in BlockIds(graph)
    PROVE  /\ JoinSuccessors(b) = Succs(b)
           /\ block[b].live_out \subseteq Succs(b)
           /\ Succs(b) \in SUBSET Reg
           /\ block[b].live_in \subseteq BlockTransfer(b, Succs(b))
  <1>0. graph \in Graph /\ graph.succ[b] \subseteq BlockIds(graph)
    BY BlockFacts DEF IInv, TypeOK
  <1>1. block[b].live_out \subseteq Succs(b)
    BY DEF IInv, Behind
  <1>2. \A s \in graph.succ[b] : block[s].live_in \in SUBSET Reg
    BY <1>0 DEF IInv, TypeOK
  <1>3. Succs(b) \in SUBSET Reg
    BY <1>2 DEF Succs
  <1>4. block[b].live_in \subseteq BlockTransfer(b, block[b].live_out)
    BY DEF IInv, Behind
  <1>5. block[b].live_out \in SUBSET Reg
    BY DEF IInv, TypeOK
  <1> QED BY <1>1, <1>3, <1>4, <1>5, TransferFacts DEF JoinSuccessors, Succs, IInv

LEMMA EnterBlockIInv == IInv /\ EnterBlock => IInv'
  <1> SUFFICES ASSUME IInv, EnterBlock PROVE IInv'
    OBVIOUS
  <1> USE DEF EnterBlock
  <1> DEFINE old == block[blk]
             new == [old EXCEPT !.live_out = Succs(blk)]
  <1>0. /\ graph \in Graph /\ blk \in BlockIds(graph)
        /\ old \in [b_use : SUBSET Reg, b_def : SUBSET Reg,
                    live_in : SUBSET Reg, live_out : SUBSET Reg]
    BY GraphFacts DEF IInv, TypeOK, BlockIds
  <1>1. /\ block' = [block EXCEPT ![blk] = new]
        /\ live' = Succs(blk) /\ Succs(blk) \in SUBSET Reg
    BY <1>0, JoinFacts DEF IInv, TypeOK
  <1>2. /\ \A b \in BlockIds(graph) \ {blk} : block'[b] = block[b]
        /\ block'[blk] = new
        /\ new \in [b_use : SUBSET Reg, b_def : SUBSET Reg,
                    live_in : SUBSET Reg, live_out : SUBSET Reg]
        /\ new.live_in = old.live_in /\ new.live_out = Succs(blk)
        /\ new.b_use = old.b_use /\ new.b_def = old.b_def
    BY <1>0, <1>1 DEF IInv, TypeOK
  <1>3. quad_index' = graph.first[blk + 1]
    BY <1>0, BlockFacts DEF IInv, Positions, QuadCount
  <1>4. TypeOK'
    BY <1>0, <1>1, <1>2, <1>3, BlockFacts DEF IInv, TypeOK
  <1>5. Positions'
    BY <1>0, <1>3, BlockFacts DEF IInv, Positions
  <1>6. Bits'
    BY <1>0, <1>2, BitsKept DEF IInv
  <1>7. \A b \in BlockIds(graph) : Succs(b)' = Succs(b)
    <2>1. \A s \in BlockIds(graph) : block'[s].live_in = block[s].live_in
      BY <1>2
    <2> QED BY <1>0, <2>1, BlockFacts DEF Succs
  <1>9. Behind'
    <2>1. ASSUME NEW b \in BlockIds(graph)
          PROVE  /\ block'[b].live_in \subseteq BlockTransfer(b, block'[b].live_out)
                 /\ block'[b].live_out \subseteq Succs(b)
      BY <1>0, <1>2, JoinFacts DEF IInv, Behind
    <2>2. /\ graph' = graph
          /\ \A b \in BlockIds(graph) :
                BlockTransfer(b, block[b].live_out)' = BlockTransfer(b, block'[b].live_out)
      BY DEF BlockTransfer, LiveBefore, ExposedUse, Untouched
    <2> QED BY <1>7, <2>1, <2>2 DEF Behind
  <1>10. Scanning'
    <2>1. LiveBefore(quad_index', graph.first[blk + 1], Succs(blk)) = Succs(blk)
      BY <1>0, <1>1, <1>3, BlockFacts, LiveBeforeNone
    <2>2. LiveBefore(quad_index, graph.first[blk + 1], block[blk].live_out)'
            = LiveBefore(quad_index', graph.first[blk + 1], block'[blk].live_out)
      BY DEF LiveBefore, ExposedUse, Untouched
    <2> QED BY <1>0, <1>1, <1>2, <1>7, <2>1, <2>2 DEF Scanning
  <1>11. Settled'
    <2>1. ASSUME ~changed, NEW b \in 0 .. blk - 1 PROVE Solved(b)'
      <3>1. Solved(b) /\ b \in BlockIds(graph) /\ b # blk
        BY <1>0, <2>1, GraphFacts DEF IInv, Settled, BlockIds
      <3>2. BlockTransfer(b, block[b].live_out)' = BlockTransfer(b, block'[b].live_out)
        BY DEF BlockTransfer, LiveBefore, ExposedUse, Untouched
      <3> QED BY <1>2, <1>7, <3>1, <3>2 DEF Solved
    <2> QED BY <2>1 DEF Settled
  <1> QED BY <1>4, <1>5, <1>6, <1>9, <1>10, <1>11 DEF IInv

LEMMA ScanQuadIInv == IInv /\ ScanQuad => IInv'
  <1> SUFFICES ASSUME IInv, ScanQuad PROVE IInv'
    OBVIOUS
  <1> USE DEF ScanQuad, StepBack
  <1> DEFINE lo == quad_index - 1
             hi == graph.first[blk + 1]
             out == block[blk].live_out
  <1>0. /\ graph \in Graph /\ blk \in BlockIds(graph) /\ lo \in QuadIds(graph)
        /\ graph.first[blk] <= lo /\ lo < hi /\ hi \in Int /\ graph.first[blk] \in Int
        /\ quad_index = lo + 1 /\ out \in SUBSET Reg
    <2>1. graph \in Graph /\ blk \in BlockIds(graph)
      BY GraphFacts DEF IInv, TypeOK, Positions, BlockIds
    <2> QED BY <2>1, BlockFacts DEF IInv, TypeOK, Positions, QuadIds
  <1>1. quad[lo].def = graph.quads[lo].result /\ quad[lo].use = graph.quads[lo].reads
    BY <1>0, QuadFacts DEF IInv, Bits, Processed
  <1>2. live' = LiveBefore(lo, hi, out)
    <2>1. live = LiveBefore(lo + 1, hi, out)
      BY <1>0 DEF IInv, Scanning
    <2> QED BY <1>0, <1>1, <2>1, LiveBeforeStep
  <1>3. TypeOK'
    <2>1. quad_index' \in 0 .. graph.quad_count
      BY <1>0, GraphFacts DEF QuadIds
    <2>2. live' \in SUBSET Reg
      BY <1>2, LiveBeforeType
    <2> QED BY <2>1, <2>2 DEF IInv, TypeOK
  <1>4. Positions'
    BY <1>0 DEF IInv, Positions, QuadIds
  <1>5. Bits'
    BY BitsKept DEF IInv
  <1>6. Behind' /\ Settled'
    BY DEF IInv, Behind, Settled, Solved, Succs, BlockTransfer, LiveBefore,
           ExposedUse, Untouched
  <1>7. Scanning'
    <2>1. LiveBefore(quad_index, graph.first[blk + 1], block[blk].live_out)'
            = LiveBefore(quad_index', graph.first[blk + 1], block[blk].live_out)
      BY DEF LiveBefore, ExposedUse, Untouched
    <2> QED BY <1>2, <2>1 DEF IInv, Scanning, Succs
  <1> QED BY <1>3, <1>4, <1>5, <1>6, <1>7 DEF IInv

\* Giving block b the solution of its equations: what both an empty block and
\* the end of a scan do, and what keeps or clears the changed flag.
LEMMA SolveBlock ==
    ASSUME IInv, pc \in {"sweep", "scan"}, NEW b \in BlockIds(graph), b = blk,
           graph' = graph, quad' = quad, pc' = "sweep", blk' = blk + 1,
           block' \in [BlockIds(graph) -> [b_use : SUBSET Reg, b_def : SUBSET Reg,
                         live_in : SUBSET Reg, live_out : SUBSET Reg]],
           \A c \in BlockIds(graph) \ {b} : block'[c] = block[c],
           block'[b].b_use = block[b].b_use,
           block'[b].b_def = block[b].b_def,
           block'[b].live_out = Succs(b),
           block'[b].live_in = BlockTransfer(b, Succs(b)),
           changed' = (changed \/ block[b].live_in # block'[b].live_in)
    PROVE  Bits' /\ Behind' /\ Settled'
  <1>0. graph \in Graph
    BY DEF IInv, TypeOK
  <1>1. Bits'
    BY BitsKept DEF IInv
  <1>2. \A c \in BlockIds(graph) : block[c].live_in \subseteq block'[c].live_in
    BY JoinFacts
  <1>3. \A c \in BlockIds(graph) : Succs(c) \subseteq Succs(c)'
    BY <1>0, <1>2, BlockFacts DEF Succs
  <1>4. \A c \in BlockIds(graph) :
           BlockTransfer(c, block[c].live_out)' = BlockTransfer(c, block'[c].live_out)
    BY DEF BlockTransfer, LiveBefore, ExposedUse, Untouched
  <1>5. Behind'
    <2>1. ASSUME NEW c \in BlockIds(graph)
          PROVE  /\ block'[c].live_in \subseteq BlockTransfer(c, block'[c].live_out)
                 /\ block'[c].live_out \subseteq Succs(c)'
      <3>1. CASE c = b
        BY <1>3, <3>1
      <3>2. CASE c # b
        BY <1>3, <3>2 DEF IInv, Behind
      <3> QED BY <3>1, <3>2
    <2> QED BY <1>4, <2>1 DEF Behind
  <1>6. Settled'
    <2> SUFFICES ASSUME ~changed', NEW c \in 0 .. blk PROVE Solved(c)'
      <3>1. 0 .. blk' - 1 = 0 .. blk
        BY DEF BlockIds
      <3> QED BY <3>1 DEF Settled
    <2>1. c \in BlockIds(graph)
      BY <1>0, GraphFacts DEF BlockIds
    <2>2. ~changed /\ \A d \in BlockIds(graph) : block'[d].live_in = block[d].live_in
      BY DEF IInv, TypeOK
    <2>3. Succs(c)' = Succs(c)
      <3>1. graph.succ[c] \subseteq BlockIds(graph)
        BY <1>0, <2>1, BlockFacts
      <3>2. \A d \in graph.succ[c] : block'[d].live_in = block[d].live_in
        BY <2>2, <3>1
      <3> QED BY <3>2 DEF Succs
    <2>4. CASE c = b
      BY <1>4, <2>1, <2>3, <2>4 DEF Solved
    <2>5. CASE c # b
      <3>1. Solved(c)
        BY <2>2, <2>5, <2>1 DEF IInv, Settled, BlockIds
      <3> QED BY <1>4, <2>1, <2>3, <2>5, <3>1 DEF Solved
    <2> QED BY <2>4, <2>5
  <1> QED BY <1>1, <1>5, <1>6

LEMMA EmptyBlockIInv == IInv /\ EmptyBlock => IInv'
  <1> SUFFICES ASSUME IInv, EmptyBlock PROVE IInv'
    OBVIOUS
  <1> USE DEF EmptyBlock, Raise
  <1> DEFINE old == block[blk]
             new == [old EXCEPT !.live_out = Succs(blk), !.live_in = Succs(blk)]
  <1>0. /\ graph \in Graph /\ blk \in BlockIds(graph)
        /\ old \in [b_use : SUBSET Reg, b_def : SUBSET Reg,
                    live_in : SUBSET Reg, live_out : SUBSET Reg]
    BY GraphFacts DEF IInv, TypeOK, BlockIds
  <1>1. JoinSuccessors(blk) = Succs(blk) /\ Succs(blk) \in SUBSET Reg
    BY <1>0, JoinFacts
  <1>2. BlockTransfer(blk, Succs(blk)) = Succs(blk)
    <2>1. graph.first[blk] = graph.first[blk + 1] /\ graph.first[blk] \in Int
      BY <1>0, BlockFacts DEF QuadCount
    <2> QED BY <1>1, <2>1, LiveBeforeNone DEF BlockTransfer
  <1>3. block' = [block EXCEPT ![blk] = new]
    BY <1>0, <1>1 DEF IInv, TypeOK
  <1>4. /\ \A b \in BlockIds(graph) \ {blk} : block'[b] = block[b]
        /\ block'[blk] = new
        /\ new \in [b_use : SUBSET Reg, b_def : SUBSET Reg,
                    live_in : SUBSET Reg, live_out : SUBSET Reg]
        /\ new.live_in = Succs(blk) /\ new.live_out = Succs(blk)
        /\ new.b_use = old.b_use /\ new.b_def = old.b_def
        /\ block' \in [BlockIds(graph) -> [b_use : SUBSET Reg, b_def : SUBSET Reg,
                         live_in : SUBSET Reg, live_out : SUBSET Reg]]
    BY <1>0, <1>1, <1>3 DEF IInv, TypeOK
  <1>5. Bits' /\ Behind' /\ Settled'
    BY <1>0, <1>1, <1>2, <1>4, SolveBlock
  <1>6. TypeOK'
    BY <1>0, <1>4, BlockFacts DEF IInv, TypeOK
  <1>7. Positions'
    BY <1>0, BlockFacts DEF IInv, Positions, QuadCount
  <1> QED BY <1>5, <1>6, <1>7 DEF IInv, Scanning

LEMMA CommitBlockIInv == IInv /\ CommitBlock => IInv'
  <1> SUFFICES ASSUME IInv, CommitBlock PROVE IInv'
    OBVIOUS
  <1> USE DEF CommitBlock, Raise
  <1> DEFINE old == block[blk]
             new == [old EXCEPT !.live_in = live]
  <1>0. /\ graph \in Graph /\ blk \in BlockIds(graph)
        /\ old \in [b_use : SUBSET Reg, b_def : SUBSET Reg,
                    live_in : SUBSET Reg, live_out : SUBSET Reg]
    BY GraphFacts DEF IInv, TypeOK, Positions, BlockIds
  <1>1. old.live_out = Succs(blk) /\ live = BlockTransfer(blk, Succs(blk))
    BY DEF IInv, Positions, Scanning, BlockTransfer
  <1>2. block' = [block EXCEPT ![blk] = new]
    BY <1>0 DEF IInv, TypeOK
  <1>3. /\ \A b \in BlockIds(graph) \ {blk} : block'[b] = block[b]
        /\ block'[blk] = new
        /\ new \in [b_use : SUBSET Reg, b_def : SUBSET Reg,
                    live_in : SUBSET Reg, live_out : SUBSET Reg]
        /\ new.live_in = live /\ new.live_out = Succs(blk)
        /\ new.b_use = old.b_use /\ new.b_def = old.b_def
        /\ block' \in [BlockIds(graph) -> [b_use : SUBSET Reg, b_def : SUBSET Reg,
                         live_in : SUBSET Reg, live_out : SUBSET Reg]]
    <2>1. live \in SUBSET Reg
      BY DEF IInv, TypeOK
    <2> QED BY <1>0, <1>1, <1>2, <2>1 DEF IInv, TypeOK
  <1>4. Bits' /\ Behind' /\ Settled'
    BY <1>0, <1>1, <1>3, SolveBlock
  <1>5. TypeOK'
    BY <1>0, <1>3, BlockFacts DEF IInv, TypeOK, Positions, QuadCount
  <1>6. Positions'
    BY <1>0, BlockFacts DEF IInv, Positions, QuadCount
  <1> QED BY <1>4, <1>5, <1>6 DEF IInv, Scanning

LEMMA SweepEndIInv == IInv /\ (NextSweep \/ Finish) => IInv'
  <1> SUFFICES ASSUME IInv, NextSweep \/ Finish PROVE IInv'
    OBVIOUS
  <1> USE DEF NextSweep, Finish
  <1>0. graph \in Graph
    BY DEF IInv, TypeOK
  <1>1. TypeOK' /\ Positions'
    <2>1. /\ 0 \in 0 .. graph.block_count /\ 0 \in 0 .. graph.quad_count
          /\ graph.first[0] = 0
      BY <1>0, GraphFacts
    <2> QED BY <2>1 DEF IInv, TypeOK, Positions
  <1>2. Bits'
    BY BitsKept DEF IInv
  <1>3. Behind' /\ Scanning'
    BY DEF IInv, Behind, Scanning, Succs, BlockTransfer, LiveBefore, ExposedUse, Untouched
  <1>4. Settled'
    <2>1. CASE NextSweep
      BY <2>1 DEF Settled
    <2>2. CASE Finish
      <3>1. \A b \in BlockIds(graph) : Solved(b)
        BY <2>2 DEF IInv, Settled, BlockIds
      <3> QED BY <2>2, <3>1 DEF Settled, Solved, Succs, BlockTransfer, LiveBefore,
                               ExposedUse, Untouched
    <2> QED BY <2>1, <2>2
  <1> QED BY <1>1, <1>2, <1>3, <1>4 DEF IInv

LEMMA StutterIInv == IInv /\ UNCHANGED vars => IInv'
  BY DEF IInv, vars, TypeOK, Positions, Bits, Processed, Reached, Behind, Scanning,
         Settled, Solved, Succs, BlockTransfer, LiveBefore, ExposedUse, Untouched

LEMMA NextIInv == IInv /\ [Next]_vars => IInv'
  BY LocalQuadIInv, LocalNextBlockIInv, LocalEndIInv, EnterBlockIInv, EmptyBlockIInv,
     ScanQuadIInv, CommitBlockIInv, SweepEndIInv, StutterIInv DEF Next

LEMMA SpecIInv == Spec => []IInv
  BY InitIInv, NextIInv, PTL DEF Spec

-----------------------------------------------------------------------------
(* The theorems *)

\* Every variable of the analysis keeps its type: in particular no index of
\* the two passes ever leaves the quad array (the arrays quad and block of
\* compute_local_liveness and compute_global_liveness are not overrun).
THEOREM TypeCorrect == Spec => []TypeOK
  <1>1. IInv => TypeOK
    BY DEF IInv
  <1> QED BY <1>1, SpecIInv, PTL

\* When the do-while loop of compute_global_liveness stops, live_in and
\* live_out solve the dataflow equations of every block.
THEOREM ReachesFixpoint == Spec => []Fixpoint
  <1>1. IInv => Fixpoint
    BY DEF IInv, Fixpoint, Settled, Solved, Succs
  <1> QED BY <1>1, SpecIInv, PTL

\* The block summaries of compute_local_liveness give the transfer function
\* that block_live_in_changed computes quad by quad.
THEOREM SummariesAgree == Spec => []SummaryAgrees
  <1>1. IInv => SummaryAgrees
    <2> SUFFICES ASSUME IInv, pc = "done", NEW b \in BlockIds(graph)
                 PROVE  block[b].live_in =
                          block[b].b_use \cup (block[b].live_out \ block[b].b_def)
      BY DEF SummaryAgrees
    <2> DEFINE lo == graph.first[b]
               hi == graph.first[b + 1]
    <2>1. /\ block[b].b_use = {r \in Reg : ExposedUse(lo, hi, r)}
          /\ block[b].b_def = {r \in Reg : ~Untouched(lo, hi, r)}
      BY DEF IInv, Bits, Reached
    <2>2. block[b].live_in = LiveBefore(lo, hi, block[b].live_out)
      BY DEF IInv, Settled, Solved, BlockTransfer
    <2>3. block[b].live_out \subseteq Reg
      BY DEF IInv, TypeOK
    <2> QED BY <2>1, <2>2, <2>3 DEF LiveBefore
  <1> QED BY <1>1, SpecIInv, PTL

\* No step of the analysis takes a register out of a live_in or live_out,
\* although bit_vector_copy overwrites live_in.
THEOREM GrowsOnly == Spec => OnlyGrows
  <1> DEFINE Grows == \A b \in BlockIds(graph) :
                        /\ block[b].live_in \subseteq block'[b].live_in
                        /\ block[b].live_out \subseteq block'[b].live_out
  <1>1. IInv /\ [Next]_vars => [Grows]_vars
    <2> SUFFICES ASSUME IInv, Next PROVE Grows
      OBVIOUS
    <2>0. graph \in Graph /\ (pc # "done" /\ blk < graph.block_count => blk \in BlockIds(graph))
      BY GraphFacts DEF IInv, TypeOK, BlockIds
    <2>1. CASE LocalQuad
      <3>1. \A b \in BlockIds(graph) : /\ block'[b].live_in = block[b].live_in
                                      /\ block'[b].live_out = block[b].live_out
        BY <2>0, <2>1 DEF LocalQuad, IInv, TypeOK
      <3> QED BY <3>1
    <2>2. CASE EnterBlock
      <3>1. /\ \A b \in BlockIds(graph) : block'[b].live_in = block[b].live_in
            /\ \A b \in BlockIds(graph) \ {blk} : block'[b].live_out = block[b].live_out
            /\ block'[blk].live_out = JoinSuccessors(blk)
        BY <2>0, <2>2 DEF EnterBlock, IInv, TypeOK
      <3> QED BY <2>0, <3>1, JoinFacts
    <2>3. CASE EmptyBlock
      <3>1. /\ \A b \in BlockIds(graph) \ {blk} : /\ block'[b].live_in = block[b].live_in
                                                /\ block'[b].live_out = block[b].live_out
            /\ block'[blk].live_out = JoinSuccessors(blk)
            /\ block'[blk].live_in = JoinSuccessors(blk)
            /\ blk \in BlockIds(graph)
        BY <2>0, <2>3 DEF EmptyBlock, IInv, TypeOK
      <3>2. BlockTransfer(blk, Succs(blk)) = Succs(blk)
        <4>1. graph.first[blk] = graph.first[blk + 1] /\ graph.first[blk] \in Int
          BY <2>0, <2>3, BlockFacts DEF EmptyBlock, QuadCount
        <4> QED BY <2>0, <3>1, <4>1, JoinFacts, LiveBeforeNone DEF BlockTransfer
      <3> QED BY <3>1, <3>2, JoinFacts
    <2>4. CASE CommitBlock
      <3>1. /\ \A b \in BlockIds(graph) : block'[b].live_out = block[b].live_out
            /\ \A b \in BlockIds(graph) \ {blk} : block'[b].live_in = block[b].live_in
            /\ block'[blk].live_in = live
            /\ blk \in BlockIds(graph)
        BY <2>0, <2>4 DEF CommitBlock, IInv, TypeOK, Positions
      <3>2. live = BlockTransfer(blk, Succs(blk))
        BY <2>4 DEF CommitBlock, IInv, Positions, Scanning, BlockTransfer
      <3> QED BY <3>1, <3>2, JoinFacts
    <2>5. CASE LocalNextBlock \/ LocalEnd \/ ScanQuad \/ NextSweep \/ Finish
      BY <2>5 DEF LocalNextBlock, LocalEnd, ScanQuad, NextSweep, Finish
    <2> QED BY <2>1, <2>2, <2>3, <2>4, <2>5 DEF Next
  <1>2. Spec => [][Grows]_vars
    BY <1>1, SpecIInv, PTL DEF Spec
  <1> QED BY <1>2 DEF OnlyGrows

-----------------------------------------------------------------------------
(* Liveness in terms of paths *)

\* Induction over path lengths: a set of naturals has a least element.
LEMMA LeastElement ==
    ASSUME NEW S \in SUBSET Nat, S # {}
    PROVE  \E m \in S : \A k \in S : m <= k
  <1> DEFINE R == OpToRel(<, Nat)
  <1>1. PICK m \in S : \A k \in S : ~ (<<k, m>> \in R)
    BY NatLessThanWellFounded, WFMin
  <1>2. ASSUME NEW k \in S PROVE m <= k
    <2>1. ~ (k < m)
      BY <1>1 DEF OpToRel
    <2> QED BY <2>1
  <1> QED BY <1>2

\* The paths of k edges that start at b, said without recursion.
Walks(b, k) ==
    {p \in [1 .. k + 1 -> BlockIds(graph)] :
        p[1] = b /\ \A i \in 1 .. k : p[i + 1] \in graph.succ[p[i]]}

LEMMA AppendWalk ==
    ASSUME NEW B, NEW p \in Seq(B), NEW s \in B
    PROVE  /\ Append(p, s) \in [1 .. Len(p) + 1 -> B]
           /\ \A i \in 1 .. Len(p) : Append(p, s)[i] = p[i]
           /\ Append(p, s)[Len(p) + 1] = s
  <1>1. Append(p, s) \in Seq(B) /\ Len(Append(p, s)) = Len(p) + 1
    BY AppendProperties
  <1>2. Len(p) \in Nat /\ Append(p, s) \in [1 .. Len(p) + 1 -> B]
    BY <1>1, LenProperties
  <1> QED BY <1>2, AppendProperties

LEMMA WalksStep ==
    ASSUME graph \in Graph, NEW b \in BlockIds(graph), NEW k \in Nat \ {0}
    PROVE  Walks(b, k) =
             UNION {{Append(p, s) : s \in graph.succ[p[k]]} : p \in Walks(b, k - 1)}
  <1> DEFINE B == BlockIds(graph)
             R == UNION {{Append(p, s) : s \in graph.succ[p[k]]} : p \in Walks(b, k - 1)}
  <1>1. ASSUME NEW p \in Walks(b, k - 1), NEW s \in graph.succ[p[k]]
        PROVE  Append(p, s) \in Walks(b, k)
    <2>1. p \in [1 .. k -> B] /\ p[1] = b /\ \A i \in 1 .. k - 1 : p[i + 1] \in graph.succ[p[i]]
      BY DEF Walks
    <2>2. p[k] \in B /\ s \in B
      BY <2>1, BlockFacts
    <2>3. p \in Seq(B) /\ Len(p) = k
      BY <2>1
    <2>4. /\ Append(p, s) \in [1 .. k + 1 -> B]
          /\ \A i \in 1 .. k : Append(p, s)[i] = p[i]
          /\ Append(p, s)[k + 1] = s
      BY <2>2, <2>3, AppendWalk
    <2>5. ASSUME NEW i \in 1 .. k PROVE Append(p, s)[i + 1] \in graph.succ[Append(p, s)[i]]
      <3>1. CASE i = k
        BY <2>4, <3>1
      <3>2. CASE i # k
        BY <2>1, <2>4, <3>2
      <3> QED BY <3>1, <3>2
    <2> HIDE DEF B
    <2>6. Append(p, s)[1] = b
      BY <2>1, <2>4
    <2> QED BY <2>4, <2>5, <2>6 DEF Walks, B
  <1>2. ASSUME NEW q \in Walks(b, k) PROVE q \in R
    <2> DEFINE p == [i \in 1 .. k |-> q[i]]
    <2>1. q \in [1 .. k + 1 -> B] /\ q[1] = b /\ \A i \in 1 .. k : q[i + 1] \in graph.succ[q[i]]
      BY DEF Walks
    <2>2. p \in [1 .. k -> B] /\ p \in Seq(B) /\ Len(p) = k
      BY <2>1
    <2>3. p \in Walks(b, k - 1)
      BY <2>1, <2>2 DEF Walks
    <2>4. q[k + 1] \in graph.succ[p[k]]
      BY <2>1
    <2>5. Append(p, q[k + 1]) = q
      <3> DEFINE a == Append(p, q[k + 1])
      <3>1. q[k + 1] \in B
        BY <2>1
      <3>2. a \in [1 .. k + 1 -> B] /\ (\A i \in 1 .. k : a[i] = q[i]) /\ a[k + 1] = q[k + 1]
        <4>1. k \in Nat /\ p \in Seq(B) /\ Len(p) = k /\ \A i \in 1 .. k : p[i] = q[i]
          BY <2>2
        <4> HIDE DEF p
        <4> QED BY <3>1, <4>1, AppendWalk
      <3> HIDE DEF a
      <3>3. \A i \in 1 .. k + 1 : a[i] = q[i]
        BY <3>2
      <3> QED BY <2>1, <3>2, <3>3
    <2> HIDE DEF p
    <2> QED BY <2>3, <2>4, <2>5
  <1>3. ASSUME NEW q \in R PROVE q \in Walks(b, k)
    <2>1. PICK p \in Walks(b, k - 1) : \E s \in graph.succ[p[k]] : q = Append(p, s)
      OBVIOUS
    <2> QED BY <1>1, <2>1
  <1> QED BY <1>2, <1>3

\* The recursive function of Paths computes them.
LEMMA PathsAreWalks ==
    ASSUME graph \in Graph, NEW b \in BlockIds(graph), NEW n \in Nat
    PROVE  Paths(b, n) = Walks(b, n)
  <1> DEFINE Step(f, k) ==
                IF k = 0 THEN {<<b>>}
                ELSE UNION {{Append(p, s) : s \in graph.succ[p[k]]} : p \in f[k - 1]}
             Solves(f) == f = [k \in 0 .. n |-> Step(f, k)]
             w == [k \in 0 .. n |-> Walks(b, k)]
             path == CHOOSE f : Solves(f)
  <1>1. Solves(w)
    <2>1. Walks(b, 0) = {<<b>>}
      <3>1. <<b>> \in Walks(b, 0)
        BY DEF Walks
      <3>2. ASSUME NEW p \in Walks(b, 0) PROVE p = <<b>>
        BY DEF Walks
      <3> QED BY <3>1, <3>2
    <2>2. ASSUME NEW k \in 0 .. n PROVE Walks(b, k) = Step(w, k)
      <3>1. CASE k = 0
        BY <2>1, <3>1
      <3>2. CASE k # 0
        <4>1. k \in Nat \ {0} /\ w[k - 1] = Walks(b, k - 1)
          BY <3>2
        <4> QED BY <3>2, <4>1, WalksStep
      <3> QED BY <3>1, <3>2
    <2> HIDE DEF Step
    <2> QED BY <2>2
  <1>2. ASSUME NEW f, Solves(f) PROVE f[n] = w[n]
    <2> DEFINE Differ == {k \in 0 .. n : f[k] # w[k]}
    <2>1. SUFFICES ASSUME Differ # {} PROVE FALSE
      BY DEF Differ
    <2>2. PICK k \in Differ : \A j \in Differ : k <= j
      <3>1. Differ \in SUBSET Nat
        OBVIOUS
      <3> HIDE DEF Differ
      <3> QED BY <2>1, <3>1, LeastElement
    <2> HIDE DEF w
    <2>3. k \in 0 .. n /\ f[k] # w[k] /\ \A j \in 0 .. k - 1 : f[j] = w[j]
      BY <2>2
    <2>4. Step(f, k) = Step(w, k)
      <3>1. CASE k = 0
        BY <3>1
      <3>2. CASE k # 0
        <4>1. k - 1 \in 0 .. k - 1
          BY <2>3, <3>2
        <4>2. f[k - 1] = w[k - 1]
          BY <2>3, <4>1
        <4> QED BY <4>2
      <3> QED BY <3>1, <3>2
    <2>5. f[k] = Step(f, k) /\ w[k] = Step(w, k)
      <3> HIDE DEF Step
      <3> QED BY <1>1, <1>2, <2>3
    <2> QED BY <2>3, <2>4, <2>5
  <1>3. Solves(path)
    <2> HIDE DEF Solves, w
    <2> QED BY <1>1
  <1>4. Paths(b, n) = path[n]
    BY DEF Paths
  <1>5. path[n] = w[n]
    <2> HIDE DEF path, w, Solves
    <2> QED BY <1>2, <1>3
  <1> HIDE DEF path
  <1> QED BY <1>4, <1>5

\* Control runs through b without a definition of r; b reads r first.
Passes(b, r) == Untouched(graph.first[b], graph.first[b + 1], r)
Reads(b, r) == ExposedUse(graph.first[b], graph.first[b + 1], r)

\* A path of n edges from b leads to a read of r.
ReadsAfter(b, n, r) ==
    \E p \in Walks(b, n) : Reads(p[n + 1], r) /\ \A i \in 1 .. n : Passes(p[i], r)

LEMMA SomePathMeans ==
    ASSUME graph \in Graph, NEW b \in BlockIds(graph), NEW r
    PROVE  SomePathReads(b, r) <=> \E n \in 0 .. graph.block_count - 1 : ReadsAfter(b, n, r)
  <1>1. \A n \in 0 .. graph.block_count - 1 : Paths(b, n) = Walks(b, n)
    BY PathsAreWalks, GraphFacts
  <1> QED BY <1>1 DEF SomePathReads, ReadsAfter, Passes, Reads

LEMMA ReadsAtOnce ==
    ASSUME NEW b \in BlockIds(graph), NEW r
    PROVE  ReadsAfter(b, 0, r) <=> Reads(b, r)
  <1>1. ASSUME Reads(b, r) PROVE ReadsAfter(b, 0, r)
    <2> DEFINE p == [i \in 1 .. 1 |-> b]
    <2>1. p \in Walks(b, 0) /\ p[1] = b
      BY DEF Walks
    <2> QED BY <1>1, <2>1 DEF ReadsAfter
  <1>2. ASSUME ReadsAfter(b, 0, r) PROVE Reads(b, r)
    <2>1. PICK p \in Walks(b, 0) : Reads(p[0 + 1], r)
      BY <1>2 DEF ReadsAfter
    <2> QED BY <2>1 DEF Walks
  <1> QED BY <1>1, <1>2

\* A path is its first edge and the path behind it.
LEMMA ReadsBehind ==
    ASSUME graph \in Graph, NEW b \in BlockIds(graph), NEW n \in Nat, NEW r
    PROVE  ReadsAfter(b, n + 1, r) <=>
             Passes(b, r) /\ \E s \in graph.succ[b] : ReadsAfter(s, n, r)
  <1> DEFINE B == BlockIds(graph)
  <1>1. ASSUME ReadsAfter(b, n + 1, r)
        PROVE  Passes(b, r) /\ \E s \in graph.succ[b] : ReadsAfter(s, n, r)
    <2>1. PICK p \in Walks(b, n + 1) :
              Reads(p[(n + 1) + 1], r) /\ \A i \in 1 .. n + 1 : Passes(p[i], r)
      BY <1>1 DEF ReadsAfter
    <2>2. /\ p \in [1 .. (n + 1) + 1 -> B] /\ p[1] = b
          /\ \A i \in 1 .. n + 1 : p[i + 1] \in graph.succ[p[i]]
      BY DEF Walks
    <2> DEFINE q == [i \in 1 .. n + 1 |-> p[i + 1]]
    <2>3. \A i \in 1 .. n + 1 : i + 1 \in 1 .. (n + 1) + 1 /\ q[i] = p[i + 1]
      OBVIOUS
    <2>4. q \in [1 .. n + 1 -> B] /\ q[1] = p[2]
      BY <2>2, <2>3
    <2> HIDE DEF q
    <2>5. ASSUME NEW i \in 1 .. n PROVE q[i + 1] \in graph.succ[q[i]] /\ Passes(q[i], r)
      <3>1. i + 1 \in 1 .. n + 1 /\ i \in 1 .. n + 1
        OBVIOUS
      <3> QED BY <2>1, <2>2, <2>3, <3>1
    <2>6. q \in Walks(p[2], n)
      BY <2>4, <2>5 DEF Walks
    <2>7. Reads(q[n + 1], r)
      BY <2>1, <2>3
    <2>8. ReadsAfter(p[2], n, r)
      BY <2>5, <2>6, <2>7 DEF ReadsAfter
    <2>9. 1 \in 1 .. n + 1 /\ 1 + 1 = 2
      OBVIOUS
    <2>10. p[2] \in graph.succ[b] /\ Passes(b, r)
      BY <2>1, <2>2, <2>9
    <2> QED BY <2>8, <2>10
  <1>2. ASSUME Passes(b, r), NEW s \in graph.succ[b], ReadsAfter(s, n, r)
        PROVE  ReadsAfter(b, n + 1, r)
    <2>1. PICK q \in Walks(s, n) : Reads(q[n + 1], r) /\ \A i \in 1 .. n : Passes(q[i], r)
      BY <1>2 DEF ReadsAfter
    <2>2. /\ q \in [1 .. n + 1 -> B] /\ q[1] = s
          /\ \A i \in 1 .. n : q[i + 1] \in graph.succ[q[i]]
      BY DEF Walks
    <2> DEFINE p == [i \in 1 .. (n + 1) + 1 |-> IF i = 1 THEN b ELSE q[i - 1]]
    <2>3. p[1] = b /\ \A i \in 1 .. n + 1 : p[i + 1] = q[i]
      OBVIOUS
    <2>4. p \in [1 .. (n + 1) + 1 -> B]
      <3>1. \A i \in 1 .. (n + 1) + 1 : i # 1 => i - 1 \in 1 .. n + 1
        OBVIOUS
      <3> QED BY <2>2, <3>1
    <2> HIDE DEF p
    <2>5. ASSUME NEW i \in 1 .. n + 1 PROVE p[i + 1] \in graph.succ[p[i]] /\ Passes(p[i], r)
      <3>1. CASE i = 1
        BY <1>2, <2>2, <2>3, <3>1
      <3>2. CASE i # 1
        <4>1. i - 1 \in 1 .. n /\ (i - 1) + 1 = i
          BY <3>2
        <4>2. p[i] = q[i - 1] /\ p[i + 1] = q[i]
          BY <2>3, <4>1
        <4> QED BY <2>1, <2>2, <4>1, <4>2
      <3> QED BY <3>1, <3>2
    <2>6. p \in Walks(b, n + 1)
      BY <2>3, <2>4, <2>5 DEF Walks
    <2>7. Reads(p[(n + 1) + 1], r)
      BY <2>1, <2>3
    <2> QED BY <2>5, <2>6, <2>7 DEF ReadsAfter
  <1> QED BY <1>1, <1>2

\* c is exactly k edges away from a read of r.
Distance(c, k, r) == ReadsAfter(c, k, r) /\ \A j \in 0 .. k - 1 : ~ReadsAfter(c, j, r)

\* On the way from a block at distance m every smaller distance occurs.
LEMMA DistancesOccur ==
    ASSUME graph \in Graph, NEW r, NEW b \in BlockIds(graph), NEW m \in Nat, Distance(b, m, r)
    PROVE  \A k \in 0 .. m : \E c \in BlockIds(graph) : Distance(c, k, r)
  <1> DEFINE At(k) == \E c \in BlockIds(graph) : Distance(c, k, r)
             Missed == {j \in 0 .. m : ~At(m - j)}
  <1>1. ASSUME NEW k \in 0 .. m, k # 0, At(k) PROVE At(k - 1)
    <2>1. PICK c \in BlockIds(graph) : Distance(c, k, r)
      BY <1>1
    <2>2. k - 1 \in Nat /\ (k - 1) + 1 = k
      BY <1>1
    <2>3. PICK s \in graph.succ[c] : ReadsAfter(s, k - 1, r)
      BY <2>1, <2>2, ReadsBehind DEF Distance
    <2>4. Passes(c, r)
      BY <2>1, <2>2, ReadsBehind DEF Distance
    <2>5. s \in BlockIds(graph)
      BY BlockFacts
    <2>6. ASSUME NEW j \in 0 .. (k - 1) - 1, ReadsAfter(s, j, r) PROVE FALSE
      <3>1. j \in Nat /\ j + 1 \in 0 .. k - 1
        BY <2>2
      <3>2. ReadsAfter(c, j + 1, r)
        BY <2>4, <2>6, <3>1, ReadsBehind
      <3> QED BY <2>1, <3>1, <3>2 DEF Distance
    <2> QED BY <2>3, <2>5, <2>6 DEF Distance
  <1>2. At(m)
    OBVIOUS
  <1> HIDE DEF At
  <1>3. Missed = {}
    <2> SUFFICES ASSUME Missed # {} PROVE FALSE
      OBVIOUS
    <2>1. PICK j \in Missed : \A i \in Missed : j <= i
      <3>1. Missed \in SUBSET Nat
        OBVIOUS
      <3> HIDE DEF Missed
      <3> QED BY <3>1, LeastElement
    <2>2. j \in 0 .. m /\ ~At(m - j) /\ m - 0 = m
      BY <2>1
    <2>3. j # 0
      BY <1>2, <2>2
    <2>4. j - 1 \in 0 .. m /\ j - 1 \notin Missed
      BY <2>1, <2>2, <2>3
    <2>5. At(m - (j - 1))
      BY <2>4
    <2>6. m - (j - 1) \in 0 .. m /\ m - (j - 1) # 0 /\ (m - (j - 1)) - 1 = m - j
      BY <2>2, <2>3
    <2> QED BY <1>1, <2>2, <2>5, <2>6
  <1>4. ASSUME NEW k \in 0 .. m PROVE At(k)
    <2>1. m - k \in 0 .. m /\ m - (m - k) = k
      OBVIOUS
    <2> QED BY <1>3, <2>1
  <1> QED BY <1>4 DEF At

\* A read that some path reaches is reached by one that meets no block twice,
\* so the paths shorter than the number of blocks suffice.
LEMMA ShortPathsSuffice ==
    ASSUME graph \in Graph, NEW b \in BlockIds(graph), NEW n \in Nat, NEW r,
           ReadsAfter(b, n, r)
    PROVE  SomePathReads(b, r)
  <1> DEFINE Lengths == {k \in Nat : ReadsAfter(b, k, r)}
  <1>1. PICK m \in Lengths : \A k \in Lengths : m <= k
    <2>1. Lengths \in SUBSET Nat /\ Lengths # {}
      OBVIOUS
    <2> HIDE DEF Lengths
    <2> QED BY <2>1, LeastElement
  <1>2. m \in Nat /\ Distance(b, m, r)
    BY <1>1 DEF Distance
  <1> DEFINE f == [k \in 0 .. m |-> CHOOSE c \in BlockIds(graph) : Distance(c, k, r)]
  <1>3. \A k \in 0 .. m : f[k] \in BlockIds(graph) /\ Distance(f[k], k, r)
    <2>1. \A k \in 0 .. m : \E c \in BlockIds(graph) : Distance(c, k, r)
      BY <1>2, DistancesOccur
    <2> QED BY <2>1
  <1>4. f \in [0 .. m -> BlockIds(graph)]
    BY <1>3
  <1> HIDE DEF f
  <1>5. ASSUME NEW x \in 0 .. m, NEW y \in 0 .. m, f[x] = f[y], x < y PROVE FALSE
    <2>1. x \in 0 .. y - 1
      BY <1>5
    <2> QED BY <1>3, <1>5, <2>1 DEF Distance
  <1>6. ASSUME NEW x \in 0 .. m, NEW y \in 0 .. m, f[x] = f[y] PROVE x = y
    <2>1. x < y \/ y < x \/ x = y
      BY <1>2
    <2> QED BY <1>5, <1>6, <2>1
  <1>7. m <= graph.block_count - 1
    <2> SUFFICES ASSUME graph.block_count < m + 1 PROVE FALSE
      BY <1>2, GraphFacts
    <2>1. IsFiniteSet(0 .. m) /\ Cardinality(0 .. m) = m + 1
      BY <1>2, FS_Interval
    <2>2. /\ IsFiniteSet(BlockIds(graph))
          /\ Cardinality(BlockIds(graph)) = graph.block_count
      <3>1. graph.block_count \in Nat \ {0}
        BY GraphFacts
      <3>2. /\ 0 \in Int /\ graph.block_count - 1 \in Int /\ ~(0 > graph.block_count - 1)
            /\ graph.block_count - 1 - 0 + 1 = graph.block_count
        BY <3>1
      <3> QED BY <3>2, FS_Interval DEF BlockIds
    <2>3. \E x, y \in 0 .. m : x # y /\ f[x] = f[y]
      BY <1>4, <2>1, <2>2, FS_PigeonHole
    <2> QED BY <1>6, <2>3
  <1>8. m \in 0 .. graph.block_count - 1
    BY <1>2, <1>7, GraphFacts
  <1> QED BY <1>2, <1>8, SomePathMeans DEF Distance

\* The registers that are live at the entry of b.
LiveAt(b) == {r \in Reg : SomePathReads(b, r)}

\* Liveness satisfies the equations of the analysis ...
LEMMA LiveAtBefore ==
    ASSUME graph \in Graph, NEW b \in BlockIds(graph)
    PROVE  BlockTransfer(b, UNION {LiveAt(s) : s \in graph.succ[b]}) \subseteq LiveAt(b)
  <1> DEFINE L == UNION {LiveAt(s) : s \in graph.succ[b]}
  <1> SUFFICES ASSUME NEW r \in BlockTransfer(b, L) PROVE r \in LiveAt(b)
    OBVIOUS
  <1>1. r \in Reg /\ (Reads(b, r) \/ (r \in L /\ Passes(b, r)))
    BY DEF BlockTransfer, LiveBefore, Reads, Passes
  <1>2. CASE Reads(b, r)
    BY <1>1, <1>2, ReadsAtOnce, ShortPathsSuffice DEF LiveAt
  <1>3. CASE r \in L /\ Passes(b, r)
    <2>1. PICK s \in graph.succ[b] : r \in LiveAt(s)
      BY <1>3
    <2>2. s \in BlockIds(graph)
      BY BlockFacts
    <2>3. PICK n \in 0 .. graph.block_count - 1 : ReadsAfter(s, n, r)
      BY <2>1, <2>2, SomePathMeans DEF LiveAt
    <2>4. n \in Nat /\ n + 1 \in Nat
      BY <2>3
    <2>5. ReadsAfter(b, n + 1, r)
      BY <1>3, <2>3, <2>4, ReadsBehind
    <2> QED BY <1>1, <2>4, <2>5, ShortPathsSuffice DEF LiveAt
  <1> QED BY <1>1, <1>2, <1>3

\* ... and is below every solution of them.
LEMMA LiveAtLeast ==
    ASSUME IInv, \A b \in BlockIds(graph) : Solved(b), NEW c \in BlockIds(graph)
    PROVE  LiveAt(c) \subseteq block[c].live_in
  <1>0. graph \in Graph
    BY DEF IInv, TypeOK
  <1> SUFFICES ASSUME NEW r \in LiveAt(c) PROVE r \in block[c].live_in
    OBVIOUS
  <1>1. r \in Reg
    BY DEF LiveAt
  <1> DEFINE Found(n) == \A b \in BlockIds(graph) : ReadsAfter(b, n, r) => r \in block[b].live_in
             Lost == {n \in Nat : ~Found(n)}
  <1>2. Found(0)
    <2> SUFFICES ASSUME NEW b \in BlockIds(graph), Reads(b, r) PROVE r \in block[b].live_in
      BY ReadsAtOnce
    <2> QED BY <1>1 DEF Solved, BlockTransfer, LiveBefore, Reads
  <1>3. ASSUME NEW n \in Nat, Found(n) PROVE Found(n + 1)
    <2> SUFFICES ASSUME NEW b \in BlockIds(graph), ReadsAfter(b, n + 1, r)
                 PROVE  r \in block[b].live_in
      OBVIOUS
    <2>1. PICK s \in graph.succ[b] : ReadsAfter(s, n, r) /\ Passes(b, r)
      BY <1>0, ReadsBehind
    <2>2. r \in block[s].live_in
      BY <1>0, <1>3, <2>1, BlockFacts
    <2>3. r \in block[b].live_out
      BY <2>2 DEF Solved, Succs
    <2> QED BY <1>1, <2>1, <2>3 DEF Solved, BlockTransfer, LiveBefore, Passes
  <1> HIDE DEF Found
  <1>4. Lost = {}
    <2> SUFFICES ASSUME Lost # {} PROVE FALSE
      OBVIOUS
    <2>1. PICK n \in Lost : \A k \in Lost : n <= k
      <3>1. Lost \in SUBSET Nat
        OBVIOUS
      <3> HIDE DEF Lost
      <3> QED BY <3>1, LeastElement
    <2>2. n \in Nat /\ ~Found(n) /\ n # 0
      BY <1>2, <2>1
    <2>3. n - 1 \in Nat /\ (n - 1) + 1 = n /\ n - 1 \notin Lost
      BY <2>1, <2>2
    <2>4. Found(n - 1)
      BY <2>3
    <2> QED BY <1>3, <2>2, <2>3, <2>4
  <1>5. PICK n \in 0 .. graph.block_count - 1 : ReadsAfter(c, n, r)
    BY <1>0, SomePathMeans DEF LiveAt
  <1>6. n \in Nat /\ Found(n)
    BY <1>4, <1>5
  <1> QED BY <1>5, <1>6 DEF Found

\* What one step makes of a live_in: nothing, or what the block's successors
\* and its quads say.
LEMMA LiveInSteps ==
    ASSUME IInv, [Next]_vars, NEW b \in BlockIds(graph)
    PROVE  /\ graph' = graph
           /\ \/ block'[b].live_in = block[b].live_in
              \/ block'[b].live_in = BlockTransfer(b, Succs(b))
  <1>0. graph \in Graph /\ (pc # "done" /\ blk < graph.block_count => blk \in BlockIds(graph))
    BY GraphFacts DEF IInv, TypeOK, BlockIds
  <1>1. CASE LocalQuad
    BY <1>0, <1>1 DEF LocalQuad, IInv, TypeOK
  <1>2. CASE EnterBlock
    BY <1>0, <1>2 DEF EnterBlock, IInv, TypeOK
  <1>3. CASE EmptyBlock
    <2>1. /\ graph' = graph /\ blk \in BlockIds(graph)
          /\ b # blk => block'[b].live_in = block[b].live_in
          /\ b = blk => block'[b].live_in = JoinSuccessors(b)
      BY <1>0, <1>3 DEF EmptyBlock, IInv, TypeOK
    <2>2. b = blk => BlockTransfer(b, Succs(b)) = Succs(b)
      <3>1. b = blk => graph.first[b] = graph.first[b + 1] /\ graph.first[b] \in Int
        BY <1>0, <1>3, BlockFacts DEF EmptyBlock, QuadCount
      <3> QED BY <3>1, JoinFacts, LiveBeforeNone DEF BlockTransfer
    <2> QED BY <2>1, <2>2, JoinFacts
  <1>4. CASE CommitBlock
    <2>1. /\ graph' = graph /\ blk \in BlockIds(graph)
          /\ b # blk => block'[b].live_in = block[b].live_in
          /\ b = blk => block'[b].live_in = live
      BY <1>0, <1>4 DEF CommitBlock, IInv, TypeOK, Positions
    <2>2. live = BlockTransfer(blk, Succs(blk))
      BY <1>4 DEF CommitBlock, IInv, Positions, Scanning, BlockTransfer
    <2> QED BY <2>1, <2>2
  <1>5. CASE LocalNextBlock \/ LocalEnd \/ ScanQuad \/ NextSweep \/ Finish \/ UNCHANGED vars
    BY <1>5 DEF LocalNextBlock, LocalEnd, ScanQuad, NextSweep, Finish, vars
  <1> QED BY <1>1, <1>2, <1>3, <1>4, <1>5 DEF Next

\* The analysis never calls a register live that is not.
Justified == \A b \in BlockIds(graph) : block[b].live_in \subseteq LiveAt(b)

LEMMA JustifiedKept == IInv /\ Justified /\ [Next]_vars => Justified'
  <1> SUFFICES ASSUME IInv, Justified, [Next]_vars PROVE Justified'
    OBVIOUS
  <1>0. graph \in Graph /\ 0 \in BlockIds(graph)
    BY GraphFacts DEF IInv, TypeOK
  <1>1. graph' = graph
    BY <1>0, LiveInSteps
  <1>2. ASSUME NEW b \in BlockIds(graph) PROVE block'[b].live_in \subseteq LiveAt(b)
    <2>1. CASE block'[b].live_in = block[b].live_in
      BY <2>1 DEF Justified
    <2>2. CASE block'[b].live_in = BlockTransfer(b, Succs(b))
      <3> DEFINE L == UNION {LiveAt(s) : s \in graph.succ[b]}
      <3>1. \A s \in graph.succ[b] : block[s].live_in \subseteq LiveAt(s)
        BY <1>0, BlockFacts DEF Justified
      <3>2. Succs(b) \subseteq L
        BY <3>1 DEF Succs
      <3>3. BlockTransfer(b, Succs(b)) \subseteq BlockTransfer(b, L)
        BY <3>2, LiveBeforeMonotone DEF BlockTransfer
      <3> QED BY <1>0, <2>2, <3>3, LiveAtBefore
    <2> QED BY <2>1, <2>2, LiveInSteps
  <1>3. \A b : LiveAt(b)' = LiveAt(b)
    BY <1>1 DEF LiveAt, SomePathReads, Paths, Untouched, ExposedUse
  <1> QED BY <1>1, <1>2, <1>3 DEF Justified

\* When the analysis stops, live_in of a block holds exactly the registers that
\* some path from the block reads before it defines them, also in graphs with
\* cycles: the sweeps neither stop early nor call a register live too many.
THEOREM LivenessExact == Spec => []ExactlyLive
  <1>1. Init => Justified
    BY DEF Init, Justified, NoBlockBits
  <1>2. IInv /\ Justified => ExactlyLive
    <2> SUFFICES ASSUME IInv, Justified, pc = "done", NEW b \in BlockIds(graph)
                 PROVE  block[b].live_in = {r \in Reg : SomePathReads(b, r)}
      BY DEF ExactlyLive
    <2>1. \A c \in BlockIds(graph) : Solved(c)
      BY DEF IInv, Settled
    <2> QED BY <2>1, LiveAtLeast DEF Justified, LiveAt
  <1> QED BY <1>1, <1>2, JustifiedKept, SpecIInv, PTL DEF Spec

=============================================================================
