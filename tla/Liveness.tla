------------------------------ MODULE Liveness ------------------------------
(***************************************************************************)
(* Liveness analysis of mncc (LIRA/livenessanalysis.c), as alloc_registers *)
(* in main.c runs it: compute_local_liveness fills the use and def bits of *)
(* every quadruple and of every block, then compute_global_liveness sweeps *)
(* the blocks in layout order, scanning each one backwards from its        *)
(* live_out, until a whole sweep changes no live_in.                       *)
(*                                                                         *)
(* A bit vector is the set of registers whose bit is set (set_bit,         *)
(* bit_vector_union and bit_vector_diff are \cup and \ on such sets).      *)
(***************************************************************************)
EXTENDS IRGraphs, Sequences

CONSTANT Graph        \* the graphs the passes before may hand over

ASSUME GraphAssumption == \A g \in Graph : WellFormed(g)

VARIABLES
    graph,            \* the function being allocated; never changed here
    pc,               \* "local", "sweep", "scan" or "done"
    blk,              \* the block the current loop stands at
    quad_index,       \* quad index of the local pass, then of the scan
    total_quads,      \* the running quad index of the global pass
    changed,          \* the flag of the do-while loop
    live,             \* the scratch vector of block_live_in_changed
    quad,             \* per quadruple: its use and def bits
    block             \* per block: b_use, b_def, live_in, live_out

vars == <<graph, pc, blk, quad_index, total_quads, changed, live, quad, block>>

NoBits == [use |-> {}, def |-> {}]
NoBlockBits == [b_use |-> {}, b_def |-> {}, live_in |-> {}, live_out |-> {}]

\* The bits compute_local_liveness sets for one quadruple.
QuadBits(q) == [use |-> q.reads, def |-> q.result]

Init ==
    /\ graph \in Graph
    /\ pc = "local"
    /\ blk = 0
    /\ quad_index = 0
    /\ total_quads = 0
    /\ changed = FALSE
    /\ live = {}
    /\ quad = [i \in QuadIds(graph) |-> NoBits]
    /\ block = [b \in BlockIds(graph) |-> NoBlockBits]

-----------------------------------------------------------------------------
(* compute_local_liveness *)

\* Upward exposed uses of a block once a quad with these bits is added; the
\* uses are taken before the definitions of the same quad.
AddUsesLate(old, bits) == old.b_use \cup (bits.use \ (old.b_def \cup bits.def))
AddUses(old, bits) == old.b_use \cup (bits.use \ old.b_def)

\* One turn of the EACH_QUAD loop: the quad's own bits, then the block's
\* upward exposed uses and definitions.
LocalQuad ==
    /\ pc = "local"
    /\ blk < graph.block_count
    /\ quad_index < graph.first[blk + 1]
    /\ LET bits == QuadBits(graph.quads[quad_index])
           old  == block[blk]
       IN  /\ quad' = [quad EXCEPT ![quad_index] = bits]
           /\ block' = [block EXCEPT
                  ![blk].b_use = AddUses(old, bits),
                  ![blk].b_def = old.b_def \cup bits.def]
    /\ quad_index' = quad_index + 1
    /\ UNCHANGED <<graph, pc, blk, total_quads, changed, live>>

\* The block has no quad left: EACH_QUAD goes on with its next_block.
LocalNextBlock ==
    /\ pc = "local"
    /\ blk < graph.block_count
    /\ quad_index = graph.first[blk + 1]
    /\ blk' = blk + 1
    /\ UNCHANGED <<graph, pc, quad_index, total_quads, changed, live, quad, block>>

\* Both loops are over; compute_global_liveness begins its first sweep.
LocalEnd ==
    /\ pc = "local"
    /\ blk = graph.block_count
    /\ pc' = "sweep"
    /\ blk' = 0
    /\ total_quads' = 0
    /\ changed' = FALSE
    /\ UNCHANGED <<graph, quad_index, live, quad, block>>

-----------------------------------------------------------------------------
(* compute_global_liveness *)

\* live_out of b once the live_in of its successors is or-ed into it.
JoinDiffs(b) ==
    (UNION {block[s].live_in : s \in graph.succ[b]}) \ block[b].live_out
JoinSuccessors(b) ==
    block[b].live_out \cup UNION {block[s].live_in : s \in graph.succ[b]}

\* changed |= ...: the flag stays up for the rest of the sweep.
RaiseLast(differs) == differs
RaiseInverted(differs) == changed \/ ~differs
Raise(differs) == changed \/ differs

\* bit_vector_diff with def, then bit_vector_union with use.
StepBackSwapped(L, bits) == (L \cup bits.use) \ bits.def
StepBack(L, bits) == (L \ bits.def) \cup bits.use

\* The sweep reaches a block with quads: join the successors and start the
\* backward scan behind its last quad.
EnterBlock ==
    /\ pc = "sweep"
    /\ blk < graph.block_count
    /\ QuadCount(graph, blk) > 0
    /\ block' = [block EXCEPT ![blk].live_out = JoinSuccessors(blk)]
    /\ live' = JoinSuccessors(blk)
    /\ quad_index' = total_quads + QuadCount(graph, blk)
    /\ pc' = "scan"
    /\ UNCHANGED <<graph, blk, total_quads, changed, quad>>

\* A block without quads copies its live_out to its live_in.
EmptyBlock ==
    /\ pc = "sweep"
    /\ blk < graph.block_count
    /\ QuadCount(graph, blk) = 0
    /\ block' = [block EXCEPT ![blk].live_out = JoinSuccessors(blk),
                              ![blk].live_in  = JoinSuccessors(blk)]
    /\ changed' = Raise(block[blk].live_in # JoinSuccessors(blk))
    /\ blk' = blk + 1
    /\ UNCHANGED <<graph, pc, quad_index, total_quads, live, quad>>

\* One turn of the backward loop of block_live_in_changed.
ScanQuad ==
    /\ pc = "scan"
    /\ quad_index > total_quads
    /\ quad_index' = quad_index - 1
    /\ live' = StepBack(live, quad[quad_index - 1])
    /\ UNCHANGED <<graph, pc, blk, total_quads, changed, quad, block>>

\* The scan is at the block's first quad: compare, store, go on.
CommitBlock ==
    /\ pc = "scan"
    /\ quad_index = total_quads
    /\ changed' = Raise(block[blk].live_in # live)
    /\ block' = [block EXCEPT ![blk].live_in = live]
    /\ total_quads' = total_quads + QuadCount(graph, blk)
    /\ blk' = blk + 1
    /\ pc' = "sweep"
    /\ UNCHANGED <<graph, quad_index, live, quad>>

\* The end of a sweep: while (changed) starts another one.
NextSweep ==
    /\ pc = "sweep"
    /\ blk = graph.block_count
    /\ changed
    /\ changed' = FALSE
    /\ blk' = 0
    /\ total_quads' = 0
    /\ UNCHANGED <<graph, pc, quad_index, live, quad, block>>

Finish ==
    /\ pc = "sweep"
    /\ blk = graph.block_count
    /\ ~changed
    /\ pc' = "done"
    /\ UNCHANGED <<graph, blk, quad_index, total_quads, changed, live, quad, block>>

Next ==
    \/ LocalQuad \/ LocalNextBlock \/ LocalEnd
    \/ EnterBlock \/ EmptyBlock \/ ScanQuad \/ CommitBlock
    \/ NextSweep \/ Finish

Spec == Init /\ [][Next]_vars

-----------------------------------------------------------------------------
(* What the analysis promises *)

TypeOK ==
    /\ graph \in Graph
    /\ pc \in {"local", "sweep", "scan", "done"}
    /\ blk \in 0 .. graph.block_count
    /\ quad_index \in 0 .. graph.quad_count
    /\ total_quads \in 0 .. graph.quad_count
    /\ changed \in BOOLEAN
    /\ live \in SUBSET Reg
    /\ quad \in [QuadIds(graph) -> [use : SUBSET Reg, def : SUBSET Reg]]
    /\ block \in [BlockIds(graph) ->
                    [b_use : SUBSET Reg, b_def : SUBSET Reg,
                     live_in : SUBSET Reg, live_out : SUBSET Reg]]

\* r is read by some quad of lo..hi-1 before any quad of lo..hi-1 defines it.
ExposedUse(lo, hi, r) ==
    \E j \in lo .. hi - 1 :
        /\ r \in graph.quads[j].reads
        /\ \A k \in lo .. j - 1 : r \notin graph.quads[k].result

\* No quad of lo..hi-1 defines r.
Untouched(lo, hi, r) == \A k \in lo .. hi - 1 : r \notin graph.quads[k].result

\* What is live before quad lo when exactly L is live before quad hi.
LiveBefore(lo, hi, L) ==
    {r \in Reg : ExposedUse(lo, hi, r) \/ (r \in L /\ Untouched(lo, hi, r))}

BlockTransfer(b, L) == LiveBefore(graph.first[b], graph.first[b + 1], L)

\* When the analysis stops, its result solves the dataflow equations exactly:
\* the early stop of the do-while loop (a sweep with no change of live_in)
\* never leaves a live_out behind that some live_in no longer matches.
Fixpoint ==
    pc = "done" =>
        \A b \in BlockIds(graph) :
            /\ block[b].live_out = UNION {block[s].live_in : s \in graph.succ[b]}
            /\ block[b].live_in = BlockTransfer(b, block[b].live_out)

\* The block summaries b_use and b_def that the local pass leaves behind give
\* the same transfer function as the quad by quad scan the global pass uses.
SummaryAgrees ==
    pc = "done" =>
        \A b \in BlockIds(graph) :
            block[b].live_in =
                block[b].b_use \cup (block[b].live_out \ block[b].b_def)

\* The paths of n edges that start at b.
Paths(b, n) ==
    LET path[k \in 0 .. n] ==
            IF k = 0 THEN {<<b>>}
            ELSE UNION {{Append(p, s) : s \in graph.succ[p[k]]} : p \in path[k - 1]}
    IN  path[n]

\* r is live at the entry of b: some path from b comes, through blocks that
\* leave r alone, to one that reads it.
SomePathReads(b, r) ==
    \E n \in 0 .. graph.block_count - 1 : \E p \in Paths(b, n) :
        /\ \A i \in 1 .. n : Untouched(graph.first[p[i]], graph.first[p[i] + 1], r)
        /\ ExposedUse(graph.first[p[n + 1]], graph.first[p[n + 1] + 1], r)

\* The result is liveness itself: a register is in live_in of a block exactly
\* when some path from the block reads it before defining it.
ExactlyLive ==
    pc = "done" =>
        \A b \in BlockIds(graph) :
            block[b].live_in = {r \in Reg : SomePathReads(b, r)}

\* bit_vector_copy overwrites live_in with a vector computed from scratch, yet
\* no step ever takes a register out of a live_in or live_out.
OnlyGrows ==
    [][\A b \in BlockIds(graph) :
          /\ block[b].live_in \subseteq block'[b].live_in
          /\ block[b].live_out \subseteq block'[b].live_out]_vars

=============================================================================
