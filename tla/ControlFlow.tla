----------------------------- MODULE ControlFlow ----------------------------
(***************************************************************************)
(* How mncc turns the statements of a function into basic blocks:          *)
(* gen_ir_stmt and gen_ir_branching (IR/ir.c) with append_new_block        *)
(* (IR/ir_basic_block.c) while the tree is walked, and build_cfg           *)
(* (IR/ir_graph.c) afterwards.  The walk is a sequence of events in source *)
(* order; each recursion of gen_ir_branching is a frame that remembers the *)
(* blocks the C function keeps in its local variables.  Expressions are    *)
(* reduced to the quad they leave in the current block.                    *)
(***************************************************************************)
EXTENDS Integers, Sequences, SequencesExt

CONSTANTS
    MaxBlocks,        \* bound on the blocks of a function
    MaxQuads,         \* bound on its statements and conditions
    MaxDepth          \* bound on the nesting of ifs

ASSUME BoundsAssumption ==
    MaxBlocks \in Nat \ {0} /\ MaxQuads \in Nat /\ MaxDepth \in Nat

VARIABLES
    phase,            \* "generate", "build_cfg", "done"
    block_count,
    current_block,
    code,             \* per block, its quads in order
    terminator,       \* "TERMINATOR_NONE", "JMP", "JE", "RET"
    true_target_je, false_target_je, jmp_target,
    frames,           \* the active calls of gen_ir_branching
    quad_count,       \* quads generated so far; the last one has this number
    next_block,       \* where build_cfg stands
    successors, predecessors,
    flow, loose, ifs  \* the meaning of the source walked so far

genVars == <<block_count, current_block, code, terminator, true_target_je,
             false_target_je, jmp_target, frames, quad_count>>
cfgVars == <<next_block, successors, predecessors>>
srcVars == <<flow, loose, ifs>>
vars == <<phase, genVars, cfgVars, srcVars>>

Source == INSTANCE SourceFlow

Block == 0 .. MaxBlocks - 1
NoBlock == -1         \* a NULL target

Terminators == {"TERMINATOR_NONE", "JMP", "JE", "RET"}

\* compile_to_ir: a graph with its entry block.
Init ==
    /\ phase = "generate"
    /\ block_count = 1
    /\ current_block = 0
    /\ code = [b \in Block |-> <<>>]
    /\ terminator = [b \in Block |-> "TERMINATOR_NONE"]
    /\ true_target_je = [b \in Block |-> NoBlock]
    /\ false_target_je = [b \in Block |-> NoBlock]
    /\ jmp_target = [b \in Block |-> NoBlock]
    /\ frames = <<>>
    /\ quad_count = 0
    /\ next_block = 0
    /\ successors = [b \in Block |-> <<>>]
    /\ predecessors = [b \in Block |-> <<>>]
    /\ Source!Init

-----------------------------------------------------------------------------
(* gen_ir_stmt *)

\* append_quadriple of quad number quad_count + 1 to block b.
AppendQuad(b, operation) ==
    /\ quad_count < MaxQuads
    /\ quad_count' = quad_count + 1
    /\ code' = [code EXCEPT ![b] = Append(@, [op |-> operation, id |-> quad_count + 1])]

\* A declaration, an assignment or an expression statement.
GenStatement ==
    /\ phase = "generate"
    /\ AppendQuad(current_block, "OP")
    /\ Source!Statement(quad_count + 1)
    /\ UNCHANGED <<phase, block_count, current_block, terminator, true_target_je,
                   false_target_je, jmp_target, frames, cfgVars>>

\* ND_RETURN: the walk goes on in the same block, behind the RET.
GenReturn ==
    /\ phase = "generate"
    /\ AppendQuad(current_block, "RET")
    /\ terminator' = [terminator EXCEPT ![current_block] = "RET"]
    /\ Source!Return(quad_count + 1)
    /\ UNCHANGED <<phase, block_count, current_block, true_target_je,
                   false_target_je, jmp_target, frames, cfgVars>>

-----------------------------------------------------------------------------
(* gen_ir_branching *)

\* Up to set_current_block(graph, then_bb): three new blocks at the end of the
\* layout, and the conditional jump that closes the block the if stands in.
EnterIf ==
    /\ phase = "generate"
    /\ block_count + 3 <= MaxBlocks
    /\ Len(frames) < MaxDepth
    /\ AppendQuad(current_block, "JE")
    /\ terminator' = [terminator EXCEPT ![current_block] = "JE"]
    /\ true_target_je' = [true_target_je EXCEPT ![current_block] = block_count]
    /\ false_target_je' = [false_target_je EXCEPT ![current_block] = block_count + 1]
    /\ frames' = Append(frames, [then_bb |-> block_count, else_bb |-> block_count + 1,
                                 merge_bb |-> block_count + 2, arm |-> "then"])
    /\ block_count' = block_count + 3
    /\ current_block' = block_count
    /\ Source!If(quad_count + 1)
    /\ UNCHANGED <<phase, jmp_target, cfgVars>>

\* The block gen_ir_branching closes when an arm is over: the block the arm
\* began with, whatever block the walk of the arm ended in.
ArmBlockMerge(frame) == frame.merge_bb
ArmBlock(frame) == IF frame.arm = "then" THEN frame.then_bb ELSE frame.else_bb

\* Whether that block is given a jump to the merge block: an open one is, and
\* behind a then-arm also one that ends in a return.
JumpsAlways(b, arm) == TRUE
JumpsFromElse(b, arm) == arm = "else" /\ terminator[b] = "TERMINATOR_NONE"
JumpsToMerge(b, arm) ==
    terminator[b] = "TERMINATOR_NONE" \/ (arm = "then" /\ terminator[b] = "RET")

CloseArm(frame) ==
    IF JumpsToMerge(ArmBlock(frame), frame.arm)
    THEN /\ terminator' = [terminator EXCEPT ![ArmBlock(frame)] = "JMP"]
         /\ jmp_target' = [jmp_target EXCEPT ![ArmBlock(frame)] = frame.merge_bb]
    ELSE UNCHANGED <<terminator, jmp_target>>

\* The then-arm is walked: close it, go on in else_bb.
LeaveThen ==
    /\ phase = "generate"
    /\ frames # <<>>
    /\ Last(frames).arm = "then"
    /\ CloseArm(Last(frames))
    /\ current_block' = Last(frames).else_bb
    /\ frames' = Append(Front(frames), [Last(frames) EXCEPT !.arm = "else"])
    /\ Source!Else
    /\ UNCHANGED <<phase, block_count, code, true_target_je, false_target_je,
                   quad_count, cfgVars>>

\* The else-arm is walked, or absent: close it, return with merge_bb current.
LeaveElse ==
    /\ phase = "generate"
    /\ frames # <<>>
    /\ Last(frames).arm = "else"
    /\ CloseArm(Last(frames))
    /\ current_block' = Last(frames).merge_bb
    /\ frames' = Front(frames)
    /\ Source!EndIf
    /\ UNCHANGED <<phase, block_count, code, true_target_je, false_target_je,
                   quad_count, cfgVars>>

\* All statements of the function are walked.
GenEnd ==
    /\ phase = "generate"
    /\ frames = <<>>
    /\ phase' = "build_cfg"
    /\ Source!Finish
    /\ UNCHANGED <<genVars, cfgVars>>

-----------------------------------------------------------------------------
(* build_cfg *)

\* A block without terminator falls through to the next block, if there is one.
FallsPastEnd(b) == <<b + 1>>
FallsThrough(b) == IF b + 1 < block_count THEN <<b + 1>> ELSE <<>>

\* The successors build_cfg gives block b, in order.
TargetsOf(b) ==
    CASE terminator[b] = "JE" -> <<true_target_je[b], false_target_je[b]>>
      [] terminator[b] = "JMP" -> <<jmp_target[b]>>
      [] terminator[b] = "RET" -> <<>>
      [] terminator[b] = "TERMINATOR_NONE" -> FallsThrough(b)

\* The predecessors of s once b is linked to its successors.
PredecessorsOfFirst(b, s) == IF TargetsOf(b) # <<>> /\ Head(TargetsOf(b)) = s
                             THEN Append(predecessors[s], b) ELSE predecessors[s]
PredecessorsOf(b, s) == IF Contains(TargetsOf(b), s) THEN Append(predecessors[s], b)
                        ELSE predecessors[s]

BuildBlock ==
    /\ phase = "build_cfg"
    /\ next_block < block_count
    /\ successors' = [successors EXCEPT ![next_block] = @ \o TargetsOf(next_block)]
    /\ predecessors' = [s \in Block |-> PredecessorsOf(next_block, s)]
    /\ next_block' = next_block + 1
    /\ UNCHANGED <<phase, genVars, srcVars>>

BuildEnd ==
    /\ phase = "build_cfg"
    /\ next_block = block_count
    /\ phase' = "done"
    /\ UNCHANGED <<genVars, cfgVars, srcVars>>

Next ==
    \/ GenStatement \/ GenReturn \/ EnterIf \/ LeaveThen \/ LeaveElse \/ GenEnd
    \/ BuildBlock \/ BuildEnd

Spec == Init /\ [][Next]_vars

-----------------------------------------------------------------------------
(* What the construction promises *)

Frame == [then_bb : Block, else_bb : Block, merge_bb : Block, arm : {"then", "else"}]

TypeOK ==
    /\ phase \in {"generate", "build_cfg", "done"}
    /\ block_count \in 1 .. MaxBlocks
    /\ current_block \in 0 .. block_count - 1
    /\ code \in [Block -> Seq([op : {"OP", "RET", "JE"}, id : 1 .. MaxQuads])]
    /\ terminator \in [Block -> Terminators]
    /\ true_target_je \in [Block -> Block \cup {NoBlock}]
    /\ false_target_je \in [Block -> Block \cup {NoBlock}]
    /\ jmp_target \in [Block -> Block \cup {NoBlock}]
    /\ frames \in Seq(Frame)
    /\ quad_count \in 0 .. MaxQuads
    /\ next_block \in 0 .. block_count
    /\ successors \in [Block -> Seq(Block)]
    /\ predecessors \in [Block -> Seq(Block)]

\* Every edge leads to a block behind its own in the layout, so the graph has
\* no cycle; passes that sweep or number blocks in layout order rely on it.
EdgesForward ==
    \A b \in Block : \A i \in 1 .. Len(successors[b]) :
        b < successors[b][i] /\ successors[b][i] < block_count

Occurrences(seq, x) == Cardinality({i \in DOMAIN seq : seq[i] = x})

\* A block is listed as predecessor exactly as often as it lists the successor.
EdgesMirrored ==
    phase = "done" =>
        \A b, s \in Block :
            Occurrences(successors[b], s) = Occurrences(predecessors[s], b)

\* A conditional jump is the last quad of its block and goes with the block's
\* terminator: nothing is ever generated behind it, in whatever order arms,
\* returns and statements come.
BranchesLast ==
    \A b \in Block : \A i \in 1 .. Len(code[b]) :
        code[b][i].op = "JE" <=> i = Len(code[b]) /\ terminator[b] = "JE"

-----------------------------------------------------------------------------
(* The meaning of the blocks, compared with the meaning of the source *)

\* The points control may come to first when it enters block b.  Emitted code
\* falls through to the next block in the layout where there is no jump.
EntryPoints[b \in 0 .. MaxBlocks] ==
    IF b >= block_count THEN {Source!End}
    ELSE IF code[b] # <<>> THEN {code[b][1].id}
    ELSE IF terminator[b] = "JMP" THEN EntryPoints[jmp_target[b]]
    ELSE EntryPoints[b + 1]

Edges(id, way, b) == {<<id, way, p>> : p \in EntryPoints[b]}

\* Where control goes from quad i of block b.
FlowFrom(b, i) ==
    LET q == code[b][i]
    IN  CASE q.op = "RET" -> {}
          [] q.op = "JE" -> Edges(q.id, "true", true_target_je[b])
                            \cup Edges(q.id, "false", false_target_je[b])
          [] q.op = "OP" /\ i < Len(code[b]) -> {<<q.id, "next", code[b][i + 1].id>>}
          [] q.op = "OP" /\ i = Len(code[b]) ->
                Edges(q.id, "next", IF terminator[b] = "JMP" THEN jmp_target[b] ELSE b + 1)

BlockFlow ==
    Edges(Source!Start, "next", 0)
        \cup UNION {UNION {FlowFrom(b, i) : i \in 1 .. Len(code[b])} : b \in Block}

Reached == {Source!Start} \cup {e[3] : e \in flow}

\* The blocks mean what the source means: from every point that the source can
\* reach, control goes to the same points, the same way.
FlowFaithful ==
    phase = "done" => {e \in BlockFlow : e[1] \in Reached} = flow

\* The first block of an arm holds a condition: an if stands in an arm.
IfInArm ==
    \E b, c \in Block :
        /\ c \in {true_target_je[b], false_target_je[b]}
        /\ \E q \in Range(code[c]) : q.op = "JE"

\* The blocks mean what the source means as long as no if stands in an arm of
\* another one, with any number of ifs and with returns anywhere.
FlatFlowFaithful == IfInArm \/ FlowFaithful

=============================================================================
