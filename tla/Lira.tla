-------------------------------- MODULE Lira --------------------------------
(***************************************************************************)
(* alloc_registers of main.c: liveness analysis, one live interval for     *)
(* each virtual register (build_intervals of LIRA/lira_intervals.c), the   *)
(* greedy allocation, and rewrite_registers (LIRA/lira.c), which replaces  *)
(* the virtual registers in the operands and in param_phys.  The code      *)
(* generator takes the number in a register operand as a machine register  *)
(* without asking whether it was rewritten (codegen/instruction.c), so the *)
(* outcome is one machine register number per virtual register.            *)
(***************************************************************************)
EXTENDS Liveness, FiniteSetsExt

CONSTANTS CallerSaved, CalleeSaved

VARIABLES
    stage,            \* "liveness", "intervals", "allocate", "rewrite", "finished"
    interval, phys_reg, reg_track, todo,
    operand_reg       \* number in every operand of a register after the rewrite

allocVars == <<interval, phys_reg, reg_track, todo>>
liraVars == <<vars, stage, allocVars, operand_reg>>

Alloc == INSTANCE GreedyAlloc WITH IntervalMaps <- {}

ASSUME RegisterPools == Alloc!PoolAssumption

NoInterval == [start_time |-> -1, end_time |-> -1, is_call |-> FALSE]

-----------------------------------------------------------------------------
(* build_one_interval *)

DefinedAt(v) == {i \in QuadIds(graph) : v \in quad[i].def}
TouchedAt(v) == DefinedAt(v) \cup {i \in QuadIds(graph) : v \in quad[i].use}

StartTimeOfDefinition(v) == Max({-1} \cup DefinedAt(v))

\* start_time: every definition overwrites it, so the last one stays; then the
\* earliest block that has the register in live_in may pull it forward.
StartTime(v) ==
    LET lastDef == IF DefinedAt(v) = {} THEN {} ELSE {Max(DefinedAt(v))}
        blockStarts == {graph.first[b] : b \in {c \in BlockIds(graph) : v \in block[c].live_in}}
    IN  IF lastDef \cup blockStarts = {} THEN -1 ELSE Min(lastDef \cup blockStarts)

\* end_time: behind the last quad that mentions the register, or the end of
\* the last block that has it in live_out.
EndTime(v) ==
    Max({-1} \cup {i + 1 : i \in TouchedAt(v)}
             \cup {graph.first[b + 1] : b \in {c \in BlockIds(graph) : v \in block[c].live_out}})

IsCallResult(v) == \E i \in DefinedAt(v) : graph.quads[i].operation = "CALL"
IsCall(v) == \E i \in TouchedAt(v) : graph.quads[i].operation = "CALL"

BuildOneInterval(v) ==
    [start_time |-> StartTime(v), end_time |-> EndTime(v), is_call |-> IsCall(v)]

-----------------------------------------------------------------------------
(* alloc_registers *)

LiraInit ==
    /\ Init
    /\ stage = "liveness"
    /\ interval = [v \in Reg |-> NoInterval]
    /\ phys_reg = [v \in Reg |-> Alloc!NoReg]
    /\ reg_track = [p \in Alloc!PhysReg |-> 0]
    /\ todo = Reg
    /\ operand_reg = [v \in Reg |-> v]

AnalyseLiveness ==
    /\ stage = "liveness"
    /\ Next
    /\ UNCHANGED <<stage, allocVars, operand_reg>>

LivenessDone ==
    /\ stage = "liveness"
    /\ pc = "done"
    /\ stage' = "intervals"
    /\ UNCHANGED <<vars, allocVars, operand_reg>>

BuildIntervals ==
    /\ stage = "intervals"
    /\ interval' = [v \in Reg |-> BuildOneInterval(v)]
    /\ stage' = "allocate"
    /\ UNCHANGED <<vars, phys_reg, reg_track, todo, operand_reg>>

GreedyAllocate ==
    /\ stage = "allocate"
    /\ Alloc!Next
    /\ UNCHANGED <<vars, stage, operand_reg>>

AllocationDone ==
    /\ stage = "allocate"
    /\ todo = {}
    /\ stage' = "rewrite"
    /\ UNCHANGED <<vars, allocVars, operand_reg>>

\* assign_physical_reg on every operand, and the loop over param_phys: a
\* register without a physical one keeps its own number.
RewriteRegisters ==
    /\ stage = "rewrite"
    /\ operand_reg' = [v \in Reg |-> IF phys_reg[v] = Alloc!NoReg THEN operand_reg[v]
                                     ELSE phys_reg[v]]
    /\ stage' = "finished"
    /\ UNCHANGED <<vars, allocVars>>

LiraNext ==
    \/ AnalyseLiveness \/ LivenessDone \/ BuildIntervals
    \/ GreedyAllocate \/ AllocationDone \/ RewriteRegisters

LiraSpec == LiraInit /\ [][LiraNext]_liraVars

\* The compiler is one sequential process that keeps running.
FairLiraSpec == LiraSpec /\ WF_liraVars(LiraNext)

-----------------------------------------------------------------------------
(* What register allocation promises *)

\* The registers live right behind quad i of block b.
LiveAfter(b, i) == LiveBefore(i + 1, graph.first[b + 1], block[b].live_out)

\* A quad never writes the machine register in which another virtual register
\* holds a value that is still to be read.
NoClobber ==
    stage = "finished" =>
        \A b \in BlockIds(graph) : \A i \in QuadsOf(graph, b) :
            \A d \in graph.quads[i].result, v \in LiveAfter(b, i) :
                v # d => operand_reg[v] # operand_reg[d]

\* A value that a call reads, and that is read again behind the call, stands
\* in the callee-saved pool, never in one of x0..x15: those the argument moves
\* of the call overwrite.
ArgumentsSurviveCalls ==
    stage = "finished" =>
        \A b \in BlockIds(graph) : \A i \in QuadsOf(graph, b) :
            graph.quads[i].operation = "CALL" =>
                \A v \in LiveAfter(b, i) \cap graph.quads[i].reads :
                    operand_reg[v] \in CalleeSaved

\* A value that is read behind a call stands in a register the call leaves
\* alone: whether it crosses the call is what is_call is to tell.
ValuesSurviveCalls ==
    stage = "finished" =>
        \A b \in BlockIds(graph) : \A i \in QuadsOf(graph, b) :
            graph.quads[i].operation = "CALL" =>
                \A v \in LiveAfter(b, i) \ graph.quads[i].result :
                    operand_reg[v] \notin CallerSaved

\* Allocation ends with every operand rewritten.
Finishes == <>(stage = "finished")

=============================================================================
