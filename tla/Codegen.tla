------------------------------ MODULE Codegen ------------------------------
(***************************************************************************)
(* compile_program_to_binary (codegen/instruction.c): the functions of a   *)
(* program, registers allocated, become one list of instructions; main     *)
(* comes first, block numbers become labels that are unique in the         *)
(* program, and a function that calls keeps its return address in one of   *)
(* three slot registers.                                                   *)
(***************************************************************************)
EXTENDS Integers, Sequences, FiniteSets, SequencesExt

CONSTANT Programs     \* sequences of functions

\* What the earlier stages leave: every jump goes to a later block, since the
\* language has no loops, and check_semantics lets no name be declared twice.
Operations == {"ADD", "SUB", "CMP", "NEG", "MULT", "DIV", "MOV", "RET", "JMP", "JE", "CALL"}
Operand == [is_num : BOOLEAN, src : Int]
QuadSet == [operation : Operations, arg1 : Operand, arg2 : Operand, result : Nat,
            args : Seq(Operand), callee : STRING]
BlockSet == [quads : Seq(QuadSet), terminator : STRING, jmp_target : Nat,
             true_target_je : Nat, false_target_je : Nat]
FunctionSet == [func_name : STRING, param_phys : Seq(Nat), blocks : Seq(BlockSet)]

HasQuad(block, operation) == \E q \in DOMAIN block.quads : block.quads[q].operation = operation
JumpsAhead(f) ==
    \A b \in DOMAIN f.blocks :
        LET block == f.blocks[b]
            later == b .. Len(f.blocks) - 1      \* blocks are numbered from 0
        IN  /\ block.terminator = "JMP" \/ HasQuad(block, "JMP") => block.jmp_target \in later
            /\ HasQuad(block, "JE") => {block.true_target_je, block.false_target_je} \subseteq later

ASSUME ProgramAssumption ==
    \A functions \in Programs :
        /\ functions \in Seq(FunctionSet)
        /\ \A j, k \in DOMAIN functions : functions[j].func_name = functions[k].func_name => j = k
        /\ \A k \in DOMAIN functions : functions[k].blocks # <<>> /\ JumpsAhead(functions[k])

VARIABLES
    program,
    stage,            \* "order", "slots", "labels", "compile", "compiled", "fatal"
    order,            \* positions of the functions, in the order of the code
    slots,            \* per place in the order, the slot register or -1
    label_base,       \* per place, what is added to its block numbers
    insns, starts     \* merged instructions; where each function begins, from 0

codeVars == <<program, stage, order, slots, label_base, insns, starts>>

\* Operands: a number, or a register.  An absent one is left zero.
Num(n) == [is_num |-> TRUE, src |-> n]
PhysReg(r) == [is_num |-> FALSE, src |-> r]
Absent == PhysReg(0)

LinkRegister == 30
SlotPool == <<16, 17, 18>>

Places == 1 .. Len(program)
FunctionAt(o) == program[order[o]]

Init ==
    /\ program \in Programs
    /\ stage = "order"
    /\ order = <<>>
    /\ slots = <<>>
    /\ label_base = <<0>>
    /\ insns = <<>>
    /\ starts = <<>>

\* The first main goes first, the rest keeps its order.
Mains == {k \in Places : program[k].func_name = "main"}
MainTwice ==
    IF Mains = {} THEN [o \in Places |-> o]
    ELSE [o \in 1 .. Len(program) + 1 |-> IF o = 1 THEN Min(Mains) ELSE o - 1]
MainFirst ==
    IF Mains = {} THEN [o \in Places |-> o]
    ELSE [o \in Places |-> IF o = 1 THEN Min(Mains) ELSE IF o <= Min(Mains) THEN o - 1 ELSE o]

OrderFunctions ==
    /\ stage = "order"
    /\ order' = MainFirst
    /\ stage' = "slots"
    /\ UNCHANGED <<program, slots, label_base, insns, starts>>

QuadsIn(f) == UNION {Range(f.blocks[b].quads) : b \in DOMAIN f.blocks}
HasCall(f) == \E quad \in QuadsIn(f) : quad.operation = "CALL"

\* The next slot of the pool for a function that calls.
SlotsUsed == Cardinality({o \in DOMAIN slots : slots[o] # -1})
NextSlot == SlotPool[SlotsUsed + 1]

AssignSlot ==
    /\ stage = "slots"
    /\ Len(slots) < Len(program)
    /\ LET f == FunctionAt(Len(slots) + 1)
       IN  IF HasCall(f) /\ SlotsUsed >= Len(SlotPool)
           THEN stage' = "fatal" /\ UNCHANGED slots
           ELSE /\ slots' = Append(slots, IF HasCall(f) THEN NextSlot ELSE -1)
                /\ UNCHANGED stage
    /\ UNCHANGED <<program, order, label_base, insns, starts>>

SlotsAssigned ==
    /\ stage = "slots"
    /\ Len(slots) = Len(program)
    /\ stage' = "labels"
    /\ UNCHANGED <<program, order, slots, label_base, insns, starts>>

\* Every block number of the next function is raised by the number of blocks
\* of the functions before it; the last entry is what the next one would get.
LabelFunction ==
    /\ stage = "labels"
    /\ Len(label_base) <= Len(program)
    /\ label_base' = Append(label_base,
                            Last(label_base) + Len(FunctionAt(Len(label_base)).blocks))
    /\ UNCHANGED <<program, stage, order, slots, insns, starts>>

LabelsDone ==
    /\ stage = "labels"
    /\ Len(label_base) = Len(program) + 1
    /\ stage' = "compile"
    /\ UNCHANGED <<program, order, slots, label_base, insns, starts>>

-----------------------------------------------------------------------------
(* compile_to_binary *)

Instruction(operation) ==
    [op |-> operation, src1 |-> Absent, src2 |-> Absent, reg |-> 0, target |-> 0, target2 |-> 0]

Mov(register, operand) == [Instruction("MOV") EXCEPT !.reg = register, !.src1 = operand]

\* A label per block, numbered from 0 in the source, here from the base.
LabelOf(o, b) == label_base[o] + b

\* resolve_func: the entry label of the first function of that name.
Declared(name) == {o \in Places : FunctionAt(o).func_name = name}
Resolve(name) == LabelOf(CHOOSE o \in Declared(name) : \A p \in Declared(name) : o <= p, 0)

\* emit_call: the arguments into x0, x1, ..., then the call.
EmitCall(quad) ==
    [a \in DOMAIN quad.args |-> Mov(a - 1, quad.args[a])]
        \o <<[Instruction("CALL") EXCEPT !.target = Resolve(quad.callee), !.reg = quad.result]>>

\* set_terminator gives a JMP or JE its targets.
EmitPlain(o, block, quad) ==
    [Instruction(quad.operation) EXCEPT
        !.src1 = quad.arg1, !.src2 = quad.arg2, !.reg = quad.result,
        !.target = IF quad.operation = "JMP" THEN LabelOf(o, block.jmp_target)
                   ELSE IF quad.operation = "JE" THEN LabelOf(o, block.true_target_je) ELSE 0,
        !.target2 = IF quad.operation = "JE" THEN LabelOf(o, block.false_target_je) ELSE 0]

\* A return takes the return address back out of the slot.
EmitQuadBare(o, block, quad) ==
    IF quad.operation = "CALL" THEN EmitCall(quad) ELSE <<EmitPlain(o, block, quad)>>
EmitQuad(o, block, quad) ==
    IF quad.operation = "CALL" THEN EmitCall(quad)
    ELSE IF quad.operation = "RET" /\ slots[o] >= 0
         THEN <<Mov(LinkRegister, PhysReg(slots[o])), EmitPlain(o, block, quad)>>
         ELSE <<EmitPlain(o, block, quad)>>

\* In front of the first block: the return address into the slot, then the
\* parameters from x0, x1, ... into their registers, one after the other.
PrologueShifted(o) ==
    (IF slots[o] >= 0 THEN <<Mov(slots[o], PhysReg(LinkRegister))>> ELSE <<>>)
        \o [p \in DOMAIN FunctionAt(o).param_phys |->
               Mov(FunctionAt(o).param_phys[p], PhysReg(p))]
Prologue(o) ==
    (IF slots[o] >= 0 THEN <<Mov(slots[o], PhysReg(LinkRegister))>> ELSE <<>>)
        \o [p \in DOMAIN FunctionAt(o).param_phys |->
               Mov(FunctionAt(o).param_phys[p], PhysReg(p - 1))]

\* write_terminator: a JMP that no quad stands for.
Terminator(o, block) ==
    IF block.terminator = "JMP" /\ ~HasQuad(block, "JMP") /\ ~HasQuad(block, "JE")
    THEN <<[Instruction("JMP") EXCEPT !.target = LabelOf(o, block.jmp_target)]>> ELSE <<>>

EmitBlock(o, b) ==
    LET block == FunctionAt(o).blocks[b]
    IN  <<[Instruction("LABEL") EXCEPT !.target = LabelOf(o, b - 1)]>>
            \o (IF b = 1 THEN Prologue(o) ELSE <<>>)
            \o FlattenSeq([q \in DOMAIN block.quads |-> EmitQuad(o, block, block.quads[q])])
            \o Terminator(o, block)

Piece(o) == FlattenSeq([b \in DOMAIN FunctionAt(o).blocks |-> EmitBlock(o, b)])

\* Calls of functions that are nowhere declared.
Unresolved(o) == {quad \in QuadsIn(FunctionAt(o)) :
                      quad.operation = "CALL" /\ Declared(quad.callee) = {}}

CompileFunction ==
    /\ stage = "compile"
    /\ Len(starts) < Len(program)
    /\ LET o == Len(starts) + 1
       IN  IF Unresolved(o) # {}
           THEN stage' = "fatal" /\ UNCHANGED <<insns, starts>>
           ELSE /\ starts' = Append(starts, Len(insns))
                /\ insns' = insns \o Piece(o)
                /\ UNCHANGED stage
    /\ UNCHANGED <<program, order, slots, label_base>>

CompileEnd ==
    /\ stage = "compile"
    /\ Len(starts) = Len(program)
    /\ stage' = "compiled"
    /\ UNCHANGED <<program, order, slots, label_base, insns, starts>>

Next ==
    \/ OrderFunctions \/ AssignSlot \/ SlotsAssigned \/ LabelFunction \/ LabelsDone
    \/ CompileFunction \/ CompileEnd

-----------------------------------------------------------------------------
(* count_instructions: the size of the buffer a piece is written to *)

SumTo(numbers, n) ==
    LET upto[k \in 0 .. n] == IF k = 0 THEN 0 ELSE upto[k - 1] + numbers[k] IN upto[n]
SumOf(numbers) == SumTo(numbers, Len(numbers))

Count(quads, operation) ==
    SumOf([q \in DOMAIN quads |-> IF quads[q].operation = operation THEN 1 ELSE 0])

\* The argument moves of the calls among some quads.
NoMoves(quads) == 0
ArgumentMoves(quads) ==
    SumOf([q \in DOMAIN quads |-> IF quads[q].operation = "CALL" THEN Len(quads[q].args) ELSE 0])

\* One block: label, quads, argument moves, and a jump no quad stands for.
BlockSize(block) ==
    1 + Len(block.quads) + ArgumentMoves(block.quads)
      + (IF block.terminator = "JMP" /\ Count(block.quads, "JMP") + Count(block.quads, "JE") = 0
         THEN 1 ELSE 0)

CountInstructions(f) ==
    Len(f.param_phys) + SumOf([b \in DOMAIN f.blocks |-> BlockSize(f.blocks[b])])
      + (IF HasCall(f) THEN 1 + SumOf([b \in DOMAIN f.blocks |-> Count(f.blocks[b].quads, "RET")])
         ELSE 0)

=============================================================================
