----------------------------- MODULE ProgramRun -----------------------------
(***************************************************************************)
(* A compiled program runs: one step per instruction, as the words that    *)
(* encode_one chooses for it act on the registers of the machine.  A value *)
(* is the number a quad names, what an instruction made, what a register   *)
(* held in the beginning, or the return address that a CALL leaves.  A     *)
(* conditional jump may go either way.                                     *)
(***************************************************************************)
EXTENDS Assembler

CONSTANT MaxCalls     \* bound on the active calls of a run

ASSUME MaxCallsAssumption == MaxCalls \in Nat

VARIABLES
    running,          \* "no", "yes", "exit", "lost"
    pc,               \* the instruction that is next
    x,                \* registers
    calls             \* the calls that are active, as the source means them

runVars == <<running, pc, x, calls>>

Scratch == 16
ZeroRegister == 31
Register == 0 .. 31

\* A register is named by five bits of an instruction word.
Field(r) == r % 32

Number(n) == <<"number", n>>
Made(k) == <<"made", k>>
Initially(r) == <<"initially", r>>
After(k) == <<"after", k>>        \* the address behind CALL k
Home == After(0)                  \* behind the call of main in EntryCode

RunInit ==
    /\ AsmInit
    /\ running = "no"
    /\ pc = 0
    /\ x = [r \in Register |-> Initially(r)]
    /\ calls = <<>>

Assemble == AsmNext /\ UNCHANGED runVars

Enter(label) == pc' = LabelIndex(label)

\* The five words in front of main call it.
StartProgram ==
    /\ pass = "written"
    /\ running = "no"
    /\ running' = "yes"
    /\ Enter(LabelOf(main_index, 0))
    /\ x' = [x EXCEPT ![LinkRegister] = Home]
    /\ UNCHANGED <<asmVars, calls>>

-----------------------------------------------------------------------------
(* instructions *)

At(op) == running = "yes" /\ pc <= Len(insns) /\ insns[pc].op \in op

ValueOf(operand) ==
    IF operand.is_num THEN Number(operand.src)
    ELSE IF Field(operand.src) = ZeroRegister THEN Number(0) ELSE x[Field(operand.src)]

\* The second word of a division leaves the remainder in x16.
WritesScratch(ins) == LoadsScratch(ins) \/ ins.op = "DIV"

Pass ==
    /\ At({"LABEL"})
    /\ pc' = pc + 1
    /\ UNCHANGED <<asmVars, running, x, calls>>

Move ==
    /\ At({"MOV"})
    /\ x' = [x EXCEPT ![Field(insns[pc].reg)] = ValueOf(insns[pc].src1)]
    /\ pc' = pc + 1
    /\ UNCHANGED <<asmVars, running, calls>>

Compute ==
    /\ At({"ADD", "SUB", "CMP", "NEG", "MULT", "DIV"})
    /\ x' = [r \in Register |->
                IF r = Field(insns[pc].reg) THEN Made(pc)
                ELSE IF r = Scratch /\ WritesScratch(insns[pc]) THEN Made(pc) ELSE x[r]]
    /\ pc' = pc + 1
    /\ UNCHANGED <<asmVars, running, calls>>

Jump ==
    /\ At({"JMP"})
    /\ Enter(insns[pc].target)
    /\ UNCHANGED <<asmVars, running, x, calls>>

Branch ==
    /\ At({"JE"})
    /\ \E label \in {insns[pc].target, insns[pc].target2} : Enter(label)
    /\ UNCHANGED <<asmVars, running, x, calls>>

CallFunction ==
    /\ At({"CALL"})
    /\ Len(calls) < MaxCalls
    /\ Enter(insns[pc].target)
    /\ x' = [x EXCEPT ![LinkRegister] = After(pc)]
    /\ calls' = Append(calls, [at |-> pc, sent |-> x])
    /\ UNCHANGED <<asmVars, running>>

\* The value goes to x0, control to where x30 says; the word behind a bl moves
\* x0 into the result.
ReturnFunction ==
    /\ At({"RET"})
    /\ LET value == ValueOf(insns[pc].src1)
           back == x[LinkRegister]
       IN  IF back[1] # "after" THEN running' = "lost" /\ UNCHANGED <<pc, x>>
           ELSE IF back = Home THEN running' = "exit" /\ UNCHANGED <<pc, x>>
           ELSE /\ pc' = back[2] + 1
                /\ x' = [x EXCEPT ![0] = value, ![Field(insns[back[2]].reg)] = value]
                /\ UNCHANGED running
    /\ calls' = IF calls = <<>> THEN <<>> ELSE Front(calls)
    /\ UNCHANGED asmVars

Instructions == Pass \/ Move \/ Compute \/ Jump \/ Branch \/ CallFunction \/ ReturnFunction

RunNext == Assemble \/ StartProgram \/ Instructions

RunSpec == RunInit /\ [][RunNext]_<<asmVars, runVars>>

-----------------------------------------------------------------------------
(* What the calling convention promises *)

RunTypeOK ==
    /\ AsmTypeOK
    /\ running \in {"no", "yes", "exit", "lost"}
    /\ pc \in 0 .. Len(insns) + 1
    /\ DOMAIN x = Register
    /\ Len(calls) <= MaxCalls

Callees(o) == {p \in Places : \E quad \in QuadsIn(FunctionAt(o)) :
                   quad.operation = "CALL" /\ p = Min(Declared(quad.callee))}

\* Some function may call itself, at any depth.
IsRecursive == \E S \in SUBSET Places : S # {} /\ \A o \in S : Callees(o) \cap S # {}

\* No instruction writes x16 but the one that saves a return address in it.
ScratchUnused == \A k \in DOMAIN insns : ~WritesScratch(insns[k])

\* What alloc_registers gives when no interval fails (LIRA/lira.c), and no more
\* arguments than there are registers below the slots.
Pool == (0 .. 15) \cup (19 .. 28)
Fits ==
    \A o \in Places :
        LET f == FunctionAt(o)
        IN  /\ Len(f.param_phys) <= 16 /\ Range(f.param_phys) \subseteq Pool
            /\ \A quad \in QuadsIn(f) : quad.result \in Pool /\ Len(quad.args) <= 16

\* No function runs on into the code behind it, as one without a return does.
EndOf(o) == IF o < Len(starts) THEN starts[o + 1] ELSE Len(insns)
Closed == \A o \in DOMAIN starts : insns[EndOf(o)].op \in {"RET", "JMP", "JE"}

\* A function returns behind the call that it was called by.
ReturnsHome ==
    At({"RET"}) => x[LinkRegister] = IF calls = <<>> THEN Home ELSE After(Last(calls).at)

\* A function returns behind the call that it was called by as long as no
\* function may call itself or runs on into the next, and no instruction
\* computes in a slot, however deep the calls and whatever functions share the
\* three slots.
SlotsBringHome == ReturnsHome \/ IsRecursive \/ ~ScratchUnused \/ ~Fits \/ ~Closed

\* The first instruction of function o behind its prologue.
Body(o) == starts[o] + 2 + Len(Prologue(o))

\* A move of the prologue of o takes or rewrites what an earlier one has written.
MovesCross(o) ==
    \E i, j \in DOMAIN Prologue(o) :
        i < j /\ Prologue(o)[i].reg \in {Prologue(o)[j].src1.src, Prologue(o)[j].reg}

\* When the body of a called function begins, its parameters hold what was in
\* x0, x1, ... at the call, unless the moves of its prologue cross: nothing but
\* a call leads to its prologue, even in a program that calls recursively.
ArgumentsArrive ==
    \A o \in DOMAIN starts :
        running = "yes" /\ calls # <<>> /\ Fits /\ Closed /\ ~MovesCross(o) /\ pc = Body(o) =>
            \A p \in DOMAIN FunctionAt(o).param_phys :
                x[FunctionAt(o).param_phys[p]] = Last(calls).sent[p - 1]

=============================================================================
