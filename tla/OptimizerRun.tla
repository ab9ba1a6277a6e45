---------------------------- MODULE OptimizerRun ----------------------------
(***************************************************************************)
(* What a function computes, before and after optimize_ir.  A form is the  *)
(* function as the pass receives it or leaves it: both are executed on     *)
(* numbers, with the phis of a block taking effect together.  The outcome  *)
(* is the number returned and what the calls were given.                   *)
(***************************************************************************)
EXTENDS Optimizer

CONSTANT ParameterValues    \* what registers 0, 1, ... hold in the beginning

\* The function as into_ssa leaves it, and as optimize_ir has it now.
Before ==
    [quads |-> LoadedQuads, operand |-> LoadedOperands, entries |-> phis,
     terminator |-> fn.terminator, successors |-> fn.successors,
     layout |-> BlocksInOrder, id_block |-> [b \in Block |-> b]]
Now ==
    [quads |-> quads, operand |-> operand, entries |-> entries,
     terminator |-> terminator, successors |-> successors,
     layout |-> layout, id_block |-> id_block]

Value(form, file, o) ==
    IF form.operand[o].type = "NUM" THEN form.operand[o].val ELSE file[form.operand[o].val]

\* A call gives a number of its own; a division by zero gives 0.
Result(form, file, q) ==
    CASE q.op = "ASSIGN" -> Value(form, file, q.arg1)
      [] q.op = "UNARY"  -> -Value(form, file, q.arg1)
      [] q.op = "CALL"   -> 10 + q.id
      [] q.op = "DIV" /\ Value(form, file, q.arg2) = 0 -> 0
      [] OTHER -> Computed(q.op, Value(form, file, q.arg1), Value(form, file, q.arg2))

\* A result operand that is a number writes no virtual register.
Written(form, file, q) ==
    IF q.result = None \/ form.operand[q.result].type = "NUM" THEN file
    ELSE [file EXCEPT ![form.operand[q.result].val] = Result(form, file, q)]

\* One quad; s holds the registers, the calls made, and where control is.
Perform(form, s, q) ==
    CASE s.next = <<>>  -> s
      [] q.op = "RET"   -> [s EXCEPT !.returned = <<Value(form, s.file, q.arg1)>>, !.next = <<>>]
      [] q.op = "JE"    -> [s EXCEPT !.next = <<form.successors[s.at]
                                [IF Value(form, s.file, q.arg1) # 0 THEN 1 ELSE 2]>>]
      [] q.op = "JMP"   -> s
      [] q.op = "CALL"  -> [s EXCEPT !.file = Written(form, @, q),
                                     !.calls = Append(@, <<q.id, [k \in DOMAIN q.args |->
                                                   Value(form, s.file, q.args[k])]>>)]
      [] OTHER          -> [s EXCEPT !.file = Written(form, @, q)]

\* The code of an open block runs into the block laid out behind it.
Behind(form, b) ==
    LET n == SelectInSeq(form.layout, LAMBDA c : c = b)
    IN  IF n = Len(form.layout) THEN <<>> ELSE <<form.layout[n + 1]>>

WithPhis(form, s, b) ==
    LET phi == IF s.at = NoBlock THEN <<>>
               ELSE SelectSeq(form.entries[b], LAMBDA e : e.from_label = form.id_block[s.at])
    IN  [r \in DOMAIN s.file |->
            IF \E i \in DOMAIN phi : phi[i].result_reg = r
            THEN s.file[phi[CHOOSE i \in DOMAIN phi : phi[i].result_reg = r].reg_index]
            ELSE s.file[r]]

\* One block.  next holds the block control is to go to, at most one.
PerformBlock(form, s) ==
    LET b == s.next[1]
        leaves == CASE form.terminator[b] = "TERMINATOR_NONE" -> Behind(form, b)
                    [] form.terminator[b] = "RET" -> <<NoBlock>>
                    [] OTHER -> <<form.successors[b][1]>>
    IN  FoldLeft(LAMBDA acc, q : Perform(form, acc, q),
                 [s EXCEPT !.file = WithPhis(form, s, b), !.at = b, !.next = leaves],
                 form.quads[b])

Outcome(form, values) ==
    LET start == [file |-> [r \in 0 .. reg_count - 1 |-> IF r < Len(values) THEN values[r + 1] ELSE 0],
                  at |-> NoBlock, next |-> <<form.layout[1]>>, calls |-> <<>>, returned |-> <<>>]
        end == FoldLeft(LAMBDA s, n : IF s.next \in {<<>>, <<NoBlock>>} THEN s
                                      ELSE PerformBlock(form, s),
                        start, BlocksInOrder)
    IN  [returned |-> end.returned, calls |-> end.calls]

-----------------------------------------------------------------------------
(* What optimize_ir promises *)

Reg == 0 .. reg_count - 1
Passes == {"ssa", "combine", "fold", "copies", "phi_copies", "dce", "unreachable", "optimized"}

OptTypeOK ==
    /\ pass \in Passes
    /\ \A o \in DOMAIN operand : operand[o].type = "VIR_REG" => operand[o].val \in Reg
    /\ \A b \in Block : \A q \in Range(quads[b]) :
           {q.arg1, q.arg2, q.result} \cup Range(q.args) \subseteq DOMAIN operand \cup {None}
    /\ \A b \in Block : \A phi \in Range(entries[b]) :
           phi.reg_index \in Reg /\ phi.from_label \in -1 .. Len(layout) - 1
    /\ \A b \in Block : Range(successors[b]) \cup Range(predecessors[b]) \subseteq Block
    /\ Range(layout) \subseteq Block
    /\ cur \in 1 .. fn.block_count
    /\ used \subseteq Reg

Parameters == 0 .. fn.param_count - 1

\* No register gets a second value: into_ssa keeps one name for a register
\* with one definition, a parameter that is assigned once included.
OneValueEach ==
    \A r \in Reg : Cardinality(DefinitionsOf(r)) + (IF r \in Parameters THEN 1 ELSE 0) <= 1

\* Every quad still writes the register it wrote, or does nothing.
ResultsKept ==
    \A b \in Range(layout) : \A q \in Range(quads[b]) :
        q.result # None =>
            \/ operand[q.result] = LoadedOperands[q.result]
            \/ q.op = "ASSIGN" /\ operand[q.arg1] = operand[q.result]

SameOutcomes ==
    \A values \in ParameterValues : Outcome(Now, values) = Outcome(Before, values)

\* The optimized function returns the same number, and its calls are given the
\* same, for all arguments, if no register has two values and no rewriting hit
\* the operand that is another quad's result.
OptimizedAlike ==
    pass = "optimized" /\ OneValueEach /\ ResultsKept => SameOutcomes

\* The same, with nothing asked but that no register has two values.
OptimizedAlikeInSsa == pass = "optimized" /\ OneValueEach => SameOutcomes

\* The lists of predecessors that out_of_ssa follows are the edges between the
\* blocks that are left, freed blocks aside, and every phi has one entry for
\* each of these edges under the number its origin goes by now.
PhisMatchEdges ==
    pass = "optimized" =>
        \A b, p \in Range(layout) :
            /\ Contains(predecessors[b], p) <=> Contains(successors[p], b)
            /\ Contains(successors[p], b) =>
                   \A phi \in Range(entries[b]) :
                       Cardinality({i \in DOMAIN entries[b] :
                           /\ entries[b][i].result_reg = phi.result_reg
                           /\ entries[b][i].from_label = id_block[p]}) = 1

\* A phi takes a register from a block that copies it to itself.
SelfCopyAtPhi ==
    \E b \in Range(layout) : \E phi \in Range(entries[b]) :
        \E q \in CopiesInto(b, phi) : operand[q.arg1] = operand[q.result]

\* optimize_ir, once called, ends, or a phi follows a register to a copy of
\* itself.
Ends == pass = "combine" ~> (pass = "optimized" \/ SelfCopyAtPhi)

=============================================================================
