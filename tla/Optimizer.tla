----------------------------- MODULE Optimizer ------------------------------
(***************************************************************************)
(* optimize_ir of mncc (optimizator/opt.c) on what into_ssa leaves: SSA's  *)
(* actions run first, and its code and phis stay as the form before.       *)
(*                                                                         *)
(* A quad points to its operands, and the rewriting changes operands in    *)
(* place.  gen_ir_expr (IR/ir.c) hands one operand to the quad that        *)
(* computes a value, as its result, and to the quad that takes the value,  *)
(* as its argument.  So an operand here has a name, <<id, 0>> for the      *)
(* result of quad id and <<id, k>> for its k-th argument, and the argument *)
(* that takes a computed value has the name of that value's result.        *)
(*                                                                         *)
(* The quads of fn carry a field "shape" beside those of SSA: for arg1 and *)
(* arg2, a number or the place of its register in "reads".  fn.terminator  *)
(* gives the terminator of each block; a JE goes to its first successor    *)
(* when the condition is not 0.                                            *)
(***************************************************************************)
EXTENDS SSA

VARIABLES
    pass,             \* "ssa", a pass of optimize_ir, or "optimized"
    operand,          \* what each operand holds
    quads,            \* the quads of each block
    entries,          \* the phis of each block
    successors, predecessors, terminator,
    layout, id_block, \* graph->blocks, and the number each block goes by
    cur, place,       \* where the pass stands: block in layout, quad or phi in block
    changed,          \* the flag of the do-while loop
    used              \* registers with a use_tab above 0

graphVars == <<successors, predecessors, terminator, layout, id_block>>
optVars == <<pass, operand, quads, entries, graphVars, cur, place, changed, used>>

None == <<>>

Number(n) == [type |-> "NUM", val |-> n]
Register(r) == [type |-> "VIR_REG", val |-> r]

-----------------------------------------------------------------------------
(* The graph as into_ssa leaves it, and its operands *)

BlocksInOrder == [n \in 1 .. fn.block_count |-> n - 1]

\* The quad whose result operand is the one that reads of register r share:
\* gen_ir_expr makes it; a variable gets a new operand for each mention.
Computing(r) == {q \in Quads : q.result = r /\ q.op # "ASSIGN"}

NameOf(id, k, r) ==
    IF Computing(r) = {} THEN <<id, k>> ELSE <<(CHOOSE q \in Computing(r) : TRUE).id, 0>>

ArgumentName(q, k) ==
    CASE k > Len(q.shape)              -> None
      [] q.shape[k].type = "NUM"       -> <<q.id, k>>
      [] OTHER                         -> NameOf(q.id, k, q.reads[q.shape[k].val])

LoadedQuad(q) ==
    [id |-> q.id, op |-> q.op, arg1 |-> ArgumentName(q, 1), arg2 |-> ArgumentName(q, 2),
     args |-> [i \in DOMAIN q.args |-> NameOf(q.id, 2 + i, q.args[i])],
     result |-> IF q.result = NoReg THEN None ELSE <<q.id, 0>>]

LoadedQuads == [b \in Block |-> [i \in DOMAIN code[b] |-> LoadedQuad(code[b][i])]]

\* What the operands of quad q hold, under the names they have in it.
Holdings(q) ==
    {<<ArgumentName(q, k), IF q.shape[k].type = "NUM" THEN q.shape[k]
                           ELSE Register(q.reads[q.shape[k].val])>> : k \in DOMAIN q.shape}
        \cup {<<NameOf(q.id, 2 + i, q.args[i]), Register(q.args[i])>> : i \in DOMAIN q.args}
        \cup (IF q.result = NoReg THEN {} ELSE {<<<<q.id, 0>>, Register(q.result)>>})

LoadedOperands ==
    LET holdings == UNION {Holdings(q) : q \in UNION {Range(code[b]) : b \in Block}}
    IN  [o \in {h[1] : h \in holdings} |-> (CHOOSE h \in holdings : h[1] = o)[2]]

Load ==
    /\ pass = "ssa"
    /\ InSsa
    /\ pass' = "combine"
    /\ quads' = LoadedQuads
    /\ operand' = LoadedOperands
    /\ entries' = phis
    /\ UNCHANGED <<graphVars, cur, place, changed, used>>

-----------------------------------------------------------------------------
(* Reading operands *)

IsReg(o) == o # None /\ operand[o].type = "VIR_REG"
IsNum(o) == o # None /\ operand[o].type = "NUM"
Is(o, n) == o # None /\ operand[o] = Number(n)
Num(o) == operand[o].val

\* The last of the quads in front of place i that assigns what operand o holds.
AssignsBefore(b, i, o) ==
    {j \in 1 .. i - 1 : /\ quads[b][j].op = "ASSIGN"
                        /\ operand[quads[b][j].result] = operand[o]}

\* is_var_assigned_to_zero: the nearest assignment in the block decides.
AssignedZero(b, i, o) ==
    /\ IsReg(o)
    /\ AssignsBefore(b, i, o) # {}
    /\ Is(quads[b][Max(AssignsBefore(b, i, o))].arg1, 0)

-----------------------------------------------------------------------------
(* run_combiner: the patterns.  Each turns the quad into an ASSIGN of arg1  *)
(* and gives the set of what arg1 may then hold: one element, or none when  *)
(* the pattern does not fit.                                                *)

When(condition, holds) == IF condition THEN {holds} ELSE {}

\* C's division, which rounds towards zero.
Quotient(m, n) ==
    LET abs(z) == IF z < 0 THEN -z ELSE z
        q == abs(m) \div abs(n)
    IN  IF (m < 0) = (n < 0) THEN q ELSE -q

Computed(op, m, n) ==
    CASE op = "ADD"  -> m + n
      [] op = "SUB"  -> m - n
      [] op = "MULT" -> m * n
      [] op = "DIV"  -> Quotient(m, n)
      [] op = "CMP"  -> IF m = n THEN 1 ELSE 0

IfTwoNums(q) ==
    When(IsNum(q.arg1) /\ IsNum(q.arg2) /\ ~(q.op = "DIV" /\ Is(q.arg2, 0)),
         Number(Computed(q.op, Num(q.arg1), Num(q.arg2))))

IfTwoNumsCmp(q) ==
    When(IsNum(q.arg1) /\ IsNum(q.arg2), Number(IF Num(q.arg1) = Num(q.arg2) THEN 1 ELSE 0))

IfNumNull(q) ==
    CASE q.op \in {"ADD", "SUB"} /\ Is(q.arg2, 0) -> {operand[q.arg1]}
      [] q.op = "ADD" /\ Is(q.arg1, 0)            -> {operand[q.arg2]}
      [] q.op = "MULT"                            -> When(Is(q.arg1, 0) \/ Is(q.arg2, 0), Number(0))
      [] OTHER                                    -> {}

IfNumOne(q) ==
    CASE Is(q.arg2, 1)                  -> {operand[q.arg1]}
      [] q.op = "MULT" /\ Is(q.arg1, 1) -> {operand[q.arg2]}
      [] OTHER                          -> {}

IfSameRegs(q) == When(IsReg(q.arg1) /\ IsReg(q.arg2) /\ Num(q.arg1) = Num(q.arg2), Number(0))

\* b and i: where q stands.
IfVarNullEither(q, b, i) ==
    LET zero1 == AssignedZero(b, i, q.arg1)
        zero2 == AssignedZero(b, i, q.arg2)
    IN  CASE ~zero1 /\ ~zero2 -> {}
          [] q.op = "ADD"     -> {IF zero1 THEN operand[q.arg2] ELSE operand[q.arg1]}
          [] q.op = "SUB"     -> {operand[q.arg1]}
          [] q.op = "MULT"    -> {Number(0)}
IfVarNull(q, b, i) ==
    LET zero1 == AssignedZero(b, i, q.arg1)
        zero2 == AssignedZero(b, i, q.arg2)
    IN  CASE ~zero1 /\ ~zero2 -> {}
          [] q.op = "ADD"     -> {IF zero1 THEN operand[q.arg2] ELSE operand[q.arg1]}
          [] q.op = "SUB"     -> When(zero2, operand[q.arg1])
          [] q.op = "MULT"    -> {Number(0)}

IfCmpWithNull(q, b, i) ==
    When(AssignedZero(b, i, q.arg1) /\ AssignedZero(b, i, q.arg2), Number(1))

\* pattern_table: what fits the quad at place i of block b, in its order.
Patterns(q, b, i) ==
    CASE q.op = "ADD"  -> <<IfVarNull(q, b, i), IfTwoNums(q), IfNumNull(q)>>
      [] q.op = "MULT" -> <<IfTwoNums(q), IfNumNull(q), IfNumOne(q), IfVarNull(q, b, i)>>
      [] q.op = "SUB"  -> <<IfTwoNums(q), IfSameRegs(q), IfNumNull(q), IfVarNull(q, b, i)>>
      [] q.op = "DIV"  -> <<IfTwoNums(q), IfNumOne(q)>>
      [] q.op = "CMP"  -> <<IfTwoNumsCmp(q), IfCmpWithNull(q, b, i)>>
      [] OTHER         -> <<>>

Fitting(q, b, i) == SelectSeq(Patterns(q, b, i), LAMBDA holds : holds # {})

\* The block the loop over graph->head, next_block stands at.
CurBlock == layout[cur]

\* One turn of the inner loop: the first pattern that fits changes the quad
\* and what its arg1 holds, wherever else that operand is pointed to.
Combine ==
    /\ pass = "combine"
    /\ place <= Len(quads[CurBlock])
    /\ LET q == quads[CurBlock][place]
           fitting == Fitting(q, CurBlock, place)
       IN  /\ \/ fitting = <<>> /\ UNCHANGED <<quads, operand, changed>>
              \/ /\ fitting # <<>>
                 /\ quads' = [quads EXCEPT ![CurBlock][place].op = "ASSIGN",
                                           ![CurBlock][place].arg2 = None]
                 /\ \E holds \in Head(fitting) : operand' = [operand EXCEPT ![q.arg1] = holds]
                 /\ changed' = TRUE
    /\ place' = place + 1
    /\ UNCHANGED <<pass, entries, graphVars, cur, used>>

CombineAgain ==
    /\ pass = "combine"
    /\ place > Len(quads[CurBlock])
    /\ place' = 1
    /\ changed' = FALSE
    /\ pass' = IF changed THEN "combine" ELSE "fold"
    /\ UNCHANGED <<operand, quads, entries, graphVars, cur, used>>

-----------------------------------------------------------------------------
(* fold_conditional_branch *)

\* The JE that ends block b, and the assignment that decides it.
FoldsOn(b) ==
    LET n == Len(quads[b])
        assigns == AssignsBefore(b, n, quads[b][n].arg1)
    IN  /\ terminator[b] = "JE"
        /\ IsReg(quads[b][n].arg1)
        /\ assigns # {}
        /\ IsNum(quads[b][Max(assigns)].arg1)

Condition(b) == Num(quads[b][Max(AssignsBefore(b, Len(quads[b]), Last(quads[b]).arg1))].arg1)

Taken(value) == IF value # 0 THEN 1 ELSE 2

\* A list of predecessors without the block that does not lead there any more.
WithoutPredecessorKept(list, b) == list
WithoutPredecessor(list, b) == SelectSeq(list, LAMBDA p : p # b)

Fold ==
    /\ pass = "fold"
    /\ pass' = "copies"
    /\ \/ ~FoldsOn(CurBlock) /\ UNCHANGED <<quads, successors, predecessors, terminator>>
       \/ /\ FoldsOn(CurBlock)
          /\ LET taken == Taken(Condition(CurBlock))
                 dead == successors[CurBlock][3 - taken]
             IN  /\ successors' = [successors EXCEPT ![CurBlock] = <<@[taken]>>]
                 /\ predecessors' = [predecessors EXCEPT ![dead] = WithoutPredecessor(@, CurBlock)]
          /\ terminator' = [terminator EXCEPT ![CurBlock] = "JMP"]
          /\ quads' = [quads EXCEPT ![CurBlock] =
                           Append(Front(@), [Last(@) EXCEPT !.op = "JMP", !.arg1 = None])]
    /\ UNCHANGED <<operand, entries, layout, id_block, cur, place, changed, used>>

-----------------------------------------------------------------------------
(* run_copy_propagation, run_copy_propagation_phi *)

IsCopy(q) == q.op = "ASSIGN" /\ IsReg(q.result) /\ IsReg(q.arg1)

\* The operands behind place i of the block that read what the quad there sets.
ReadsOfCopy(b, i) ==
    {o \in UNION {{quads[b][j].arg1, quads[b][j].arg2} : j \in i + 1 .. Len(quads[b])} :
        IsReg(o) /\ operand[o] = operand[quads[b][i].result]}

\* Copies of a register to itself are passed over.
CopiesAll(q) == IsCopy(q)
Copies(q) == IsCopy(q) /\ operand[q.result] # operand[q.arg1]

PropagateCopy ==
    /\ pass = "copies"
    /\ place <= Len(quads[CurBlock])
    /\ LET q == quads[CurBlock][place]
           reads == IF Copies(q) THEN ReadsOfCopy(CurBlock, place) ELSE {}
       IN  /\ operand' = [o \in DOMAIN operand |-> IF o \in reads THEN operand[q.arg1] ELSE operand[o]]
           /\ changed' = (changed \/ reads # {})
    /\ place' = place + 1
    /\ UNCHANGED <<pass, quads, entries, graphVars, cur, used>>

\* The loop again, or the next block of optimize_ir's loop, or the phis.
CopiesAgain ==
    /\ pass = "copies"
    /\ place > Len(quads[CurBlock])
    /\ place' = 1
    /\ changed' = FALSE
    /\ pass' = IF changed THEN "copies" ELSE IF cur < Len(layout) THEN "combine" ELSE "phi_copies"
    /\ cur' = IF changed THEN cur ELSE IF cur < Len(layout) THEN cur + 1 ELSE 1
    /\ UNCHANGED <<operand, quads, entries, graphVars, used>>

\* The copies in the predecessor of b that phi names, which set its register.
CopiesInto(b, phi) ==
    {q \in UNION {Range(quads[p]) : p \in {p \in Range(predecessors[b]) : id_block[p] = phi.from_label}} :
        IsCopy(q) /\ operand[q.result].val = phi.reg_index}

\* The last of them: no register has two in one block.
PropagateCopyPhi ==
    /\ pass = "phi_copies"
    /\ place <= Len(entries[CurBlock])
    /\ LET phi == entries[CurBlock][place]
           copies == CopiesInto(CurBlock, phi)
           last == CHOOSE q \in copies : \A r \in copies : r.id <= q.id
       IN  /\ entries' = IF copies = {} THEN entries
                         ELSE [entries EXCEPT ![CurBlock][place].reg_index = operand[last.arg1].val]
           /\ changed' = (changed \/ copies # {})
    /\ place' = place + 1
    /\ UNCHANGED <<pass, operand, quads, graphVars, cur, used>>

\* fill_use_table of every block.
UsedIn(b) ==
    {operand[o].val : o \in {p \in UNION {{q.arg1, q.arg2} \cup Range(q.args) : q \in Range(quads[b])} : IsReg(p)}}
        \cup {phi.reg_index : phi \in Range(entries[b])}

UsedRegisters == UNION {UsedIn(b) : b \in Range(layout)}

NextBlockOfPhis ==
    /\ pass = "phi_copies"
    /\ place > Len(entries[CurBlock])
    /\ cur < Len(layout)
    /\ cur' = cur + 1
    /\ place' = 1
    /\ UNCHANGED <<pass, operand, quads, entries, graphVars, changed, used>>

PhisAgain ==
    /\ pass = "phi_copies"
    /\ place > Len(entries[CurBlock])
    /\ cur = Len(layout)
    /\ cur' = 1
    /\ place' = 1
    /\ changed' = FALSE
    /\ pass' = IF changed THEN "phi_copies" ELSE "dce"
    /\ used' = IF changed THEN used ELSE UsedRegisters
    /\ UNCHANGED <<operand, quads, entries, graphVars>>

-----------------------------------------------------------------------------
(* run_dce, run_phi_dce, remove_unreachable_blocks *)

IsDead(q) == IsReg(q.result) /\ q.op # "CALL" /\ operand[q.result].val \notin used

RemoveDead ==
    /\ pass = "dce"
    /\ quads' = [quads EXCEPT ![CurBlock] = SelectSeq(@, LAMBDA q : ~IsDead(q))]
    /\ entries' = [entries EXCEPT ![CurBlock] = SelectSeq(@, LAMBDA phi : phi.result_reg \in used)]
    /\ pass' = IF cur < Len(layout) THEN "dce" ELSE "unreachable"
    /\ cur' = IF cur < Len(layout) THEN cur + 1 ELSE 1
    /\ UNCHANGED <<operand, graphVars, place, changed, used>>

Reached ==
    FoldLeft(LAMBDA found, n : found \cup UNION {Range(successors[b]) : b \in found},
             {layout[1]}, BlocksInOrder)

\* The from_label of a phi that named the block old: new_id, -1 for a freed one.
NewLabelKept(old, new) == old
NewLabel(old, new) == new[old]

\* The blocks that are freed leave graph->blocks, but no list of predecessors.
RemoveUnreachable ==
    /\ pass = "unreachable"
    /\ LET live == SelectSeq(layout, LAMBDA b : b \in Reached)
           new == [b \in Block |-> IF b \in Reached THEN SelectInSeq(live, LAMBDA c : c = b) - 1 ELSE -1]
       IN  /\ layout' = live
           /\ id_block' = [b \in Block |-> IF b \in Reached THEN new[b] ELSE id_block[b]]
           /\ entries' = [b \in Block |->
                             [i \in DOMAIN entries[b] |->
                                 [entries[b][i] EXCEPT !.from_label = NewLabel(@, new)]]]
    /\ pass' = "optimized"
    /\ UNCHANGED <<operand, quads, successors, predecessors, terminator, cur, place, changed, used>>

-----------------------------------------------------------------------------
OptInit ==
    /\ Init
    /\ pass = "ssa"
    /\ operand = <<>>
    /\ quads = [b \in Block |-> <<>>]
    /\ entries = [b \in Block |-> <<>>]
    /\ successors = fn.successors
    /\ predecessors = fn.predecessors
    /\ terminator = fn.terminator
    /\ layout = [n \in 1 .. fn.block_count |-> n - 1]
    /\ id_block = [b \in Block |-> b]
    /\ cur = 1
    /\ place = 1
    /\ changed = FALSE
    /\ used = {}

IntoSsa ==
    /\ pass = "ssa"
    /\ ~InSsa
    /\ Next
    /\ UNCHANGED optVars

Optimize ==
    /\ UNCHANGED vars
    /\ \/ Load \/ Combine \/ CombineAgain \/ Fold \/ PropagateCopy \/ CopiesAgain
       \/ PropagateCopyPhi \/ NextBlockOfPhis \/ PhisAgain \/ RemoveDead \/ RemoveUnreachable

OptNext == IntoSsa \/ Optimize

OptSpec == OptInit /\ [][OptNext]_<<vars, optVars>> /\ WF_<<vars, optVars>>(Optimize)

=============================================================================
