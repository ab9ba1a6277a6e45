------------------------------- MODULE SSARun -------------------------------
(***************************************************************************)
(* One function in three forms, run side by side: as IR generation made    *)
(* it, in SSA form with phis, and as out_of_ssa leaves it.  The runs take  *)
(* the same branches.  A value is the number of the quad that made it, or  *)
(* -1 - r for what register r holds in the beginning.                      *)
(***************************************************************************)
EXTENDS SSA

VARIABLES
    ssa,              \* code and phis when renaming has ended
    at, from,         \* the block the runs are in, and the one before
    over,             \* a RET is passed
    regs, seen        \* of each form: registers, and what the quads of the block read

runVars == <<ssa, at, from, over, regs, seen>>

Forms == {"source", "ssa", "final"}

RunInit ==
    /\ Init
    /\ ssa = [code |-> fn.code, phis |-> phis]
    /\ at = NoBlock
    /\ from = NoBlock
    /\ over = FALSE
    /\ regs = [f \in Forms |-> <<>>]
    /\ seen = [f \in Forms |-> <<>>]

\* One step of into_ssa or out_of_ssa.  main runs optimize_ir between the two:
\* here the form that into_ssa leaves goes to out_of_ssa as it is, and
\* OptimizerRun says when the optimizer keeps what that form does.
Translate ==
    /\ Next
    /\ ssa' = IF stage = "rename" THEN [code |-> code', phis |-> phis'] ELSE ssa
    /\ UNCHANGED <<at, from, over, regs, seen>>

CodeOf(form) == IF form = "source" THEN fn.code ELSE IF form = "ssa" THEN ssa.code ELSE code

ValuesOf(file, registers) == [k \in DOMAIN registers |-> file[registers[k]]]

\* One quad; s holds the registers and what was seen so far.
Step(s, q) ==
    LET value == IF q.id = 0 THEN s.file[q.reads[1]] ELSE q.id
        look == [id |-> q.id, reads |-> ValuesOf(s.file, q.reads), args |-> ValuesOf(s.file, q.args)]
    IN  IF s.over THEN s
        ELSE [file |-> IF q.result = NoReg THEN s.file ELSE [s.file EXCEPT ![q.result] = value],
              looks |-> IF q.id = 0 THEN s.looks ELSE Append(s.looks, look),
              over |-> q.op = "RET"]

Execute(form, b, file) ==
    FoldLeft(Step, [file |-> file, looks |-> <<>>, over |-> FALSE], CodeOf(form)[b])

\* The phis of block y take effect together when control comes from p.
WithPhis(form, p, y) ==
    LET phi == IF form = "ssa" /\ p # NoBlock THEN SelectSeq(ssa.phis[y], LAMBDA e : e.from_label = p)
               ELSE <<>>
    IN  [r \in 0 .. reg_count - 1 |->
            IF \E i \in DOMAIN phi : phi[i].result_reg = r
            THEN regs[form][phi[CHOOSE i \in DOMAIN phi : phi[i].result_reg = r].reg_index]
            ELSE IF p = NoBlock THEN -1 - r ELSE regs[form][r]]

EnterBlock(b) ==
    /\ from' = at
    /\ at' = b
    /\ LET after == [f \in Forms |-> Execute(f, b, WithPhis(f, at, b))]
       IN  /\ regs' = [f \in Forms |-> after[f].file]
           /\ seen' = [f \in Forms |-> after[f].looks]
           /\ over' = after["source"].over
    /\ UNCHANGED <<vars, ssa>>

Start == stage = "done" /\ at = NoBlock /\ EnterBlock(0)

Follow == at # NoBlock /\ ~over /\ \E b \in Range(fn.successors[at]) : EnterBlock(b)

RunNext == Translate \/ Start \/ Follow

RunSpec == RunInit /\ [][RunNext]_<<vars, runVars>>

-----------------------------------------------------------------------------
(* What the three forms have in common *)

SourceQuad(id) == CHOOSE q \in Range(fn.code[at]) : q.id = id

\* A phi for r stands in a block that is on every path to the current one.
Merged(doms, r) == \E y \in doms[at] : \E phi \in Range(ssa.phis[y]) : phi.orig_var = r

\* Form f reads what the source reads: arg1 and arg2 where operands tells so
\* of the register, call arguments where arguments does.
SameReads(f, operands(_), arguments(_)) ==
    /\ Len(seen[f]) = Len(seen["source"])
    /\ \A i \in DOMAIN seen["source"] :
           LET was == seen["source"][i]
               now == seen[f][i]
           IN  /\ now.id = was.id
               /\ \A k \in DOMAIN was.reads :
                      operands(SourceQuad(was.id).reads[k]) => now.reads[k] = was.reads[k]
               /\ \A k \in DOMAIN was.args :
                      arguments(SourceQuad(was.id).args[k]) => now.args[k] = was.args[k]

\* Up to the first merge of a register every arg1 and arg2 reads the value it
\* had in the source, whatever arms the run takes; a call argument does where
\* its register has one definition.
ReadsKeptBeforeMerges ==
    at # NoBlock =>
        LET doms == DominatorsOf(fn.successors)
        IN  \A f \in {"ssa", "final"} :
                SameReads(f, LAMBDA r : ~Merged(doms, r),
                             LAMBDA r : ~Merged(doms, r) /\ ~NeedsRename(r))

\* Every arg1 and arg2 reads the value it had in the source.
ReadsKept == at # NoBlock => SameReads("final", LAMBDA r : TRUE, LAMBDA r : FALSE)

\* The copies of out_of_ssa do what the phis do: when control goes from one
\* block to the next, the result of every phi holds what the phi would give it,
\* and nothing that the final form reads differs from the SSA form.
CopiesDoPhis ==
    [][at' # at =>
           /\ seen'["final"] = seen'["ssa"]
           /\ at # NoBlock =>
                  \A e \in Range(ssa.phis[at']) : e.from_label = at =>
                      regs["final"][e.result_reg] = regs["ssa"][e.reg_index]]_<<vars, runVars>>

=============================================================================
