-------------------------------- MODULE SSA --------------------------------
(***************************************************************************)
(* into_ssa and out_of_ssa of mncc (IR/ir_ssa.c) with place_phi            *)
(* (IR/ir_phi.c) on the graph of one function.  A quad keeps the registers *)
(* of arg1 and arg2 (reads), of its call arguments (args) and its result;  *)
(* id is its place in the source, 0 for the copies that out_of_ssa adds.   *)
(* The dominator tree is Dominance's: MCDominators shows that              *)
(* build_dominators computes it.  The growing arrays of the code are       *)
(* sequences.                                                              *)
(***************************************************************************)
EXTENDS Integers, Sequences, FiniteSets, SequencesExt, Dominance

CONSTANT Functions    \* graphs: [block_count, reg_count, code, successors, predecessors]

NoReg == -1

\* What build_cfg leaves: lists of edges that agree, quads over registers.
ASSUME FunctionAssumption ==
    \A f \in Functions :
        LET Blocks == 0 .. f.block_count - 1
        IN  /\ f.block_count \in Nat \ {0} /\ f.reg_count \in Nat
            /\ f.successors \in [Blocks -> Seq(Blocks)]
            /\ f.predecessors \in [Blocks -> Seq(Blocks)]
            /\ \A x, y \in Blocks : Contains(f.successors[x], y) <=> Contains(f.predecessors[y], x)
            /\ DOMAIN f.code = Blocks
            /\ \A b \in Blocks :
                   /\ f.code[b] \in Seq(Range(f.code[b]))
                   /\ \A q \in Range(f.code[b]) :
                          /\ {"id", "op", "reads", "args", "result"} \subseteq DOMAIN q
                          /\ q.result \in NoReg .. f.reg_count - 1
                          /\ q.reads \in Seq(0 .. f.reg_count - 1)

VARIABLES
    fn,               \* the function, as build_cfg leaves it
    stage,            \* "dominators", "place", "rename", "copies", "done"
    idom, df,
    reg, queue, in_queue,       \* place_phi: the register, its worklist
    phis, code, reg_count,
    versions,         \* ssa_rename: a stack for each register
    pushed,
    frames,           \* its active calls
    block             \* where out_of_ssa stands

treeVars == <<idom, df>>
workVars == <<reg, queue, in_queue>>
stackVars == <<versions, pushed, frames>>
vars == <<fn, stage, treeVars, workVars, phis, code, reg_count, stackVars, block>>

Block == 0 .. fn.block_count - 1
Regs == 0 .. fn.reg_count - 1
Quads == UNION {Range(fn.code[b]) : b \in Block}

\* defs and needs_rename: the registers with more than one definition.
NeedsRename(r) == Cardinality({q \in Quads : q.result = r}) > 1

Init ==
    /\ fn \in Functions
    /\ stage = "dominators"
    /\ idom = [b \in Block |-> NoBlock]
    /\ df = [b \in Block |-> {}]
    /\ reg = 0
    /\ queue = <<>>
    /\ in_queue = {}
    /\ phis = [b \in Block |-> <<>>]
    /\ code = fn.code
    /\ reg_count = fn.reg_count
    /\ versions = [r \in Regs |-> <<r>>]
    /\ pushed = <<>>
    /\ frames = <<>>
    /\ block = 0

-----------------------------------------------------------------------------
(* place_phi *)

\* The blocks that define r.
DefiningBlocks(r) == {b \in Block : \E q \in Range(fn.code[b]) : q.result = r}

HasPhi(b, r) == \E phi \in Range(phis[b]) : phi.result_reg = r

BuildDominators ==
    /\ stage = "dominators"
    /\ LET doms == DominatorsOf(fn.successors)
       IN  /\ idom' = [b \in Block |-> IF b \in DOMAIN doms \ {0}
                                       THEN ImmediateDominator(doms, b) ELSE NoBlock]
           /\ df' = [b \in Block |-> IF b \in DOMAIN doms
                                     THEN Frontier(fn.successors, doms, b) ELSE {}]
    /\ queue' = SetToSeq(DefiningBlocks(reg))
    /\ stage' = "place"
    /\ UNCHANGED <<fn, reg, in_queue, phis, code, reg_count, stackVars, block>>

\* The entries of a new phi for r in block y, one for each predecessor.
NewPhiOf(y, r) ==
    [p \in 1 .. Len(fn.predecessors[y]) |->
        [result_reg |-> r, orig_var |-> r, reg_index |-> 0, from_label |-> y]]
NewPhi(y, r) ==
    [p \in 1 .. Len(fn.predecessors[y]) |->
        [result_reg |-> r, orig_var |-> r, reg_index |-> 0,
         from_label |-> fn.predecessors[y][p]]]

\* The frontier blocks that go to the worklist; its order is immaterial.
EnqueuesNone(gets) == <<>>
Enqueues(gets) == SetToSeq(gets \ in_queue)

\* One block of the worklist: its frontier gets a phi where it has none, and
\* the blocks that got one wait in turn, each once.
PlacePhi ==
    /\ stage = "place"
    /\ queue # <<>>
    /\ LET gets == {y \in df[Head(queue)] : ~HasPhi(y, reg)}
       IN  /\ phis' = [y \in Block |-> IF y \in gets THEN phis[y] \o NewPhi(y, reg)
                                       ELSE phis[y]]
           /\ queue' = Tail(queue) \o Enqueues(gets)
           /\ in_queue' = in_queue \cup gets
    /\ UNCHANGED <<fn, stage, treeVars, reg, code, reg_count, stackVars, block>>

PlaceNextReg ==
    /\ stage = "place"
    /\ queue = <<>>
    /\ reg + 1 < fn.reg_count
    /\ reg' = reg + 1
    /\ queue' = SetToSeq(DefiningBlocks(reg + 1))
    /\ in_queue' = {}
    /\ UNCHANGED <<fn, stage, treeVars, phis, code, reg_count, stackVars, block>>

-----------------------------------------------------------------------------
(* ssa_rename *)

Current(stacks, r) == Last(stacks[r])

\* rename_push of a fresh version of r, recorded in pushed.
PushStale(s, r) ==
    [s EXCEPT !.versions[r] = Append(@, s.reg_count), !.pushed = Append(@, r)]
Push(s, r) ==
    [s EXCEPT !.versions[r] = Append(@, s.reg_count), !.pushed = Append(@, r),
              !.reg_count = @ + 1]

\* The phis at the head of a block: the first entry of a variable that is not
\* renamed makes a version, which all its entries take as their result.
RenamePhi(s, i) ==
    LET var == s.phis[i].orig_var
        first == \A k \in 1 .. i - 1 : s.phis[k].orig_var # var
    IN  IF first /\ ~NeedsRename(var)
        THEN [Push(s, var) EXCEPT !.phis =
                [j \in DOMAIN s.phis |-> IF s.phis[j].orig_var = var
                                         THEN [s.phis[j] EXCEPT !.result_reg = s.reg_count]
                                         ELSE s.phis[j]]]
        ELSE s

Renamed(s, r) == IF r < fn.reg_count /\ NeedsRename(r) THEN Current(s.versions, r) ELSE r

\* One quad: the operands arg1 and arg2, then the result.  Call arguments stay.
RenameQuad(s, q) ==
    LET read == [q EXCEPT !.reads = [k \in DOMAIN q.reads |-> Renamed(s, q.reads[k])]]
    IN  IF q.result # NoReg /\ NeedsRename(q.result)
        THEN [Push(s, q.result) EXCEPT !.quads = Append(@, [read EXCEPT !.result = s.reg_count])]
        ELSE [s EXCEPT !.quads = Append(@, read)]

\* What stands at the head of block b, its phis and behind them its quads, taken
\* one by one.
RenameItem(b, s, i) ==
    IF i <= Len(phis[b]) THEN RenamePhi(s, i) ELSE RenameQuad(s, code[b][i - Len(phis[b])])

Renaming(b, n) ==
    LET after[i \in 0 .. n] ==
            IF i = 0 THEN [versions |-> versions, pushed |-> pushed, reg_count |-> reg_count,
                           phis |-> phis[b], quads |-> <<>>]
            ELSE RenameItem(b, after[i - 1], i)
    IN  after[n]

\* The call for block b up to its loop over the children.
RenameBlock(b) ==
    LET s == Renaming(b, Len(phis[b]) + Len(code[b]))
        FromHere(phi) == IF phi.from_label = b
                         THEN [phi EXCEPT !.reg_index = Current(s.versions, phi.orig_var)]
                         ELSE phi
    IN  /\ code' = [code EXCEPT ![b] = s.quads]
        /\ phis' = [y \in Block |->
                       LET now == IF y = b THEN s.phis ELSE phis[y]
                       IN  IF Contains(fn.successors[b], y)
                           THEN [i \in DOMAIN now |-> FromHere(now[i])] ELSE now]
        /\ versions' = s.versions
        /\ pushed' = s.pushed
        /\ reg_count' = s.reg_count

RenameHead ==
    /\ stage = "place"
    /\ queue = <<>>
    /\ reg + 1 >= fn.reg_count
    /\ stage' = "rename"
    /\ RenameBlock(0)
    /\ frames' = <<[block |-> 0, start |-> 0, next |-> 0]>>
    /\ UNCHANGED <<fn, treeVars, workVars, block>>

\* The blocks the innermost call has still to descend to.
Children ==
    LET top == Last(frames)
    IN  {c \in Block : c >= top.next /\ idom[c] = top.block}

RenameChild ==
    /\ stage = "rename"
    /\ frames # <<>>
    /\ Children # {}
    /\ LET c == Min(Children)
       IN  /\ RenameBlock(c)
           /\ frames' = Append(Append(Front(frames), [Last(frames) EXCEPT !.next = c + 1]),
                               [block |-> c, start |-> Len(pushed), next |-> 0])
    /\ UNCHANGED <<fn, stage, treeVars, workVars, block>>

\* The stacks once the versions pushed behind place start are popped.
UnwindNothing(start) == versions
Unwind(start) ==
    [r \in Regs |->
        LET own == {k \in start + 1 .. Len(pushed) : pushed[k] = r}
        IN  SubSeq(versions[r], 1, Len(versions[r]) - Cardinality(own))]

RenameLeave ==
    /\ stage = "rename"
    /\ frames # <<>>
    /\ Children = {}
    /\ versions' = Unwind(Last(frames).start)
    /\ pushed' = SubSeq(pushed, 1, Last(frames).start)
    /\ frames' = Front(frames)
    /\ stage' = IF Len(frames) = 1 THEN "copies" ELSE "rename"
    /\ UNCHANGED <<fn, treeVars, workVars, phis, code, reg_count, block>>

-----------------------------------------------------------------------------
(* out_of_ssa *)

Copy(source, destination) ==
    [id |-> 0, op |-> "ASSIGN", reads |-> <<source>>, args |-> <<>>, result |-> destination]

\* insert_before_terminator, for several quads in turn.
InsertFirst(quads, new) == new \o quads
InsertBeforeTerminator(quads, new) ==
    IF quads # <<>> /\ Last(quads).op \in {"JMP", "JE", "RET"}
    THEN Front(quads) \o new \o <<Last(quads)>>
    ELSE quads \o new

\* The phi entries of block b that predecessor p answers for, in order.
EntriesFor(b, p) ==
    LET here[j \in 0 .. Len(phis[b])] ==
            IF j = 0 THEN <<>>
            ELSE IF phis[b][j].from_label = p THEN Append(here[j - 1], phis[b][j]) ELSE here[j - 1]
    IN  here[Len(phis[b])]

\* What predecessor p gets for them: every source into a temporary, then every
\* temporary into its result.
CopiesFor(b, p, firstTemp) ==
    LET here == EntriesFor(b, p)
    IN  [k \in DOMAIN here |-> Copy(here[k].reg_index, firstTemp + k - 1)]
            \o [k \in DOMAIN here |-> Copy(firstTemp + k - 1, here[k].result_reg)]

AddCopies(s, p) ==
    LET copies == CopiesFor(block, p, s.reg_count)
    IN  [code |-> [s.code EXCEPT ![p] = InsertBeforeTerminator(@, copies)],
         reg_count |-> s.reg_count + Len(copies) \div 2]

\* All predecessors of the block, in turn; then its phis go.
AllCopies(b) ==
    LET after[n \in 0 .. Len(fn.predecessors[b])] ==
            IF n = 0 THEN [code |-> code, reg_count |-> reg_count]
            ELSE AddCopies(after[n - 1], fn.predecessors[b][n])
    IN  after[Len(fn.predecessors[b])]

OutOfSsa ==
    /\ stage = "copies"
    /\ block < fn.block_count
    /\ phis[block] # <<>>
    /\ code' = AllCopies(block).code
    /\ reg_count' = AllCopies(block).reg_count
    /\ phis' = [phis EXCEPT ![block] = <<>>]
    /\ block' = block + 1
    /\ UNCHANGED <<fn, stage, treeVars, workVars, stackVars>>

SkipBlock ==
    /\ stage = "copies"
    /\ block < fn.block_count
    /\ phis[block] = <<>>
    /\ block' = block + 1
    /\ UNCHANGED <<fn, stage, treeVars, workVars, phis, code, reg_count, stackVars>>

OutEnd ==
    /\ stage = "copies"
    /\ block = fn.block_count
    /\ stage' = "done"
    /\ UNCHANGED <<fn, treeVars, workVars, phis, code, reg_count, stackVars, block>>

Next ==
    \/ BuildDominators \/ PlacePhi \/ PlaceNextReg
    \/ RenameHead \/ RenameChild \/ RenameLeave
    \/ OutOfSsa \/ SkipBlock \/ OutEnd

Spec == Init /\ [][Next]_vars

-----------------------------------------------------------------------------
(* What SSA construction and destruction promise *)

Phi == [result_reg : 0 .. reg_count - 1, orig_var : Regs,
        reg_index : 0 .. reg_count - 1, from_label : Block]

SsaTypeOK ==
    /\ stage \in {"dominators", "place", "rename", "copies", "done"}
    /\ idom \in [Block -> Block \cup {NoBlock}]
    /\ df \in [Block -> SUBSET Block]
    /\ reg \in 0 .. fn.reg_count
    /\ queue \in Seq(Block)
    /\ in_queue \in SUBSET Block
    /\ phis \in [Block -> Seq(Phi)]
    /\ \A b \in Block : \A i \in DOMAIN phis[b] :
           Contains(fn.predecessors[b], phis[b][i].from_label)
    /\ DOMAIN code = Block
    /\ \A b \in Block : \A q \in Range(code[b]) : q.result \in NoReg .. reg_count - 1
    /\ versions \in [Regs -> Seq(0 .. reg_count - 1)]
    /\ pushed \in Seq(Regs)
    /\ frames \in Seq([block : Block, start : Nat, next : 0 .. fn.block_count])
    /\ block \in 0 .. fn.block_count

\* Renaming has just ended.
InSsa == stage = "copies" /\ block = 0

\* The least set of blocks that holds the frontier of every block that defines
\* r, and of its own members.
FrontierBlocks == UNION {df[b] : b \in Block}
Closed(S, r) == \A b \in DefiningBlocks(r) \cup S : df[b] \subseteq S
IteratedFrontier(r) ==
    {b \in FrontierBlocks : \A S \in SUBSET FrontierBlocks : Closed(S, r) => b \in S}

PhisFor(b, r) == {i \in DOMAIN phis[b] : phis[b][i].orig_var = r}

\* The entries of one phi for r in block b: one for each predecessor, in order.
OnePhi(b, r) ==
    \E k \in 0 .. Len(phis[b]) :
        /\ PhisFor(b, r) = k + 1 .. k + Len(fn.predecessors[b])
        /\ \A p \in 1 .. Len(fn.predecessors[b]) :
               phis[b][k + p].from_label = fn.predecessors[b][p]

\* place_phi stops with a phi for a register exactly in the iterated dominance
\* frontier of its definitions, each with one entry for every predecessor.
PhisAtFrontier ==
    stage = "rename" =>
        \A r \in Regs : \A b \in Block :
            IF b \in IteratedFrontier(r) THEN OnePhi(b, r) ELSE PhisFor(b, r) = {}

\* Where register v gets a value: at a quad, or at place 0, by a phi.
DefinitionsOf(v) ==
    (UNION {{<<b, i>> : i \in {j \in DOMAIN code[b] : code[b][j].result = v}} : b \in Block})
        \cup {<<b, 0>> : b \in {c \in Block : \E phi \in Range(phis[c]) : phi.result_reg = v}}

\* Every register that ssa_rename made has one definition, a quad or the
\* entries of one phi, however the tree of blocks branches.
VersionsOnce ==
    InSsa =>
        \A v \in UNION {{q.result : q \in Range(code[b])}
                            \cup {phi.result_reg : phi \in Range(phis[b])} : b \in Block} :
            v >= fn.reg_count => v < reg_count /\ Cardinality(DefinitionsOf(v)) = 1

=============================================================================
