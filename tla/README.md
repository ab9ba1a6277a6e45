# Verification of mncc

TLA+ models of mncc, a compiler for a small C-like language that emits arm64
Mach-O objects (`src/src/mncc`), the TLC runs that check them, and the
theorems about them that TLAPS proves. Paths below are relative to
`src/src/mncc` unless they begin with `src/`.

mncc is one sequential process that reads a file and writes a file, so nothing
here is concurrent, distributed or persistent. What makes it hard is that
every pass believes something the pass before it left: an order of blocks, one
definition per register, an interval that covers all of a register's life, a
label that counts words the way the encoder does. Properties are therefore
mostly about a pass against a reference definition of what it computes, about
two passes together, or about the program before and after a pass, executed
side by side.

## 1. Inventory

| component | code | state it keeps | operations | gives to |
|---|---|---|---|---|
| Driver | `src/src/main.c` | the order of the passes | `main`, `alloc_registers` | all |
| Lexer | `lexer/` | position in the text | `advance`, `next_token` | parser |
| Parser, AST | `parser/` | the current token, the tree | recursive descent, fixed arrays of 100 statements | semantics |
| Semantic analysis | `semantic/` | chain of scope tables, table of functions | `check_semantics`, in two phases for functions | IR generation |
| IR generation | `IR/ir.c`, `ir_basic_block.c`, `ir_graph.c`, `ir_quadriple_create.c`, `ir_operand_create.c`, `ir_reg.c`, `ir_verman.c` | current block, blocks in layout order, terminators | `gen_ir_stmt`, `gen_ir_branching`, `build_cfg` | SSA |
| Dominators | `IR/dominator_ir.c`, `IR/ir_phi.c` | numbering, forest with path compression, buckets, idom, df | `build_dominators`, `compute_dominance_frontier` | SSA |
| SSA | `IR/ir_ssa.c`, `IR/ir_phi.c` | phis, a stack of versions per register, worklist | `into_ssa`, `place_phi`, `ssa_rename`, `out_of_ssa` | optimizer, LIRA |
| Optimizer | `optimizator/opt.c` | quads, in place | folding, propagation, dead code, unreachable blocks | SSA (`out_of_ssa`) |
| Register allocation | `LIRA/` | use/def bits, live sets, intervals, free times of machine registers | `compute_local_liveness`, `compute_global_liveness`, `build_intervals`, `sort_intervals`, `greedy_allocate`, `rewrite_registers` | codegen |
| Code generation | `codegen/instruction.c` | order of functions, slot registers, labels, instructions | `compile_program_to_binary`, `compile_to_binary` | assembler |
| Encoder, assembler | `codegen/enc.c`, `codegen/emit.c`, `codegen/arm64/enc-func-arm64.c` | label addresses, words, borders | `encode_one`, `first_pass`, `second_pass`, `split_bytes`, `append_dead_functions` | object file |
| Object file, link | `codegen/object.c`, `codegen/arm64/mach.c` | text section, headers | `wrap_code`, `write_object_file`, `link_object` | `ld` |

The passes share the `IRGraph` and change it in place; there are no callbacks
and no messages. Behaviour that is hard, by component, and what makes the
component correct:

* **IR generation.** A recursion that keeps blocks in local variables while
  the current block moves under it; returns in any arm; blocks reserved in
  the layout before their code is known. Correct: the blocks mean what the
  source means; every edge leads forward (the sweeps of later passes rely on
  layout order); nothing is generated behind a branch.
* **Dominators.** Path compression rewrites labels while semidominators are
  still to come; dead blocks have edges into live ones. Correct: the result is
  dominance as defined by paths.
* **SSA.** Stacks that must be unwound between siblings of the dominator tree;
  phis placed on a worklist that grows while it is drained; copies for all phis
  of an edge that must act as if simultaneous. Correct: phis stand exactly in
  the iterated frontier, each version has one definition, each operand reads
  the value it had in the source.
* **Optimizer.** In-place changes that invalidate what another rewrite has
  read; removal of blocks that lists still name; loops that follow copies.
  Correct: the function returns and calls what it did before.
* **Register allocation.** A fixpoint loop that stops early; intervals that
  approximate live ranges; first fit in an order that is not the order of
  starts; no spilling; calls. Correct: the result is liveness; no value is
  overwritten while it is still to be read.
* **Code generation and assembly.** A buffer sized by a count apart from the
  code that fills it; return addresses kept in three registers; three places
  that count words; functions moved behind main after offsets are fixed.
  Correct: every branch reaches its label, every function returns to its
  caller, every parameter receives its argument.
* **Semantic analysis.** Two tables of names: scopes in the check, freed at the
  end of an arm, and the function's own table, read again by IR generation.
  Correct: what the check accepts is what the rules of scope allow, and IR
  generation finds the declaration the check meant, with a register in it.
* **Parser.** Which loop takes the operator, which if takes the else, where a
  body ends. Correct: the tree is the one the grammar derives, and no
  statement is lost.
* **Lexer.** Tokens of a limited size, keywords that begin names, an unknown
  character that ends the file. Correct: a text is cut exactly where its
  tokens end.

`PROJECT.json` lists every hazard at its line with the properties that watch
it, and says of those that no property watches yet why.

## 2. Modules

| module | models |
|---|---|
| `Lexer` | `next_token` |
| `Parser` | the parse functions, from `parse_file` to `parse_primary` |
| `Grammar` | the reference for both: the grammar of expressions as sets of trees, the places where tokens end, the text of a tree |
| `FrontEnd` | inputs that grow, and what lexer and parser owe on them |
| `Scopes` | `check_semantics` with the function and symbol tables, and the names of `compile_to_ir` (`read_reg`, `write_reg`) |
| `ScopesProofs` | theorems about `Scopes`: that names are written before they are read, and that the check decides by the rules |
| `SourceFlow` | the control flow that statements of the source mean; the reference for `ControlFlow` |
| `ControlFlow` | `gen_ir_stmt`, `gen_ir_branching`, `build_cfg` |
| `ControlFlowProofs` | theorems about `ControlFlow`: the shape of the graph, its edges, and that it means what the source means |
| `Dominance` | dominators and frontiers as defined by paths; the reference for `Dominators`, and the tree that `SSA`, which extends it, starts from |
| `DominanceProofs` | lemmas about `Dominance` for `SSAProofs`: that the reference is a tree |
| `Dominators` | `build_dominators` with its disjoint sets, `compute_dominance_frontier` |
| `SSA` | `into_ssa` (`place_phi`, `ssa_rename`), `out_of_ssa` |
| `SSARun` | a function executed side by side as source, with phis, and without them again |
| `SSAProofs` | theorems about `SSA`, from those about dominance |
| `Optimizer` | the passes of `optimize_ir`, on what `SSA` leaves |
| `OptimizerRun` | a function executed before and after `optimize_ir` |
| `IRGraphs` | the graph that liveness analysis reads |
| `Liveness` | `compute_local_liveness`, `compute_global_liveness` |
| `LivenessProofs` | theorems about `Liveness` |
| `IntervalColoring` | abstract: what an allocator over intervals owes |
| `GreedyAlloc` | `sort_intervals`, `greedy_allocate`; implements `IntervalColoring` |
| `GreedyAllocProofs` | theorems about `GreedyAlloc`, the refinement among them |
| `Lira` | `alloc_registers` of main.c: composes `Liveness`, `build_intervals`, `GreedyAlloc`, `rewrite_registers` |
| `LiraProofs` | theorems about `Lira`, from those about its parts |
| `Codegen` | `compile_program_to_binary`, `compile_to_binary`, `count_instructions` |
| `Assembler` | `first_pass`, `second_pass`, `split_bytes`, `wrap_code`, `append_dead_functions`, word counts of `encode_one` |
| `ProgramRun` | the instructions executed on the machine's registers |
| `CodegenProofs` | theorems about `Codegen`, `Assembler` and `ProgramRun` |
| `GraphFamilies`, `MC*` | instances for TLC; `MCDominators` composes `ControlFlow` with `Dominators` |

How state and actions correspond to the code:

* **Lexer, Parser.** A text is a sequence of characters, a token keeps the
  characters it stands for. Each parse function is an operator from the place of
  `current_token` to the place it leaves it at, with the tree; place 0 is the
  `exit(1)` of `match`. They have no state to interleave, so `FrontEnd` only
  grows their inputs. The arrays of 100 children are sequences without a bound.
* **Scopes.** A body is a sequence of events, chosen while the check walks it and
  replayed by IR generation: declare, mention, assign, call, and the two ends of
  each arm (`GenMention` and `GenAssign` are its two kinds of name). A mention is checked, or stands where the check does not look. One
  action per event in each of the two walks; `tables` are the functions' tables,
  `blocks` those of the open arms. Every type of the language is int, so
  `Check_OP` and `Check_RET` can not fail and are left out. `MaxFunctions` is the
  size of the table of functions, 256 in the code: a file that has more is refused.
* **ControlFlow.** The walk of the tree is a sequence of events; `frames` holds
  the local variables (`then_bb`, `else_bb`, `merge_bb`) of the active calls of
  `gen_ir_branching`. One action per statement kind, per end of an arm, and per
  block of `build_cfg`. An expression is the one quad it leaves; that the
  operands of a quad are right is not modelled.
* **Dominators.** `active` is the C stack of `dfs_pass`; one action per
  successor visited, per predecessor evaluated, per bucket entry, per vertex of
  the last loop, per block of the frontier loop. `Compress` is all of
  `dsu_find`.
* **SSA.** `frames` is the C stack of `ssa_rename`; entering a block renames all
  of it (`RenameBlock`), leaving it unwinds the stacks. The dominator tree is
  taken from `Dominance`; that `build_dominators` computes that tree is what
  the run `dominators` shows. The order of a frontier and of the worklist does
  not matter and is not kept. The arrays `pushed`, `queue`, `srcs`, `dsts` and
  `temps` are sequences without the sizes they have in the code. main runs
  `optimize_ir` between `into_ssa` and `out_of_ssa`; `SSARun` leaves it out, and
  `OptimizerRun` is about it alone.
* **Optimizer.** Quads point to operands, and the rewriting changes operands in
  place, so operands are places with names: `operand` maps names to contents, and
  the argument that takes a computed value has the name of the result operand of
  the quad that computes it, because `gen_ir_expr` passes on the same pointer.
  One action per turn of each inner loop, per repetition of a do-while, per block
  of the last passes. `Load` takes over what `SSA`'s actions left; arithmetic is on
  integers without a width.
* **OptimizerRun.** Both forms of a function are executed on numbers, the phis of
  a block together. A call returns a number of its own; the outcome is what is
  returned and what the calls are given.
* **Liveness.** A bit vector is a set. One action per quad in each of the two
  passes, per block, per sweep.
* **GreedyAlloc.** One action per interval. qsort leaves the order of equal
  weights open, so any interval of least length may be next.
* **Codegen, Assembler.** One action per function in each loop over functions,
  one per assembler pass. A word keeps its kind, its offset and the instruction
  it comes from; the bits of an instruction are not modelled. Operations carry
  the names they have behind `quad_to_oper` ("MOV" for ASSIGN, "NEG" for UNARY).
  `ProgramAssumption` says what a program is when it arrives: jumps lead to later
  blocks, functions have different names and at least one block.
* **ProgramRun.** One action per kind of instruction. Values are symbols (a
  number, what an instruction made, an initial value, a return address); a
  conditional jump may go either way. An instruction word has five bits for a
  register, so `Field` cuts any number to them; register 31 reads as zero. The
  processor is the external part: its
  instructions are taken to do what the encoders in `codegen/enc.c` choose
  them for.

Some modules hold a second, wrong version of a definition right in front of the
real one (`FreeAtStart` before `FreeFrom`, `EncodeJeFromFirst` before
`EncodeJe`). No specification uses them: they are plausible errors, listed as
"mutants" in `PROJECT.json`, one for each property, which TLC must find when
the wrong version takes the place of the real one.

## 3. Runs

| run | instance and bounds | shows |
|---|---|---|
| `frontend` | every text of 6 characters out of 7 (two letters that make a keyword, a digit, `=`, `+`, a blank, an unknown one), with tokens of size 4; every sequence of 6 tokens of expressions; files of up to two functions and two statements of every kind, ifs nested in arms and behind else | the text is cut where tokens end; the tree is the grammar's; files are read back, in two layouts |
| `scopes` | files of one and two functions, bodies of 4 events in all over two names, nesting 2, wrong heads among them, and one of three functions where the table holds two | the check accepts exactly the legal programs; names mean the same to IR generation as long as none is declared in an arm; every checked name has its register |
| `flow` | every function of up to 6 statements and conditions, ifs nested up to 3 deep, 13 blocks | types, edges forward and mirrored, nothing behind a branch; the meaning is kept when no if stands in an arm |
| `nested_meaning` (violated) | 4 quads, nesting 2 | the meaning is lost with an if in an arm |
| `dominators` | every graph that IR generation builds with up to 3 ifs (10 blocks), including returns that leave blocks dead | semidominators, dominators and frontiers agree with their definitions |
| `ssa` | one if (with a return in an arm or not), the graph of an if in an arm followed by another, straight code with a call; filled from small sets of quads over two variables | phis at the iterated frontier, one definition per version, operands read their source value up to the first merge, copies do what phis do |
| `ssa_merges` (violated) | one if | behind a merge they do not |
| `optimizer` | straight code of two assignments and a return, one if with arms that assign or return, ifs nested in an arm; expressions over numbers, parameters and a variable that each pattern tells apart; four pairs of arguments | the function returns and calls the same, phis match edges, every loop ends, each under the condition below |
| `greedy` | every map of 4 intervals, 3 machine registers | no sharing, failures justified, refinement |
| `lira` | for the analysis, every forward graph of 3 blocks over one register, one and two ifs over two, empty blocks among them; for the allocation, straight code, calls, one phi per merge, a function without parameters; the real pools | exact liveness, fixpoint, monotone; no clobbering, values that a call reads survive it; analysis and allocation end |
| `codegen` | programs of 2 to 5 functions in several orders, with jumps, folded jumps, numbers of every encoded length, up to 4 active calls | buffers filled exactly, branches land, functions return home, arguments arrive |
| `dividing` (violated) | main calls a function that divides | main does not return home |

Why the bounds are enough. Control flow: a bug needs an arm, an enclosing arm
and something behind both, which 4 quads give; 6 give every pair of ifs and
nesting to depth 3. Dominators: three ifs give every combination of nesting,
sequence and dead arms that one merge can see, and depth at which path
compression has more than one step to compress. Liveness treats registers
independently of each other, so one register over every small graph covers the
dataflow and two registers the bit vectors. Greedy: with 3 machine registers the
fourth interval is the first that can fail. Codegen: four functions that call
exhaust the three slots. Optimizer: a pattern looks at one quad and the
nearest assignment in front of it, so two assignments and a return have a
rewriting, its cause and its consumer. Scopes: four events hold a declaration,
an arm, a second declaration and a read. Frontend: six characters fill a token
of size 4 and start the next, six tokens hold two operators with a call or
parentheses around one of them.

`OptimizedAlike` asks two things of the function. `OneValueEach`: no register has
two values, which is what SSA form promises and `into_ssa` does not keep for a
parameter that is assigned once. `ResultsKept`: no rewriting changed an operand
that is another quad's result. Both fail by defects of their own (section
5); 776 of the run's 1456 functions keep both, 832 the first, 1344 the second. `PhisMatchEdges` leaves freed
blocks in the lists aside, and `Ends` a phi that meets a copy of a register to
itself.

`SlotsBringHome` and `ArgumentsArrive` name what the code does not secure. Both ask
that registers fit (`Fits`: every interval got a register of the pools, and there
are at most 16 parameters and arguments) and that no function runs on into the
next one (`Closed`). Returning home also takes that no function calls itself
(`IsRecursive`) and that no instruction computes in x16 (`ScratchUnused`); arriving
takes that the moves of the prologue do not cross (`MovesCross`). The programs of
`MCCodegen` have one or more that break each of these, so the conditions are met by
some runs and not by others.

Bounds by name: `MaxBlocks`, `MaxQuads`, `MaxDepth` cap the function that
`ControlFlow` generates; `MaxTime` in `MCGreedyAlloc` caps interval ends;
`MaxCalls` caps the active calls of a run;
`MaxEvents` and `MaxDepth` cap the bodies of `Scopes`, whose `MaxFunctions` is a bound
of the code made small (2 for 256); `MaxText`, `MaxTokens` and
`MaxStatements` cap the inputs of `FrontEnd`; `NarrowSize` is a size of token that
short texts can fill, beside the code's 60. `CHECK_DEADLOCK` is off everywhere,
because a compiler, and the program it makes, stop.

Fairness is assumed twice, in `FairLiraSpec` and in `OptSpec`: weak fairness of
the whole next-state relation of the pass (`LiraNext`, `Optimize`), which says only that a process that
can go on does. mncc is sequential and waits for nothing, so that is justified.
`Finishes` and `Ends` rest on it.

## 4. Proofs

TLAPS proves these for every value of the constants, under the named
assumptions on them.

* **Liveness** (`GraphAssumption`: graphs are well-formed). `IInv` adds to
  `TypeOK` where the indices stand (`Positions`), that the bits gathered so far
  are those of the quads passed (`Bits`), that every live set is behind the
  solution of its equation (`Behind`), what the scratch vector holds in the
  middle of a scan (`Scanning`), and that blocks passed in a sweep that changed
  nothing are solved (`Settled`). The last is what makes the early stop right:
  the loop ends after a sweep without a change of a live_in, and a live_out
  may only differ when a live_in did. Theorems: `TypeCorrect`,
  `ReachesFixpoint`, `SummariesAgree`, `GrowsOnly`. (`SummariesAgree` is about b_use and
  b_def, which `compute_local_liveness` gathers and nothing reads afterwards: they are
  right, and could be left out.)
  `LivenessExact` says that the fixpoint is liveness itself. One half is
  `Justified`, an invariant of its own: nothing is ever in a live_in that no
  path reads. The other is that every solution contains what is read along a
  path, by the least length of a counterexample; that paths longer than the
  number of blocks add nothing is the pigeonhole principle on a shortest one.
* **GreedyAlloc** (`PoolAssumption`, `IntervalAssumption`). `IInv` adds that
  `reg_track` bounds the ends of everything a register was given for and is the
  end of the last (`TrackBounds`, `TrackHeld`), that served intervals are no
  longer than waiting ones (`Sorted`), and that pools are respected. Although
  intervals come by length, a register's free time only moves up; that is why
  overlapping intervals stay apart. Theorems: `GreedyTypes`, `OverlapsApart`,
  `FailuresJustified`, `PoolOrder`, `GreedyImplementsColoring` (refinement).
* **Lira** (the assumptions of the two above). `LiraRunsLiveness`: the composed
  allocator, seen through the variables of the analysis, is `Liveness`, so
  everything proved of it holds inside. `StageInv` carries the result through
  the stages: intervals are what `build_intervals` computes from the final live
  sets and none is empty (what is live is read somewhere, which takes
  `LivenessExact`), which is the assumption `GreedyAlloc` has to be given; its
  `IInv` holds under `INSTANCE`. Theorems: `ArgumentsKept`, `ValuesKept`,
  `SmallFunctionsRight`. The first two have hypotheses that the code does not
  secure. `NoneLeftOver`: an interval that finds no register has phys_reg -1, and
  `rewrite_registers` then leaves the virtual number in place, which may be
  another value's register. `BeginsInTime`: no definition stands in front of the
  start of its interval, which two phis at a merge violate (`MCLiraPhis`,
  section 5). `SmallFunctionsRight` needs neither: where no register is defined
  twice and there are no more registers than callee-saved ones, counting
  shows that allocation can not fail and every interval begins in time.
* **ControlFlow** (`BoundsAssumption`). `IInv` adds that blocks not yet made have
  no terminator (`Fresh`), that targets lie behind their block
  (`JumpsForward`), that the frames on the stack reserve blocks in
  nested order (`FramesOrdered`), that reserved blocks have no JE yet
  (`ReservedOpen`), and that the current block is not closed by a JE
  (`CurrentOpen`). Theorems: `ControlFlowTypes`, `GraphForward`,
  `NothingBehindBranches`, for any number of statements and any nesting.
  `EdgesAgree` (successor and predecessor lists mirror each other, also
  multiply) needs `LInv`: the two targets of a branch differ (`ArmsApart`),
  `build_cfg` has passed the blocks before `next` and no others (`Progress`), and
  each list holds what the passed terminators put there, once (`Linked`).
  `FlatFlowKept` (`FlatFlowFaithful`: where no if stands in an arm, the blocks mean what
  the source means) relates the two walks, for any number of ifs, empty arms and
  returns. `MeaningInv` says for each step: only a JE has targets (`OnlyIfs`), the
  points of the source are the quads (`Numbered`), and as long as no if stands in an
  arm, the blocks come in threes behind the branches (`IfsFlat`), arms are closed
  by a jump to where they meet and nothing else is (`ArmsClosed`), and the current block
  is the last one or an arm of the last if (`Standing`). Where control enters and leaves
  a block (`Enters`, `Leaves`) can then be said of the block and the three before it, and
  the flow, the loose ends and the waiting ifs of `SourceFlow` are exactly
  that, at the points it reaches (`FlowIs`, `LooseIs`, `WaitIs`). `EntryPoints` looks
  through at most one empty arm and the empty last block, so no induction is needed. Once an
  if stands in an arm it stays there (`IfInArmKept`) and nothing is claimed:
  `nested_meaning` shows why.
* **Scopes**, the two walks (`ScopesAssumption`). While the compiler has not
  stopped, `Inv` holds the types (`Typed`), that the function table follows the
  file and gives each function its own table (`FunctionsFound`), that parameters
  are in it and have distinct symbols (`ParametersInTables`), that a name is in
  a function's table only as a parameter or by a declaration in front
  (`TablesKnown`), that every mention the check passed was known at its place
  (`MentionsKnown`), and, in IR generation, that whatever is known at the place it
  has come to has a register (`KnownWritten`). The two walks meet in
  `MentionsKnown`: the first one leaves it, the second one needs it. Theorem:
  `NamesWritten`.
* **Scopes**, the rules. The rules speak of paths through
  the whole body, the check of tables that come and go. `Checking` ties them:
  the open arms are the path of the place the walk has come to, and of an arm
  that may still get an else no event has stood in the else (`PathsFit`);
  every open table holds exactly the declarations of its arm, with their const
  mark, the function's own table the parameters as well (`TablesExact`,
  `OuterTables`); what was walked is legal (`LegalSoFar`). So the innermost entry
  that `search` finds is the declaration the rules mean, and a step goes on
  exactly if the event is legal (`Decided`). A file of more functions than the table
  holds is not legal; `CountsKept` says that the table never holds more. The rules for an event look only at
  events in front of it (`RulesKept`), so a refusal is final. IR generation keeps
  `RegistersHold`: where no arm declares a name, the register under a name's
  symbol is the one given at its only declaration. Theorems: `ChecksRightly`
  (`AcceptedIffLegal`, both directions) and `FlatNamesKept` (`FlatMeansSame`), for
  any number of functions, bodies of any length and any nesting.

* **Dominance** (any finite graph with entry 0). `Dominance` computes what is
  reachable by a recursion as deep as there are blocks; `Nears` shows that this is the
  least set closed under edges, because a level that adds nothing is followed by none
  that does. From that: dominance is a partial order, the dominators of a block are a
  chain, and every reachable block but the entry has exactly one immediate
  dominator, which is the one `ImmediateDominator` chooses (`DominatorTree`). These are
  lemmas about the reference, not about the code: that `build_dominators` finds this
  tree is what the run `dominators` shows. `SsaTypes` rests on them.
* **SSA** (`FunctionAssumption`: functions as `build_cfg` leaves them, with
  any number of blocks and registers and any edges). `PlaceInv` is the invariant of
  the worklist: blocks that define the register, or have got a phi for it, wait or have
  phis in all of their frontier; phis stand nowhere but in the iterated
  frontier, once; registers passed are complete. When the queue is empty the blocks with
  phis are closed under frontiers, so they are the whole of it: `PhisPlacedRight`.
  `CallsInv` says that the calls of `ssa_rename` nest and remember lengths of `pushed`,
  `ValuesInv` that every stack holds at least its register below its
  pushed versions, all counted by `reg_count`. `RenamingInv` is the invariant inside one
  block, item by item: what differs from what stood there was handed out by
  this call and handed out once. `DistinctInv` lifts that to the function, by a reasoning
  that needs nothing of the tree: `VersionsUnique`. With what `build_dominators` leaves
  (here `DominatorTree` is needed) the types follow: `SsaTypes`. `RunsConstruct` carries all
  three over to the runs that execute the forms side by side (`RunsAreRight`), whose
  specification is what the runs `ssa` and `ssa_merges` check. That `PhisAtFrontier`
  and `VersionsOnce` hold does not make the result right: behind a merge it is not
  (`ssa_merges`, section 5), since the phis then stand where they should under
  a name that nobody reads.
* **Code generation** (`CodegenProofs`; `ProgramAssumption`, `MaxCallsAssumption`).
  Five invariants, each resting on the ones before it, for programs of any number of
  functions, blocks, quads and arguments, and for all of `RunSpec`.
  * `CodeInv`: the order is a permutation with main in front, the slots given so far
    are different and belong to functions that call, label bases are sums of block
    counts, and `insns` is the pieces of the functions passed, one behind the
    other. `BlockShape` and `PieceShape` say what stands at each place of a piece, by
    counting block by block; the same sums taken in `count_instructions` give
    `EveryBufferFilled`.
  * `WordInv`: what each pass of the assembler leaves: a label's address is the
    number of words in front of it, each instruction's words stand at the position
    that all three counts agree on, the borders are the positions where functions
    begin. Since main comes first in the code, moving the others behind it moves
    nothing: the text is the five words and all words in their order
    (`TextPlaced`), so offsets taken before stay right. That is `EveryBranchLands`.
  * `StateInv`: the program counter stays in the code and every return address in
    a register is one behind a call that exists (`Sound`). With it `RunTypes`.
  * `ArgsInv`: inside a prologue, a parameter whose move has been made holds what was
    sent, and one whose move has not is still where it was sent. It needs that
    control gets into a prologue only by a call: jumps go behind it
    (`JumpsStay`), functions end in a jump or return (`GoesOn`). `EveryArgumentArrives`
    holds with recursion.
  * `ChainInv`: the active calls are a chain of functions in which none occurs twice
    (`CallersKeep`), every one but the last has its return address in its slot
    register, and the last has it in x30 before its save and behind its restore, in
    the slot otherwise (`KeepsAddress`). None occurs twice because a chain that
    closes would be a set of functions each calling one of the set, which
    is `IsRecursive`; so no two use one slot. `EverySlotBringsHome` follows at each
    return.

How induction is done: the library's induction theorems take an operator as a
parameter, which no installed prover instantiates. Where a proof needs
induction over the naturals it takes a least counterexample
(`NatLessThanWellFounded` with `WFMin`) and derives a contradiction, and a
recursive function such as `Path` is first shown to be the only solution of
its equations. `Path` is written as such a function for that reason, and so are
the recursions of `Dominance` and `SSA` (the copies of a block, the unwinding of the
stacks).

Only model-checked:

* `Finishes` and `Ends`: liveness under fairness, and ENABLED, are out of the
  prover's reach.
* `NoClobber` and `ArgumentsSurviveCalls` without the hypotheses above: they hold
  on the instances of `MCLira`.
* `Grammar`, `Lexer`, `Parser` and `FrontEnd`: RECURSIVE operators, which cost a
  module its SMT backend, over data of any depth.
* `ReadsKeptBeforeMerges` and `CopiesDoPhis` of `SSARun`: they speak of values in
  three forms of a function that are executed together.
* `SemiCorrect`, `IdomCorrect`, `FrontierCorrect`: `DominanceProofs` holds the theory
  for them, but not the argument about semidominators.
* Everything about `Optimizer` and `OptimizerRun`. The optimizer's lists are cut with
  `SelectSeq`, which the provers can not expand.

TLC and TLAPS read `UNION A \cup B` differently: one takes UNION first, the other
the union. The modules put parentheses around every such UNION, so
that both tools speak of the same definition.

## 5. Known defects

Three runs are expected to find a violation; `PROJECT.json` quotes code and
documentation for each.

* `nested_meaning`: `gen_ir_branching` closes the block an arm began with, not the
  one it ended in (`IR/ir.c:63`).
* `ssa_merges`: phis are skipped for exactly the variables they are placed for
  (`IR/ir_ssa.c:52`), so uses behind a merge read the value of before it.
* `dividing`: a division leaves its remainder in x16 (`codegen/enc.c:136`), main's
  slot for the return address.

Four more configurations demonstrate a defect and are no part of the regular
runs; each ends with a counterexample:

* `tlc -config MCLiraPhis.cfg MCLira` (`NoClobber` with two phis at a merge):
  `start_time` is the last definition (`LIRA/lira_intervals.c:70`), so the
  interval of a phi result starts too late.
* `tlc -config MCLiraCalls.cfg MCLira` (`ValuesSurviveCalls`): `is_call` says that a
  call mentions the register, not that it is crossed (`LIRA/lira_intervals.c:74`).
* `tlc -config MCShadowing.cfg MCScopes` (`MeansSame`): IR generation looks names up
  in the table of the function (`IR/ir.c:261`). A declaration in an arm overwrites
  the register of the name outside, and a name that only an arm declares is
  refused behind the check.
* `tlc -config MCSharedOperands.cfg MCOptimizer` (`OptimizedAlikeInSsa`): the combiner
  rewrites an operand that another quad writes to (`optimizator/opt.c:277`, shared
  by `IR/ir.c:142`). `x = a * 0 + b; return x;` returns 0; in `(a + b) * 0` the sum's
  result becomes a number.

The passing runs state what still holds beside these: `FlatFlowFaithful`,
`ReadsKeptBeforeMerges`, `SinglePhiGraphs`, `ArgumentsSurviveCalls`,
`FlatMeansSame`, `OptimizedAlike`, `SlotsBringHome`, `ArgumentsArrive` each name the
condition. More departures were met while modelling and are excluded by
those conditions:

* Call arguments are not renamed (`IR/ir_ssa.c:65`).
* A recursive function overwrites its own slot (`codegen/instruction.c:256`), and
  the moves of a prologue may cross (`codegen/instruction.c:163`).
* A function whose last block has no return runs on into the next function in the
  text (`codegen/instruction.c:203` emits only jumps), with its caller's address
  already lost or still in x30; and more than 16 arguments are moved
  into the slot registers (`codegen/instruction.c:114`).
* `int x = a; a = 5; return x;` returns 5 for a parameter a: it has two values
  under one name, and copy propagation reads the later one
  (`optimizator/opt.c:385`).
* `x = a + 0` in an arm, read at the phi behind, becomes a copy of x to itself,
  and following it does not end (`optimizator/opt.c:346`).
* Freed blocks stay in predecessor lists (`optimizator/opt.c:485`), which
  `out_of_ssa` follows.
* Two arrays are too short: `pushed` (`IR/ir_ssa.c:132`) has a place per register
  but holds an entry per definition (`int x = 1; x = 2;` has one register), and
  the worklist of `place_phi` (`IR/ir_phi.c:112`) has one place more than blocks, but
  queues a defining block again when it gets a phi (two ifs in a row, a
  definition in each of the seven blocks).
* Calls inside expressions and expressions that are statements are not checked
  (`semantic/semantic.c:43`), the number of arguments included;
  `int r = f(y); int y = 2;` reads register -1.

## 6. Not modelled

* Operands of quads in `ControlFlow`; bits of instructions in `Assembler`;
  Mach-O headers, argument parsing and `ld` (constants and pure I/O).
* Fixed array sizes, memory management, the printing and freeing of trees
  (`parser/ast.c`), hashing (`semantic/sem_hash_func.c`: a table is a function).
* The width of integers: `atoi`, folding and the encoder's immediates.

## 7. Plan

Done, in this order: register allocation with its proofs, control flow with
its proofs, dominators, SSA, code generation, assembly and execution; then the
optimizer, scopes with their proofs, lexer and parser; then the proofs that liveness
is exact, that edges are mirrored, that the composed allocator is right, that
the check decides by the rules, that SSA construction
places its phis and makes its versions as it should, that compiled code returns
home and hands on its arguments, and that blocks without nested ifs mean what
their source means.

To prove more:

1. `Dominators`: types, the forest invariant (ancestors have smaller numbers), and
   from `DominanceProofs` that the frontier loop computes the frontier.
2. `SSARun`: `ReadsKeptBeforeMerges`, from what the stacks of the open calls hold.
3. `Optimizer`: `OptTypeOK`, and that predecessors and successors stay mirrored
   (the first half of `PhisMatchEdges`).

To model more: `SSA` composed with `Lira`, so that intervals are built from what
`out_of_ssa` really leaves in place of the hand-made graphs of `MCLira`; numbers of
more than twelve bits in `ProgramRun`.
