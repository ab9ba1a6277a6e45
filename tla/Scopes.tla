------------------------------- MODULE Scopes -------------------------------
(***************************************************************************)
(* Names in mncc: check_semantics (semantic/semantic.c) with the symbol    *)
(* and function tables (sem_sym_table.c, sem_func_table.c), and then the   *)
(* part of compile_to_ir that turns names into registers (IR/ir.c,         *)
(* IR/ir_reg.c).  Both walk the same tree; here the tree is a sequence of  *)
(* events for each function, chosen while the check walks it and replayed  *)
(* by IR generation.  An expression is reduced to one mention of a name:   *)
(* a checked one, or one where the check does not look: in an expression   *)
(* that is a statement, or among the arguments of a call inside an         *)
(* expression.  Every type is int.                                         *)
(***************************************************************************)
EXTENDS Integers, Sequences, FiniteSets, SequencesExt

CONSTANTS
    Names,            \* of variables
    FunctionNames,
    Programs,         \* sequences of heads: [name, parametrs]
    MaxFunctions,     \* the places of the array funcs: 256 in the code
    MaxEvents,        \* bound on the events of all functions together
    MaxDepth          \* bound on the nesting of ifs

NoName == "none"

ASSUME ScopesAssumption ==
    /\ MaxFunctions \in Nat /\ MaxEvents \in Nat /\ MaxDepth \in Nat
    /\ NoName \notin Names
    /\ Programs \subseteq Seq([name : FunctionNames, parametrs : Seq(Names)]) \ {<<>>}

VARIABLES
    phase,            \* "register", "check", "generate", "done", "refused", "refused_late"
    program,          \* the heads, with the bodies as far as they are walked
    at,               \* the function the walk is in
    funcs,            \* the function table; a scope is a place in tables
    tables,           \* the tables of the functions entered so far
    blocks,           \* the arms the walk is in, innermost last, with their tables
    symbol_seq,       \* global_symbol_seq
    place,            \* the event that IR generation comes to
    last_regs, reg_count,
    registers,        \* the register given at each declaration
    found             \* the register found for the last event's checked mention

checkVars == <<program, funcs, tables, blocks, symbol_seq>>
genVars == <<place, last_regs, reg_count, registers, found>>
vars == <<phase, at, checkVars, genVars>>

NoScope == 0
NoReg == -1

EmptyTable == [n \in {} |-> [symbol_id |-> 0, is_const |-> FALSE]]

\* f extended, or changed, at x.
With(f, x, value) == [y \in DOMAIN f \cup {x} |-> IF y = x THEN value ELSE f[y]]

Function == program[at]

Init ==
    /\ phase = "register"
    /\ \E heads \in Programs :
           program = [i \in DOMAIN heads |-> [head |-> heads[i], body |-> <<>>]]
    /\ at = 1
    /\ funcs = <<>>
    /\ tables = <<>>
    /\ blocks = <<>>
    /\ symbol_seq = 0
    /\ place = 0
    /\ last_regs = <<>>
    /\ reg_count = 0
    /\ registers = <<>>
    /\ found = {}

-----------------------------------------------------------------------------
(* The function table: every function of the file is registered, without a  *)
(* scope, before the first one is checked.                                  *)

\* find_function: the place of the first of that name, 0 if there is none.
FindFunction(name) == SelectInSeq(funcs, LAMBDA f : f.name = name)

RegisterFunction ==
    /\ phase = "register"
    /\ at <= Len(program)
    /\ \/ /\ FindFunction(Function.head.name) # 0 \/ Len(funcs) >= MaxFunctions
          /\ phase' = "refused"
          /\ UNCHANGED <<at, funcs>>
       \/ /\ FindFunction(Function.head.name) = 0 /\ Len(funcs) < MaxFunctions
          /\ funcs' = Append(funcs, [name |-> Function.head.name, scope |-> NoScope,
                                     param_count |-> Len(Function.head.parametrs)])
          /\ at' = at + 1
          /\ UNCHANGED phase
    /\ UNCHANGED <<program, tables, blocks, symbol_seq, genVars>>

-----------------------------------------------------------------------------
(* The symbol tables *)

\* The table of the function and those of the open arms, innermost last.
Chain == <<tables[at]>> \o [k \in DOMAIN blocks |-> blocks[k].table]

\* search: what the innermost table with the name holds; {} where it exits.
Search(n) ==
    LET holding == {k \in DOMAIN Chain : n \in DOMAIN Chain[k]}
    IN  {Chain[k][n] : k \in {h \in holding : \A j \in holding : j <= h}}

\* insert exits where the name is in the innermost table already.
InsertableAnywhere(n) == Search(n) = {}
Insertable(n) == n \notin DOMAIN Last(Chain)

Symbol(is_const) == [symbol_id |-> symbol_seq, is_const |-> is_const]

Insert(n, is_const) ==
    /\ symbol_seq' = symbol_seq + 1
    /\ IF blocks = <<>>
       THEN tables' = [tables EXCEPT ![at] = With(@, n, Symbol(is_const))] /\ UNCHANGED blocks
       ELSE /\ blocks' = [blocks EXCEPT ![Len(blocks)].table = With(@, n, Symbol(is_const))]
            /\ UNCHANGED tables

\* A function's table starts with its parameters.
ParameterTable(parametrs) ==
    [n \in Range(parametrs) |->
        [symbol_id |-> symbol_seq + SelectInSeq(parametrs, LAMBDA m : m = n) - 1,
         is_const |-> FALSE]]

-----------------------------------------------------------------------------
(* check_semantics *)

\* The call for function f up to its statements.
Enter(f) ==
    LET head == program[f].head
    IN  \/ /\ ~IsInjective(head.parametrs)
           /\ phase' = "refused"
           /\ UNCHANGED <<at, funcs, tables, symbol_seq>>
        \/ /\ IsInjective(head.parametrs)
           /\ phase' = "check"
           /\ at' = f
           /\ tables' = Append(tables, ParameterTable(head.parametrs))
           /\ funcs' = [funcs EXCEPT ![FindFunction(head.name)].scope = f]
           /\ symbol_seq' = symbol_seq + Len(head.parametrs)

EnterFirst ==
    /\ phase = "register"
    /\ at > Len(program)
    /\ Enter(1)
    /\ UNCHANGED <<program, blocks, genVars>>

EventsInAll == FoldLeft(LAMBDA n, f : n + Len(f.body), 0, program)

\* One event of the function, and whether the check goes on.
Walk(event, fine) ==
    /\ phase = "check"
    /\ EventsInAll < MaxEvents
    /\ program' = [program EXCEPT ![at].body = Append(@, event)]
    /\ phase' = IF fine THEN "check" ELSE "refused"
    /\ UNCHANGED <<at, funcs, genVars>>

\* The initializer of a declaration may mention the name itself: it goes into
\* the table before the initializer is looked at.
Declare(n, is_const, init) ==
    LET fine == Insertable(n) /\ (init \in {NoName, n} \/ Search(init) # {})
    IN  /\ Walk([kind |-> "declare", name |-> n, is_const |-> is_const, reads |-> init], fine)
        /\ IF fine THEN Insert(n, is_const) ELSE UNCHANGED <<tables, blocks, symbol_seq>>

\* A name in a return, a condition, or an argument of a call statement.
Mention(n) ==
    /\ Walk([kind |-> "mention", reads |-> n], Search(n) # {})
    /\ UNCHANGED <<tables, blocks, symbol_seq>>

\* A name among the arguments of a call inside an expression, or in an
\* expression that is a statement.
UncheckedMention(n) ==
    /\ Walk([kind |-> "unchecked", reads |-> n], TRUE)
    /\ UNCHANGED <<tables, blocks, symbol_seq>>

Assign(n) ==
    /\ Walk([kind |-> "assign", reads |-> n], Search(n) # {} /\ \A s \in Search(n) : ~s.is_const)
    /\ UNCHANGED <<tables, blocks, symbol_seq>>

\* A call that is a statement.
CallFits(name, argument_count) ==
    FindFunction(name) # 0 /\ funcs[FindFunction(name)].param_count = argument_count

Call(name, argument_count) ==
    /\ Walk([kind |-> "call", name |-> name, argument_count |-> argument_count],
            CallFits(name, argument_count))
    /\ UNCHANGED <<tables, blocks, symbol_seq>>

\* The arms of an if have a table each, freed at the arm's end.
BeginIf ==
    /\ Len(blocks) < MaxDepth
    /\ Walk([kind |-> "if"], TRUE)
    /\ blocks' = Append(blocks, [arm |-> "then", table |-> EmptyTable])
    /\ UNCHANGED <<tables, symbol_seq>>

BeginElse ==
    /\ blocks # <<>>
    /\ Last(blocks).arm = "then"
    /\ Walk([kind |-> "else"], TRUE)
    /\ blocks' = Append(Front(blocks), [arm |-> "else", table |-> EmptyTable])
    /\ UNCHANGED <<tables, symbol_seq>>

EndIf ==
    /\ blocks # <<>>
    /\ Walk([kind |-> "endif"], TRUE)
    /\ blocks' = Front(blocks)
    /\ UNCHANGED <<tables, symbol_seq>>

-----------------------------------------------------------------------------
(* compile_to_ir *)

\* The table that function f is generated with: what find_function gives.
ScopeOf(f) == tables[funcs[FindFunction(program[f].head.name)].scope]

\* Up to the statements: the parameters get registers 0, 1, ...
Generates(f) ==
    LET parametrs == program[f].head.parametrs
    IN  /\ phase' = "generate"
        /\ at' = f
        /\ place' = 1
        /\ last_regs' = [id \in 0 .. symbol_seq - 1 |->
                            IF \E n \in Range(parametrs) : ScopeOf(f)[n].symbol_id = id
                            THEN SelectInSeq(parametrs, LAMBDA n : ScopeOf(f)[n].symbol_id = id) - 1
                            ELSE NoReg]
        /\ reg_count' = Len(parametrs)
        /\ registers' = [k \in {-i : i \in DOMAIN parametrs} |-> -k - 1]
        /\ found' = {}

\* All functions are checked before the first one is generated.
LeaveFunction ==
    /\ phase = "check"
    /\ blocks = <<>>
    /\ IF at < Len(program) THEN Enter(at + 1) /\ UNCHANGED genVars
       ELSE Generates(1) /\ UNCHANGED <<funcs, tables, symbol_seq>>
    /\ UNCHANGED <<program, blocks>>

Event == Function.body[place]

\* The names IR generation looks up for an event.
LooksUp(e) ==
    CASE e.kind = "declare" -> {e.reads, e.name} \ {NoName}
      [] e.kind \in {"mention", "unchecked", "assign"} -> {e.reads}
      [] OTHER -> {}

Generating ==
    /\ phase = "generate"
    /\ place <= Len(Function.body)

RefuseLate ==
    /\ Generating
    /\ ~ LooksUp(Event) \subseteq DOMAIN ScopeOf(at)
    /\ phase' = "refused_late"
    /\ UNCHANGED <<at, checkVars, genVars>>

\* read_reg, for a name that the function's table has.
ReadReg(n) == last_regs[ScopeOf(at)[n].symbol_id]

\* ND_VAR_DECL: the register is taken first, and given to the name last.
WrittenIfInitialized(e) ==
    IF e.reads = NoName THEN last_regs
    ELSE [last_regs EXCEPT ![ScopeOf(at)[e.name].symbol_id] = reg_count]
Written(e) == [last_regs EXCEPT ![ScopeOf(at)[e.name].symbol_id] = reg_count]

GenDeclare ==
    /\ Generating
    /\ Event.kind = "declare"
    /\ LooksUp(Event) \subseteq DOMAIN ScopeOf(at)
    /\ found' = IF Event.reads = NoName THEN {} ELSE {ReadReg(Event.reads)}
    /\ last_regs' = Written(Event)
    /\ registers' = With(registers, place, reg_count)
    /\ reg_count' = reg_count + 1
    /\ place' = place + 1
    /\ UNCHANGED <<phase, at, checkVars>>

GenMention ==
    /\ Generating
    /\ Event.kind \in {"mention", "unchecked"}
    /\ LooksUp(Event) \subseteq DOMAIN ScopeOf(at)
    /\ found' = IF Event.kind = "unchecked" THEN {} ELSE {ReadReg(Event.reads)}
    /\ place' = place + 1
    /\ UNCHANGED <<phase, at, checkVars, last_regs, reg_count, registers>>

\* ND_ASSIGMENT: what write_reg gives the name is the register that read_reg found.
GenAssign ==
    /\ Generating
    /\ Event.kind = "assign"
    /\ LooksUp(Event) \subseteq DOMAIN ScopeOf(at)
    /\ found' = {ReadReg(Event.reads)}
    /\ last_regs' = [last_regs EXCEPT ![ScopeOf(at)[Event.reads].symbol_id] = ReadReg(Event.reads)]
    /\ place' = place + 1
    /\ UNCHANGED <<phase, at, checkVars, reg_count, registers>>

\* A call's result takes a register; ifs take none.
GenOther ==
    /\ Generating
    /\ Event.kind \in {"call", "if", "else", "endif"}
    /\ found' = {}
    /\ reg_count' = reg_count + (IF Event.kind = "call" THEN 1 ELSE 0)
    /\ place' = place + 1
    /\ UNCHANGED <<phase, at, checkVars, last_regs, registers>>

GenLeave ==
    /\ phase = "generate"
    /\ place > Len(Function.body)
    /\ IF at < Len(program) THEN Generates(at + 1)
       ELSE phase' = "done" /\ found' = {} /\ UNCHANGED <<at, place, last_regs, reg_count, registers>>
    /\ UNCHANGED checkVars

Next ==
    \/ RegisterFunction \/ EnterFirst \/ LeaveFunction
    \/ \E n \in Names :
           \/ \E init \in Names \cup {NoName}, is_const \in BOOLEAN : Declare(n, is_const, init)
           \/ Mention(n) \/ UncheckedMention(n) \/ Assign(n)
    \/ \E name \in FunctionNames, argument_count \in 0 .. 2 : Call(name, argument_count)
    \/ BeginIf \/ BeginElse \/ EndIf
    \/ RefuseLate \/ GenDeclare \/ GenMention \/ GenAssign \/ GenOther \/ GenLeave

Spec == Init /\ [][Next]_vars

-----------------------------------------------------------------------------
(* The rules of scope, without tables: a place in a body has a path, the    *)
(* arms it stands in, outermost first.                                      *)

\* The path at event j, where p is the path in front of it.
PathBehind(body, j, p) ==
    CASE body[j].kind = "if"    -> Append(p, <<j, "then">>)
      [] body[j].kind = "else"  -> Append(Front(p), <<Last(p)[1], "else">>)
      [] body[j].kind = "endif" -> Front(p)
      [] OTHER                  -> p

Path(body, i) ==
    LET path[j \in 0 .. i] == IF j = 0 THEN <<>> ELSE PathBehind(body, j, path[j - 1])
    IN  path[i]

Declares(body, j, n) == body[j].kind = "declare" /\ body[j].name = n

\* The declarations of n that place i of f sees: events, or -k for the k-th
\* parameter.
Seen(f, i, n) ==
    {j \in 1 .. i : Declares(f.body, j, n) /\ IsPrefix(Path(f.body, j), Path(f.body, i))
                        /\ (j = i => f.body[j].reads = n)}
        \cup {-k : k \in {p \in DOMAIN f.head.parametrs : f.head.parametrs[p] = n}}

\* The one that counts: in the innermost arm, a parameter last.
Depth(f, j) == IF j < 0 THEN 0 ELSE 1 + Len(Path(f.body, j))
Innermost(f, i, n) ==
    {j \in Seen(f, i, n) : \A k \in Seen(f, i, n) : Depth(f, k) <= Depth(f, j)}
Meant(f, i, n) == CHOOSE j \in Innermost(f, i, n) : TRUE

LegalEvent(f, i) ==
    LET e == f.body[i]
    IN  /\ e.kind = "declare" =>
               /\ \A j \in 1 .. i - 1 :
                      Declares(f.body, j, e.name) => Path(f.body, j) # Path(f.body, i)
               /\ Path(f.body, i) = <<>> => ~Contains(f.head.parametrs, e.name)
               /\ e.reads # NoName => Seen(f, i, e.reads) # {}
        /\ e.kind \in {"mention", "assign"} => Seen(f, i, e.reads) # {}
        /\ e.kind = "assign" =>
               LET d == Meant(f, i, e.reads) IN d > 0 => ~f.body[d].is_const
        /\ e.kind = "call" =>
               \E g \in Range(program) : g.head.name = e.name /\ Len(g.head.parametrs) = e.argument_count

Legal ==
    /\ Len(program) <= MaxFunctions
    /\ IsInjective([i \in DOMAIN program |-> program[i].head.name])
    /\ \A f \in Range(program) :
           IsInjective(f.head.parametrs) /\ \A i \in DOMAIN f.body : LegalEvent(f, i)

-----------------------------------------------------------------------------
(* What the check and IR generation promise *)

\* The check passes exactly the programs that fit the function table and keep
\* the rules of scope, of constants and of call statements.
AcceptedIffLegal ==
    /\ phase = "refused" => ~Legal
    /\ phase \in {"generate", "done", "refused_late"} => Legal

\* What the event before place mentions gets the register of the declaration
\* it means; an initializer that mentions its own name means nothing.
MeansSame ==
    phase = "generate" =>
        \A r \in found :
            LET i == place - 1
                d == Meant(Function, i, Function.body[i].reads)
            IN  d # i => r = registers[d]

Flat == \A j \in DOMAIN Function.body :
            Function.body[j].kind = "declare" => Path(Function.body, j) = <<>>

\* As long as no arm of an if declares a name, every name means the same to
\* the check and to IR generation, which refuses nothing that was checked.
FlatMeansSame ==
    /\ phase = "generate" /\ Flat => MeansSame
    /\ phase = "refused_late" /\ Flat => Event.kind = "unchecked"

\* A name that was checked has a register when IR generation reads it, with
\* names declared anywhere, unless in its own initializer.
ReadsWritten ==
    phase = "generate" =>
        \A r \in found :
            r = NoReg => LET e == Function.body[place - 1] IN e.kind = "declare" /\ e.reads = e.name

=============================================================================
