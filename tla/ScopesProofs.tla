---------------------------- MODULE ScopesProofs ----------------------------
(***************************************************************************)
(* Every name that check_semantics has looked up and found has a register  *)
(* when IR generation reads it, in programs of any size: the check keeps   *)
(* tables of arms that IR generation never sees, and yet read_reg finds    *)
(* -1 only for a name in its own initializer.                              *)
(***************************************************************************)
EXTENDS Scopes, SequenceTheorems, WellFoundedInduction, TLAPS

-----------------------------------------------------------------------------
(* The inductive invariant *)

EventSet ==
    [kind : {"declare"}, name : Names, is_const : BOOLEAN, reads : Names \cup {NoName}]
        \cup [kind : {"mention", "unchecked", "assign"}, reads : Names]
        \cup [kind : {"call"}, name : FunctionNames, argument_count : 0 .. 2]
        \cup [kind : {"if", "else", "endif"}]

HeadSet == [name : FunctionNames, parametrs : Seq(Names)]

Table == UNION {[D -> [symbol_id : Nat, is_const : BOOLEAN]] : D \in SUBSET Names}

FunctionSet == [head : HeadSet, body : Seq(EventSet)]
EntrySet == [name : FunctionNames, scope : Nat, param_count : Nat]
ArmSet == [arm : {"then", "else"}, table : Table]

Typed ==
    /\ program \in Seq(FunctionSet) /\ Len(program) # 0
    /\ at \in 1 .. Len(program) + 1
    /\ phase # "register" => at <= Len(program)
    /\ symbol_seq \in Nat
    /\ funcs \in Seq(EntrySet)
    /\ tables \in Seq(Table)
    /\ blocks \in Seq(ArmSet)

\* The function table follows the file, names are distinct, and a function that
\* was entered has its own table.
FunctionsFound ==
    /\ Len(funcs) = IF phase = "register" THEN at - 1 ELSE Len(program)
    /\ \A i \in 1 .. Len(funcs) : funcs[i].name = program[i].head.name
    /\ \A i, j \in 1 .. Len(funcs) : funcs[i].name = funcs[j].name => i = j
    /\ Len(tables) = CASE phase = "register" -> 0
                       [] phase = "check"    -> at
                       [] OTHER              -> Len(program)
    /\ \A i \in 1 .. Len(tables) : funcs[i].scope = i

\* The tables hold the parameters, and symbols that last_regs has a place for.
ParametersInTables ==
    \A t \in 1 .. Len(tables) :
        /\ Range(program[t].head.parametrs) \subseteq DOMAIN tables[t]
        /\ \A n \in DOMAIN tables[t] : tables[t][n].symbol_id < symbol_seq

\* n is a parameter of f, or f declares it somewhere up to event i.
KnownAt(f, n, i) ==
    n \in Range(f.head.parametrs) \/ \E j \in 1 .. i : Declares(f.body, j, n)

\* What the open tables hold is known.
TablesKnown ==
    /\ phase = "register" => blocks = <<>>
    /\ phase = "check" =>
        /\ \A n \in DOMAIN tables[at] : KnownAt(Function, n, Len(Function.body))
        /\ \A k \in 1 .. Len(blocks) : \A n \in DOMAIN blocks[k].table :
               KnownAt(Function, n, Len(Function.body))

\* The names that an event mentions and the check looks up.
Needs(e, n) ==
    \/ e.kind \in {"mention", "assign"} /\ n = e.reads
    \/ e.kind = "declare" /\ n = e.reads /\ n \notin {NoName, e.name}

MentionsKnown ==
    \A t \in 1 .. Len(program) : \A i \in 1 .. Len(program[t].body) : \A n \in Names :
        Needs(program[t].body[i], n) => KnownAt(program[t], n, i - 1)

\* IR generation has written a register for every name it has come past.
KnownWritten ==
    phase = "generate" =>
        /\ place \in 1 .. Len(Function.body) + 1
        /\ reg_count \in Nat
        /\ last_regs \in [0 .. symbol_seq - 1 -> Int]
        /\ \A n \in Names :
               KnownAt(Function, n, place - 1) =>
                   n \in DOMAIN tables[at] /\ last_regs[tables[at][n].symbol_id] # NoReg

\* After these phases nothing happens any more.
Stopped == phase \in {"refused", "refused_late", "done"}

Live ==
    /\ phase \in {"register", "check", "generate"}
    /\ Typed
    /\ FunctionsFound
    /\ ParametersInTables
    /\ TablesKnown
    /\ MentionsKnown
    /\ KnownWritten
    /\ ReadsWritten

Inv == Stopped \/ Live

-----------------------------------------------------------------------------
(* What the helpers give *)

\* The least element of a set of naturals is one of them.
LEMMA MinIsIn ==
    ASSUME NEW S \in SUBSET Nat, S # {}
    PROVE  Min(S) \in S
<1> DEFINE R == OpToRel(<, Nat)
<1>1. PICK x \in S : \A y \in S : ~ (<<y, x>> \in R)
  BY NatLessThanWellFounded, WFMin
<1>2. ASSUME NEW y \in S, y < x PROVE FALSE
  <2>1. <<y, x>> \in R
    BY <1>2 DEF OpToRel
  <2> QED
    BY <2>1, <1>1
<1>3. \A y \in S : x <= y
  BY <1>2
<1> QED
  BY <1>3 DEF Min

\* find_function finds the function whose name it is.
LEMMA FindsItself ==
    ASSUME FunctionsFound, Typed, NEW f \in 1 .. Len(funcs)
    PROVE  FindFunction(program[f].head.name) = f
<1> DEFINE I == {i \in 1 .. Len(funcs) : funcs[i].name = program[f].head.name}
<1>1. I = {f}
  BY DEF FunctionsFound, Typed
<1>2. Min({f}) = f
  BY DEF Min, Typed
<1> QED
  BY <1>1, <1>2 DEF FindFunction, SelectInSeq

\* A name that find_function does not find is none of the table's.
LEMMA FindsNothing ==
    ASSUME Typed, NEW name, FindFunction(name) = 0
    PROVE  \A i \in 1 .. Len(funcs) : funcs[i].name # name
<1> DEFINE I == {i \in 1 .. Len(funcs) : funcs[i].name = name}
<1>1. I \in SUBSET Nat /\ 0 \notin I
  BY DEF Typed
<1>2. I # {} => FindFunction(name) = Min(I)
  BY DEF FindFunction, SelectInSeq
<1>3. I = {}
  <2> HIDE DEF I
  <2> QED
    BY <1>1, <1>2, MinIsIn
<1> QED
  BY <1>3

\* A function that was entered is generated with its own table.
LEMMA ScopeIsOwn ==
    ASSUME FunctionsFound, Typed, NEW f \in 1 .. Len(tables), Len(tables) <= Len(funcs)
    PROVE  ScopeOf(f) = tables[f]
<1>1. f \in 1 .. Len(funcs)
  BY DEF Typed
<1>2. FindFunction(program[f].head.name) = f
  BY <1>1, FindsItself
<1>3. funcs[f].scope = f
  BY DEF FunctionsFound
<1> QED
  BY <1>2, <1>3 DEF ScopeOf

\* What search finds is known.
LEMMA FoundIsKnown ==
    ASSUME Live, phase = "check", NEW n, Search(n) # {}
    PROVE  KnownAt(Function, n, Len(Function.body))
<1> DEFINE B == [k \in DOMAIN blocks |-> blocks[k].table]
<1>1. PICK c \in DOMAIN Chain : n \in DOMAIN Chain[c]
  BY DEF Search
<1>2. B \in Seq(Table) /\ Len(B) = Len(blocks)
  <2>1. /\ DOMAIN blocks = 1 .. Len(blocks) /\ Len(blocks) \in Nat
        /\ \A k \in 1 .. Len(blocks) : blocks[k] \in ArmSet
    BY DEF Live, Typed
  <2>2. \A k \in DOMAIN blocks : blocks[k].table \in Table
    BY <2>1 DEF ArmSet
  <2>3. B \in [1 .. Len(blocks) -> Table]
    BY <2>1, <2>2
  <2> QED
    BY <2>1, <2>3, SeqDef, LenProperties
<1>3. Len(Chain) = 1 + Len(blocks) /\ Chain[1] = tables[at]
      /\ \A j \in 1 .. Len(blocks) : Chain[j + 1] = blocks[j].table
  BY <1>2 DEF Chain, Live, Typed
<1>4. c = 1 \/ c - 1 \in 1 .. Len(blocks)
  BY <1>1, <1>2, <1>3 DEF Chain, Live, Typed
<1> QED
  BY <1>1, <1>3, <1>4 DEF Live, TablesKnown

LEMMA TableEntries ==
    ASSUME NEW f \in Table, NEW n \in DOMAIN f
    PROVE  n \in Names /\ f[n] \in [symbol_id : Nat, is_const : BOOLEAN] /\ f[n].symbol_id \in Nat
<1> DEFINE S == [symbol_id : Nat, is_const : BOOLEAN]
<1>1. PICK D \in SUBSET Names : f \in [D -> S]
  BY DEF Table
<1>2. n \in Names /\ f[n] \in S
  BY <1>1
<1> QED
  BY <1>2

\* A table with one more name is a table.
LEMMA WithIsTable ==
    ASSUME NEW f \in Table, NEW n \in Names, NEW is_const \in BOOLEAN, symbol_seq \in Nat
    PROVE  /\ With(f, n, Symbol(is_const)) \in Table
           /\ DOMAIN With(f, n, Symbol(is_const)) = DOMAIN f \cup {n}
           /\ With(f, n, Symbol(is_const))[n].symbol_id = symbol_seq
           /\ \A m \in DOMAIN f : m # n => With(f, n, Symbol(is_const))[m] = f[m]
<1> DEFINE S == [symbol_id : Nat, is_const : BOOLEAN]
<1>1. PICK D \in SUBSET Names : f \in [D -> S]
  BY DEF Table
<1>2. Symbol(is_const) \in S /\ Symbol(is_const).symbol_id = symbol_seq
  BY DEF Symbol
<1>3. With(f, n, Symbol(is_const)) \in [D \cup {n} -> S]
  BY <1>1, <1>2 DEF With
<1> HIDE DEF S
<1>4. [D \cup {n} -> S] \subseteq UNION {[E -> S] : E \in SUBSET Names}
  BY <1>1
<1> USE DEF S
<1> QED
  BY <1>1, <1>2, <1>3, <1>4 DEF With, Table

\* One more event in the body, whose mentions are known: what was known stays
\* known, and so does everything that is needed.
LEMMA WalkKeeps ==
    ASSUME Live, phase = "check", NEW event \in EventSet, Walk(event, TRUE),
           \A n \in Names : Needs(event, n) => KnownAt(Function, n, Len(Function.body))
    PROVE  /\ program' \in Seq(FunctionSet) /\ Len(program') = Len(program)
           /\ \A t \in 1 .. Len(program) : program'[t].head = program[t].head
           /\ MentionsKnown'
           /\ \A n : KnownAt(Function, n, Len(Function.body)) =>
                      KnownAt(program'[at], n, Len(program'[at].body))
           /\ event.kind = "declare" =>
                  KnownAt(program'[at], event.name, Len(program'[at].body))
<1> DEFINE body == Function.body
<1>1. at \in 1 .. Len(program) /\ Function \in FunctionSet /\ body \in Seq(EventSet)
  <2>1. at \in 1 .. Len(program) /\ Function \in FunctionSet
    BY DEF Live, Typed, Function
  <2> QED
    BY <2>1 DEF FunctionSet
<1>2. program' = [program EXCEPT ![at].body = Append(body, event)]
  BY DEF Walk, Function
<1>3. /\ Append(body, event) \in Seq(EventSet)
      /\ Len(Append(body, event)) = Len(body) + 1 /\ Len(body) \in Nat
      /\ \A i \in 1 .. Len(body) : Append(body, event)[i] = body[i]
      /\ Append(body, event)[Len(body) + 1] = event
  BY <1>1, AppendProperties
<1>4. /\ program \in Seq(FunctionSet)
      /\ program'[at].body = Append(body, event) /\ program'[at].head = Function.head
      /\ \A t \in 1 .. Len(program) : t # at => program'[t] = program[t]
  BY <1>1, <1>2 DEF Live, Typed, Function, FunctionSet
<1>5. program' \in Seq(FunctionSet) /\ Len(program') = Len(program)
  <2>1. [Function EXCEPT !.body = Append(body, event)] \in FunctionSet
    BY <1>1, <1>3 DEF FunctionSet
  <2> QED
    BY <1>1, <1>2, <1>4, <2>1, ExceptSeq DEF Function
<1>6. \A n : \A i \in 0 .. Len(body) :
          KnownAt(Function, n, i) <=> KnownAt(program'[at], n, i)
  BY <1>1, <1>3, <1>4 DEF KnownAt, Declares
<1>7. \A n : KnownAt(Function, n, Len(body)) => KnownAt(program'[at], n, Len(body) + 1)
  <2>1. ASSUME NEW n, KnownAt(Function, n, Len(body))
        PROVE  KnownAt(program'[at], n, Len(body) + 1)
    <3>1. KnownAt(program'[at], n, Len(body)) /\ Len(body) \in Nat
      BY <1>3, <1>6, <2>1
    <3>2. \A i \in 1 .. Len(body) : i \in 1 .. Len(body) + 1
      BY <3>1
    <3> QED
      BY <3>1, <3>2 DEF KnownAt
  <2> QED
    BY <2>1
<1>8. MentionsKnown'
  <2>1. SUFFICES ASSUME NEW t \in 1 .. Len(program), NEW i \in 1 .. Len(program'[t].body),
                        NEW n \in Names, Needs(program'[t].body[i], n)
                 PROVE  KnownAt(program'[t], n, i - 1)
    BY <1>5 DEF MentionsKnown, Needs, KnownAt
  <2>2. CASE t # at
    BY <2>1, <2>2, <1>4 DEF Live, MentionsKnown
  <2>3. CASE t = at /\ i \in 1 .. Len(body)
    <3>1. KnownAt(Function, n, i - 1)
      BY <2>1, <2>3, <1>1, <1>3, <1>4 DEF Live, MentionsKnown, Function
    <3> QED
      BY <3>1, <2>3, <1>3, <1>6
  <2>4. CASE t = at /\ i = Len(body) + 1
    BY <2>1, <2>4, <1>3, <1>4, <1>6
  <2> QED
    BY <2>2, <2>3, <2>4, <1>3, <1>4
<1>9. event.kind = "declare" => KnownAt(program'[at], event.name, Len(body) + 1)
  BY SMTT(30), <1>3, <1>4 DEF KnownAt, Declares
<1> QED
  BY <1>3, <1>4, <1>5, <1>7, <1>8, <1>9 DEF Function

-----------------------------------------------------------------------------
(* The actions of the check *)

\* A step of the walk that changes no table.
LEMMA WalkInv ==
    ASSUME Live, phase = "check", NEW event \in EventSet, Walk(event, TRUE),
           \A n \in Names : Needs(event, n) => KnownAt(Function, n, Len(Function.body)),
           UNCHANGED <<tables, symbol_seq>>, blocks' \in Seq(ArmSet),
           \A k \in 1 .. Len(blocks') :
               DOMAIN blocks'[k].table = {} \/ (k <= Len(blocks) /\ blocks'[k] = blocks[k])
    PROVE  Live'
<1>1. phase' = "check" /\ UNCHANGED <<at, funcs, genVars>>
  BY DEF Walk
<1>2. /\ program' \in Seq(FunctionSet) /\ Len(program') = Len(program)
      /\ \A t \in 1 .. Len(program) : program'[t].head = program[t].head
      /\ MentionsKnown'
      /\ \A n : KnownAt(Function, n, Len(Function.body)) =>
                 KnownAt(program'[at], n, Len(program'[at].body))
  BY WalkKeeps
<1>3. at \in 1 .. Len(program) /\ Len(blocks) \in Nat
  BY DEF Live, Typed
<1>4. Typed'
  BY <1>1, <1>2 DEF Live, Typed
<1>5. FunctionsFound'
  BY <1>1, <1>2, <1>3, <1>4 DEF Live, Typed, FunctionsFound
<1>6. ParametersInTables'
  <2>1. Len(tables) = at
    BY DEF Live, FunctionsFound
  <2> QED
    BY <1>2, <1>3, <2>1 DEF Live, ParametersInTables
<1>7. TablesKnown'
  BY SMTT(30), <1>1, <1>2, <1>3 DEF Live, TablesKnown, Function
<1> QED
  BY <1>1, <1>2, <1>4, <1>5, <1>6, <1>7 DEF Live, KnownWritten, ReadsWritten

LEMMA EmptyTableIsTable == EmptyTable \in Table /\ DOMAIN EmptyTable = {}
<1>1. EmptyTable \in [{} -> [symbol_id : Nat, is_const : BOOLEAN]]
  BY DEF EmptyTable
<1> QED
  BY <1>1 DEF EmptyTable, Table

LEMMA MentionInv ==
    ASSUME Live, NEW n \in Names, Mention(n) \/ UncheckedMention(n) \/ Assign(n)
    PROVE  Inv'
<1> USE DEF Inv, Stopped
<1>1. phase = "check" /\ blocks \in Seq(ArmSet) /\ UNCHANGED <<tables, blocks, symbol_seq>>
  BY DEF Mention, UncheckedMention, Assign, Walk, Live, Typed
<1>2. SUFFICES ASSUME phase' # "refused" PROVE Live'
  OBVIOUS
<1>3. PICK kind \in {"mention", "unchecked", "assign"} :
          /\ Walk([kind |-> kind, reads |-> n], TRUE)
          /\ kind # "unchecked" => Search(n) # {}
  BY <1>2 DEF Mention, UncheckedMention, Assign, Walk
<1> DEFINE event == [kind |-> kind, reads |-> n]
<1>4. event \in EventSet
  BY DEF EventSet
<1>5. \A m \in Names : Needs(event, m) => KnownAt(Function, m, Len(Function.body))
  BY <1>1, <1>3, FoundIsKnown DEF Needs
<1> HIDE DEF event
<1>6. Walk(event, TRUE)
  BY <1>3 DEF event
<1>7. /\ blocks' \in Seq(ArmSet)
      /\ \A k \in 1 .. Len(blocks') :
             DOMAIN blocks'[k].table = {} \/ (k <= Len(blocks) /\ blocks'[k] = blocks[k])
  BY <1>1
<1> QED
  BY <1>1, <1>4, <1>5, <1>6, <1>7, WalkInv

LEMMA CallInv ==
    ASSUME Live, NEW name \in FunctionNames, NEW argument_count \in 0 .. 2,
           Call(name, argument_count)
    PROVE  Inv'
<1> DEFINE event == [kind |-> "call", name |-> name, argument_count |-> argument_count]
<1>1. phase = "check" /\ blocks \in Seq(ArmSet) /\ UNCHANGED <<tables, blocks, symbol_seq>>
  BY DEF Call, Walk, Live, Typed
<1>2. SUFFICES ASSUME phase' # "refused" PROVE Live'
  BY DEF Inv, Stopped
<1>3. event \in EventSet /\ \A n \in Names : ~Needs(event, n)
  BY DEF EventSet, Needs
<1>4. Walk(event, TRUE)
  BY <1>2 DEF Call, Walk
<1>5. /\ blocks' \in Seq(ArmSet)
      /\ \A k \in 1 .. Len(blocks') :
             DOMAIN blocks'[k].table = {} \/ (k <= Len(blocks) /\ blocks'[k] = blocks[k])
  BY <1>1
<1> HIDE DEF event
<1> QED
  BY <1>1, <1>3, <1>4, <1>5, WalkInv

\* Beginning and leaving arms: the tables that are left are the ones there were.
LEMMA ArmInv ==
    ASSUME Live, BeginIf \/ BeginElse \/ EndIf
    PROVE  Inv'
<1>1. PICK kind \in {"if", "else", "endif"} : Walk([kind |-> kind], TRUE)
  BY DEF BeginIf, BeginElse, EndIf
<1> DEFINE event == [kind |-> kind]
           new(arm) == [arm |-> arm, table |-> EmptyTable]
<1>2. event \in EventSet /\ \A n \in Names : ~Needs(event, n)
  BY DEF EventSet, Needs
<1>3. phase = "check" /\ blocks \in Seq(ArmSet) /\ UNCHANGED <<tables, symbol_seq>>
  BY DEF BeginIf, BeginElse, EndIf, Walk, Live, Typed
<1>4. new("then") \in ArmSet /\ new("else") \in ArmSet
      /\ DOMAIN new("then").table = {} /\ DOMAIN new("else").table = {}
  BY EmptyTableIsTable DEF ArmSet
<1>5. blocks # <<>> => /\ Front(blocks) \in Seq(ArmSet) /\ Len(Front(blocks)) = Len(blocks) - 1
                       /\ \A k \in 1 .. Len(blocks) - 1 : Front(blocks)[k] = blocks[k]
  <2>1. SUFFICES ASSUME blocks # <<>>
                 PROVE  /\ Front(blocks) \in Seq(ArmSet) /\ Len(Front(blocks)) = Len(blocks) - 1
                        /\ \A k \in 1 .. Len(blocks) - 1 : Front(blocks)[k] = blocks[k]
    OBVIOUS
  <2>2. Len(blocks) \in Nat \ {0} /\ \A k \in 1 .. Len(blocks) - 1 : blocks[k] \in ArmSet
    BY <1>3, <2>1
  <2> DEFINE m == Len(blocks) - 1
  <2>3. m \in Nat /\ \A k \in 1 .. m : blocks[k] \in ArmSet
    BY <2>2
  <2>4. Front(blocks) = SubSeq(blocks, 1, m)
    BY DEF Front
  <2> HIDE DEF m
  <2>5. /\ SubSeq(blocks, 1, m) \in Seq(ArmSet)
        /\ Len(SubSeq(blocks, 1, m)) = m
        /\ \A k \in 1 .. m : SubSeq(blocks, 1, m)[k] = blocks[k]
    BY <2>3, SubSeqProperties
  <2> QED
    BY <2>4, <2>5 DEF m
<1> HIDE DEF event, new
<1>6. /\ blocks' \in Seq(ArmSet)
      /\ \A k \in 1 .. Len(blocks') :
             DOMAIN blocks'[k].table = {} \/ (k <= Len(blocks) /\ blocks'[k] = blocks[k])
  <2>1. CASE BeginIf
    <3>1. blocks' = Append(blocks, new("then"))
      BY <2>1 DEF BeginIf, new
    <3> QED
      BY <1>3, <1>4, <3>1, AppendProperties
  <2>2. CASE BeginElse
    <3>1. blocks # <<>> /\ blocks' = Append(Front(blocks), new("else"))
      BY <2>2 DEF BeginElse, new
    <3> QED
      BY <1>3, <1>4, <1>5, <3>1, AppendProperties
  <2>3. CASE EndIf
    <3>1. blocks # <<>> /\ blocks' = Front(blocks)
      BY <2>3 DEF EndIf
    <3> QED
      BY <1>3, <1>5, <3>1
  <2> QED
    BY <2>1, <2>2, <2>3
<1>7. Walk(event, TRUE)
  BY <1>1 DEF event
<1>8. Live'
  BY <1>2, <1>3, <1>6, <1>7, WalkInv
<1> QED
  BY <1>8 DEF Inv

\* A declaration that is not refused goes into the innermost table.
LEMMA DeclareInv ==
    ASSUME Live, NEW n \in Names, NEW is_const \in BOOLEAN, NEW init \in Names \cup {NoName},
           Declare(n, is_const, init)
    PROVE  Inv'
<1> DEFINE event == [kind |-> "declare", name |-> n, is_const |-> is_const, reads |-> init]
<1>1. phase = "check"
  BY DEF Declare, Walk
<1>2. SUFFICES ASSUME phase' # "refused" PROVE Live'
  BY DEF Inv, Stopped
<1>3. Walk(event, TRUE) /\ Insert(n, is_const) /\ (init \in {NoName, n} \/ Search(init) # {})
  BY <1>2 DEF Declare, Walk
<1>4. /\ event \in EventSet /\ event.kind = "declare" /\ event.name = n
      /\ \A m \in Names : Needs(event, m) => KnownAt(Function, m, Len(Function.body))
  BY <1>1, <1>3, FoundIsKnown DEF EventSet, Needs
<1> HIDE DEF event
<1>5. /\ program' \in Seq(FunctionSet) /\ Len(program') = Len(program)
      /\ \A t \in 1 .. Len(program) : program'[t].head = program[t].head
      /\ MentionsKnown'
      /\ \A m : KnownAt(Function, m, Len(Function.body)) =>
                 KnownAt(program'[at], m, Len(program'[at].body))
      /\ KnownAt(program'[at], n, Len(program'[at].body))
  BY <1>1, <1>3, <1>4, WalkKeeps
<1>6. phase' = "check" /\ UNCHANGED <<at, funcs, genVars>> /\ symbol_seq' = symbol_seq + 1
  BY <1>3 DEF Walk, Insert
<1>7. /\ at \in 1 .. Len(program) /\ symbol_seq \in Nat /\ Len(tables) = at
      /\ tables \in Seq(Table) /\ blocks \in Seq(ArmSet)
  BY <1>1 DEF Live, Typed, FunctionsFound
<1>8. /\ tables' \in Seq(Table) /\ blocks' \in Seq(ArmSet) /\ Len(tables') = Len(tables)
      /\ \A t \in 1 .. Len(tables) : \A m \in DOMAIN tables'[t] :
             \/ m \in DOMAIN tables[t] /\ tables'[t][m] = tables[t][m]
             \/ t = at /\ m = n /\ tables'[t][m].symbol_id = symbol_seq
      /\ \A t \in 1 .. Len(tables) : DOMAIN tables[t] \subseteq DOMAIN tables'[t]
      /\ Len(blocks') = Len(blocks)
      /\ \A k \in 1 .. Len(blocks) : DOMAIN blocks'[k].table \subseteq DOMAIN blocks[k].table \cup {n}
  <2>1. CASE blocks = <<>>
    <3> DEFINE new == With(tables[at], n, Symbol(is_const))
    <3>1. tables' = [tables EXCEPT ![at] = new] /\ blocks' = blocks
      BY <1>3, <2>1 DEF Insert
    <3>2. /\ new \in Table /\ DOMAIN new = DOMAIN tables[at] \cup {n}
          /\ new[n].symbol_id = symbol_seq
          /\ \A m \in DOMAIN tables[at] : m # n => new[m] = tables[at][m]
      <4>1. tables[at] \in Table
        BY <1>7
      <4> QED
        BY <1>7, <4>1, WithIsTable
    <3> HIDE DEF new
    <3>3. /\ tables' \in Seq(Table) /\ Len(tables') = Len(tables) /\ tables'[at] = new
          /\ \A t \in 1 .. Len(tables) : t # at => tables'[t] = tables[t]
      BY <1>7, <3>1, <3>2, ExceptSeq
    <3> QED
      BY <1>7, <3>1, <3>2, <3>3
  <2>2. CASE blocks # <<>>
    <3> DEFINE last == Len(blocks)
               new == With(blocks[last].table, n, Symbol(is_const))
    <3>1. last \in 1 .. Len(blocks) /\ blocks[last] \in ArmSet /\ blocks[last].table \in Table
      <4>1. last \in 1 .. Len(blocks) /\ blocks[last] \in ArmSet
        BY <1>7, <2>2
      <4> QED
        BY <4>1 DEF ArmSet
    <3>2. blocks' = [blocks EXCEPT ![last] = [blocks[last] EXCEPT !.table = new]] /\ tables' = tables
      BY <1>3, <2>2 DEF Insert
    <3>3. new \in Table /\ DOMAIN new = DOMAIN blocks[last].table \cup {n}
      BY <1>7, <3>1, WithIsTable
    <3> HIDE DEF new, last
    <3>4. /\ [blocks[last] EXCEPT !.table = new] \in ArmSet
          /\ [blocks[last] EXCEPT !.table = new].table = new
      BY <3>1, <3>3 DEF ArmSet
    <3>5. /\ blocks' \in Seq(ArmSet) /\ Len(blocks') = Len(blocks) /\ blocks'[last].table = new
          /\ \A k \in 1 .. Len(blocks) : k # last => blocks'[k] = blocks[k]
      BY <1>7, <3>1, <3>2, <3>4, ExceptSeq
    <3> QED
      BY <1>7, <3>2, <3>3, <3>5
  <2> QED
    BY <2>1, <2>2
<1>9. Typed'
  BY <1>5, <1>6, <1>7, <1>8 DEF Live, Typed
<1>10. FunctionsFound'
  BY <1>1, <1>5, <1>6, <1>7, <1>8, <1>9 DEF Live, Typed, FunctionsFound
<1>11. ParametersInTables'
  <2>1. \A t \in 1 .. Len(tables) : \A m \in DOMAIN tables[t] : tables[t][m].symbol_id \in Nat
    BY <1>7, TableEntries
  <2>2. \A t \in 1 .. Len(tables) : program'[t].head = program[t].head
    BY <1>5, <1>7
  <2>3. ASSUME NEW t \in 1 .. Len(tables)
        PROVE  Range(program'[t].head.parametrs) \subseteq DOMAIN tables'[t]
    BY <1>8, <2>2 DEF Live, ParametersInTables
  <2>4. ASSUME NEW t \in 1 .. Len(tables), NEW m \in DOMAIN tables'[t]
        PROVE  tables'[t][m].symbol_id < symbol_seq + 1
    <3>1. CASE m \in DOMAIN tables[t] /\ tables'[t][m] = tables[t][m]
      <4>1. tables[t][m].symbol_id < symbol_seq
        BY <3>1 DEF Live, ParametersInTables
      <4> QED
        BY <1>7, <2>1, <3>1, <4>1
    <3>2. CASE tables'[t][m].symbol_id = symbol_seq
      BY <1>7, <3>2
    <3> QED
      BY <1>8, <3>1, <3>2
  <2> QED
    BY <1>6, <1>8, <2>3, <2>4 DEF ParametersInTables
<1>12. TablesKnown'
  BY <1>1, <1>5, <1>6, <1>7, <1>8 DEF Live, TablesKnown, Function
<1> QED
  BY <1>5, <1>6, <1>9, <1>10, <1>11, <1>12 DEF Live, KnownWritten, ReadsWritten

-----------------------------------------------------------------------------
(* Registering and entering functions *)

LEMMA RegisterInv ==
    ASSUME Live, RegisterFunction
    PROVE  Inv'
<1>1. phase = "register" /\ at \in 1 .. Len(program)
  BY DEF RegisterFunction, Live, Typed
<1>2. SUFFICES ASSUME FindFunction(Function.head.name) = 0, phase' = "register", at' = at + 1,
                      funcs' = Append(funcs, [name |-> Function.head.name, scope |-> NoScope,
                                              param_count |-> Len(Function.head.parametrs)])
               PROVE  Live'
  BY <1>1 DEF RegisterFunction, Inv, Stopped
<1>3. UNCHANGED <<program, tables, blocks, symbol_seq, genVars>>
  BY DEF RegisterFunction
<1> DEFINE new == [name |-> Function.head.name, scope |-> NoScope,
                   param_count |-> Len(Function.head.parametrs)]
<1>4. new \in EntrySet /\ new.name = Function.head.name
  <2>1. Function \in FunctionSet
    BY <1>1 DEF Live, Typed, Function
  <2>2. Function.head \in HeadSet
    BY <2>1 DEF FunctionSet
  <2> QED
    BY <2>2 DEF HeadSet, EntrySet, NoScope
<1>5. funcs' = Append(funcs, new)
  BY <1>2
<1> HIDE DEF new
<1>6. /\ funcs' \in Seq(EntrySet) /\ Len(funcs') = Len(funcs) + 1 /\ Len(funcs) = at - 1
      /\ \A i \in 1 .. Len(funcs) : funcs'[i] = funcs[i]
      /\ funcs'[at] = new
  BY <1>1, <1>4, <1>5, AppendProperties DEF Live, Typed, FunctionsFound
<1>7. Typed'
  BY SMTT(30), <1>1, <1>2, <1>3, <1>6 DEF Live, Typed
<1>8. \A i \in 1 .. Len(funcs) : funcs[i].name # Function.head.name
  BY <1>2, FindsNothing DEF Live
<1>9. FunctionsFound'
  BY SMTT(30), <1>1, <1>2, <1>3, <1>4, <1>6, <1>8 DEF Live, FunctionsFound, Function
<1> QED
  BY <1>1, <1>2, <1>3, <1>7, <1>9
  DEF Live, ParametersInTables, TablesKnown, MentionsKnown, KnownWritten, ReadsWritten

\* The table a function starts with holds its parameters, with new symbols.
LEMMA ParameterTableFits ==
    ASSUME NEW parametrs \in Seq(Names), symbol_seq \in Nat
    PROVE  /\ ParameterTable(parametrs) \in Table
           /\ DOMAIN ParameterTable(parametrs) = Range(parametrs)
           /\ \A n \in Range(parametrs) :
                  ParameterTable(parametrs)[n].symbol_id < symbol_seq + Len(parametrs)
<1> DEFINE place_of(n) == SelectInSeq(parametrs, LAMBDA m : m = n)
<1>1. ASSUME NEW n \in Range(parametrs)
      PROVE  place_of(n) \in 1 .. Len(parametrs)
  <2> DEFINE I == {i \in 1 .. Len(parametrs) : parametrs[i] = n}
  <2>1. I \in SUBSET Nat /\ I # {}
    BY DEF Range
  <2>2. place_of(n) = Min(I)
    BY <2>1 DEF SelectInSeq
  <2>3. Min(I) \in I
    <3> HIDE DEF I
    <3> QED
      BY <2>1, MinIsIn
  <2> QED
    BY <2>2, <2>3
<1> HIDE DEF place_of
<1>2. ParameterTable(parametrs) =
          [n \in Range(parametrs) |-> [symbol_id |-> symbol_seq + place_of(n) - 1, is_const |-> FALSE]]
  BY DEF ParameterTable, place_of
<1>3. Len(parametrs) \in Nat /\ Range(parametrs) \subseteq Names
  BY DEF Range
<1>4. ParameterTable(parametrs) \in [Range(parametrs) -> [symbol_id : Nat, is_const : BOOLEAN]]
  BY <1>1, <1>2, <1>3
<1> QED
  BY <1>1, <1>2, <1>3, <1>4 DEF Table

\* The next function is entered: the check goes on in its table.
LEMMA EnterInv ==
    ASSUME Live, phase \in {"register", "check"}, NEW f \in 1 .. Len(program), f = Len(tables) + 1,
           Len(funcs) = Len(program), blocks = <<>>, Enter(f), phase' # "refused",
           UNCHANGED <<program, blocks, genVars>>
    PROVE  Live'
<1> DEFINE head == program[f].head
           new == ParameterTable(head.parametrs)
<1>1. head.name \in FunctionNames /\ head.parametrs \in Seq(Names)
  <2>1. program[f] \in FunctionSet
    BY DEF Live, Typed
  <2>2. head \in HeadSet
    BY <2>1 DEF FunctionSet
  <2> QED
    BY <2>2 DEF HeadSet
<1>2. /\ phase' = "check" /\ at' = f /\ tables' = Append(tables, new)
      /\ funcs' = [funcs EXCEPT ![FindFunction(head.name)].scope = f]
      /\ symbol_seq' = symbol_seq + Len(head.parametrs)
  BY DEF Enter
<1>3. /\ new \in Table /\ DOMAIN new = Range(head.parametrs)
      /\ \A n \in DOMAIN new : new[n].symbol_id < symbol_seq'
      /\ symbol_seq \in Nat /\ symbol_seq' \in Nat /\ symbol_seq <= symbol_seq'
  BY SMTT(30), <1>1, <1>2, ParameterTableFits DEF Live, Typed
<1> HIDE DEF new
<1>4. /\ tables' \in Seq(Table) /\ Len(tables') = f /\ tables'[f] = new
      /\ \A t \in 1 .. Len(tables) : tables'[t] = tables[t] /\ tables[t] \in Table
  BY <1>2, <1>3, AppendProperties DEF Live, Typed
<1>5. /\ funcs' \in Seq(EntrySet) /\ Len(funcs') = Len(funcs)
      /\ \A i \in 1 .. Len(funcs) : funcs'[i].name = funcs[i].name
      /\ \A i \in 1 .. Len(funcs) : funcs'[i].scope = IF i = f THEN f ELSE funcs[i].scope
  <2>1. FindFunction(head.name) = f
    BY FindsItself DEF Live
  <2>2. funcs \in Seq(EntrySet) /\ f \in 1 .. Len(funcs)
    BY DEF Live, Typed
  <2>3. funcs[f] \in EntrySet
    BY <2>2
  <2>4. [funcs[f] EXCEPT !.scope = f] \in EntrySet
    BY <2>3 DEF EntrySet
  <2>5. /\ [funcs[f] EXCEPT !.scope = f].name = funcs[f].name
        /\ [funcs[f] EXCEPT !.scope = f].scope = f
    BY <2>3 DEF EntrySet
  <2>6. funcs' = [funcs EXCEPT ![f] = [funcs[f] EXCEPT !.scope = f]]
    BY <1>2, <2>1
  <2> QED
    BY <2>2, <2>4, <2>5, <2>6, ExceptSeq
<1>6. Typed'
  BY SMTT(30), <1>2, <1>3, <1>4, <1>5 DEF Live, Typed
<1>7. FunctionsFound'
  <2>1. \A i \in 1 .. Len(tables') : i = f \/ i \in 1 .. Len(tables)
    BY <1>4 DEF Live, Typed
  <2>2. \A i \in 1 .. Len(tables) : funcs[i].scope = i /\ i \in 1 .. Len(funcs)
    BY DEF Live, Typed, FunctionsFound
  <2>3. \A i \in 1 .. Len(tables') : funcs'[i].scope = i
    BY <1>5, <2>1, <2>2
  <2>4. /\ \A i \in 1 .. Len(funcs) : funcs[i].name = program[i].head.name
        /\ \A i, j \in 1 .. Len(funcs) : funcs[i].name = funcs[j].name => i = j
    BY DEF Live, FunctionsFound
  <2> QED
    BY SMTT(30), <1>2, <1>4, <1>5, <2>3, <2>4 DEF FunctionsFound
<1>8. ParametersInTables'
  <2>1. ASSUME NEW t \in 1 .. Len(tables), NEW n \in DOMAIN tables[t]
        PROVE  tables[t][n].symbol_id < symbol_seq'
    <3>1. tables[t][n].symbol_id \in Nat /\ tables[t][n].symbol_id < symbol_seq
      BY <1>4, TableEntries DEF Live, ParametersInTables
    <3> QED
      BY <1>3, <3>1
  <2>2. \A t \in 1 .. Len(tables') : t = f \/ t \in 1 .. Len(tables)
    BY <1>4 DEF Live, Typed
  <2>3. \A t \in 1 .. Len(tables) : Range(program[t].head.parametrs) \subseteq DOMAIN tables[t]
    BY DEF Live, ParametersInTables
  <2> QED
    BY <1>3, <1>4, <2>1, <2>2, <2>3 DEF ParametersInTables
<1>9. TablesKnown'
  BY <1>2, <1>3, <1>4 DEF TablesKnown, KnownAt, Function
<1> QED
  BY <1>2, <1>6, <1>7, <1>8, <1>9 DEF Live, MentionsKnown, KnownWritten, ReadsWritten

LEMMA EnterFirstInv ==
    ASSUME Live, EnterFirst
    PROVE  Inv'
<1>1. phase = "register" /\ at > Len(program) /\ Enter(1) /\ UNCHANGED <<program, blocks, genVars>>
  BY DEF EnterFirst
<1>2. 1 \in 1 .. Len(program) /\ 1 = Len(tables) + 1 /\ Len(funcs) = Len(program) /\ blocks = <<>>
  BY <1>1 DEF Live, Typed, FunctionsFound, TablesKnown
<1>3. phase' # "refused" => Live'
  BY <1>1, <1>2, EnterInv
<1> QED
  BY <1>3 DEF Inv, Stopped

-----------------------------------------------------------------------------
(* The actions of IR generation *)

\* A function begins with a register for each parameter.
LEMMA GeneratesInv ==
    ASSUME Live, NEW f \in 1 .. Len(program), Generates(f),
           Len(tables) = Len(program), Len(funcs) = Len(program), UNCHANGED checkVars
    PROVE  Live'
<1> DEFINE parametrs == program[f].head.parametrs
           place_of(id) == SelectInSeq(parametrs, LAMBDA n : ScopeOf(f)[n].symbol_id = id)
<1>1. /\ phase' = "generate" /\ at' = f /\ place' = 1 /\ found' = {}
      /\ reg_count' = Len(parametrs)
      /\ last_regs' = [id \in 0 .. symbol_seq - 1 |->
                          IF \E n \in Range(parametrs) : ScopeOf(f)[n].symbol_id = id
                          THEN place_of(id) - 1 ELSE NoReg]
  BY DEF Generates
<1>2. ScopeOf(f) = tables[f] /\ tables[f] \in Table /\ symbol_seq \in Nat
  BY ScopeIsOwn DEF Live, Typed
<1>3. parametrs \in Seq(Names) /\ program[f].body \in Seq(EventSet)
  <2>1. program[f] \in FunctionSet
    BY DEF Live, Typed
  <2>2. program[f].head \in HeadSet /\ program[f].body \in Seq(EventSet)
    BY SMTT(30), <2>1 DEF FunctionSet
  <2> QED
    BY <2>2 DEF HeadSet
<1>4. ASSUME NEW id, \E n \in Range(parametrs) : ScopeOf(f)[n].symbol_id = id
      PROVE  place_of(id) \in 1 .. Len(parametrs)
  <2> DEFINE I == {i \in 1 .. Len(parametrs) : ScopeOf(f)[parametrs[i]].symbol_id = id}
  <2>1. I \in SUBSET Nat /\ I # {}
    BY <1>3, <1>4 DEF Range
  <2>2. place_of(id) = Min(I)
    BY <2>1 DEF SelectInSeq
  <2>3. Min(I) \in I
    <3> HIDE DEF I
    <3> QED
      BY Zenon, <2>1, MinIsIn
  <2> QED
    BY Zenon, <2>2, <2>3
<1> HIDE DEF place_of
<1>5. Len(parametrs) \in Nat /\ Len(program[f].body) \in Nat
  BY <1>3
<1>6. last_regs' \in [0 .. symbol_seq - 1 -> Int]
  <2>1. ASSUME NEW id \in 0 .. symbol_seq - 1, \E n \in Range(parametrs) : ScopeOf(f)[n].symbol_id = id
        PROVE  place_of(id) - 1 \in Int
    BY <1>4, <1>5, <2>1
  <2> QED
    BY <1>1, <2>1 DEF NoReg
<1>7. ASSUME NEW n \in Range(parametrs)
      PROVE  n \in DOMAIN tables[f] /\ last_regs'[tables[f][n].symbol_id] # NoReg
  <2>1. n \in DOMAIN tables[f] /\ tables[f][n].symbol_id < symbol_seq
    BY DEF Live, ParametersInTables
  <2> DEFINE id == tables[f][n].symbol_id
  <2>2. id \in 0 .. symbol_seq - 1 /\ \E m \in Range(parametrs) : ScopeOf(f)[m].symbol_id = id
    BY <1>2, <2>1, TableEntries
  <2>3. place_of(id) \in Nat /\ place_of(id) >= 1
    BY <1>4, <1>5, <2>2
  <2>4. last_regs'[id] = place_of(id) - 1
    BY <1>1, <2>2
  <2>5. last_regs'[id] # NoReg
    BY ONLY <2>3, <2>4 DEF NoReg
  <2> QED
    BY <2>1, <2>5
<1>8. \A n \in Names : KnownAt(program[f], n, 0) => n \in Range(parametrs)
  BY DEF KnownAt
<1>9. UNCHANGED <<program, funcs, tables, blocks, symbol_seq>>
  BY DEF checkVars
<1>10. KnownWritten'
  <2>1. \A n \in Names : KnownAt(program[f], n, 0) =>
            n \in DOMAIN tables[f] /\ last_regs'[tables[f][n].symbol_id] # NoReg
    BY <1>7, <1>8
  <2>2. place' - 1 = 0 /\ place' \in 1 .. Len(program[f].body) + 1 /\ reg_count' \in Nat
    BY <1>1, <1>5
  <2>3. Function' = program[f]
    BY <1>1, <1>9 DEF Function
  <2> QED
    BY <1>1, <1>6, <1>9, <2>1, <2>2, <2>3 DEF KnownWritten
<1>11. Typed'
  BY <1>1, <1>9 DEF Live, Typed
<1>12. FunctionsFound'
  BY <1>1, <1>9 DEF Live, FunctionsFound
<1>13. ParametersInTables' /\ TablesKnown' /\ MentionsKnown'
  BY <1>1, <1>9 DEF Live, ParametersInTables, TablesKnown, MentionsKnown, KnownAt, Needs
<1> QED
  BY <1>1, <1>10, <1>11, <1>12, <1>13 DEF Live, ReadsWritten

LEMMA LeaveFunctionInv ==
    ASSUME Live, LeaveFunction
    PROVE  Inv'
<1>1. phase = "check" /\ blocks = <<>> /\ UNCHANGED <<program, blocks>>
  BY DEF LeaveFunction
<1>2. /\ at \in 1 .. Len(program) /\ Len(program) \in Nat /\ Len(tables) = at
      /\ Len(funcs) = Len(program)
  BY <1>1 DEF Live, Typed, FunctionsFound
<1>3. CASE at < Len(program)
  <2>1. Enter(at + 1) /\ UNCHANGED genVars
    BY <1>3 DEF LeaveFunction
  <2>2. phase' # "refused" => Live'
    BY <1>1, <1>2, <1>3, <2>1, EnterInv
  <2> QED
    BY <2>2 DEF Inv, Stopped
<1>4. CASE ~(at < Len(program))
  <2>1. Generates(1) /\ UNCHANGED checkVars
    BY <1>1, <1>4 DEF LeaveFunction, checkVars
  <2>2. 1 \in 1 .. Len(program) /\ Len(tables) = Len(program)
    BY <1>2, <1>4
  <2> QED
    BY <1>2, <2>1, <2>2, GeneratesInv DEF Inv
<1> QED
  BY <1>3, <1>4

-----------------------------------------------------------------------------

\* The table IR generation looks names up in is the function's own.
LEMMA OwnScope ==
    ASSUME Live, phase = "generate"
    PROVE  /\ at \in 1 .. Len(program) /\ at \in 1 .. Len(tables)
           /\ Len(tables) = Len(program) /\ Len(funcs) = Len(program)
           /\ ScopeOf(at) = tables[at] /\ tables[at] \in Table
           /\ symbol_seq \in Nat
<1>1. at \in 1 .. Len(program) /\ Len(tables) = Len(program) /\ Len(funcs) = Len(program)
      /\ tables \in Seq(Table) /\ symbol_seq \in Nat
  BY DEF Live, Typed, FunctionsFound
<1>2. FunctionsFound /\ Typed /\ Len(tables) <= Len(funcs) /\ at \in 1 .. Len(tables)
  BY <1>1 DEF Live
<1>3. ScopeOf(at) = tables[at]
  BY <1>2, ScopeIsOwn
<1> QED
  BY <1>1, <1>2, <1>3

\* A symbol of that table has a place in last_regs.
LEMMA SymbolsHavePlaces ==
    ASSUME Live, phase = "generate", NEW n \in DOMAIN tables[at]
    PROVE  tables[at][n].symbol_id \in 0 .. symbol_seq - 1
<1>1. tables[at] \in Table /\ at \in 1 .. Len(tables) /\ symbol_seq \in Nat
  BY OwnScope
<1>2. tables[at][n].symbol_id < symbol_seq
  BY <1>1 DEF Live, ParametersInTables
<1>3. tables[at][n].symbol_id \in Nat
  BY <1>1, TableEntries
<1> QED
  BY <1>1, <1>2, <1>3

\* The event that IR generation is at is one that the check has walked.
LEMMA EventIsOne ==
    ASSUME Live, Generating
    PROVE  /\ place \in 1 .. Len(Function.body) /\ Event \in EventSet
           /\ Event = program[at].body[place]
<1>1. at \in 1 .. Len(program) /\ phase = "generate"
  BY OwnScope DEF Generating
<1>2. program[at].body \in Seq(EventSet)
  <2>1. program[at] \in FunctionSet
    BY <1>1 DEF Live, Typed
  <2> QED
    BY <2>1 DEF FunctionSet
<1>3. place \in 1 .. Len(Function.body)
  BY <1>1, <1>2 DEF Generating, Live, KnownWritten, Function
<1> QED
  BY <1>1, <1>2, <1>3 DEF Event, Function

\* A name that is known after the event was known before it, unless the event
\* declares it.
LEMMA KnownBefore ==
    ASSUME Live, Generating, NEW n \in Names, KnownAt(Function, n, place)
    PROVE  \/ KnownAt(Function, n, place - 1)
           \/ Event.kind = "declare" /\ Event.name = n
<1>1. place \in 1 .. Len(Function.body) /\ Event = Function.body[place]
  BY EventIsOne DEF Function
<1>2. \A j \in 1 .. place : j = place \/ j \in 1 .. place - 1
  BY <1>1
<1> QED
  BY <1>1, <1>2 DEF KnownAt, Declares

\* What is looked up for a name that the check has found.
LEMMA NeededIsWritten ==
    ASSUME Live, Generating, NEW n \in Names, Needs(Event, n)
    PROVE  ReadReg(n) # NoReg
<1>1. phase = "generate" /\ at \in 1 .. Len(program) /\ ScopeOf(at) = tables[at]
  BY OwnScope DEF Generating
<1>2. place \in 1 .. Len(program[at].body) /\ Event = program[at].body[place]
  BY EventIsOne DEF Function
<1>3. KnownAt(program[at], n, place - 1)
  BY <1>1, <1>2 DEF Live, MentionsKnown
<1>4. last_regs[tables[at][n].symbol_id] # NoReg
  BY <1>1, <1>3 DEF Live, KnownWritten, Function
<1> QED
  BY <1>1, <1>4 DEF ReadReg

\* A step of IR generation inside a function changes nothing of the check's.
LEMMA StaysInFunction ==
    ASSUME Live, Generating, UNCHANGED <<phase, at, checkVars>>
    PROVE  Typed' /\ FunctionsFound' /\ ParametersInTables' /\ TablesKnown' /\ MentionsKnown'
<1>1. UNCHANGED <<phase, at, program, funcs, tables, blocks, symbol_seq>>
  BY DEF checkVars
<1>2. Typed' /\ FunctionsFound'
  BY <1>1 DEF Live, Typed, FunctionsFound
<1> QED
  BY <1>1, <1>2 DEF Live, ParametersInTables, TablesKnown, MentionsKnown, KnownAt, Needs, Function

\* An event that declares nothing leaves what is known as it is.
LEMMA PassesEvent ==
    ASSUME Live, Generating, Event.kind # "declare", place' = place + 1,
           reg_count' \in {reg_count, reg_count + 1}, UNCHANGED <<phase, at, checkVars, last_regs>>
    PROVE  KnownWritten'
<1>1. UNCHANGED <<program, tables, symbol_seq>> /\ Function' = Function
  BY DEF checkVars, Function
<1>2. place \in 1 .. Len(Function.body) /\ phase = "generate"
  BY EventIsOne DEF Generating, Function
<1>3. reg_count \in Nat /\ last_regs \in [0 .. symbol_seq - 1 -> Int]
  BY <1>2 DEF Live, KnownWritten
<1>4. \A n \in Names : KnownAt(Function, n, place) => KnownAt(Function, n, place - 1)
  BY KnownBefore
<1>5. \A n \in Names : KnownAt(Function, n, place) =>
          n \in DOMAIN tables[at] /\ last_regs[tables[at][n].symbol_id] # NoReg
  BY <1>2, <1>4 DEF Live, KnownWritten
<1>6. place' - 1 = place /\ place' \in 1 .. Len(Function.body) + 1 /\ reg_count' \in Nat
  BY <1>2, <1>3
<1> QED
  BY <1>1, <1>3, <1>5, <1>6 DEF KnownWritten

LEMMA GenDeclareInv ==
    ASSUME Live, GenDeclare
    PROVE  Live'
<1> DEFINE n == Event.name
           id == tables[at][n].symbol_id
<1>1. /\ Generating /\ phase = "generate" /\ Event.kind = "declare"
      /\ LooksUp(Event) \subseteq DOMAIN ScopeOf(at)
      /\ found' = IF Event.reads = NoName THEN {} ELSE {ReadReg(Event.reads)}
      /\ last_regs' = Written(Event)
      /\ reg_count' = reg_count + 1 /\ place' = place + 1
      /\ UNCHANGED <<phase, at, checkVars>>
  BY DEF GenDeclare, Generating
<1>2. /\ ScopeOf(at) = tables[at] /\ tables[at] \in Table /\ symbol_seq \in Nat
      /\ at \in 1 .. Len(program)
  BY <1>1, OwnScope
<1>3. /\ Event \in EventSet /\ place \in 1 .. Len(Function.body)
      /\ Event = Function.body[place] /\ Event = program[at].body[place]
  BY <1>1, EventIsOne DEF Function
<1>4. n \in Names /\ Event.reads \in Names \cup {NoName}
  BY <1>1, <1>3 DEF EventSet
<1>5. n \in DOMAIN tables[at] /\ id \in 0 .. symbol_seq - 1
  <2>1. n \in LooksUp(Event)
    BY <1>1, <1>4, ScopesAssumption DEF LooksUp
  <2> QED
    BY <1>1, <1>2, <2>1, SymbolsHavePlaces
<1>6. reg_count \in Nat /\ last_regs \in [0 .. symbol_seq - 1 -> Int] /\ reg_count # NoReg
  BY <1>1 DEF Live, KnownWritten, NoReg
<1>7. last_regs' = [last_regs EXCEPT ![id] = reg_count]
  BY <1>1, <1>2 DEF Written
<1> HIDE DEF id
<1>8. last_regs' \in [0 .. symbol_seq - 1 -> Int] /\ last_regs'[id] # NoReg
      /\ \A k \in 0 .. symbol_seq - 1 : last_regs[k] # NoReg => last_regs'[k] # NoReg
  BY <1>5, <1>6, <1>7
<1>9. ASSUME NEW m \in Names, KnownAt(Function, m, place)
      PROVE  m \in DOMAIN tables[at] /\ last_regs'[tables[at][m].symbol_id] # NoReg
  <2>1. KnownAt(Function, m, place - 1) \/ m = n
    BY <1>1, <1>9, KnownBefore
  <2>2. CASE m = n
    BY <1>5, <1>8, <2>2 DEF id
  <2>3. CASE KnownAt(Function, m, place - 1)
    <3>1. m \in DOMAIN tables[at] /\ last_regs[tables[at][m].symbol_id] # NoReg
      BY <1>1, <2>3 DEF Live, KnownWritten
    <3>2. tables[at][m].symbol_id \in 0 .. symbol_seq - 1
      BY <1>1, <3>1, SymbolsHavePlaces
    <3> QED
      BY <1>8, <3>1, <3>2
  <2> QED
    BY <2>1, <2>2, <2>3
<1>10. UNCHANGED <<program, funcs, tables, blocks, symbol_seq>> /\ Function' = Function
  BY <1>1 DEF checkVars, Function
<1>11. KnownWritten'
  <2>1. place' \in 1 .. Len(Function.body) + 1 /\ place' - 1 = place /\ reg_count' \in Nat
    BY <1>1, <1>3, <1>6
  <2> QED
    BY <1>1, <1>8, <1>9, <1>10, <2>1 DEF KnownWritten
<1>12. ReadsWritten'
  <2>1. Function'.body[place' - 1] = Event
    <3>1. place' - 1 = place
      BY <1>1, <1>3
    <3> QED
      BY <1>3, <1>10, <3>1
  <2>2. \A r \in found' : Event.reads # NoName /\ r = ReadReg(Event.reads)
    BY <1>1
  <2>3. Event.reads \notin {NoName, Event.name} => ReadReg(Event.reads) # NoReg
    BY <1>1, <1>4, NeededIsWritten DEF Needs
  <2> QED
    BY <1>1, <2>1, <2>2, <2>3 DEF ReadsWritten
<1> QED
  BY <1>1, <1>11, <1>12, StaysInFunction DEF Live

\* The register that an assignment writes is the one that stood there.
LEMMA AssignKeeps ==
    ASSUME Live, GenAssign
    PROVE  last_regs' = last_regs
<1>1. last_regs \in [0 .. symbol_seq - 1 -> Int]
  BY DEF GenAssign, Generating, Live, KnownWritten
<1> DEFINE id == ScopeOf(at)[Event.reads].symbol_id
<1>2. last_regs' = [last_regs EXCEPT ![id] = last_regs[id]]
  BY DEF GenAssign, ReadReg
<1> HIDE DEF id
<1> QED
  BY <1>1, <1>2

LEMMA GenNameInv ==
    ASSUME Live, GenMention \/ GenAssign
    PROVE  Live'
<1>1. /\ Generating /\ phase = "generate" /\ Event.kind \in {"mention", "unchecked", "assign"}
      /\ found' = IF Event.kind = "unchecked" THEN {} ELSE {ReadReg(Event.reads)}
      /\ place' = place + 1
      /\ UNCHANGED <<phase, at, checkVars, last_regs, reg_count>>
  BY AssignKeeps DEF GenMention, GenAssign, Generating
<1>2. /\ Event \in EventSet /\ place \in 1 .. Len(Function.body) /\ Event = Function.body[place]
  BY <1>1, EventIsOne DEF Function
<1>3. Function' = Function /\ UNCHANGED <<program, funcs, tables, blocks, symbol_seq>>
  BY <1>1 DEF checkVars, Function
<1>4. KnownWritten'
  BY <1>1, <1>2, <1>3, PassesEvent
<1>5. ReadsWritten'
  <2>1. Event.reads \in Names
    BY <1>1, <1>2 DEF EventSet
  <2>2. Event.kind # "unchecked" => ReadReg(Event.reads) # NoReg
    BY <1>1, <2>1, NeededIsWritten DEF Needs
  <2> QED
    BY <1>1, <2>2 DEF ReadsWritten
<1> QED
  BY <1>1, <1>4, <1>5, StaysInFunction DEF Live

LEMMA GenOtherInv ==
    ASSUME Live, GenOther
    PROVE  Live'
<1>1. /\ Generating /\ phase = "generate" /\ Event.kind # "declare" /\ found' = {}
      /\ reg_count' \in {reg_count, reg_count + 1} /\ place' = place + 1
      /\ UNCHANGED <<phase, at, checkVars, last_regs>>
  <2>1. phase = "generate" => reg_count \in Nat
    BY DEF Live, KnownWritten
  <2> QED
    BY <2>1 DEF GenOther, Generating
<1>2. KnownWritten'
  BY <1>1, PassesEvent
<1>3. ReadsWritten'
  BY <1>1 DEF ReadsWritten
<1> QED
  BY <1>1, <1>2, <1>3, StaysInFunction DEF Live

LEMMA GenLeaveInv ==
    ASSUME Live, GenLeave
    PROVE  Inv'
<1>1. phase = "generate" /\ UNCHANGED checkVars /\ at \in 1 .. Len(program)
      /\ Len(tables) = Len(program) /\ Len(funcs) = Len(program)
  BY OwnScope DEF GenLeave
<1>2. CASE at < Len(program)
  <2>1. Generates(at + 1) /\ at + 1 \in 1 .. Len(program)
    BY <1>1, <1>2 DEF GenLeave, Live, Typed
  <2> QED
    BY <1>1, <2>1, GeneratesInv DEF Inv
<1>3. CASE ~(at < Len(program))
  BY <1>3 DEF GenLeave, Inv, Stopped
<1> QED
  BY <1>2, <1>3

-----------------------------------------------------------------------------
(* The invariant *)

LEMMA InitInv == Init => Inv
<1> SUFFICES ASSUME Init PROVE Inv
  OBVIOUS
<1>1. PICK heads \in Programs :
          program = [i \in DOMAIN heads |-> [head |-> heads[i], body |-> <<>>]]
  BY DEF Init
<1>2. /\ phase = "register" /\ at = 1 /\ funcs = <<>> /\ tables = <<>> /\ blocks = <<>>
      /\ symbol_seq = 0 /\ found = {}
  BY DEF Init
<1>3. heads \in Seq(HeadSet) /\ heads # <<>>
  BY ScopesAssumption DEF HeadSet
<1>4. program \in Seq(FunctionSet) /\ Len(program) = Len(heads)
  <2>1. \A i \in DOMAIN heads : [head |-> heads[i], body |-> <<>>] \in FunctionSet
    BY <1>3 DEF FunctionSet
  <2>2. program \in [1 .. Len(heads) -> FunctionSet] /\ Len(heads) \in Nat
    BY <1>1, <1>3, <2>1
  <2> QED
    BY <2>2, SeqDef, LenProperties
<1>5. Len(heads) # 0 /\ Len(heads) \in Nat
  BY <1>3, EmptySeq
<1>6. Typed
  BY <1>2, <1>4, <1>5 DEF Typed
<1>7. MentionsKnown
  <2>1. \A t \in 1 .. Len(program) : program[t].body = <<>>
    BY SMTT(30), <1>1, <1>4, <1>3
  <2> QED
    BY SMTT(30), <2>1 DEF MentionsKnown
<1> QED
  BY <1>2, <1>6, <1>7
  DEF Inv, Live, FunctionsFound, ParametersInTables, TablesKnown, KnownWritten, ReadsWritten

\* Nothing happens after a refusal or the end.
LEMMA StopsForGood ==
    ASSUME Stopped, [Next]_vars
    PROVE  phase' = phase
<1>1. phase \notin {"register", "check", "generate"}
  BY DEF Stopped
<1> QED
  BY <1>1 DEF Next, vars, RegisterFunction, EnterFirst, LeaveFunction, Declare, Mention,
              UncheckedMention, Assign, Call, BeginIf, BeginElse, EndIf, Walk, RefuseLate,
              GenDeclare, GenMention, GenAssign, GenOther, GenLeave, Generating

LEMMA NextInv == Inv /\ [Next]_vars => Inv'
<1> SUFFICES ASSUME Inv, [Next]_vars PROVE Inv'
  OBVIOUS
<1>1. CASE Stopped
  <2>1. phase' = phase
    BY <1>1, StopsForGood
  <2> QED
    BY <1>1, <2>1 DEF Inv, Stopped
<1>2. CASE Live /\ UNCHANGED vars
  <2>1. UNCHANGED <<phase, at, program, funcs, tables, blocks, symbol_seq,
                    place, last_regs, reg_count, found>>
    BY <1>2 DEF vars, checkVars, genVars
  <2>2. Typed' /\ FunctionsFound' /\ ParametersInTables'
    BY <1>2, <2>1 DEF Live, Typed, FunctionsFound, ParametersInTables
  <2>3. TablesKnown' /\ MentionsKnown'
    BY <1>2, <2>1 DEF Live, TablesKnown, MentionsKnown, KnownAt, Needs, Function
  <2>4. KnownWritten' /\ ReadsWritten'
    BY <1>2, <2>1 DEF Live, KnownWritten, ReadsWritten, KnownAt, Function
  <2> QED
    BY <1>2, <2>1, <2>2, <2>3, <2>4 DEF Inv, Live
<1>3. CASE Live /\ Next
  <2>1. CASE RegisterFunction
    BY <1>3, <2>1, RegisterInv
  <2>2. CASE EnterFirst
    BY <1>3, <2>2, EnterFirstInv
  <2>3. CASE LeaveFunction
    BY <1>3, <2>3, LeaveFunctionInv
  <2>4. CASE \E n \in Names : \E init \in Names \cup {NoName}, is_const \in BOOLEAN :
                 Declare(n, is_const, init)
    BY <1>3, <2>4, DeclareInv
  <2>5. CASE \E n \in Names : Mention(n) \/ UncheckedMention(n) \/ Assign(n)
    BY <1>3, <2>5, MentionInv
  <2>6. CASE \E name \in FunctionNames, argument_count \in 0 .. 2 : Call(name, argument_count)
    BY <1>3, <2>6, CallInv
  <2>7. CASE BeginIf \/ BeginElse \/ EndIf
    BY <1>3, <2>7, ArmInv
  <2>8. CASE RefuseLate
    BY <2>8 DEF RefuseLate, Inv, Stopped
  <2>9. CASE GenDeclare
    BY <1>3, <2>9, GenDeclareInv DEF Inv
  <2>10. CASE GenMention \/ GenAssign
    BY <1>3, <2>10, GenNameInv DEF Inv
  <2>11. CASE GenOther
    BY <1>3, <2>11, GenOtherInv DEF Inv
  <2>12. CASE GenLeave
    BY <1>3, <2>12, GenLeaveInv
  <2> QED
    BY <1>3, <2>1, <2>2, <2>3, <2>4, <2>5, <2>6, <2>7, <2>8, <2>9, <2>10, <2>11, <2>12 DEF Next
<1> QED
  BY <1>1, <1>2, <1>3 DEF Inv

\* A name that the check has looked up and found has a register when IR
\* generation reads it (read_reg, IR/ir_reg.c), whatever the nesting of ifs,
\* the number of functions and the length of their bodies.
THEOREM NamesWritten == Spec => []ReadsWritten
<1>1. Inv => ReadsWritten
  BY DEF Inv, Live, Stopped, ReadsWritten
<1> QED
  BY <1>1, InitInv, NextInv, PTL DEF Spec

-----------------------------------------------------------------------------
(***************************************************************************)
(* What check_semantics decides with its tables is what the rules of scope  *)
(* say without them, in programs of any size: it refuses exactly the files  *)
(* that break a rule, and as long as no arm of an if declares a name, IR    *)
(* generation finds the register of the declaration that is meant.          *)
(*                                                                         *)
(* The argument: the open tables hold exactly the declarations of the arms  *)
(* on the path (TablesExact), an arm that may still get an else has had     *)
(* none (PathsFit), so what search finds is what the rules see, with the    *)
(* same const mark; each event is then legal exactly if the check goes on   *)
(* (Decided), and events that follow change nothing of it (RulesKept).      *)
(***************************************************************************)

(* Paths *)

\* A solution of the recursion that Path takes its value from.
Solves(f, body, i) ==
    f = [j \in 0 .. i |-> IF j = 0 THEN <<>> ELSE PathBehind(body, j, f[j - 1])]

\* The least number with a property: induction over events.
LEMMA LeastNumber ==
    ASSUME NEW S \in SUBSET Nat, S # {}
    PROVE  \E m \in S : \A k \in S : m <= k
<1> DEFINE R == OpToRel(<, Nat)
<1>1. PICK m \in S : \A k \in S : ~ (<<k, m>> \in R)
  BY NatLessThanWellFounded, WFMin
<1>2. ASSUME NEW k \in S PROVE m <= k
  <2>1. ~ (k < m)
    BY <1>1 DEF OpToRel
  <2> QED
    BY <2>1
<1> QED
  BY <1>2

LEMMA SolutionExists ==
    ASSUME NEW body, NEW i \in Nat
    PROVE  \E f : Solves(f, body, i)
<1> DEFINE Failing == {k \in Nat : ~ \E f : Solves(f, body, k)}
<1>1. 0 \notin Failing
  <2> DEFINE f == [j \in 0 .. 0 |-> <<>>]
  <2>1. Solves(f, body, 0)
    BY DEF Solves
  <2> QED
    BY <2>1
<1>2. ASSUME NEW k \in Nat, NEW f, Solves(f, body, k)
      PROVE  \E g : Solves(g, body, k + 1)
  <2> DEFINE g == [j \in 0 .. k + 1 |-> IF j = k + 1 THEN PathBehind(body, j, f[k]) ELSE f[j]]
  <2>1. \A j \in 0 .. k : f[j] = IF j = 0 THEN <<>> ELSE PathBehind(body, j, f[j - 1])
    BY <1>2 DEF Solves
  <2>2. \A j \in 0 .. k + 1 : g[j] = IF j = 0 THEN <<>> ELSE PathBehind(body, j, g[j - 1])
    <3> SUFFICES ASSUME NEW j \in 0 .. k + 1
                 PROVE  g[j] = IF j = 0 THEN <<>> ELSE PathBehind(body, j, g[j - 1])
      OBVIOUS
    <3>1. CASE j = k + 1
      <4>1. g[j] = PathBehind(body, j, f[k])
        BY <3>1
      <4>2. j # 0 /\ j - 1 = k /\ g[k] = f[k]
        BY <3>1
      <4> HIDE DEF g
      <4> QED
        BY <4>1, <4>2
    <3>2. CASE j # k + 1
      <4>1. j \in 0 .. k /\ g[j] = f[j] /\ (j # 0 => g[j - 1] = f[j - 1])
        BY <3>2
      <4> HIDE DEF g
      <4> QED
        BY <2>1, <4>1
    <3> QED
      BY <3>1, <3>2
  <2>3. DOMAIN g = 0 .. k + 1 /\ g = [j \in 0 .. k + 1 |-> g[j]]
    OBVIOUS
  <2> HIDE DEF g
  <2>4. Solves(g, body, k + 1)
    BY <2>2, <2>3 DEF Solves
  <2> QED
    BY <2>4
<1>3. Failing = {}
  <2> SUFFICES ASSUME Failing # {} PROVE FALSE
    OBVIOUS
  <2>1. PICK m \in Failing : \A k \in Failing : m <= k
    <3>1. Failing \in SUBSET Nat
      OBVIOUS
    <3> HIDE DEF Failing
    <3> QED
      BY <3>1, LeastNumber
  <2>2. m \in Nat /\ m # 0 /\ ~ \E f : Solves(f, body, m)
    BY <1>1, <2>1
  <2>3. m - 1 \in Nat /\ (m - 1) + 1 = m /\ m - 1 \notin Failing
    BY <2>1, <2>2
  <2>4. PICK f : Solves(f, body, m - 1)
    BY <2>3
  <2> QED
    BY <1>2, <2>2, <2>3, <2>4
<1> QED
  BY <1>3

LEMMA SolutionsAgree ==
    ASSUME NEW body, NEW i \in Nat, NEW k \in Nat, NEW f, NEW g,
           Solves(f, body, i), Solves(g, body, k)
    PROVE  \A j \in Nat : j <= i /\ j <= k => f[j] = g[j]
<1> DEFINE Differ == {j \in Nat : j <= i /\ j <= k /\ f[j] # g[j]}
<1>1. \A j \in 0 .. i : f[j] = IF j = 0 THEN <<>> ELSE PathBehind(body, j, f[j - 1])
  BY DEF Solves
<1>2. \A j \in 0 .. k : g[j] = IF j = 0 THEN <<>> ELSE PathBehind(body, j, g[j - 1])
  BY DEF Solves
<1>3. Differ = {}
  <2> SUFFICES ASSUME Differ # {} PROVE FALSE
    OBVIOUS
  <2>1. PICK m \in Differ : \A j \in Differ : m <= j
    <3>1. Differ \in SUBSET Nat
      OBVIOUS
    <3> HIDE DEF Differ
    <3> QED
      BY <3>1, LeastNumber
  <2>2. m \in Nat /\ m <= i /\ m <= k /\ f[m] # g[m]
    BY <2>1
  <2>3. m # 0
    BY <1>1, <1>2, <2>2
  <2>4. m - 1 \in Nat /\ m - 1 <= i /\ m - 1 <= k /\ m - 1 \notin Differ
    BY <2>1, <2>2, <2>3
  <2>5. f[m - 1] = g[m - 1]
    BY <2>4
  <2> QED
    BY <1>1, <1>2, <2>2, <2>3, <2>5
<1> QED
  BY <1>3

LEMMA PathSolves ==
    ASSUME NEW body, NEW i \in Nat
    PROVE  \E f : Solves(f, body, i) /\ Path(body, i) = f[i]
<1> DEFINE path == CHOOSE f : f = [j \in 0 .. i |-> IF j = 0 THEN <<>> ELSE PathBehind(body, j, f[j - 1])]
<1>1. Path(body, i) = path[i]
  BY DEF Path
<1>2. Solves(path, body, i)
  BY SolutionExists DEF Solves
<1> QED
  BY <1>1, <1>2

\* The recursion of Path, step by step.
LEMMA PathSteps ==
    ASSUME NEW body, NEW i \in Nat
    PROVE  /\ Path(body, 0) = <<>>
           /\ Path(body, i + 1) = PathBehind(body, i + 1, Path(body, i))
<1>1. Path(body, 0) = <<>>
  <2>1. PICK f : Solves(f, body, 0) /\ Path(body, 0) = f[0]
    BY PathSolves
  <2> QED
    BY <2>1 DEF Solves
<1>2. Path(body, i + 1) = PathBehind(body, i + 1, Path(body, i))
  <2>1. PICK f : Solves(f, body, i) /\ Path(body, i) = f[i]
    BY PathSolves
  <2>2. PICK g : Solves(g, body, i + 1) /\ Path(body, i + 1) = g[i + 1]
    BY PathSolves
  <2>3. g[i] = f[i]
    BY <2>1, <2>2, SolutionsAgree
  <2>4. g[i + 1] = PathBehind(body, i + 1, g[i])
    BY <2>2 DEF Solves
  <2> QED
    BY <2>1, <2>2, <2>3, <2>4
<1> QED
  BY <1>1, <1>2

\* The path of an event is settled by the events up to it.
LEMMA PathKept ==
    ASSUME NEW body \in Seq(EventSet), NEW e \in EventSet
    PROVE  \A i \in 0 .. Len(body) : Path(Append(body, e), i) = Path(body, i)
<1> DEFINE longer == Append(body, e)
           Differ == {i \in Nat : i <= Len(body) /\ Path(longer, i) # Path(body, i)}
<1>0. Len(body) \in Nat /\ \A i \in 1 .. Len(body) : longer[i] = body[i]
  BY AppendProperties
<1> HIDE DEF longer
<1>1. Differ = {}
  <2> SUFFICES ASSUME Differ # {} PROVE FALSE
    OBVIOUS
  <2>1. PICK m \in Differ : \A j \in Differ : m <= j
    <3>1. Differ \in SUBSET Nat
      OBVIOUS
    <3> HIDE DEF Differ
    <3> QED
      BY <3>1, LeastNumber
  <2>2. m \in Nat /\ m <= Len(body) /\ Path(longer, m) # Path(body, m)
    BY <2>1
  <2>3. m # 0
    BY <2>2, PathSteps
  <2>4. m - 1 \in Nat /\ m - 1 <= Len(body) /\ m - 1 \notin Differ /\ (m - 1) + 1 = m
    BY <1>0, <2>1, <2>2, <2>3
  <2>5. Path(longer, m - 1) = Path(body, m - 1)
    BY <2>4
  <2>6. longer[m] = body[m]
    BY <1>0, <2>2, <2>3
  <2>7. /\ Path(longer, m) = PathBehind(longer, m, Path(body, m - 1))
        /\ Path(body, m) = PathBehind(body, m, Path(body, m - 1))
    BY <2>4, <2>5, PathSteps
  <2> QED
    BY <2>2, <2>6, <2>7 DEF PathBehind
<1> QED
  BY <1>0, <1>1 DEF longer

-----------------------------------------------------------------------------
(* The inductive invariant *)

PathSet == Seq(Nat \X {"then", "else"})

\* The arms the walk is in, as the rules see them.
Here == Path(Function.body, Len(Function.body))

\* q is the path of arm k of path p, the body itself for k = 0.
AtLevel(q, p, k) == Len(q) = k /\ \A m \in 1 .. k : q[m] = p[m]

TableAt(k) == IF k = 0 THEN tables[at] ELSE blocks[k].table

PathsTyped ==
    \A t \in 1 .. Len(program) : \A i \in 0 .. Len(program[t].body) :
        Path(program[t].body, i) \in PathSet

\* The open arms are the path, and of an arm that may still get an else no
\* event has stood in the else.
PathsFit ==
    phase = "check" =>
        /\ Len(Here) = Len(blocks)
        /\ \A k \in 1 .. Len(blocks) : Here[k][2] = blocks[k].arm
        /\ \A i \in 0 .. Len(Function.body) : \A k \in 1 .. Len(Path(Function.body, i)) :
               /\ Path(Function.body, i)[k][1] <= i
               /\ k <= Len(blocks) /\ blocks[k].arm = "then" =>
                      Path(Function.body, i)[k] # <<Here[k][1], "else">>

\* An open table holds the declarations of its arm and nothing else, the
\* function's own table also the parameters.
Held(k, n) ==
    \/ k = 0 /\ n \in Range(Function.head.parametrs)
    \/ \E j \in 1 .. Len(Function.body) :
           Declares(Function.body, j, n) /\ AtLevel(Path(Function.body, j), Here, k)

TablesExact ==
    phase = "check" =>
        /\ \A k \in 0 .. Len(blocks) : \A n \in Names :
               n \in DOMAIN TableAt(k) <=> Held(k, n)
        /\ \A k \in 0 .. Len(blocks) : \A n \in Names : \A j \in 1 .. Len(Function.body) :
               Declares(Function.body, j, n) /\ AtLevel(Path(Function.body, j), Here, k) =>
                   TableAt(k)[n].is_const = Function.body[j].is_const
        /\ \A n \in Range(Function.head.parametrs) : ~TableAt(0)[n].is_const

-----------------------------------------------------------------------------
(* What the tables find is what the rules see *)

LEMMA PrefixLevels ==
    ASSUME NEW q \in PathSet, NEW p \in PathSet
    PROVE  IsPrefix(q, p) <=> Len(q) <= Len(p) /\ AtLevel(q, p, Len(q))
<1>1. Len(q) \in Nat /\ Len(p) \in Nat
      /\ (\A m \in 1 .. Len(q) : q[m] \in Nat \X {"then", "else"})
      /\ (\A m \in 1 .. Len(p) : p[m] \in Nat \X {"then", "else"})
  BY DEF PathSet
<1> DEFINE A == Nat \X {"then", "else"}
           k == Len(q)
           a == SubSeq(q, 1, k)
           b == SubSeq(p, 1, k)
<1>2. CASE Len(q) <= Len(p)
  <2>1. \A m \in 1 .. k : q[m] \in A /\ p[m] \in A
    BY <1>1, <1>2
  <2> HIDE DEF A
  <2>2. /\ a \in Seq(A) /\ Len(a) = k /\ \A m \in 1 .. k : a[m] = q[m]
        /\ b \in Seq(A) /\ Len(b) = k /\ \A m \in 1 .. k : b[m] = p[m]
    BY <1>1, <2>1, SubSeqProperties
  <2>3. a = b <=> \A m \in 1 .. k : q[m] = p[m]
    <3> HIDE DEF a, b
    <3> QED
      BY <2>2, SeqEqual
  <2> QED
    BY <1>1, <1>2, <2>3 DEF IsPrefix, AtLevel
<1>3. CASE ~(Len(q) <= Len(p))
  BY <1>3 DEF IsPrefix
<1> QED
  BY <1>2, <1>3

LEMMA ChainLevels ==
    ASSUME Live, phase = "check"
    PROVE  /\ DOMAIN Chain = 1 .. Len(blocks) + 1 /\ Len(blocks) \in Nat
           /\ \A k \in 0 .. Len(blocks) : Chain[k + 1] = TableAt(k) /\ TableAt(k) \in Table
           /\ Last(Chain) = TableAt(Len(blocks))
<1> DEFINE B == [k \in DOMAIN blocks |-> blocks[k].table]
<1>1. /\ DOMAIN blocks = 1 .. Len(blocks) /\ Len(blocks) \in Nat
      /\ \A k \in 1 .. Len(blocks) : blocks[k] \in ArmSet
      /\ tables[at] \in Table
  BY DEF Live, Typed, FunctionsFound
<1>2. \A k \in DOMAIN blocks : blocks[k].table \in Table
  BY <1>1 DEF ArmSet
<1>3. B \in Seq(Table) /\ Len(B) = Len(blocks)
  <2>1. B \in [1 .. Len(blocks) -> Table]
    BY <1>1, <1>2
  <2> QED
    BY <1>1, <2>1, SeqDef, LenProperties
<1>4. /\ \A k \in 1 .. Len(blocks) : B[k] = blocks[k].table
      /\ <<tables[at]>> \in Seq(Table) /\ Len(<<tables[at]>>) = 1 /\ <<tables[at]>>[1] = tables[at]
  BY <1>1
<1> HIDE DEF B
<1>5. Chain = <<tables[at]>> \o B
  BY DEF Chain, B
<1>6. /\ Chain \in Seq(Table) /\ Len(Chain) = Len(blocks) + 1
      /\ Chain[1] = tables[at]
      /\ \A k \in 1 .. Len(blocks) : Chain[k + 1] = B[k]
  BY <1>1, <1>3, <1>4, <1>5, ConcatProperties
<1>7. \A k \in 0 .. Len(blocks) : Chain[k + 1] = TableAt(k) /\ TableAt(k) \in Table
  BY <1>1, <1>2, <1>4, <1>6 DEF TableAt
<1> QED
  BY <1>1, <1>6, <1>7 DEF Last

\* A set of levels has a highest one.
LEMMA Highest ==
    ASSUME NEW N \in Nat, NEW S \in SUBSET (0 .. N), S # {}
    PROVE  \E h \in S : \A k \in S : k <= h
<1> DEFINE D == {e \in 0 .. N : N - e \in S}
<1>1. D \in SUBSET Nat /\ \A k \in S : N - k \in D
  <2>1. ASSUME NEW k \in S PROVE N - k \in D
    <3>1. k \in 0 .. N
      OBVIOUS
    <3>2. N - k \in 0 .. N /\ N - (N - k) = k
      BY <3>1
    <3> QED
      BY <3>2
  <2> QED
    BY <2>1
<1>2. PICK d \in D : \A e \in D : d <= e
  <2> HIDE DEF D
  <2> QED
    BY <1>1, LeastNumber
<1>3. N - d \in S /\ d \in 0 .. N
  BY <1>2
<1>4. ASSUME NEW k \in S PROVE k <= N - d
  <2>1. d <= N - k /\ k \in 0 .. N
    BY <1>1, <1>2
  <2> QED
    BY <1>3, <2>1
<1> QED
  BY <1>3, <1>4

\* search finds the innermost table that has the name.
LEMMA SearchIs ==
    ASSUME Live, phase = "check", NEW n
    PROVE  /\ Search(n) # {} <=> \E k \in 0 .. Len(blocks) : n \in DOMAIN TableAt(k)
           /\ \A s \in Search(n) : \E h \in 0 .. Len(blocks) :
                  /\ n \in DOMAIN TableAt(h) /\ s = TableAt(h)[n]
                  /\ \A k \in 0 .. Len(blocks) : n \in DOMAIN TableAt(k) => k <= h
<1> DEFINE holding == {c \in DOMAIN Chain : n \in DOMAIN Chain[c]}
           levels == {k \in 0 .. Len(blocks) : n \in DOMAIN TableAt(k)}
<1>1. /\ DOMAIN Chain = 1 .. Len(blocks) + 1 /\ Len(blocks) \in Nat
      /\ \A k \in 0 .. Len(blocks) : Chain[k + 1] = TableAt(k)
  BY ChainLevels
<1>2. \A k \in 0 .. Len(blocks) : k \in levels <=> k + 1 \in holding
  BY <1>1
<1>3. \A c \in holding : c - 1 \in levels /\ Chain[c] = TableAt(c - 1)
  <2>1. ASSUME NEW c \in holding PROVE c - 1 \in levels /\ Chain[c] = TableAt(c - 1)
    <3>1. c - 1 \in 0 .. Len(blocks) /\ (c - 1) + 1 = c
      BY <1>1
    <3> QED
      BY <1>1, <3>1
  <2> QED
    BY <2>1
<1>4. Search(n) = {Chain[c][n] : c \in {h \in holding : \A j \in holding : j <= h}}
  BY DEF Search
<1>5. ASSUME NEW s \in Search(n)
      PROVE  \E h \in levels : s = TableAt(h)[n] /\ \A k \in levels : k <= h
  <2>1. PICK c \in holding : s = Chain[c][n] /\ \A j \in holding : j <= c
    BY <1>4
  <2>2. ASSUME NEW k \in levels PROVE k <= c - 1
    <3>1. k + 1 <= c
      BY <1>2, <2>1
    <3> QED
      BY <1>1, <2>1, <3>1
  <2> QED
    BY <1>3, <2>1, <2>2
<1>6. levels # {} => Search(n) # {}
  <2>1. SUFFICES ASSUME levels # {} PROVE Search(n) # {}
    OBVIOUS
  <2>2. PICK h \in levels : \A k \in levels : k <= h
    <3>1. levels \in SUBSET (0 .. Len(blocks))
      OBVIOUS
    <3> HIDE DEF levels
    <3> QED
      BY <1>1, <2>1, <3>1, Highest
  <2>3. h + 1 \in holding /\ \A j \in holding : j <= h + 1
    <3>1. ASSUME NEW j \in holding PROVE j <= h + 1
      <4>1. j - 1 <= h
        BY <1>3, <2>2
      <4> QED
        BY <1>1, <4>1
    <3> QED
      BY <1>2, <3>1
  <2> QED
    BY <1>4, <2>3
<1> QED
  BY <1>5, <1>6

-----------------------------------------------------------------------------
(* The rules for an event do not depend on the events behind it *)

\* LegalEvent but for calls, which depend on the heads of the file.
LegalHere(f, i) ==
    LET e == f.body[i]
    IN  /\ e.kind = "declare" =>
               /\ \A j \in 1 .. i - 1 :
                      Declares(f.body, j, e.name) => Path(f.body, j) # Path(f.body, i)
               /\ Path(f.body, i) = <<>> => ~Contains(f.head.parametrs, e.name)
               /\ e.reads # NoName => Seen(f, i, e.reads) # {}
        /\ e.kind \in {"mention", "assign"} => Seen(f, i, e.reads) # {}
        /\ e.kind = "assign" =>
               LET d == Meant(f, i, e.reads) IN d > 0 => ~f.body[d].is_const

CallLegal(file, e) ==
    e.kind = "call" =>
        \E t \in 1 .. Len(file) :
            /\ file[t].head.name = e.name
            /\ Len(file[t].head.parametrs) = e.argument_count

LEMMA LegalEventIs ==
    ASSUME program \in Seq(FunctionSet), NEW f, NEW i
    PROVE  LegalEvent(f, i) <=> LegalHere(f, i) /\ CallLegal(program, f.body[i])
<1>1. Range(program) = {program[t] : t \in 1 .. Len(program)}
  BY DEF Range
<1>2. CallLegal(program, f.body[i]) <=>
          (f.body[i].kind = "call" =>
             \E g \in Range(program) :
                 g.head.name = f.body[i].name /\ Len(g.head.parametrs) = f.body[i].argument_count)
  BY <1>1 DEF CallLegal
<1> QED
  BY <1>2 DEF LegalEvent, LegalHere

LEMMA SeenIsBehind ==
    ASSUME NEW f \in FunctionSet, NEW i \in 1 .. Len(f.body), NEW n, NEW j \in Seen(f, i, n)
    PROVE  /\ j \in Int /\ (j > 0 => j \in 1 .. i)
           /\ (j <= 0 => j < 0 /\ n \in Range(f.head.parametrs))
<1>1. f.head.parametrs \in Seq(Names) /\ f.body \in Seq(EventSet)
  BY DEF FunctionSet, HeadSet
<1>2. DOMAIN f.head.parametrs = 1 .. Len(f.head.parametrs) /\ Len(f.head.parametrs) \in Nat
  BY <1>1
<1> QED
  BY <1>1, <1>2 DEF Seen, Range

\* Of the declarations that are seen one is in the innermost arm.
LEMMA MeantIsSeen ==
    ASSUME NEW f \in FunctionSet, NEW i \in 1 .. Len(f.body), NEW n,
           \A j \in 0 .. Len(f.body) : Path(f.body, j) \in PathSet,
           Seen(f, i, n) # {}
    PROVE  /\ Meant(f, i, n) \in Seen(f, i, n)
           /\ \A k \in Seen(f, i, n) : Depth(f, k) <= Depth(f, Meant(f, i, n))
<1> DEFINE N == 1 + Len(Path(f.body, i))
           S == {d \in 0 .. N : \E j \in Seen(f, i, n) : Depth(f, j) = d}
<1>1. N \in Nat /\ i \in 0 .. Len(f.body)
  BY DEF PathSet
<1>2. ASSUME NEW j \in Seen(f, i, n) PROVE Depth(f, j) \in S
  <2>1. CASE j <= 0
    <3>1. j < 0
      BY <2>1, SeenIsBehind
    <3> QED
      BY <1>1, <3>1 DEF Depth
  <2>2. CASE j > 0
    <3>1. j \in 1 .. i /\ IsPrefix(Path(f.body, j), Path(f.body, i))
      <4>1. j \in 1 .. i
        BY <2>2, SeenIsBehind
      <4>2. \A k : j # -k \/ k \notin 1 .. Len(f.head.parametrs)
        BY <4>1
      <4>3. DOMAIN f.head.parametrs = 1 .. Len(f.head.parametrs)
        BY DEF FunctionSet, HeadSet
      <4> QED
        BY <4>1, <4>2, <4>3 DEF Seen
    <3>2. Len(Path(f.body, j)) <= Len(Path(f.body, i)) /\ Len(Path(f.body, j)) \in Nat
      BY <3>1 DEF IsPrefix, PathSet
    <3> QED
      BY <1>1, <2>2, <3>1, <3>2 DEF Depth
  <2> QED
    BY <2>1, <2>2, SeenIsBehind
<1>3. PICK h \in S : \A d \in S : d <= h
  <2>1. S \in SUBSET (0 .. N) /\ S # {}
    BY <1>2
  <2> HIDE DEF S, N
  <2> QED
    BY <1>1, <2>1, Highest
<1>4. PICK m \in Seen(f, i, n) : Depth(f, m) = h
  BY <1>3
<1>5. m \in Innermost(f, i, n)
  BY <1>2, <1>3, <1>4 DEF Innermost
<1>6. Meant(f, i, n) \in Innermost(f, i, n)
  BY <1>5 DEF Meant
<1> QED
  BY <1>6 DEF Innermost

\* What the rules say of an event stands when another one follows.
LEMMA RulesKept ==
    ASSUME NEW f \in FunctionSet, NEW g, NEW e \in EventSet,
           g.head = f.head, g.body = Append(f.body, e),
           \A j \in 0 .. Len(f.body) : Path(f.body, j) \in PathSet,
           NEW i \in 1 .. Len(f.body)
    PROVE  LegalHere(f, i) <=> LegalHere(g, i)
<1>1. f.head.parametrs \in Seq(Names) /\ f.body \in Seq(EventSet) /\ Len(f.body) \in Nat
  BY DEF FunctionSet, HeadSet
<1>2. \A j \in 1 .. i : g.body[j] = f.body[j] /\ Path(g.body, j) = Path(f.body, j)
  BY <1>1, AppendProperties, PathKept
<1>3. \A n : Seen(g, i, n) = Seen(f, i, n)
  BY <1>2 DEF Seen, Declares
<1>4. ASSUME NEW n PROVE Innermost(g, i, n) = Innermost(f, i, n)
  <2>1. \A j \in Seen(f, i, n) : Depth(g, j) = Depth(f, j)
    BY <1>2, SeenIsBehind DEF Depth
  <2> QED
    BY <1>3, <2>1 DEF Innermost
<1>5. \A n : Meant(g, i, n) = Meant(f, i, n)
  BY <1>4 DEF Meant
<1> DEFINE n == f.body[i].reads
           d == Meant(f, i, n)
<1>6. Seen(f, i, n) # {} => (d > 0 => g.body[d] = f.body[d])
  <2>1. Seen(f, i, n) # {} => d \in Seen(f, i, n)
    BY MeantIsSeen
  <2> QED
    BY <1>2, <2>1, SeenIsBehind
<1>7. g.body[i] = f.body[i] /\ Path(g.body, i) = Path(f.body, i)
      /\ \A j \in 1 .. i - 1 : \A m : /\ Declares(g.body, j, m) <=> Declares(f.body, j, m)
                                      /\ Path(g.body, j) = Path(f.body, j)
  BY <1>2 DEF Declares
<1> DEFINE Fresh(h) == \A j \in 1 .. i - 1 :
                          Declares(h.body, j, f.body[i].name) => Path(h.body, j) # Path(h.body, i)
           Variable(h) == LET b == Meant(h, i, n) IN b > 0 => ~h.body[b].is_const
           Rules(h) ==
               /\ f.body[i].kind = "declare" =>
                      /\ Fresh(h)
                      /\ Path(h.body, i) = <<>> => ~Contains(f.head.parametrs, f.body[i].name)
                      /\ n # NoName => Seen(h, i, n) # {}
               /\ f.body[i].kind \in {"mention", "assign"} => Seen(h, i, n) # {}
               /\ f.body[i].kind = "assign" => Variable(h)
<1>8. (LegalHere(f, i) <=> Rules(f)) /\ (LegalHere(g, i) <=> Rules(g))
  BY <1>7 DEF LegalHere
<1>9. Fresh(f) <=> Fresh(g)
  BY <1>7
<1>10. Seen(f, i, n) # {} => (Variable(f) <=> Variable(g))
  <2>1. Meant(g, i, n) = d
    BY <1>5
  <2>2. Variable(f) <=> (d > 0 => ~f.body[d].is_const)
    OBVIOUS
  <2>3. Variable(g) <=> (d > 0 => ~g.body[d].is_const)
    BY <2>1
  <2> HIDE DEF Variable, d
  <2> QED
    BY <1>6, <2>2, <2>3
<1>11. Seen(f, i, n) = Seen(g, i, n) /\ Path(g.body, i) = Path(f.body, i)
  BY <1>3, <1>7
<1> HIDE DEF Fresh, Variable, d, n
<1>12. Rules(f) <=> Rules(g)
  BY <1>9, <1>10, <1>11
<1> HIDE DEF Rules
<1> QED
  BY <1>8, <1>12

-----------------------------------------------------------------------------
(* One event more *)

\* The walk appends its event to the body of the function it is in.
LEMMA WalkEffect ==
    ASSUME Live, phase = "check", NEW event \in EventSet, NEW fine \in BOOLEAN,
           Walk(event, fine)
    PROVE  /\ Function \in FunctionSet /\ at \in 1 .. Len(program) /\ Len(Function.body) \in Nat
           /\ program' \in Seq(FunctionSet) /\ Len(program') = Len(program)
           /\ program'[at].head = Function.head
           /\ program'[at].body = Append(Function.body, event)
           /\ program'[at].body \in Seq(EventSet)
           /\ Len(program'[at].body) = Len(Function.body) + 1
           /\ program'[at].body[Len(Function.body) + 1] = event
           /\ \A j \in 1 .. Len(Function.body) : program'[at].body[j] = Function.body[j]
           /\ \A t \in 1 .. Len(program) : program'[t].head = program[t].head
                                           /\ (t # at => program'[t] = program[t])
           /\ at' = at /\ Function' = program'[at]
           /\ \A i \in 0 .. Len(Function.body) :
                  Path(program'[at].body, i) = Path(Function.body, i)
<1>1. /\ at \in 1 .. Len(program) /\ program \in Seq(FunctionSet)
      /\ program' = [program EXCEPT ![at] = [Function EXCEPT !.body = Append(Function.body, event)]]
      /\ at' = at
  BY DEF Live, Typed, Walk, Function
<1>2. Function \in FunctionSet /\ Function.body \in Seq(EventSet) /\ Len(Function.body) \in Nat
  <2>1. Function \in FunctionSet
    BY <1>1 DEF Function
  <2> QED
    BY <2>1 DEF FunctionSet
<1> DEFINE g == [Function EXCEPT !.body = Append(Function.body, event)]
<1>3. /\ Append(Function.body, event) \in Seq(EventSet)
      /\ Len(Append(Function.body, event)) = Len(Function.body) + 1
      /\ \A j \in 1 .. Len(Function.body) : Append(Function.body, event)[j] = Function.body[j]
      /\ Append(Function.body, event)[Len(Function.body) + 1] = event
  BY <1>2, AppendProperties
<1>4. g \in FunctionSet /\ g.head = Function.head /\ g.body = Append(Function.body, event)
  BY <1>2, <1>3 DEF FunctionSet
<1>5. program' = [program EXCEPT ![at] = g]
  BY <1>1
<1> HIDE DEF g
<1>6. /\ program' \in Seq(FunctionSet) /\ Len(program') = Len(program)
      /\ program'[at] = g /\ \A t \in 1 .. Len(program) : t # at => program'[t] = program[t]
  <2>1. at \in 1 .. Len(program) /\ program \in Seq(FunctionSet) /\ g \in FunctionSet
    BY <1>1, <1>4
  <2>2. /\ [program EXCEPT ![at] = g] \in Seq(FunctionSet)
        /\ Len([program EXCEPT ![at] = g]) = Len(program)
        /\ \A t \in 1 .. Len(program) : [program EXCEPT ![at] = g][t] = IF t = at THEN g ELSE program[t]
    BY ONLY <2>1, ExceptSeq
  <2> QED
    BY <1>5, <2>1, <2>2
<1>7. \A i \in 0 .. Len(Function.body) : Path(Append(Function.body, event), i) = Path(Function.body, i)
  BY <1>2, PathKept
<1> QED
  BY <1>1, <1>2, <1>3, <1>4, <1>6, <1>7 DEF Function

\* The declarations an event sees that begins and ends no arm are those that
\* the open tables hold.
LEMMA SeenNow ==
    ASSUME Live, PathsTyped, PathsFit, TablesExact, phase = "check",
           NEW event \in EventSet, NEW fine \in BOOLEAN, Walk(event, fine),
           event.kind \notin {"if", "else", "endif"}, NEW n \in Names
    PROVE  LET L == Len(Function.body)
               g == program'[at]
           IN  /\ Path(g.body, L + 1) = Here
               /\ \A j \in 1 .. L : j \in Seen(g, L + 1, n) <=>
                      Declares(Function.body, j, n)
                      /\ \E k \in 0 .. Len(blocks) : AtLevel(Path(Function.body, j), Here, k)
               /\ L + 1 \in Seen(g, L + 1, n) <=>
                      event.kind = "declare" /\ event.name = n /\ event.reads = n
               /\ \A j \in Seen(g, L + 1, n) : j < 0 =>
                      n \in Range(Function.head.parametrs)
               /\ n \in Range(Function.head.parametrs) =>
                      \E j \in Seen(g, L + 1, n) : j < 0
<1> DEFINE L == Len(Function.body)
           g == program'[at]
           f == Function
<1>1. /\ f \in FunctionSet /\ at \in 1 .. Len(program) /\ L \in Nat
      /\ g.head = f.head /\ g.body[L + 1] = event /\ Len(g.body) = L + 1
      /\ \A j \in 1 .. L : g.body[j] = f.body[j]
      /\ \A i \in 0 .. L : Path(g.body, i) = Path(f.body, i)
  BY WalkEffect
<1>2. f.head.parametrs \in Seq(Names) /\ DOMAIN f.head.parametrs = 1 .. Len(f.head.parametrs)
      /\ Len(f.head.parametrs) \in Nat
  BY <1>1 DEF FunctionSet, HeadSet
<1> HIDE DEF L, g
<1>3. Path(g.body, L + 1) = Here
  <2>1. Path(g.body, L) = Here
    BY <1>1 DEF Here, L
  <2> QED
    BY <1>1, <2>1, PathSteps DEF PathBehind
<1>4. \A j \in 0 .. L : Path(f.body, j) \in PathSet /\ Here \in PathSet
  BY <1>1 DEF PathsTyped, Function, L, Here
<1>5. Len(Here) = Len(blocks) /\ Len(blocks) \in Nat
  BY DEF PathsFit, Live, Typed
<1>6. ASSUME NEW j \in 1 .. L
      PROVE  IsPrefix(Path(g.body, j), Path(g.body, L + 1)) <=>
                 \E k \in 0 .. Len(blocks) : AtLevel(Path(f.body, j), Here, k)
  <2> DEFINE q == Path(f.body, j)
  <2>1. q \in PathSet /\ Here \in PathSet /\ Len(q) \in Nat
    BY <1>1, <1>4 DEF PathSet
  <2>2. Path(g.body, j) = q
    BY <1>1
  <2>3. IsPrefix(q, Here) <=> Len(q) <= Len(blocks) /\ AtLevel(q, Here, Len(q))
    BY <1>5, <2>1, PrefixLevels
  <2>4. \A k \in 0 .. Len(blocks) : AtLevel(q, Here, k) => k = Len(q)
    BY DEF AtLevel
  <2> QED
    BY <1>3, <1>5, <2>1, <2>2, <2>3, <2>4
<1>7. ASSUME NEW j \in 1 .. L
      PROVE  j \in Seen(g, L + 1, n) <=>
                 Declares(f.body, j, n)
                 /\ \E k \in 0 .. Len(blocks) : AtLevel(Path(f.body, j), Here, k)
  <2>1. j # L + 1 /\ j \in 1 .. L + 1 /\ \A k \in DOMAIN f.head.parametrs : j # -k
    BY <1>1, <1>2
  <2>2. Declares(g.body, j, n) <=> Declares(f.body, j, n)
    BY <1>1 DEF Declares
  <2> QED
    BY <1>1, <1>6, <2>1, <2>2 DEF Seen
<1>8. L + 1 \in Seen(g, L + 1, n) <=> event.kind = "declare" /\ event.name = n /\ event.reads = n
  <2>1. \A k \in DOMAIN f.head.parametrs : L + 1 # -k
    BY <1>1, <1>2
  <2>2. IsPrefix(Path(g.body, L + 1), Path(g.body, L + 1))
    <3>1. Here \in PathSet
      BY <1>1, <1>4
    <3> QED
      BY <1>3, <3>1, PrefixLevels DEF AtLevel, PathSet
  <2>3. Declares(g.body, L + 1, n) <=> event.kind = "declare" /\ event.name = n
    BY <1>1 DEF Declares
  <2>4. L + 1 \in 1 .. L + 1
    BY <1>1
  <2> QED
    BY <1>1, <2>1, <2>2, <2>3, <2>4 DEF Seen
<1>9. \A j \in Seen(g, L + 1, n) : j < 0 => n \in Range(f.head.parametrs)
  BY <1>1, <1>2 DEF Seen, Range
<1>10. n \in Range(f.head.parametrs) => \E j \in Seen(g, L + 1, n) : j < 0
  <2>1. SUFFICES ASSUME n \in Range(f.head.parametrs)
                 PROVE  \E j \in Seen(g, L + 1, n) : j < 0
    OBVIOUS
  <2>2. PICK k \in DOMAIN f.head.parametrs : f.head.parametrs[k] = n
    BY <2>1 DEF Range
  <2>3. -k \in Seen(g, L + 1, n) /\ -k < 0
    BY <1>1, <1>2, <2>2 DEF Seen
  <2> QED
    BY <2>3
<1> QED
  BY <1>3, <1>7, <1>8, <1>9, <1>10 DEF L, g

\* A name is seen exactly if search finds it, but for a declaration's own.
LEMMA SeenIsFound ==
    ASSUME Live, PathsTyped, PathsFit, TablesExact, phase = "check",
           NEW event \in EventSet, NEW fine \in BOOLEAN, Walk(event, fine),
           event.kind \notin {"if", "else", "endif"}, NEW n \in Names
    PROVE  Seen(program'[at], Len(Function.body) + 1, n) # {} <=>
               \/ Search(n) # {}
               \/ event.kind = "declare" /\ event.name = n /\ event.reads = n
<1> DEFINE L == Len(Function.body)
           g == program'[at]
           Own == event.kind = "declare" /\ event.name = n /\ event.reads = n
<1>1. /\ \A j \in 1 .. L : j \in Seen(g, L + 1, n) <=>
             Declares(Function.body, j, n)
             /\ \E k \in 0 .. Len(blocks) : AtLevel(Path(Function.body, j), Here, k)
      /\ L + 1 \in Seen(g, L + 1, n) <=> Own
      /\ \A j \in Seen(g, L + 1, n) : j < 0 => n \in Range(Function.head.parametrs)
      /\ n \in Range(Function.head.parametrs) => \E j \in Seen(g, L + 1, n) : j < 0
  BY SeenNow
<1>2. g \in FunctionSet /\ L \in Nat /\ L + 1 \in 1 .. Len(g.body)
  <2>1. /\ program' \in Seq(FunctionSet) /\ Len(program') = Len(program) /\ at \in 1 .. Len(program)
        /\ Len(g.body) = L + 1 /\ L \in Nat
    BY WalkEffect
  <2> QED
    BY <2>1
<1>3. \A j \in Seen(g, L + 1, n) : j < 0 \/ j \in 1 .. L \/ j = L + 1
  BY <1>2, SeenIsBehind
<1>4. Search(n) # {} <=> \E k \in 0 .. Len(blocks) : n \in DOMAIN TableAt(k)
  BY SearchIs
<1>5. \A k \in 0 .. Len(blocks) : n \in DOMAIN TableAt(k) <=> Held(k, n)
  BY DEF TablesExact
<1>6. Len(blocks) \in Nat
  BY ChainLevels
<1> HIDE DEF L, g, Own
<1>7. Search(n) # {} <=>
          \/ n \in Range(Function.head.parametrs)
          \/ \E j \in 1 .. L : Declares(Function.body, j, n)
                 /\ \E k \in 0 .. Len(blocks) : AtLevel(Path(Function.body, j), Here, k)
  BY <1>4, <1>5, <1>6 DEF Held, L
<1>8. Seen(g, L + 1, n) # {} <=> Search(n) # {} \/ Own
  BY <1>1, <1>3, <1>7
<1> QED
  BY <1>8 DEF L, g, Own

\* The declaration that counts is the one whose entry search finds.
LEMMA ConstIsFound ==
    ASSUME Live, PathsTyped, PathsFit, TablesExact, phase = "check",
           NEW event \in EventSet, NEW fine \in BOOLEAN, Walk(event, fine),
           event.kind = "assign", NEW n \in Names, Search(n) # {}
    PROVE  LET g == program'[at]
               d == Meant(g, Len(Function.body) + 1, n)
           IN  (\A s \in Search(n) : ~s.is_const) <=> (d > 0 => ~g.body[d].is_const)
<1> DEFINE L == Len(Function.body)
           g == program'[at]
           d == Meant(g, L + 1, n)
           f == Function
<1>1. /\ L \in Nat /\ at \in 1 .. Len(program)
      /\ g.body[L + 1] = event /\ Len(g.body) = L + 1
      /\ \A j \in 1 .. L : g.body[j] = f.body[j]
      /\ \A i \in 0 .. L : Path(g.body, i) = Path(f.body, i)
      /\ g \in FunctionSet
  <2>1. /\ program' \in Seq(FunctionSet) /\ Len(program') = Len(program) /\ at \in 1 .. Len(program)
    BY WalkEffect
  <2>2. g \in FunctionSet
    BY <2>1
  <2> QED
    BY <2>2, WalkEffect
<1>2. /\ Path(g.body, L + 1) = Here
      /\ \A j \in 1 .. L : j \in Seen(g, L + 1, n) <=>
             Declares(f.body, j, n)
             /\ \E k \in 0 .. Len(blocks) : AtLevel(Path(f.body, j), Here, k)
      /\ L + 1 \notin Seen(g, L + 1, n)
      /\ \A j \in Seen(g, L + 1, n) : j < 0 => n \in Range(f.head.parametrs)
  BY SeenNow
<1>3. Seen(g, L + 1, n) # {}
  BY SeenIsFound
<1>4. Len(blocks) \in Nat
  BY ChainLevels
<1>5. \A s \in Search(n) : \E h \in 0 .. Len(blocks) :
          /\ n \in DOMAIN TableAt(h) /\ s = TableAt(h)[n]
          /\ \A k \in 0 .. Len(blocks) : n \in DOMAIN TableAt(k) => k <= h
  BY SearchIs
<1> HIDE DEF L, g
<1>6. \A j \in 0 .. L + 1 : Path(g.body, j) \in PathSet
  <2>1. \A j \in 0 .. L : Path(f.body, j) \in PathSet
    BY <1>1 DEF PathsTyped, Function, L
  <2>2. Here \in PathSet
    BY <1>1, <2>1 DEF Here, L
  <2> QED
    BY <1>1, <1>2, <2>1, <2>2
<1>7. d \in Seen(g, L + 1, n) /\ \A k \in Seen(g, L + 1, n) : Depth(g, k) <= Depth(g, d)
  <2>1. L + 1 \in 1 .. Len(g.body) /\ \A j \in 0 .. Len(g.body) : Path(g.body, j) \in PathSet
    BY <1>1, <1>6
  <2> HIDE DEF d
  <2>2. /\ Meant(g, L + 1, n) \in Seen(g, L + 1, n)
        /\ \A k \in Seen(g, L + 1, n) : Depth(g, k) <= Depth(g, Meant(g, L + 1, n))
    BY <1>1, <1>3, <2>1, MeantIsSeen
  <2> QED
    BY <2>2 DEF d
<1>8. \A j \in Seen(g, L + 1, n) : j < 0 \/ j \in 1 .. L
  <2>1. L + 1 \in 1 .. Len(g.body)
    BY <1>1
  <2>2. ASSUME NEW j \in Seen(g, L + 1, n)
        PROVE  j < 0 \/ j \in 1 .. L + 1
    <3>1. /\ j \in Int /\ (j > 0 => j \in 1 .. L + 1)
          /\ (j <= 0 => j < 0 /\ n \in Range(g.head.parametrs))
      BY <1>1, <2>1, <2>2, SeenIsBehind
    <3> QED
      BY ONLY <3>1
  <2> QED
    BY <1>1, <1>2, <2>2
\* What is in a table at level k is seen at depth 1 + k, or is a parameter.
<1>9. ASSUME NEW k \in 0 .. Len(blocks), n \in DOMAIN TableAt(k),
             ~(k = 0 /\ n \in Range(f.head.parametrs))
      PROVE  k + 1 <= Depth(g, d)
  <2>1. PICK j \in 1 .. L : Declares(f.body, j, n) /\ AtLevel(Path(f.body, j), Here, k)
    BY <1>9 DEF TablesExact, Held, L
  <2>2. j \in Seen(g, L + 1, n)
    BY <1>2, <2>1
  <2>3. Depth(g, j) = k + 1
    BY <1>1, <2>1, <1>4 DEF Depth, AtLevel
  <2> QED
    BY <1>7, <2>2, <2>3
<1> HIDE DEF d
<1>10. CASE d < 0
  <2>1. Depth(g, d) = 0 /\ n \in Range(f.head.parametrs)
    BY <1>2, <1>7, <1>10 DEF Depth
  <2>2. \A k \in 0 .. Len(blocks) : n \in DOMAIN TableAt(k) => k = 0
    BY <1>4, <1>9, <2>1
  <2>3. \A s \in Search(n) : s = TableAt(0)[n]
    BY <1>5, <2>2
  <2>4. ~TableAt(0)[n].is_const
    BY <2>1 DEF TablesExact
  <2>5. d \in Int /\ ~(d > 0)
    BY <1>7, <1>10, <1>1, SeenIsBehind
  <2>6. \A s \in Search(n) : ~s.is_const
    BY <2>3, <2>4
  <2> QED
    BY <2>5, <2>6 DEF d, g, L
<1>11. CASE d \in 1 .. L
  <2>1. PICK k \in 0 .. Len(blocks) : Declares(f.body, d, n) /\ AtLevel(Path(f.body, d), Here, k)
    BY <1>2, <1>7, <1>11
  <2>2. Depth(g, d) = k + 1
    BY <1>1, <1>4, <1>11, <2>1 DEF Depth, AtLevel
  <2>3. n \in DOMAIN TableAt(k) /\ TableAt(k)[n].is_const = f.body[d].is_const
    BY <1>11, <2>1 DEF TablesExact, Held, L
  <2>4. \A h \in 0 .. Len(blocks) : n \in DOMAIN TableAt(h) => h <= k
    BY <1>4, <1>9, <2>2
  <2>5. \A s \in Search(n) : s = TableAt(k)[n]
    <3>1. ASSUME NEW s \in Search(n) PROVE s = TableAt(k)[n]
      <4>1. PICK h \in 0 .. Len(blocks) :
                /\ n \in DOMAIN TableAt(h) /\ s = TableAt(h)[n]
                /\ \A m \in 0 .. Len(blocks) : n \in DOMAIN TableAt(m) => m <= h
        BY <1>5
      <4>2. h = k
        BY <1>4, <2>3, <2>4, <4>1
      <4> QED
        BY <4>1, <4>2
    <3> QED
      BY <3>1
  <2>6. (\A s \in Search(n) : ~s.is_const) <=> ~TableAt(k)[n].is_const
    BY <2>5
  <2>7. TableAt(k)[n].is_const = g.body[d].is_const /\ d > 0
    BY <1>1, <1>11, <2>3
  <2> QED
    BY <2>6, <2>7 DEF d, g, L
<1> QED
  BY <1>7, <1>8, <1>10, <1>11

\* A name is in the innermost table exactly if it is declared in this arm, or
\* is a parameter and this is none.
LEMMA DeclaredHere ==
    ASSUME Live, PathsTyped, PathsFit, TablesExact, phase = "check", NEW n \in Names
    PROVE  ~Insertable(n) <=>
               \/ Here = <<>> /\ Contains(Function.head.parametrs, n)
               \/ \E j \in 1 .. Len(Function.body) :
                      Declares(Function.body, j, n) /\ Path(Function.body, j) = Here
<1> DEFINE k == Len(blocks)
<1>1. k \in Nat /\ Last(Chain) = TableAt(k)
  BY ChainLevels
<1>2. at \in 1 .. Len(program) /\ Function \in FunctionSet
  BY DEF Live, Typed, Function
<1>3. /\ Function.head.parametrs \in Seq(Names) /\ Len(Function.body) \in Nat
  BY <1>2 DEF FunctionSet, HeadSet
<1>4. \A j \in 0 .. Len(Function.body) : Path(Function.body, j) \in PathSet /\ Here \in PathSet
  BY <1>2, <1>3 DEF PathsTyped, Function, Here
<1>5. Len(Here) = k /\ Here \in PathSet
  BY <1>3, <1>4 DEF PathsFit
<1>6. ASSUME NEW j \in 1 .. Len(Function.body)
      PROVE  AtLevel(Path(Function.body, j), Here, k) <=> Path(Function.body, j) = Here
  <2>1. Path(Function.body, j) \in PathSet
    BY <1>3, <1>4
  <2> QED
    BY <1>5, <2>1, SeqEqual DEF AtLevel, PathSet
<1>7. Contains(Function.head.parametrs, n) <=> n \in Range(Function.head.parametrs)
  BY <1>3 DEF Contains, Range
<1>8. Here = <<>> <=> k = 0
  BY <1>5, EmptySeq DEF PathSet
<1>9. n \in DOMAIN TableAt(k) <=> Held(k, n)
  BY <1>1 DEF TablesExact
<1> QED
  BY <1>1, <1>6, <1>7, <1>8, <1>9 DEF Insertable, Held

-----------------------------------------------------------------------------
(* The walk and the rules *)

NamesDistinct(file) ==
    \A t, u \in 1 .. Len(file) : file[t].head.name = file[u].head.name => t = u

FunctionLegal(file, t) ==
    /\ IsInjective(file[t].head.parametrs)
    /\ \A i \in 1 .. Len(file[t].body) :
           LegalHere(file[t], i) /\ CallLegal(file, file[t].body[i])

LegalFile(file) ==
    /\ Len(file) <= MaxFunctions
    /\ NamesDistinct(file)
    /\ \A t \in 1 .. Len(file) : FunctionLegal(file, t)

EmptyAhead == \A t \in 1 .. Len(program) : t > Len(tables) => program[t].body = <<>>

CountsKept ==
    /\ Len(funcs) <= MaxFunctions
    /\ \A i \in 1 .. Len(funcs) : funcs[i].param_count = Len(program[i].head.parametrs)

LegalSoFar == \A t \in 1 .. Len(tables) : FunctionLegal(program, t)

LEMMA LegalIs == program \in Seq(FunctionSet) => (Legal <=> LegalFile(program))
<1> SUFFICES ASSUME program \in Seq(FunctionSet)
             PROVE  Legal <=> LegalFile(program)
  OBVIOUS
<1>1. DOMAIN program = 1 .. Len(program) /\ Range(program) = {program[t] : t \in 1 .. Len(program)}
  BY DEF Range
<1>2. IsInjective([i \in DOMAIN program |-> program[i].head.name]) <=> NamesDistinct(program)
  BY <1>1 DEF IsInjective, NamesDistinct
<1>3. ASSUME NEW t \in 1 .. Len(program)
      PROVE  (IsInjective(program[t].head.parametrs)
                 /\ \A i \in DOMAIN program[t].body : LegalEvent(program[t], i))
             <=> FunctionLegal(program, t)
  <2>1. program[t] \in FunctionSet
    OBVIOUS
  <2>2. DOMAIN program[t].body = 1 .. Len(program[t].body)
    BY <2>1 DEF FunctionSet
  <2>3. \A i : LegalEvent(program[t], i) <=>
                   LegalHere(program[t], i) /\ CallLegal(program, program[t].body[i])
    BY LegalEventIs
  <2> QED
    BY <2>2, <2>3 DEF FunctionLegal
<1>4. Legal <=> /\ Len(program) <= MaxFunctions
                /\ IsInjective([i \in DOMAIN program |-> program[i].head.name])
                /\ \A t \in 1 .. Len(program) :
                       /\ IsInjective(program[t].head.parametrs)
                       /\ \A i \in DOMAIN program[t].body : LegalEvent(program[t], i)
  BY <1>1 DEF Legal
<1> QED
  BY <1>2, <1>3, <1>4 DEF LegalFile

\* Whether the file is legal after an event is a question about the event.
LEMMA WalkLegal ==
    ASSUME Live, PathsTyped, LegalSoFar, phase = "check",
           NEW event \in EventSet, NEW fine \in BOOLEAN, Walk(event, fine)
    PROVE  LET L == Len(Function.body)
               g == program'[at]
           IN  /\ ~(LegalHere(g, L + 1) /\ CallLegal(program, event)) => ~Legal'
               /\ LegalHere(g, L + 1) /\ CallLegal(program, event) /\ Len(tables') = Len(tables)
                      => LegalSoFar'
<1> DEFINE L == Len(Function.body)
           g == program'[at]
           f == Function
<1>1. /\ f \in FunctionSet /\ at \in 1 .. Len(program) /\ L \in Nat
      /\ program' \in Seq(FunctionSet) /\ Len(program') = Len(program)
      /\ g.head = f.head /\ g.body = Append(f.body, event)
      /\ Len(g.body) = L + 1 /\ g.body[L + 1] = event
      /\ \A j \in 1 .. L : g.body[j] = f.body[j]
      /\ \A t \in 1 .. Len(program) : program'[t].head = program[t].head
                                      /\ (t # at => program'[t] = program[t])
  BY WalkEffect
<1>2. \A e : CallLegal(program', e) <=> CallLegal(program, e)
  BY <1>1 DEF CallLegal
<1>3. \A j \in 0 .. L : Path(f.body, j) \in PathSet
  BY <1>1 DEF PathsTyped, Function
<1>4. f = program[at] /\ Len(tables) = at
  BY DEF Function, Live, FunctionsFound
<1>5. \A i \in 1 .. L : LegalHere(f, i) <=> LegalHere(g, i)
  <2> HIDE DEF g
  <2> QED
    BY <1>1, <1>3, RulesKept
<1>6. g = program'[at]
  OBVIOUS
<1> HIDE DEF L, g
<1>7. ASSUME ~(LegalHere(g, L + 1) /\ CallLegal(program, event)) PROVE ~Legal'
  <2>1. ~(LegalHere(g, L + 1) /\ CallLegal(program', g.body[L + 1]))
    BY <1>1, <1>2, <1>7
  <2>2. L + 1 \in 1 .. Len(g.body)
    BY <1>1
  <2>3. ~FunctionLegal(program', at)
    BY <1>6, <2>1, <2>2 DEF FunctionLegal
  <2>4. program' \in Seq(FunctionSet) => (Legal' <=> LegalFile(program'))
    <3>1. (program \in Seq(FunctionSet) => (Legal <=> LegalFile(program)))'
      BY LegalIs, PTL
    <3> QED
      BY <3>1
  <2> QED
    BY <1>1, <2>3, <2>4 DEF LegalFile
<1>8. ASSUME LegalHere(g, L + 1), CallLegal(program, event)
      PROVE  \A t \in 1 .. Len(tables) : FunctionLegal(program', t)
  <2> SUFFICES ASSUME NEW t \in 1 .. Len(tables) PROVE FunctionLegal(program', t)
    OBVIOUS
  <2>1. FunctionLegal(program, t) /\ t \in 1 .. Len(program)
    BY <1>1, <1>4 DEF LegalSoFar
  <2>2. CASE t # at
    <3>1. program'[t] = program[t]
      BY <1>1, <2>1, <2>2
    <3> QED
      BY <1>2, <2>1, <3>1 DEF FunctionLegal
  <2>3. CASE t = at
    <3>1. /\ IsInjective(f.head.parametrs)
          /\ \A i \in 1 .. L : LegalHere(f, i) /\ CallLegal(program, f.body[i])
      BY <1>4, <2>1, <2>3 DEF FunctionLegal, L
    <3>2. ASSUME NEW i \in 1 .. L + 1 PROVE LegalHere(g, i) /\ CallLegal(program', g.body[i])
      <4>1. CASE i \in 1 .. L
        <5>1. LegalHere(f, i) /\ CallLegal(program, f.body[i]) /\ g.body[i] = f.body[i]
          BY <1>1, <3>1, <4>1
        <5> QED
          BY <1>2, <1>5, <4>1, <5>1
      <4>2. CASE i = L + 1
        BY <1>1, <1>2, <1>8, <4>2
      <4> QED
        BY <1>1, <4>1, <4>2
    <3>3. IsInjective(g.head.parametrs) /\ Len(g.body) = L + 1
      BY <1>1, <3>1
    <3> QED
      BY <1>6, <2>3, <3>2, <3>3 DEF FunctionLegal
  <2> QED
    BY <2>2, <2>3
<1>9. (\A t \in 1 .. Len(tables) : FunctionLegal(program', t)) /\ Len(tables') = Len(tables)
          => LegalSoFar'
  BY DEF LegalSoFar
<1> QED
  BY <1>7, <1>8, <1>9 DEF L, g

\* What IR generation finds for the body's own names.
OuterTables ==
    \A t \in 1 .. Len(tables) :
        /\ \A n \in Names : \A j \in 1 .. Len(program[t].body) :
               Declares(program[t].body, j, n) /\ Path(program[t].body, j) = <<>> =>
                   n \in DOMAIN tables[t]
        /\ \A m, n \in DOMAIN tables[t] :
               tables[t][m].symbol_id = tables[t][n].symbol_id => m = n

\* While the check goes on.
Checking ==
    /\ EmptyAhead
    /\ CountsKept
    /\ LegalSoFar
    /\ PathsTyped
    /\ PathsFit
    /\ TablesExact
    /\ OuterTables

-----------------------------------------------------------------------------
(* Steps of the walk *)

\* A legal event keeps what does not depend on the open arms.
LEMMA WalkChecking ==
    ASSUME Live, Checking, phase = "check", NEW event \in EventSet, Walk(event, TRUE),
           Len(tables') = Len(tables),
           LegalHere(program'[at], Len(Function.body) + 1), CallLegal(program, event),
           Path(program'[at].body, Len(Function.body) + 1) \in PathSet
    PROVE  EmptyAhead' /\ CountsKept' /\ LegalSoFar' /\ PathsTyped'
<1> DEFINE L == Len(Function.body)
           g == program'[at]
<1>1. /\ at \in 1 .. Len(program) /\ L \in Nat
      /\ Len(program') = Len(program)
      /\ Len(g.body) = L + 1
      /\ \A t \in 1 .. Len(program) : program'[t].head = program[t].head
                                      /\ (t # at => program'[t] = program[t])
      /\ \A i \in 0 .. L : Path(g.body, i) = Path(Function.body, i)
  BY WalkEffect
<1>2. Len(tables) = at /\ Len(funcs) = Len(program) /\ funcs' = funcs
  BY DEF Live, FunctionsFound, Walk
<1>3. EmptyAhead'
  BY <1>1, <1>2 DEF Checking, EmptyAhead
<1>4. CountsKept'
  BY <1>1, <1>2 DEF Checking, CountsKept
<1>5. LegalSoFar'
  BY WalkLegal DEF Checking
<1>6. PathsTyped'
  <2>1. ASSUME NEW t \in 1 .. Len(program), NEW i \in 0 .. Len(program'[t].body)
        PROVE  Path(program'[t].body, i) \in PathSet
    <3>1. CASE t # at
      <4>1. program'[t] = program[t]
        BY <1>1, <3>1
      <4> QED
        BY <2>1, <4>1 DEF Checking, PathsTyped
    <3>2. CASE t = at /\ i \in 0 .. L
      <4>1. Path(Function.body, i) \in PathSet
        BY <1>1, <3>2 DEF Checking, PathsTyped, Function
      <4> QED
        BY <1>1, <3>2, <4>1
    <3>3. CASE t = at /\ i = L + 1
      BY <3>3
    <3> QED
      BY <1>1, <2>1, <3>1, <3>2, <3>3
  <2> QED
    BY <1>1, <2>1 DEF PathsTyped
<1> QED
  BY <1>3, <1>4, <1>5, <1>6

\* The path as it is, and the table of the body itself.
LEMMA HereIs ==
    ASSUME Live, Checking, phase = "check"
    PROVE  /\ Here \in PathSet /\ Len(Here) = Len(blocks) /\ Len(blocks) \in Nat
           /\ Len(Function.body) \in Nat /\ at \in 1 .. Len(program)
           /\ Here = <<>> <=> blocks = <<>>
           /\ blocks \in Seq(ArmSet) /\ tables \in Seq(Table) /\ Len(tables) = at
           /\ \A i \in 0 .. Len(Function.body) : Path(Function.body, i) \in PathSet
<1>1. at \in 1 .. Len(program) /\ Function \in FunctionSet /\ blocks \in Seq(ArmSet)
      /\ tables \in Seq(Table) /\ Len(tables) = at
  BY DEF Live, Typed, Function, FunctionsFound
<1>2. Len(Function.body) \in Nat
  BY <1>1 DEF FunctionSet
<1>3. \A i \in 0 .. Len(Function.body) : Path(Function.body, i) \in PathSet
  BY <1>1 DEF Checking, PathsTyped, Function
<1>4. Here \in PathSet
  BY <1>2, <1>3 DEF Here
<1>5. Len(Here) = Len(blocks)
  BY DEF Checking, PathsFit
<1> QED
  BY <1>1, <1>2, <1>3, <1>4, <1>5, EmptySeq DEF PathSet

\* An event that begins and ends no arm stays where the walk is.
LEMMA StaysHere ==
    ASSUME Live, Checking, phase = "check", NEW event \in EventSet, Walk(event, TRUE),
           event.kind \notin {"if", "else", "endif"},
           Len(blocks') = Len(blocks), \A k \in 1 .. Len(blocks) : blocks'[k].arm = blocks[k].arm
    PROVE  /\ Path(program'[at].body, Len(Function.body) + 1) = Here
           /\ Here' = Here /\ PathsFit'
<1> DEFINE L == Len(Function.body)
           g == program'[at]
<1>1. /\ at \in 1 .. Len(program) /\ L \in Nat /\ Function' = g
      /\ Len(g.body) = L + 1 /\ g.body[L + 1] = event
      /\ \A i \in 0 .. L : Path(g.body, i) = Path(Function.body, i)
  BY WalkEffect
<1>2. Path(g.body, L + 1) = Here
  <2>1. Path(g.body, L) = Here
    BY <1>1 DEF Here
  <2> HIDE DEF L, g
  <2> QED
    BY <1>1, <2>1, PathSteps DEF PathBehind
<1>3. Here' = Here
  BY <1>1, <1>2 DEF Here
<1>4. PathsFit
  BY DEF Checking
<1>5. Here \in PathSet /\ Len(Here) = Len(blocks) /\ Len(blocks) \in Nat
      /\ \A k \in 1 .. Len(blocks) : blocks[k] \in ArmSet
  BY HereIs
<1> HIDE DEF L, g
<1>6. ASSUME NEW i \in 0 .. L + 1, NEW k \in 1 .. Len(Path(g.body, i))
      PROVE  /\ Path(g.body, i)[k][1] <= i
             /\ k <= Len(blocks) /\ blocks[k].arm = "then" =>
                    Path(g.body, i)[k] # <<Here[k][1], "else">>
  <2>1. CASE i \in 0 .. L
    <3>1. Path(g.body, i) = Path(Function.body, i)
      BY <1>1, <2>1
    <3> QED
      BY <1>4, <1>6, <2>1, <3>1 DEF PathsFit, L
  <2>2. CASE i = L + 1
    <3>1. Path(g.body, i) = Here /\ k \in 1 .. Len(blocks)
      BY <1>2, <1>5, <1>6, <2>2
    <3>2. Here[k][1] <= L /\ Here[k][2] = blocks[k].arm /\ Here[k] \in Nat \X {"then", "else"}
      <4>1. Path(Function.body, L) = Here /\ L \in 0 .. Len(Function.body)
        BY <1>1 DEF Here, L
      <4>2. Here[k][1] <= L
        BY <1>4, <1>5, <3>1, <4>1 DEF PathsFit
      <4>3. Here[k][2] = blocks[k].arm
        BY <1>4, <3>1 DEF PathsFit
      <4>4. Here[k] \in Nat \X {"then", "else"}
        BY <1>5, <3>1 DEF PathSet
      <4> QED
        BY <4>2, <4>3, <4>4
    <3>3. blocks[k].arm = "then" => Here[k] # <<Here[k][1], "else">>
      BY <3>2
    <3>4. Here[k][1] \in Nat
      BY <3>2
    <3> QED
      BY <1>1, <2>2, <3>1, <3>2, <3>3, <3>4
  <2> QED
    BY <1>1, <1>6, <2>1, <2>2
<1>7. phase' = "check"
  BY DEF Walk
<1>8. PathsFit'
  <2>1. Len(Function'.body) = L + 1 /\ \A i \in 0 .. L + 1 : Path(Function'.body, i) = Path(g.body, i)
    BY <1>1
  <2>2. \A k \in 1 .. Len(blocks) : Here[k][2] = blocks'[k].arm
    BY <1>4 DEF PathsFit
  <2>3. \A i \in 0 .. L + 1 : \A k \in 1 .. Len(Path(g.body, i)) :
            /\ Path(g.body, i)[k][1] <= i
            /\ k <= Len(blocks') /\ blocks'[k].arm = "then" =>
                   Path(g.body, i)[k] # <<Here'[k][1], "else">>
    <3> SUFFICES ASSUME NEW i \in 0 .. L + 1, NEW k \in 1 .. Len(Path(g.body, i))
                 PROVE  /\ Path(g.body, i)[k][1] <= i
                        /\ k <= Len(blocks') /\ blocks'[k].arm = "then" =>
                               Path(g.body, i)[k] # <<Here'[k][1], "else">>
      OBVIOUS
    <3>1. k \in Nat /\ k >= 1
      <4>1. Path(g.body, i) \in PathSet
        <5>1. CASE i = L + 1
          BY <1>2, <1>5, <5>1
        <5>2. CASE i \in 0 .. L
          BY <1>1, <5>2, HereIs DEF L
        <5> QED
          BY <1>1, <5>1, <5>2
      <4> QED
        BY <4>1 DEF PathSet
    <3>2. k <= Len(blocks) => blocks'[k].arm = blocks[k].arm
      BY <1>5, <3>1
    <3> QED
      BY <1>3, <1>6, <3>2
  <2> QED
    BY <1>3, <1>5, <1>7, <2>1, <2>2, <2>3 DEF PathsFit
<1> QED
  BY <1>2, <1>3, <1>8 DEF L, g

\* Which declarations stand in an arm that stays open.
LEMMA HeldAfter ==
    ASSUME Live, Checking, phase = "check", NEW event \in EventSet, Walk(event, TRUE),
           NEW k \in Nat, NEW n \in Names, NEW p \in PathSet,
           \A m \in 1 .. k : p[m] = Here[m],
           event.kind # "declare"
    PROVE  /\ \A j \in 1 .. Len(Function.body) + 1 :
                  Declares(program'[at].body, j, n) /\ AtLevel(Path(program'[at].body, j), p, k) <=>
                      j \in 1 .. Len(Function.body) /\ Declares(Function.body, j, n)
                      /\ AtLevel(Path(Function.body, j), Here, k)
           /\ \A j \in 1 .. Len(Function.body) : program'[at].body[j] = Function.body[j]
<1> DEFINE L == Len(Function.body)
           g == program'[at]
<1>1. /\ L \in Nat /\ Len(g.body) = L + 1 /\ g.body[L + 1] = event
      /\ \A j \in 1 .. L : g.body[j] = Function.body[j]
      /\ \A i \in 0 .. L : Path(g.body, i) = Path(Function.body, i)
  BY WalkEffect
<1> HIDE DEF L, g
<1>2. ~Declares(g.body, L + 1, n)
  BY <1>1 DEF Declares
<1>3. ASSUME NEW j \in 1 .. L
      PROVE  /\ Declares(g.body, j, n) <=> Declares(Function.body, j, n)
             /\ AtLevel(Path(g.body, j), p, k) <=> AtLevel(Path(Function.body, j), Here, k)
  <2>1. Path(g.body, j) = Path(Function.body, j) /\ g.body[j] = Function.body[j]
    BY <1>1
  <2> QED
    BY <2>1 DEF Declares, AtLevel
<1>4. \A j \in 1 .. L + 1 : j \in 1 .. L \/ j = L + 1
  BY <1>1
<1>5. L + 1 \notin 1 .. L
  BY <1>1
<1> QED
  BY <1>1, <1>2, <1>3, <1>4, <1>5 DEF L, g

\* An event that declares nothing: the arms that stay open keep their tables,
\* and an arm that it begins has an empty one and is a new one.
LEMMA TablesStay ==
    ASSUME Live, Checking, phase = "check", NEW event \in EventSet, Walk(event, TRUE),
           event.kind # "declare", tables' = tables,
           Here' \in PathSet, Len(blocks') \in Nat,
           \A k \in 0 .. Len(blocks') :
               \/ /\ k <= Len(blocks) /\ \A m \in 1 .. k : Here'[m] = Here[m]
                  /\ k # 0 => blocks'[k] = blocks[k]
               \/ /\ k # 0 /\ DOMAIN blocks'[k].table = {}
                  /\ \A j \in 1 .. Len(Function.body) :
                         ~AtLevel(Path(Function.body, j), Here', k)
    PROVE  TablesExact' /\ OuterTables'
<1> DEFINE L == Len(Function.body)
           g == program'[at]
           p == Here'
           D(j, n, k) == Declares(g.body, j, n) /\ AtLevel(Path(g.body, j), p, k)
<1>1. /\ L \in Nat /\ Function' = g /\ at' = at /\ at \in 1 .. Len(program) /\ Len(g.body) = L + 1
      /\ g.head = Function.head /\ g.body[L + 1] = event
      /\ \A j \in 1 .. L : g.body[j] = Function.body[j]
      /\ \A t \in 1 .. Len(program) : t # at => program'[t] = program[t]
      /\ \A i \in 0 .. L : Path(g.body, i) = Path(Function.body, i)
  BY WalkEffect
<1>2. p \in PathSet /\ phase' = "check" /\ TableAt(0)' = tables[at]
  BY <1>1 DEF Walk, TableAt
<1>3. \A k \in Nat : \A n \in Names : Held(k, n)' <=>
          (k = 0 /\ n \in Range(Function.head.parametrs)) \/ \E j \in 1 .. L + 1 : D(j, n, k)
  BY <1>1 DEF Held
<1>4. TablesExact /\ OuterTables /\ Len(blocks) \in Nat /\ Len(tables) = at
  BY HereIs DEF Checking
<1> HIDE DEF L, g, p
<1>5. ASSUME NEW k \in 0 .. Len(blocks'), NEW n \in Names
      PROVE  /\ n \in DOMAIN TableAt(k)' <=>
                    (k = 0 /\ n \in Range(Function.head.parametrs)) \/ \E j \in 1 .. L + 1 : D(j, n, k)
             /\ \A j \in 1 .. L + 1 : D(j, n, k) => TableAt(k)'[n].is_const = g.body[j].is_const
  <2>1. CASE /\ k <= Len(blocks) /\ \A m \in 1 .. k : p[m] = Here[m]
             /\ k # 0 => blocks'[k] = blocks[k]
    <3>1. TableAt(k)' = TableAt(k)
      BY <1>1, <2>1 DEF TableAt
    <3>2. \A j \in 1 .. L + 1 :
              D(j, n, k) <=> j \in 1 .. L /\ Declares(Function.body, j, n)
                             /\ AtLevel(Path(Function.body, j), Here, k)
      <4>1. k \in Nat /\ p \in PathSet /\ \A m \in 1 .. k : p[m] = Here[m]
        BY <1>2, <1>4, <2>1
      <4>2. \A j \in 1 .. Len(Function.body) + 1 :
                Declares(program'[at].body, j, n) /\ AtLevel(Path(program'[at].body, j), p, k) <=>
                    j \in 1 .. Len(Function.body) /\ Declares(Function.body, j, n)
                    /\ AtLevel(Path(Function.body, j), Here, k)
        BY <4>1, HeldAfter
      <4> QED
        BY <4>2 DEF L, g
    <3>3. n \in DOMAIN TableAt(k) <=>
              \/ k = 0 /\ n \in Range(Function.head.parametrs)
              \/ \E j \in 1 .. L : Declares(Function.body, j, n)
                     /\ AtLevel(Path(Function.body, j), Here, k)
      BY <1>4, <2>1 DEF TablesExact, Held, L
    <3>4. \A j \in 1 .. L : Declares(Function.body, j, n) /\ AtLevel(Path(Function.body, j), Here, k)
              => TableAt(k)[n].is_const = Function.body[j].is_const
      BY <1>4, <2>1 DEF TablesExact, L
    <3>5. \A j \in 1 .. L : j \in 1 .. L + 1
      BY <1>1
    <3> HIDE DEF D
    <3> QED
      BY <1>1, <3>1, <3>2, <3>3, <3>4, <3>5
  <2>2. CASE /\ k # 0 /\ DOMAIN blocks'[k].table = {}
             /\ \A j \in 1 .. L : ~AtLevel(Path(Function.body, j), p, k)
    <3>1. TableAt(k)' = blocks'[k].table
      BY <2>2 DEF TableAt
    <3>2. \A j \in 1 .. L + 1 : ~D(j, n, k)
      <4>1. ASSUME NEW j \in 1 .. L + 1 PROVE ~D(j, n, k)
        <5>1. CASE j = L + 1
          BY <1>1, <5>1 DEF Declares
        <5>2. CASE j \in 1 .. L
          BY <1>1, <2>2, <5>2
        <5> QED
          BY <1>1, <5>1, <5>2
      <4> QED
        BY <4>1
    <3> HIDE DEF D
    <3> QED
      BY <2>2, <3>1, <3>2
  <2> QED
    BY <2>1, <2>2 DEF L, p
<1>6. \A n \in Range(Function.head.parametrs) : ~TableAt(0)'[n].is_const
  BY <1>2, <1>4 DEF TablesExact, TableAt
<1>7. TablesExact'
  <2>1. \A k \in 0 .. Len(blocks') : k \in Nat
    BY <1>4
  <2>2. \A k \in 0 .. Len(blocks') : \A n \in Names : n \in DOMAIN TableAt(k)' <=> Held(k, n)'
    BY <1>3, <1>5, <2>1
  <2>3. \A k \in 0 .. Len(blocks') : \A n \in Names : \A j \in 1 .. L + 1 :
            Declares(g.body, j, n) /\ AtLevel(Path(g.body, j), Here', k) =>
                TableAt(k)'[n].is_const = g.body[j].is_const
    BY <1>5 DEF p
  <2> QED
    BY <1>1, <1>6, <2>2, <2>3 DEF TablesExact
<1>8. OuterTables'
  <2>1. ASSUME NEW t \in 1 .. Len(tables), NEW n \in Names, NEW j \in 1 .. Len(program'[t].body),
               Declares(program'[t].body, j, n), Path(program'[t].body, j) = <<>>
        PROVE  n \in DOMAIN tables[t]
    <3>1. CASE t # at
      <4>1. program'[t] = program[t]
        BY <1>1, <1>4, <3>1
      <4> QED
        BY <1>4, <2>1, <4>1 DEF OuterTables
    <3>2. CASE t = at
      <4>1. g = program'[t] /\ Function = program[t]
        BY <3>2 DEF g, Function
      <4>2. j # L + 1
        BY <1>1, <2>1, <4>1 DEF Declares
      <4>3. j \in 1 .. L
        BY <1>1, <2>1, <4>1, <4>2
      <4>4. Declares(Function.body, j, n) /\ Path(Function.body, j) = <<>>
        <5>1. Declares(g.body, j, n) /\ Path(g.body, j) = <<>>
          BY ONLY <2>1, <4>1
        <5>2. g.body[j] = Function.body[j] /\ Path(g.body, j) = Path(Function.body, j)
          BY SMTT(30), <1>1, <4>3
        <5> QED
          BY ONLY <5>1, <5>2 DEF Declares
      <4> QED
        BY <1>4, <4>1, <4>3, <4>4, SMTT(30) DEF OuterTables, L
    <3> QED
      BY <3>1, <3>2
  <2> QED
    BY <1>4, <2>1 DEF OuterTables
<1> QED
  BY <1>7, <1>8

-----------------------------------------------------------------------------
(* The steps of the check *)

\* The check refuses exactly what makes the file illegal.
Decided ==
    \/ phase' = "check" /\ Checking'
    \/ phase' = "refused" /\ ~Legal'

\* An event that declares nothing and begins and ends no arm.
LEMMA PlainDecided ==
    ASSUME Live, Checking, phase = "check", NEW event \in EventSet, NEW fine \in BOOLEAN,
           Walk(event, fine), event.kind \in {"mention", "unchecked", "assign", "call"},
           UNCHANGED <<tables, blocks>>,
           fine <=> LegalHere(program'[at], Len(Function.body) + 1) /\ CallLegal(program, event)
    PROVE  Decided
<1>1. CASE ~fine
  <2>1. ~Legal'
    BY <1>1, WalkLegal DEF Checking
  <2> QED
    BY <1>1, <2>1 DEF Decided, Walk
<1>2. CASE fine
  <2>1. Walk(event, TRUE) /\ phase' = "check"
    BY <1>2 DEF Walk
  <2>2. /\ Path(program'[at].body, Len(Function.body) + 1) = Here
        /\ Here' = Here /\ PathsFit'
    BY <2>1, StaysHere
  <2>3. Here \in PathSet /\ Len(blocks) \in Nat
    BY HereIs
  <2>4. EmptyAhead' /\ CountsKept' /\ LegalSoFar' /\ PathsTyped'
    BY <1>2, <2>1, <2>2, <2>3, WalkChecking
  <2>5. \A k \in 0 .. Len(blocks') : k <= Len(blocks) /\ \A m \in 1 .. k : Here'[m] = Here[m]
    BY <2>2, <2>3
  <2>6. TablesExact' /\ OuterTables'
    <3>1. Here' \in PathSet /\ Len(blocks') \in Nat
      BY <2>2, <2>3
    <3> QED
      BY <2>1, <2>5, <3>1, TablesStay
  <2> QED
    BY <2>1, <2>2, <2>4, <2>6 DEF Decided, Checking
<1> QED
  BY <1>1, <1>2

LEMMA MentionDecided ==
    ASSUME Live, Checking, NEW n \in Names, Mention(n) \/ UncheckedMention(n) \/ Assign(n)
    PROVE  Decided
<1> DEFINE L == Len(Function.body)
           g == program'[at]
<1>1. phase = "check" /\ UNCHANGED <<tables, blocks, symbol_seq>>
  BY DEF Mention, UncheckedMention, Assign, Walk
<1>2. ASSUME NEW kind \in {"mention", "unchecked", "assign"}, NEW fine \in BOOLEAN,
             Walk([kind |-> kind, reads |-> n], fine),
             kind = "mention" => (fine <=> Search(n) # {}),
             kind = "unchecked" => fine,
             kind = "assign" => (fine <=> Search(n) # {} /\ \A s \in Search(n) : ~s.is_const)
      PROVE  Decided
  <2> DEFINE event == [kind |-> kind, reads |-> n]
  <2>1. event \in EventSet /\ event.kind = kind /\ event.reads = n
    BY DEF EventSet
  <2> HIDE DEF event
  <2>2. Walk(event, fine)
    BY <1>2 DEF event
  <2>3. g.body[L + 1] = event
    BY <1>1, <2>1, <2>2, WalkEffect
  <2>4. Seen(g, L + 1, n) # {} <=> Search(n) # {}
    BY <1>1, <2>1, <2>2, SeenIsFound DEF Checking
  <2>5. kind = "assign" /\ Search(n) # {} =>
            ((\A s \in Search(n) : ~s.is_const) <=>
                (LET d == Meant(g, L + 1, n) IN d > 0 => ~g.body[d].is_const))
    BY <1>1, <2>1, <2>2, ConstIsFound DEF Checking
  <2> DEFINE Variable == LET d == Meant(g, L + 1, n) IN d > 0 => ~g.body[d].is_const
  <2>6. LegalHere(g, L + 1) <=>
            /\ kind \in {"mention", "assign"} => Seen(g, L + 1, n) # {}
            /\ kind = "assign" => Variable
    BY <2>1, <2>3 DEF LegalHere
  <2>7. kind = "assign" /\ Search(n) # {} => ((\A s \in Search(n) : ~s.is_const) <=> Variable)
    BY <2>5
  <2> HIDE DEF Variable
  <2>8. CallLegal(program, event)
    BY <2>1 DEF CallLegal
  <2>9. fine <=> LegalHere(g, L + 1) /\ CallLegal(program, event)
    BY <1>2, <2>4, <2>6, <2>7, <2>8
  <2> QED
    BY <1>1, <2>1, <2>2, <2>9, PlainDecided
<1>3. CASE Mention(n)
  <2>1. Walk([kind |-> "mention", reads |-> n], Search(n) # {})
    BY <1>3 DEF Mention
  <2> QED
    BY <1>2, <2>1
<1>4. CASE UncheckedMention(n)
  <2>1. Walk([kind |-> "unchecked", reads |-> n], TRUE)
    BY <1>4 DEF UncheckedMention
  <2> QED
    BY <1>2, <2>1
<1>5. CASE Assign(n)
  <2> DEFINE fine == Search(n) # {} /\ \A s \in Search(n) : ~s.is_const
  <2>1. Walk([kind |-> "assign", reads |-> n], fine)
    BY <1>5 DEF Assign
  <2>2. fine \in BOOLEAN /\ (fine <=> Search(n) # {} /\ \A s \in Search(n) : ~s.is_const)
    OBVIOUS
  <2> HIDE DEF fine
  <2> QED
    BY <1>2, <2>1, <2>2
<1> QED
  BY <1>3, <1>4, <1>5

\* find_function finds a function of that name.
LEMMA FindsOne ==
    ASSUME Typed, NEW name, FindFunction(name) # 0
    PROVE  FindFunction(name) \in 1 .. Len(funcs) /\ funcs[FindFunction(name)].name = name
<1> DEFINE I == {i \in 1 .. Len(funcs) : funcs[i].name = name}
<1>1. I \in SUBSET Nat /\ (I # {} => FindFunction(name) = Min(I))
      /\ (I = {} => FindFunction(name) = 0)
  BY DEF FindFunction, SelectInSeq, Typed
<1>2. I # {} => Min(I) \in I
  <2> HIDE DEF I
  <2> QED
    BY <1>1, MinIsIn
<1> QED
  BY <1>1, <1>2

LEMMA CallDecided ==
    ASSUME Live, Checking, NEW name \in FunctionNames, NEW argument_count \in 0 .. 2,
           Call(name, argument_count)
    PROVE  Decided
<1> DEFINE L == Len(Function.body)
           g == program'[at]
           event == [kind |-> "call", name |-> name, argument_count |-> argument_count]
           fine == CallFits(name, argument_count)
<1>1. phase = "check" /\ UNCHANGED <<tables, blocks, symbol_seq>> /\ Walk(event, fine)
  BY DEF Call, Walk
<1>2. event \in EventSet /\ event.kind = "call" /\ event.name = name
      /\ event.argument_count = argument_count
  BY DEF EventSet
<1>3. fine \in BOOLEAN
  BY DEF CallFits
<1>4. /\ Len(funcs) = Len(program) /\ Typed /\ CountsKept
      /\ \A i \in 1 .. Len(funcs) : funcs[i].name = program[i].head.name
  BY <1>1 DEF Live, FunctionsFound, Checking
<1>5. fine <=> CallLegal(program, event)
  <2>1. fine => CallLegal(program, event)
    <3>1. FindFunction(name) # 0 =>
              FindFunction(name) \in 1 .. Len(funcs) /\ funcs[FindFunction(name)].name = name
      BY <1>4, FindsOne
    <3> QED
      BY <1>2, <1>4, <3>1 DEF CallFits, CallLegal, CountsKept
  <2>2. CallLegal(program, event) => fine
    <3>1. SUFFICES ASSUME NEW t \in 1 .. Len(program), program[t].head.name = name,
                          Len(program[t].head.parametrs) = argument_count
                   PROVE  CallFits(name, argument_count)
      BY <1>2 DEF CallLegal
    <3>2. FindFunction(name) = t
      BY <1>4, <3>1, FindsItself DEF Live
    <3> QED
      BY <1>4, <3>1, <3>2 DEF CallFits, CountsKept
  <2> QED
    BY <2>1, <2>2
<1> HIDE DEF event, fine
<1>6. LegalHere(g, L + 1)
  <2>1. g.body[L + 1] = event
    BY <1>1, <1>2, <1>3, WalkEffect
  <2> QED
    BY <1>2, <2>1 DEF LegalHere
<1> QED
  BY <1>1, <1>2, <1>3, <1>5, <1>6, PlainDecided

LEMMA FrontProperties ==
    ASSUME NEW S, NEW s \in Seq(S), s # <<>>
    PROVE  /\ Front(s) \in Seq(S) /\ Len(Front(s)) = Len(s) - 1 /\ Len(s) \in Nat \ {0}
           /\ \A k \in 1 .. Len(s) - 1 : Front(s)[k] = s[k]
           /\ Last(s) = s[Len(s)] /\ Last(s) \in S
<1>1. Len(s) \in Nat \ {0} /\ \A k \in 1 .. Len(s) : s[k] \in S
  BY EmptySeq
<1> DEFINE m == Len(s) - 1
<1>2. m \in Nat /\ \A k \in 1 .. m : s[k] \in S
  BY <1>1
<1>3. Front(s) = SubSeq(s, 1, m)
  BY DEF Front
<1> HIDE DEF m
<1>4. /\ SubSeq(s, 1, m) \in Seq(S) /\ Len(SubSeq(s, 1, m)) = m
      /\ \A k \in 1 .. m : SubSeq(s, 1, m)[k] = s[k]
  BY <1>2, SubSeqProperties
<1> QED
  BY <1>1, <1>3, <1>4 DEF m, Last

\* The arms after an event that begins or ends one.
LEMMA ArmsFit ==
    ASSUME Live, Checking, phase = "check", NEW event \in EventSet, Walk(event, TRUE),
           NEW q \in PathSet, q = Path(program'[at].body, Len(Function.body) + 1),
           Len(blocks') = Len(q),
           \A k \in 1 .. Len(q) : q[k][2] = blocks'[k].arm /\ q[k][1] <= Len(Function.body) + 1,
           \A k \in 1 .. Len(q) : blocks'[k].arm = "then" =>
               \A i \in 0 .. Len(Function.body) :
                   k <= Len(Path(Function.body, i)) =>
                       Path(Function.body, i)[k] # <<q[k][1], "else">>
    PROVE  Here' = q /\ PathsFit'
<1> DEFINE L == Len(Function.body)
           g == program'[at]
<1>1. /\ L \in Nat /\ Function' = g /\ Len(g.body) = L + 1
      /\ \A i \in 0 .. L : Path(g.body, i) = Path(Function.body, i)
  BY WalkEffect
<1>2. Here' = q
  BY <1>1 DEF Here
<1>3. PathsFit /\ phase' = "check" /\ Len(q) \in Nat
  BY DEF Checking, Walk, PathSet
<1>4. q = Path(g.body, L + 1) /\ \A k \in 1 .. Len(q) : q[k] \in Nat \X {"then", "else"}
  BY DEF PathSet
<1> HIDE DEF L, g
<1>5. ASSUME NEW i \in 0 .. L + 1, NEW k \in 1 .. Len(Path(g.body, i))
      PROVE  /\ Path(g.body, i)[k][1] <= i
             /\ k <= Len(q) /\ blocks'[k].arm = "then" =>
                    Path(g.body, i)[k] # <<q[k][1], "else">>
  <2>1. CASE i \in 0 .. L
    <3>1. Path(g.body, i) = Path(Function.body, i) /\ i \in 0 .. Len(Function.body)
      BY <1>1, <2>1 DEF L
    <3>2. Path(Function.body, i) \in PathSet
      BY <3>1, HereIs
    <3>3. k \in Nat \ {0} /\ k <= Len(Path(Function.body, i))
      BY <1>5, <3>1, <3>2 DEF PathSet
    <3>4. Path(g.body, i)[k][1] <= i
      BY <1>3, <1>5, <3>1 DEF PathsFit
    <3>5. k <= Len(q) => k \in 1 .. Len(q)
      BY <1>3, <3>3
    <3> QED
      BY <3>1, <3>3, <3>4, <3>5
  <2>2. CASE i = L + 1
    <3>1. Path(g.body, i) = q /\ k \in 1 .. Len(q)
      BY <1>4, <1>5, <2>2
    <3>2. q[k][1] <= i /\ q[k][2] = blocks'[k].arm /\ q[k] \in Nat \X {"then", "else"}
      BY <1>4, <2>2, <3>1 DEF L
    <3>3. blocks'[k].arm = "then" => q[k] # <<q[k][1], "else">>
      BY <3>2
    <3> QED
      BY <3>1, <3>2, <3>3
  <2> QED
    BY <1>1, <2>1, <2>2
<1>6. PathsFit'
  <2>1. Len(Function'.body) = L + 1 /\ \A i \in 0 .. L + 1 : Path(Function'.body, i) = Path(g.body, i)
    BY <1>1
  <2>2. Len(Here') = Len(blocks') /\ \A k \in 1 .. Len(blocks') : Here'[k][2] = blocks'[k].arm
    BY <1>2
  <2>3. \A i \in 0 .. L + 1 : \A k \in 1 .. Len(Path(g.body, i)) :
            /\ Path(g.body, i)[k][1] <= i
            /\ k <= Len(blocks') /\ blocks'[k].arm = "then" =>
                   Path(g.body, i)[k] # <<Here'[k][1], "else">>
    BY <1>2, <1>5
  <2> QED
    BY <2>1, <2>2, <2>3 DEF PathsFit
<1> QED
  BY <1>2, <1>6

\* An event that begins or ends an arm is legal as it is.
LEMMA ArmDecided ==
    ASSUME Live, Checking, phase = "check", NEW kind \in {"if", "else", "endif"},
           Walk([kind |-> kind], TRUE), tables' = tables,
           NEW q \in PathSet, q = Path(program'[at].body, Len(Function.body) + 1),
           Len(blocks') = Len(q),
           \A k \in 1 .. Len(q) : q[k][2] = blocks'[k].arm /\ q[k][1] <= Len(Function.body) + 1,
           \A k \in 1 .. Len(q) : blocks'[k].arm = "then" =>
               \A i \in 0 .. Len(Function.body) :
                   k <= Len(Path(Function.body, i)) =>
                       Path(Function.body, i)[k] # <<q[k][1], "else">>,
           \A k \in 0 .. Len(q) :
               \/ /\ k <= Len(blocks) /\ \A m \in 1 .. k : q[m] = Here[m]
                  /\ k # 0 => blocks'[k] = blocks[k]
               \/ /\ k # 0 /\ DOMAIN blocks'[k].table = {}
                  /\ \A j \in 1 .. Len(Function.body) : ~AtLevel(Path(Function.body, j), q, k)
    PROVE  Decided
<1> DEFINE event == [kind |-> kind]
           g == program'[at]
           L == Len(Function.body)
<1>1. event \in EventSet /\ event.kind \in {"if", "else", "endif"}
  BY DEF EventSet
<1> HIDE DEF event
<1>2. Walk(event, TRUE) /\ phase' = "check"
  BY DEF event, Walk
<1>3. LegalHere(g, L + 1) /\ CallLegal(program, event)
  <2>1. g.body[L + 1] = event
    BY <1>1, <1>2, WalkEffect
  <2> QED
    BY <1>1, <2>1 DEF LegalHere, CallLegal
<1>4. EmptyAhead' /\ CountsKept' /\ LegalSoFar' /\ PathsTyped'
  BY <1>1, <1>2, <1>3, WalkChecking
<1>5. Here' = q /\ PathsFit'
  BY <1>1, <1>2, ArmsFit
<1>6. TablesExact' /\ OuterTables'
  <2>1. Len(blocks') \in Nat /\ event.kind # "declare" /\ Here' \in PathSet
    BY <1>1, <1>5 DEF PathSet
  <2>2. \A k \in 0 .. Len(blocks') :
            \/ /\ k <= Len(blocks) /\ \A m \in 1 .. k : Here'[m] = Here[m]
               /\ k # 0 => blocks'[k] = blocks[k]
            \/ /\ k # 0 /\ DOMAIN blocks'[k].table = {}
               /\ \A j \in 1 .. Len(Function.body) : ~AtLevel(Path(Function.body, j), Here', k)
    BY <1>5
  <2> QED
    BY <1>1, <1>2, <2>1, <2>2, TablesStay
<1> QED
  BY <1>2, <1>4, <1>5, <1>6 DEF Decided, Checking

LEMMA BeginIfDecided ==
    ASSUME Live, Checking, BeginIf
    PROVE  Decided
<1> DEFINE L == Len(Function.body)
           g == program'[at]
           N == Len(blocks)
           new == [arm |-> "then", table |-> EmptyTable]
           q == Append(Here, <<L + 1, "then">>)
<1>1. phase = "check" /\ Walk([kind |-> "if"], TRUE) /\ tables' = tables
      /\ blocks' = Append(blocks, new)
  BY DEF BeginIf, Walk
<1>2. /\ Here \in PathSet /\ Len(Here) = N /\ N \in Nat /\ L \in Nat /\ blocks \in Seq(ArmSet)
      /\ \A i \in 0 .. L : Path(Function.body, i) \in PathSet
  BY <1>1, HereIs
<1>3. new \in ArmSet /\ DOMAIN new.table = {} /\ new.arm = "then"
  BY EmptyTableIsTable DEF ArmSet
<1>4. [kind |-> "if"] \in EventSet
  BY DEF EventSet
<1>5. /\ g.body[L + 1] = [kind |-> "if"]
      /\ Path(g.body, L) = Here
  <2>1. /\ g.body[L + 1] = [kind |-> "if"]
        /\ \A i \in 0 .. L : Path(g.body, i) = Path(Function.body, i)
    BY <1>1, <1>4, WalkEffect
  <2> QED
    BY <1>2, <2>1 DEF Here
<1>6. Path(g.body, L + 1) = q
  <2>1. Path(g.body, L + 1) = PathBehind(g.body, L + 1, Path(g.body, L))
    BY <1>2, PathSteps
  <2>2. g.body[L + 1].kind = "if"
    BY <1>5
  <2> QED
    BY <1>5, <2>1, <2>2 DEF PathBehind
<1> HIDE DEF new
<1>7. /\ blocks' \in Seq(ArmSet) /\ Len(blocks') = N + 1 /\ blocks'[N + 1] = new
      /\ \A k \in 1 .. N : blocks'[k] = blocks[k]
  BY <1>1, <1>2, <1>3, AppendProperties
<1>8. /\ q \in PathSet /\ Len(q) = N + 1 /\ q[N + 1] = <<L + 1, "then">>
      /\ \A k \in 1 .. N : q[k] = Here[k]
  <2>1. <<L + 1, "then">> \in Nat \X {"then", "else"}
    BY <1>2
  <2> QED
    BY <1>2, <2>1, AppendProperties DEF PathSet
<1>9. PathsFit
  BY DEF Checking
<1> HIDE DEF L, g, N, q
<1>10. \A i \in 0 .. L : \A k \in 1 .. Len(Path(Function.body, i)) :
           /\ Path(Function.body, i)[k][1] <= i /\ Path(Function.body, i)[k][1] \in Nat
           /\ Path(Function.body, i)[k][1] # L + 1
  <2> SUFFICES ASSUME NEW i \in 0 .. L, NEW k \in 1 .. Len(Path(Function.body, i))
               PROVE  /\ Path(Function.body, i)[k][1] <= i /\ Path(Function.body, i)[k][1] \in Nat
                      /\ Path(Function.body, i)[k][1] # L + 1
    OBVIOUS
  <2>1. Path(Function.body, i)[k][1] <= i
    BY <1>1, <1>9 DEF PathsFit, L
  <2>2. Path(Function.body, i)[k] \in Nat \X {"then", "else"}
    BY <1>2 DEF PathSet
  <2>3. Path(Function.body, i)[k][1] \in Nat
    BY <2>2
  <2> QED
    BY <1>2, <2>1, <2>3
<1>11. ASSUME NEW k \in 1 .. N + 1
       PROVE  q[k][2] = blocks'[k].arm /\ q[k][1] <= L + 1
  <2>1. CASE k = N + 1
    BY <1>2, <1>3, <1>7, <1>8, <2>1
  <2>2. CASE k \in 1 .. N
    <3>1. Here[k][2] = blocks[k].arm
      BY <1>1, <1>9, <2>2 DEF PathsFit, N
    <3>2. Here[k][1] <= L /\ Here[k][1] \in Nat
      <4>1. Path(Function.body, L) = Here /\ L \in 0 .. L
        BY <1>2 DEF Here, L
      <4> QED
        BY <1>2, <1>10, <2>2, <4>1
    <3> QED
      BY <1>2, <1>7, <1>8, <2>2, <3>1, <3>2
  <2> QED
    BY <1>2, <2>1, <2>2
<1>12. ASSUME NEW k \in 1 .. N + 1, blocks'[k].arm = "then", NEW i \in 0 .. L,
              k <= Len(Path(Function.body, i))
       PROVE  Path(Function.body, i)[k] # <<q[k][1], "else">>
  <2>1. k \in 1 .. Len(Path(Function.body, i))
    BY <1>2, <1>12 DEF PathSet
  <2>2. CASE k = N + 1
    BY <1>8, <1>10, <2>1, <2>2
  <2>3. CASE k \in 1 .. N
    <3>1. q[k] = Here[k] /\ blocks[k].arm = "then" /\ k <= N
      BY <1>2, <1>7, <1>8, <1>12, <2>3
    <3>2. Path(Function.body, i)[k] # <<Here[k][1], "else">>
      BY <1>1, <1>9, <2>1, <3>1 DEF PathsFit, N, L
    <3> QED
      BY <3>1, <3>2
  <2> QED
    BY <1>2, <2>2, <2>3
<1>13. ASSUME NEW k \in 0 .. N + 1
       PROVE  \/ /\ k <= N /\ \A m \in 1 .. k : q[m] = Here[m]
                 /\ k # 0 => blocks'[k] = blocks[k]
              \/ /\ k # 0 /\ DOMAIN blocks'[k].table = {}
                 /\ \A j \in 1 .. L : ~AtLevel(Path(Function.body, j), q, k)
  <2>1. CASE k <= N
    BY <1>2, <1>7, <1>8, <2>1
  <2>2. CASE k = N + 1
    <3>1. ASSUME NEW j \in 1 .. L, AtLevel(Path(Function.body, j), q, k) PROVE FALSE
      <4>1. k \in 1 .. Len(Path(Function.body, j)) /\ Path(Function.body, j)[k] = <<L + 1, "then">>
        BY <1>2, <1>8, <2>2, <3>1 DEF AtLevel
      <4>2. j \in 0 .. L
        BY <1>2
      <4> QED
        BY <1>10, <4>1, <4>2
    <3> QED
      BY <1>2, <1>3, <1>7, <2>2, <3>1
  <2> QED
    BY <1>2, <2>1, <2>2
<1>14. q = Path(program'[at].body, Len(Function.body) + 1) /\ Len(blocks') = Len(q)
  BY <1>6, <1>7, <1>8 DEF L, g
<1>15. \A k \in 1 .. Len(q) : q[k][2] = blocks'[k].arm /\ q[k][1] <= Len(Function.body) + 1
  BY <1>8, <1>11 DEF L
<1>16. \A k \in 1 .. Len(q) : blocks'[k].arm = "then" =>
           \A i \in 0 .. Len(Function.body) :
               k <= Len(Path(Function.body, i)) => Path(Function.body, i)[k] # <<q[k][1], "else">>
  BY <1>8, <1>12 DEF L
<1>17. \A k \in 0 .. Len(q) :
           \/ /\ k <= Len(blocks) /\ \A m \in 1 .. k : q[m] = Here[m]
              /\ k # 0 => blocks'[k] = blocks[k]
           \/ /\ k # 0 /\ DOMAIN blocks'[k].table = {}
              /\ \A j \in 1 .. Len(Function.body) : ~AtLevel(Path(Function.body, j), q, k)
  BY SMTT(30), <1>8, <1>13 DEF L, N
<1> QED
  BY <1>1, <1>8, <1>14, <1>15, <1>16, <1>17, ArmDecided

LEMMA BeginElseDecided ==
    ASSUME Live, Checking, BeginElse
    PROVE  Decided
<1> DEFINE L == Len(Function.body)
           g == program'[at]
           N == Len(blocks)
           new == [arm |-> "else", table |-> EmptyTable]
           arm == <<Last(Here)[1], "else">>
           q == Append(Front(Here), arm)
<1>1. phase = "check" /\ Walk([kind |-> "else"], TRUE) /\ tables' = tables /\ blocks # <<>>
      /\ Last(blocks).arm = "then" /\ blocks' = Append(Front(blocks), new)
  BY DEF BeginElse, Walk
<1>2. /\ Here \in PathSet /\ Len(Here) = N /\ N \in Nat /\ L \in Nat /\ blocks \in Seq(ArmSet)
      /\ \A i \in 0 .. L : Path(Function.body, i) \in PathSet
      /\ Here # <<>>
  BY <1>1, HereIs
<1>3. new \in ArmSet /\ DOMAIN new.table = {} /\ new.arm = "else"
  BY EmptyTableIsTable DEF ArmSet
<1>4. [kind |-> "else"] \in EventSet
  BY DEF EventSet
<1>5. /\ g.body[L + 1] = [kind |-> "else"]
      /\ Path(g.body, L) = Here
  <2>1. /\ g.body[L + 1] = [kind |-> "else"]
        /\ \A i \in 0 .. L : Path(g.body, i) = Path(Function.body, i)
    BY <1>1, <1>4, WalkEffect
  <2> QED
    BY <1>2, <2>1 DEF Here
<1>6. Path(g.body, L + 1) = q
  <2>1. Path(g.body, L + 1) = PathBehind(g.body, L + 1, Path(g.body, L))
    BY <1>2, PathSteps
  <2>2. g.body[L + 1].kind = "else"
    BY <1>5
  <2> QED
    BY <1>5, <2>1, <2>2 DEF PathBehind
<1> HIDE DEF new
<1>7. /\ blocks' \in Seq(ArmSet) /\ Len(blocks') = N /\ blocks'[N] = new /\ N # 0
      /\ \A k \in 1 .. N - 1 : blocks'[k] = blocks[k]
  <2>1. /\ Front(blocks) \in Seq(ArmSet) /\ Len(Front(blocks)) = N - 1 /\ N \in Nat \ {0}
        /\ \A k \in 1 .. N - 1 : Front(blocks)[k] = blocks[k]
    BY <1>1, <1>2, FrontProperties
  <2> QED
    BY <1>1, <1>3, <2>1, AppendProperties
<1>8. /\ q \in PathSet /\ Len(q) = N /\ q[N] = <<Here[N][1], "else">>
      /\ Here[N] \in Nat \X {"then", "else"}
      /\ \A k \in 1 .. N - 1 : q[k] = Here[k]
  <2>1. /\ Front(Here) \in PathSet /\ Len(Front(Here)) = N - 1
        /\ \A k \in 1 .. N - 1 : Front(Here)[k] = Here[k]
        /\ Last(Here) = Here[N] /\ Last(Here) \in Nat \X {"then", "else"}
    BY <1>2, FrontProperties DEF PathSet
  <2>2. arm \in Nat \X {"then", "else"} /\ arm = <<Here[N][1], "else">>
    BY <2>1
  <2> HIDE DEF arm
  <2> QED
    BY <1>2, <2>1, <2>2, AppendProperties DEF PathSet
<1>9. blocks[N].arm = "then"
  BY <1>1 DEF Last
<1>10. PathsFit
  BY DEF Checking
<1> HIDE DEF L, g, N, q
<1>11. /\ \A k \in 1 .. N : Here[k][2] = blocks[k].arm /\ Here[k][1] <= L /\ Here[k][1] \in Nat
       /\ \A i \in 0 .. L : \A k \in 1 .. Len(Path(Function.body, i)) :
              k <= N /\ blocks[k].arm = "then" =>
                  Path(Function.body, i)[k] # <<Here[k][1], "else">>
  <2>1. \A k \in 1 .. N : Here[k][2] = blocks[k].arm
    BY <1>1, <1>10 DEF PathsFit, N
  <2>2. \A k \in 1 .. N : Here[k][1] <= L
    <3>1. Path(Function.body, L) = Here /\ L \in 0 .. L
      BY <1>2 DEF Here, L
    <3> QED
      BY <1>1, <1>2, <1>10, <3>1 DEF PathsFit, L
  <2>3. \A k \in 1 .. N : Here[k] \in Nat \X {"then", "else"}
    BY <1>2 DEF PathSet
  <2>4. \A i \in 0 .. L : \A k \in 1 .. Len(Path(Function.body, i)) :
            k <= N /\ blocks[k].arm = "then" =>
                Path(Function.body, i)[k] # <<Here[k][1], "else">>
    BY <1>1, <1>10 DEF PathsFit, L, N
  <2> QED
    BY <2>1, <2>2, <2>3, <2>4
<1>12. ASSUME NEW k \in 1 .. N
       PROVE  q[k][2] = blocks'[k].arm /\ q[k][1] <= L + 1
  <2>1. CASE k = N
    BY <1>2, <1>3, <1>7, <1>8, <1>11, <2>1
  <2>2. CASE k \in 1 .. N - 1
    BY <1>2, <1>7, <1>8, <1>11, <2>2
  <2> QED
    BY <1>2, <2>1, <2>2
<1>13. ASSUME NEW k \in 1 .. N, blocks'[k].arm = "then", NEW i \in 0 .. L,
              k <= Len(Path(Function.body, i))
       PROVE  Path(Function.body, i)[k] # <<q[k][1], "else">>
  <2>1. k \in 1 .. Len(Path(Function.body, i))
    BY <1>2, <1>13 DEF PathSet
  <2>2. k # N /\ k \in 1 .. N - 1
    BY <1>2, <1>3, <1>7, <1>13
  <2>3. q[k] = Here[k] /\ blocks[k].arm = "then" /\ k <= N
    BY <1>2, <1>7, <1>8, <1>13, <2>2
  <2>4. Path(Function.body, i)[k] # <<Here[k][1], "else">>
    BY <1>11, <2>1, <2>3
  <2> QED
    BY <2>3, <2>4
<1>14. ASSUME NEW k \in 0 .. N
       PROVE  \/ /\ k <= N /\ \A m \in 1 .. k : q[m] = Here[m]
                 /\ k # 0 => blocks'[k] = blocks[k]
              \/ /\ k # 0 /\ DOMAIN blocks'[k].table = {}
                 /\ \A j \in 1 .. L : ~AtLevel(Path(Function.body, j), q, k)
  <2>1. CASE k <= N - 1
    BY <1>2, <1>7, <1>8, <2>1
  <2>2. CASE k = N
    <3>1. ASSUME NEW j \in 1 .. L, AtLevel(Path(Function.body, j), q, k) PROVE FALSE
      <4>1. k \in 1 .. Len(Path(Function.body, j)) /\ Path(Function.body, j)[k] = q[k]
        BY <1>2, <1>7, <2>2, <3>1 DEF AtLevel
      <4>2. j \in 0 .. L
        BY <1>2
      <4>3. Path(Function.body, j)[k] # <<Here[k][1], "else">>
        BY <1>9, <1>11, <2>2, <4>1, <4>2
      <4> QED
        BY <1>8, <2>2, <4>1, <4>3
    <3> QED
      BY <1>2, <1>3, <1>7, <2>2, <3>1
  <2> QED
    BY <1>2, <2>1, <2>2
<1>15. q = Path(program'[at].body, Len(Function.body) + 1) /\ Len(blocks') = Len(q)
  BY <1>6, <1>7, <1>8 DEF L, g
<1>16. \A k \in 1 .. Len(q) : q[k][2] = blocks'[k].arm /\ q[k][1] <= Len(Function.body) + 1
  BY <1>8, <1>12 DEF L
<1>17. \A k \in 1 .. Len(q) : blocks'[k].arm = "then" =>
           \A i \in 0 .. Len(Function.body) :
               k <= Len(Path(Function.body, i)) => Path(Function.body, i)[k] # <<q[k][1], "else">>
  BY <1>8, <1>13 DEF L
<1>18. \A k \in 0 .. Len(q) :
           \/ /\ k <= Len(blocks) /\ \A m \in 1 .. k : q[m] = Here[m]
              /\ k # 0 => blocks'[k] = blocks[k]
           \/ /\ k # 0 /\ DOMAIN blocks'[k].table = {}
              /\ \A j \in 1 .. Len(Function.body) : ~AtLevel(Path(Function.body, j), q, k)
  BY <1>8, <1>14 DEF L, N
<1> QED
  BY <1>1, <1>8, <1>15, <1>16, <1>17, <1>18, ArmDecided

LEMMA EndIfDecided ==
    ASSUME Live, Checking, EndIf
    PROVE  Decided
<1> DEFINE L == Len(Function.body)
           g == program'[at]
           N == Len(blocks)
           q == Front(Here)
<1>1. phase = "check" /\ Walk([kind |-> "endif"], TRUE) /\ tables' = tables /\ blocks # <<>>
      /\ blocks' = Front(blocks)
  BY DEF EndIf, Walk
<1>2. /\ Here \in PathSet /\ Len(Here) = N /\ N \in Nat /\ L \in Nat /\ blocks \in Seq(ArmSet)
      /\ \A i \in 0 .. L : Path(Function.body, i) \in PathSet
      /\ Here # <<>>
  BY <1>1, HereIs
<1>3. [kind |-> "endif"] \in EventSet
  BY DEF EventSet
<1>4. /\ g.body[L + 1] = [kind |-> "endif"]
      /\ Path(g.body, L) = Here
  <2>1. /\ g.body[L + 1] = [kind |-> "endif"]
        /\ \A i \in 0 .. L : Path(g.body, i) = Path(Function.body, i)
    BY <1>1, <1>3, WalkEffect
  <2> QED
    BY <1>2, <2>1 DEF Here
<1>5. Path(g.body, L + 1) = q
  <2>1. Path(g.body, L + 1) = PathBehind(g.body, L + 1, Path(g.body, L))
    BY <1>2, PathSteps
  <2>2. g.body[L + 1].kind = "endif"
    BY <1>4
  <2> QED
    BY <1>4, <2>1, <2>2 DEF PathBehind
<1>6. /\ Len(blocks') = N - 1 /\ N \in Nat \ {0}
      /\ \A k \in 1 .. N - 1 : blocks'[k] = blocks[k]
  BY <1>1, <1>2, FrontProperties
<1>7. /\ q \in PathSet /\ Len(q) = N - 1
      /\ \A k \in 1 .. N - 1 : q[k] = Here[k]
  BY <1>2, FrontProperties DEF PathSet
<1>8. PathsFit
  BY DEF Checking
<1> HIDE DEF L, g, N, q
<1>9. \A k \in 1 .. N : Here[k][2] = blocks[k].arm
  BY <1>1, <1>8 DEF PathsFit, N
<1>10. \A k \in 1 .. N : Here[k][1] <= L /\ Here[k][1] \in Nat
  <2>1. Path(Function.body, L) = Here /\ L \in 0 .. L
    BY <1>2 DEF Here, L
  <2>2. \A k \in 1 .. N : Here[k][1] <= L
    BY <1>1, <1>2, <1>8, <2>1 DEF PathsFit, L
  <2>3. \A k \in 1 .. N : Here[k] \in Nat \X {"then", "else"}
    BY <1>2 DEF PathSet
  <2> QED
    BY <2>2, <2>3
<1>11. \A k \in 1 .. N - 1 : q[k][2] = blocks'[k].arm /\ q[k][1] <= L + 1
  <2> SUFFICES ASSUME NEW k \in 1 .. N - 1
               PROVE  q[k][2] = blocks'[k].arm /\ q[k][1] <= L + 1
    OBVIOUS
  <2>1. k \in 1 .. N /\ q[k] = Here[k] /\ blocks'[k] = blocks[k]
    BY <1>6, <1>7
  <2> QED
    BY <1>2, <1>9, <1>10, <2>1
<1>12. ASSUME NEW k \in 1 .. N - 1, blocks'[k].arm = "then", NEW i \in 0 .. L,
              k <= Len(Path(Function.body, i))
       PROVE  Path(Function.body, i)[k] # <<q[k][1], "else">>
  <2>1. k \in 1 .. Len(Path(Function.body, i))
    BY <1>2, <1>12 DEF PathSet
  <2>2. q[k] = Here[k] /\ blocks[k].arm = "then" /\ k <= N
    BY <1>6, <1>7, <1>12
  <2>3. Path(Function.body, i)[k] # <<Here[k][1], "else">>
    BY <1>1, <1>8, <2>1, <2>2 DEF PathsFit, N, L
  <2> QED
    BY <2>2, <2>3
<1>13. q = Path(program'[at].body, Len(Function.body) + 1) /\ Len(blocks') = Len(q)
  BY <1>5, <1>6, <1>7 DEF L, g
<1>14. \A k \in 1 .. Len(q) : q[k][2] = blocks'[k].arm /\ q[k][1] <= Len(Function.body) + 1
  BY <1>7, <1>11 DEF L
<1>15. \A k \in 1 .. Len(q) : blocks'[k].arm = "then" =>
           \A i \in 0 .. Len(Function.body) :
               k <= Len(Path(Function.body, i)) => Path(Function.body, i)[k] # <<q[k][1], "else">>
  BY <1>7, <1>12 DEF L
<1>16. \A k \in 0 .. Len(q) :
           \/ /\ k <= Len(blocks) /\ \A m \in 1 .. k : q[m] = Here[m]
              /\ k # 0 => blocks'[k] = blocks[k]
           \/ /\ k # 0 /\ DOMAIN blocks'[k].table = {}
              /\ \A j \in 1 .. Len(Function.body) : ~AtLevel(Path(Function.body, j), q, k)
  <2>1. ASSUME NEW k \in 0 .. N - 1
        PROVE  /\ k <= N /\ \A m \in 1 .. k : q[m] = Here[m]
               /\ k # 0 => blocks'[k] = blocks[k]
    BY <1>6, <1>7
  <2> QED
    BY <1>7, <2>1 DEF N
<1> QED
  BY <1>1, <1>7, <1>13, <1>14, <1>15, <1>16, ArmDecided

\* A declaration that is not refused goes into the innermost table, which does
\* not have the name yet.
LEMMA TablesDeclare ==
    ASSUME Live, Checking, phase = "check",
           NEW n \in Names, NEW is_const \in BOOLEAN, NEW init \in Names \cup {NoName},
           Walk([kind |-> "declare", name |-> n, is_const |-> is_const, reads |-> init], TRUE),
           Insertable(n), Insert(n, is_const)
    PROVE  TablesExact' /\ OuterTables' /\ PathsFit' /\ Len(tables') = Len(tables)
           /\ Path(program'[at].body, Len(Function.body) + 1) = Here
<1> DEFINE L == Len(Function.body)
           g == program'[at]
           N == Len(blocks)
           event == [kind |-> "declare", name |-> n, is_const |-> is_const, reads |-> init]
           new == With(TableAt(N), n, Symbol(is_const))
<1>1. /\ event \in EventSet /\ event.kind = "declare" /\ event.name = n
      /\ event.is_const = is_const
  BY DEF EventSet
<1>2. Walk(event, TRUE) /\ phase' = "check"
  BY DEF Walk
<1> HIDE DEF event
<1>3. /\ L \in Nat /\ Function' = g /\ at' = at /\ at \in 1 .. Len(program) /\ Len(g.body) = L + 1
      /\ g.head = Function.head /\ g.body[L + 1] = event
      /\ \A j \in 1 .. L : g.body[j] = Function.body[j]
      /\ \A t \in 1 .. Len(program) : t # at => program'[t] = program[t]
      /\ \A i \in 0 .. L : Path(g.body, i) = Path(Function.body, i)
  BY <1>1, <1>2, WalkEffect
<1>4. /\ Here \in PathSet /\ Len(Here) = N /\ N \in Nat /\ blocks \in Seq(ArmSet)
      /\ tables \in Seq(Table) /\ Len(tables) = at
      /\ Here = <<>> <=> blocks = <<>>
      /\ \A i \in 0 .. L : Path(Function.body, i) \in PathSet
  BY HereIs
<1>5. /\ TableAt(N) \in Table /\ n \notin DOMAIN TableAt(N) /\ symbol_seq \in Nat
  <2>1. TableAt(N) \in Table /\ Last(Chain) = TableAt(N)
    BY <1>4, ChainLevels
  <2> QED
    BY <2>1 DEF Insertable, Live, Typed
<1>6. /\ new \in Table /\ DOMAIN new = DOMAIN TableAt(N) \cup {n}
      /\ new[n].symbol_id = symbol_seq /\ new[n].is_const = is_const
      /\ \A m \in DOMAIN TableAt(N) : m # n => new[m] = TableAt(N)[m]
  <2>1. new[n] = Symbol(is_const)
    BY DEF With
  <2> QED
    <3>1. Symbol(is_const).is_const = is_const
      BY DEF Symbol
    <3>2. /\ new \in Table /\ DOMAIN new = DOMAIN TableAt(N) \cup {n}
          /\ new[n].symbol_id = symbol_seq
          /\ \A m \in DOMAIN TableAt(N) : m # n => new[m] = TableAt(N)[m]
      BY <1>5, WithIsTable
    <3> QED
      BY <2>1, <3>1, <3>2
<1> HIDE DEF new
<1>7. /\ Len(tables') = Len(tables) /\ Len(blocks') = N
      /\ \A k \in 1 .. N : blocks'[k].arm = blocks[k].arm
      /\ \A k \in 0 .. N : TableAt(k)' = IF k = N THEN new ELSE TableAt(k)
      /\ \A t \in 1 .. Len(tables) : tables'[t] = IF t = at /\ N = 0 THEN new ELSE tables[t]
  <2>1. CASE blocks = <<>>
    <3>1. N = 0 /\ TableAt(N) = tables[at]
      BY <2>1 DEF TableAt
    <3>2. tables' = [tables EXCEPT ![at] = new] /\ blocks' = blocks
      <4>1. new = With(tables[at], n, Symbol(is_const))
        BY <3>1 DEF new
      <4>2. tables' = [tables EXCEPT ![at] = With(tables[at], n, Symbol(is_const))] /\ blocks' = blocks
        BY <2>1 DEF Insert
      <4> QED
        BY <4>1, <4>2
    <3>3. at \in 1 .. Len(tables)
      BY <1>3, <1>4
    <3>4. Len(tables') = Len(tables) /\ \A t \in 1 .. Len(tables) :
              tables'[t] = IF t = at THEN new ELSE tables[t]
      BY <1>4, <1>6, <3>2, <3>3, ExceptSeq
    <3> QED
      BY <1>3, <3>1, <3>2, <3>3, <3>4 DEF TableAt
  <2>2. CASE blocks # <<>>
    <3>1. N \in 1 .. N /\ N # 0
      BY <1>4, <2>2, EmptySeq
    <3>2. blocks[N] \in ArmSet /\ TableAt(N) = blocks[N].table
      BY <1>4, <3>1 DEF TableAt
    <3>3. blocks' = [blocks EXCEPT ![N] = [blocks[N] EXCEPT !.table = new]] /\ tables' = tables
      BY <2>2, <3>2 DEF Insert, new
    <3>4. /\ [blocks[N] EXCEPT !.table = new] \in ArmSet
          /\ [blocks[N] EXCEPT !.table = new].table = new
          /\ [blocks[N] EXCEPT !.table = new].arm = blocks[N].arm
      BY <1>6, <3>2 DEF ArmSet
    <3>5. Len(blocks') = N /\ \A k \in 1 .. N :
              blocks'[k] = IF k = N THEN [blocks[N] EXCEPT !.table = new] ELSE blocks[k]
      BY <1>4, <3>1, <3>3, <3>4, ExceptSeq
    <3>6. \A k \in 1 .. N : blocks'[k].arm = blocks[k].arm
      BY <3>4, <3>5
    <3>7. \A k \in 0 .. N : TableAt(k)' = IF k = N THEN new ELSE TableAt(k)
      <4>1. ASSUME NEW k \in 0 .. N PROVE TableAt(k)' = IF k = N THEN new ELSE TableAt(k)
        <5>1. CASE k = 0
          BY <1>3, <3>1, <3>3, <5>1 DEF TableAt
        <5>2. CASE k # 0
          <6>1. k \in 1 .. N
            BY <1>4, <5>2
          <6> QED
            BY <3>4, <3>5, <5>2, <6>1 DEF TableAt
        <5> QED
          BY <5>1, <5>2
      <4> QED
        BY <4>1
    <3> QED
      BY <3>1, <3>3, <3>5, <3>6, <3>7
  <2> QED
    BY <2>1, <2>2
<1>8. /\ Path(g.body, L + 1) = Here
      /\ Here' = Here /\ PathsFit'
  BY <1>1, <1>2, <1>7, StaysHere
<1>9. TablesExact /\ OuterTables
  BY DEF Checking
<1> HIDE DEF L, g, N
<1>10. ASSUME NEW k \in 0 .. N, NEW m \in Names
       PROVE  /\ m \in DOMAIN TableAt(k)' <=>
                     \/ k = 0 /\ m \in Range(Function.head.parametrs)
                     \/ \E j \in 1 .. L + 1 : Declares(g.body, j, m) /\ AtLevel(Path(g.body, j), Here, k)
              /\ \A j \in 1 .. L + 1 : Declares(g.body, j, m) /\ AtLevel(Path(g.body, j), Here, k) =>
                     TableAt(k)'[m].is_const = g.body[j].is_const
  <2> DEFINE D(j) == Declares(g.body, j, m) /\ AtLevel(Path(g.body, j), Here, k)
             C(j) == Declares(Function.body, j, m) /\ AtLevel(Path(Function.body, j), Here, k)
  <2>1. \A j \in 1 .. L : D(j) <=> C(j)
    <3>1. \A j \in 1 .. L : j \in 0 .. L
      BY <1>3
    <3> QED
      BY <1>3, <3>1 DEF Declares
  <2>2. D(L + 1) <=> m = n /\ k = N
    <3>1. AtLevel(Here, Here, k) <=> k = N
      BY <1>4 DEF AtLevel
    <3> QED
      BY <1>1, <1>3, <1>8, <3>1 DEF Declares
  <2>3. m \in DOMAIN TableAt(k) <=>
            (k = 0 /\ m \in Range(Function.head.parametrs)) \/ \E j \in 1 .. L : C(j)
    BY <1>2, <1>9 DEF TablesExact, Held, L, N
  <2>4. \A j \in 1 .. L : C(j) => TableAt(k)[m].is_const = Function.body[j].is_const
    BY <1>2, <1>9 DEF TablesExact, L, N
  <2>5. \A j : j \in 1 .. L + 1 <=> j \in 1 .. L \/ j = L + 1
    BY <1>3
  <2> HIDE DEF C, D
  <2>6. m \in DOMAIN TableAt(k)' <=> m \in DOMAIN TableAt(k) \/ (m = n /\ k = N)
    BY <1>6, <1>7
  <2>7. m \in DOMAIN TableAt(k)' <=>
            (k = 0 /\ m \in Range(Function.head.parametrs)) \/ \E j \in 1 .. L + 1 : D(j)
    BY <2>1, <2>2, <2>3, <2>5, <2>6
  <2>8. \A j \in 1 .. L + 1 : D(j) => TableAt(k)'[m].is_const = g.body[j].is_const
    <3> SUFFICES ASSUME NEW j \in 1 .. L + 1, D(j)
                 PROVE  TableAt(k)'[m].is_const = g.body[j].is_const
      OBVIOUS
    <3>1. CASE j = L + 1
      BY <1>1, <1>3, <1>6, <1>7, <2>2, <3>1
    <3>2. CASE j \in 1 .. L
      <4>1. C(j) /\ m \in DOMAIN TableAt(k)
        BY <2>1, <2>3, <3>2
      <4>2. ~(m = n /\ k = N)
        BY <1>5, <4>1
      <4>3. TableAt(k)'[m] = TableAt(k)[m]
        BY <1>6, <1>7, <4>1, <4>2
      <4> QED
        BY <1>3, <2>4, <3>2, <4>1, <4>3
    <3> QED
      BY <2>5, <3>1, <3>2
  <2> QED
    BY <2>7, <2>8 DEF D
<1>11. \A m \in Range(Function.head.parametrs) : ~TableAt(0)'[m].is_const
  <2> SUFFICES ASSUME NEW m \in Range(Function.head.parametrs)
               PROVE  ~TableAt(0)'[m].is_const
    OBVIOUS
  <2>1. m \in Names
    <3>1. Function \in FunctionSet
      BY <1>3 DEF Function, Live, Typed
    <3>2. Function.head.parametrs \in Seq(Names)
      BY <3>1 DEF FunctionSet, HeadSet
    <3> QED
      BY <3>2 DEF Range
  <2>2. m \in DOMAIN TableAt(0) /\ ~TableAt(0)[m].is_const
    BY <1>2, <1>4, <1>9, <2>1 DEF TablesExact, Held, N
  <2>3. N = 0 => m # n
    BY <1>5, <2>2
  <2> QED
    BY <1>4, <1>6, <1>7, <2>2, <2>3
<1>12. TablesExact'
  <2>1. \A k \in 0 .. Len(blocks') : \A m \in Names :
            /\ m \in DOMAIN TableAt(k)' <=>
                   \/ k = 0 /\ m \in Range(Function'.head.parametrs)
                   \/ \E j \in 1 .. Len(Function'.body) :
                          Declares(Function'.body, j, m) /\ AtLevel(Path(Function'.body, j), Here', k)
            /\ \A j \in 1 .. Len(Function'.body) :
                   Declares(Function'.body, j, m) /\ AtLevel(Path(Function'.body, j), Here', k) =>
                       TableAt(k)'[m].is_const = Function'.body[j].is_const
    BY <1>3, <1>7, <1>8, <1>10
  <2>2. \A m \in Range(Function'.head.parametrs) : ~TableAt(0)'[m].is_const
    BY <1>3, <1>11
  <2>3. \A k \in 0 .. Len(blocks') : \A m \in Names : m \in DOMAIN TableAt(k)' <=> Held(k, m)'
    BY <2>1 DEF Held
  <2> QED
    BY <2>1, <2>2, <2>3 DEF TablesExact
<1>13. OuterTables'
  <2>1. ASSUME NEW t \in 1 .. Len(tables), NEW m \in Names, NEW j \in 1 .. Len(program'[t].body),
               Declares(program'[t].body, j, m), Path(program'[t].body, j) = <<>>
        PROVE  m \in DOMAIN tables'[t]
    <3>0. DOMAIN tables[t] \subseteq DOMAIN tables'[t]
      BY <1>6, <1>7 DEF TableAt
    <3>1. CASE t # at
      <4>1. program'[t] = program[t]
        BY <1>3, <1>4, <3>1
      <4>2. m \in DOMAIN tables[t]
        BY ONLY <1>9, <2>1, <4>1 DEF OuterTables
      <4> QED
        BY ONLY <3>0, <4>2
    <3>2. CASE t = at
      <4>1. g = program'[t] /\ Function = program[t]
        BY <3>2 DEF g, Function
      <4>2. CASE j = L + 1
        <5>1. m = n /\ Here = <<>>
          BY <1>1, <1>3, <1>8, <2>1, <4>1, <4>2 DEF Declares
        <5>2. N = 0 /\ tables'[t] = new
          BY <1>4, <1>7, <3>2, <5>1
        <5> QED
          BY <1>6, <5>1, <5>2
      <4>3. CASE j \in 1 .. L
        <5>1. Declares(Function.body, j, m) /\ Path(Function.body, j) = <<>>
          <6>1. Declares(g.body, j, m) /\ Path(g.body, j) = <<>>
            BY ONLY <2>1, <4>1
          <6>2. g.body[j] = Function.body[j] /\ Path(g.body, j) = Path(Function.body, j)
            BY <1>3, <4>3
          <6> QED
            BY ONLY <6>1, <6>2 DEF Declares
        <5> QED
          BY <1>9, <3>0, <4>1, <4>3, <5>1 DEF OuterTables, L
      <4> QED
        BY <1>3, <2>1, <4>1, <4>2, <4>3
    <3> QED
      BY <3>1, <3>2
  <2>2. ASSUME NEW t \in 1 .. Len(tables), NEW x \in DOMAIN tables'[t], NEW y \in DOMAIN tables'[t],
               tables'[t][x].symbol_id = tables'[t][y].symbol_id
        PROVE  x = y
    <3>1. CASE ~(t = at /\ N = 0)
      <4>1. tables'[t] = tables[t]
        BY <1>7, <3>1
      <4> QED
        BY <1>9, <2>2, <4>1 DEF OuterTables
    <3>2. CASE t = at /\ N = 0
      <4>1. tables'[t] = new /\ TableAt(N) = tables[t]
        BY <1>7, <3>2 DEF TableAt
      <4>2. \A z \in DOMAIN tables[t] : tables[t][z].symbol_id < symbol_seq
                                        /\ tables[t][z].symbol_id \in Nat
        <5>1. tables[t] \in Table
          BY <1>4
        <5> QED
          BY <5>1, TableEntries DEF Live, ParametersInTables
      <4>3. \A z \in DOMAIN new : z = n \/ (z \in DOMAIN tables[t] /\ new[z] = tables[t][z])
        BY <1>6, <4>1
      <4>4. \A z \in DOMAIN new : z # n => new[z].symbol_id # symbol_seq
        BY <1>5, <4>2, <4>3
      <4>5. CASE x = n \/ y = n
        BY <1>6, <2>2, <4>1, <4>4, <4>5
      <4>6. CASE x # n /\ y # n
        <5>1. tables[t][x].symbol_id = tables[t][y].symbol_id
              /\ x \in DOMAIN tables[t] /\ y \in DOMAIN tables[t]
          BY <2>2, <4>1, <4>3, <4>6
        <5> QED
          BY <1>9, <5>1 DEF OuterTables
      <4> QED
        BY <4>5, <4>6
    <3> QED
      BY <3>1, <3>2
  <2> QED
    BY <1>7, <2>1, <2>2 DEF OuterTables
<1> QED
  BY <1>7, <1>8, <1>12, <1>13 DEF L, g

LEMMA DeclareDecided ==
    ASSUME Live, Checking, NEW n \in Names, NEW is_const \in BOOLEAN,
           NEW init \in Names \cup {NoName}, Declare(n, is_const, init)
    PROVE  Decided
<1> DEFINE L == Len(Function.body)
           g == program'[at]
           event == [kind |-> "declare", name |-> n, is_const |-> is_const, reads |-> init]
           fine == Insertable(n) /\ (init \in {NoName, n} \/ Search(init) # {})
<1>1. phase = "check" /\ Walk(event, fine)
      /\ (fine => Insert(n, is_const))
  BY DEF Declare, Walk
<1>2. /\ event \in EventSet /\ event.kind = "declare" /\ event.name = n /\ event.reads = init
  BY DEF EventSet
<1>3. fine \in BOOLEAN
  BY DEF Insertable
<1>4. fine <=> Insertable(n) /\ (init \in {NoName, n} \/ Search(init) # {})
  OBVIOUS
<1> HIDE DEF fine
<1>5. fine => Walk([kind |-> "declare", name |-> n, is_const |-> is_const, reads |-> init], TRUE)
              /\ phase' = "check"
  BY <1>1 DEF Walk
<1> HIDE DEF event
<1>6. /\ L \in Nat /\ g.body[L + 1] = event /\ g.head = Function.head
      /\ \A j \in 1 .. L : g.body[j] = Function.body[j]
      /\ \A i \in 0 .. L : Path(g.body, i) = Path(Function.body, i)
  BY <1>1, <1>2, <1>3, WalkEffect
<1>7. Path(g.body, L + 1) = Here
  BY <1>1, <1>2, <1>3, SeenNow DEF Checking
<1>8. init # NoName => (Seen(g, L + 1, init) # {} <=> Search(init) # {} \/ init = n)
  <2>1. SUFFICES ASSUME init # NoName
                 PROVE  Seen(g, L + 1, init) # {} <=> Search(init) # {} \/ init = n
    OBVIOUS
  <2>2. init \in Names
    BY <2>1
  <2>3. Seen(g, L + 1, init) # {} <=>
            \/ Search(init) # {}
            \/ event.kind = "declare" /\ event.name = init /\ event.reads = init
    BY <1>1, <1>2, <1>3, <2>2, SeenIsFound DEF Checking
  <2> QED
    BY <1>2, <2>3
<1>9. Insertable(n) <=>
          /\ Here = <<>> => ~Contains(Function.head.parametrs, n)
          /\ \A j \in 1 .. L : Declares(Function.body, j, n) => Path(Function.body, j) # Here
  BY <1>1, DeclaredHere DEF Checking
<1>10. LegalHere(g, L + 1) <=>
           /\ \A j \in 1 .. L : Declares(Function.body, j, n) => Path(Function.body, j) # Here
           /\ Here = <<>> => ~Contains(Function.head.parametrs, n)
           /\ init # NoName => Seen(g, L + 1, init) # {}
  <2>1. \A j \in 1 .. L : /\ Declares(g.body, j, n) <=> Declares(Function.body, j, n)
                          /\ Path(g.body, j) = Path(Function.body, j)
    <3>1. \A j \in 1 .. L : j \in 0 .. L
      BY <1>6
    <3> QED
      BY <1>6, <3>1 DEF Declares
  <2>2. (L + 1) - 1 = L
    BY <1>6
  <2> HIDE DEF L, g
  <2>3. LegalHere(g, L + 1) <=>
           /\ \A j \in 1 .. L : Declares(g.body, j, n) => Path(g.body, j) # Path(g.body, L + 1)
           /\ Path(g.body, L + 1) = <<>> => ~Contains(g.head.parametrs, n)
           /\ init # NoName => Seen(g, L + 1, init) # {}
    BY <1>2, <1>6, <2>2 DEF LegalHere
  <2> QED
    BY <1>6, <1>7, <2>1, <2>3
<1>11. CallLegal(program, event)
  BY <1>2 DEF CallLegal
<1>12. fine <=> LegalHere(g, L + 1) /\ CallLegal(program, event)
  <2> HIDE DEF g, L
  <2> QED
    BY <1>4, <1>8, <1>9, <1>10, <1>11, ScopesAssumption
<1>13. CASE ~fine
  <2>1. ~Legal'
    BY <1>1, <1>2, <1>12, <1>13, WalkLegal DEF Checking
  <2> QED
    BY <1>1, <1>13, <2>1 DEF Decided, Walk
<1>14. CASE fine
  <2>1. TablesExact' /\ OuterTables' /\ PathsFit' /\ Len(tables') = Len(tables)
    BY <1>1, <1>4, <1>5, <1>14, TablesDeclare
  <2>2. Walk(event, TRUE) /\ Here \in PathSet
    BY <1>1, <1>5, <1>14, HereIs DEF event
  <2>3. EmptyAhead' /\ CountsKept' /\ LegalSoFar' /\ PathsTyped'
    BY <1>1, <1>2, <1>7, <1>12, <1>14, <2>1, <2>2, WalkChecking
  <2> QED
    BY <1>5, <1>14, <2>1, <2>3 DEF Decided, Checking
<1> QED
  BY <1>13, <1>14

-----------------------------------------------------------------------------
(* Registering and entering *)

LEMMA LegalStays ==
    ASSUME UNCHANGED program
    PROVE  Legal' <=> Legal
BY DEF Legal, LegalEvent

LEMMA RegisterDecided ==
    ASSUME Live, Checking, RegisterFunction
    PROVE  \/ phase' = "register" /\ Checking'
           \/ phase' = "refused" /\ ~Legal'
<1>1. /\ phase = "register" /\ at \in 1 .. Len(program) /\ Len(funcs) = at - 1
      /\ funcs \in Seq(EntrySet) /\ Len(tables) = 0 /\ program \in Seq(FunctionSet)
      /\ \A i \in 1 .. Len(funcs) : funcs[i].name = program[i].head.name
      /\ UNCHANGED <<program, tables, blocks>> /\ Typed
  BY DEF RegisterFunction, Live, Typed, FunctionsFound
<1>2. CASE FindFunction(Function.head.name) # 0
  <2>1. phase' = "refused"
    BY <1>2 DEF RegisterFunction
  <2> DEFINE t == FindFunction(Function.head.name)
  <2>2. t \in 1 .. Len(funcs) /\ funcs[t].name = Function.head.name
    BY <1>1, <1>2, FindsOne
  <2> HIDE DEF t
  <2>3. t \in 1 .. Len(program) /\ t # at /\ program[t].head.name = program[at].head.name
    BY <1>1, <2>2 DEF Function
  <2>4. ~LegalFile(program)
    BY <1>1, <2>3 DEF LegalFile, NamesDistinct
  <2> QED
    BY <1>1, <2>1, <2>4, LegalIs, LegalStays
<1>3. CASE FindFunction(Function.head.name) = 0 /\ Len(funcs) >= MaxFunctions
  <2>1. phase' = "refused" /\ Len(program) > MaxFunctions
    BY <1>1, <1>3, ScopesAssumption DEF RegisterFunction
  <2>2. ~LegalFile(program)
    BY <1>1, <2>1, ScopesAssumption DEF LegalFile
  <2> QED
    BY <1>1, <2>1, <2>2, LegalIs, LegalStays
<1>4. CASE FindFunction(Function.head.name) = 0 /\ Len(funcs) < MaxFunctions
  <2> DEFINE new == [name |-> Function.head.name, scope |-> NoScope,
                     param_count |-> Len(Function.head.parametrs)]
  <2>1. phase' = "register" /\ funcs' = Append(funcs, new)
    BY <1>1, <1>4, ScopesAssumption DEF RegisterFunction
  <2>2. new \in EntrySet /\ new.param_count = Len(program[at].head.parametrs)
    <3>1. Function \in FunctionSet
      BY <1>1 DEF Function
    <3>2. Function.head \in HeadSet
      BY <3>1 DEF FunctionSet
    <3> QED
      BY <3>2 DEF HeadSet, EntrySet, NoScope, Function
  <2> HIDE DEF new
  <2>3. Len(funcs') = at /\ funcs'[at] = new /\ \A i \in 1 .. at - 1 : funcs'[i] = funcs[i]
    BY <1>1, <2>1, <2>2, AppendProperties
  <2>4. CountsKept'
    <3>1. ASSUME NEW i \in 1 .. at
          PROVE  funcs'[i].param_count = Len(program[i].head.parametrs)
      <4>1. CASE i = at
        BY <2>2, <2>3, <4>1
      <4>2. CASE i \in 1 .. at - 1
        BY <1>1, <2>3, <4>2 DEF Checking, CountsKept
      <4> QED
        BY <1>1, <4>1, <4>2
    <3> QED
      BY <1>1, <1>4, <2>3, <3>1, ScopesAssumption DEF CountsKept
  <2>5. EmptyAhead' /\ PathsTyped'
    BY <1>1 DEF Checking, EmptyAhead, PathsTyped
  <2>6. LegalSoFar' /\ OuterTables'
    BY <1>1 DEF LegalSoFar, OuterTables
  <2> QED
    BY <2>1, <2>4, <2>5, <2>6 DEF Checking, PathsFit, TablesExact
<1> QED
  BY <1>1, <1>2, <1>3, <1>4, ScopesAssumption

\* The parameters of a table are told apart, and none is a constant.
LEMMA ParameterTableRules ==
    ASSUME NEW parametrs \in Seq(Names), symbol_seq \in Nat
    PROVE  /\ \A m, n \in DOMAIN ParameterTable(parametrs) :
                  ParameterTable(parametrs)[m].symbol_id = ParameterTable(parametrs)[n].symbol_id
                      => m = n
           /\ \A n \in DOMAIN ParameterTable(parametrs) : ~ParameterTable(parametrs)[n].is_const
           /\ DOMAIN ParameterTable(parametrs) = Range(parametrs)
<1> DEFINE place_of(n) == SelectInSeq(parametrs, LAMBDA m : m = n)
<1>1. ASSUME NEW n \in Range(parametrs)
      PROVE  place_of(n) \in 1 .. Len(parametrs) /\ parametrs[place_of(n)] = n
  <2> DEFINE I == {i \in 1 .. Len(parametrs) : parametrs[i] = n}
  <2>1. I \in SUBSET Nat /\ I # {}
    BY DEF Range
  <2>2. place_of(n) = Min(I)
    BY <2>1 DEF SelectInSeq
  <2>3. Min(I) \in I
    <3> HIDE DEF I
    <3> QED
      BY <2>1, MinIsIn
  <2> QED
    BY <2>2, <2>3
<1> HIDE DEF place_of
<1>2. ParameterTable(parametrs) =
          [n \in Range(parametrs) |-> [symbol_id |-> symbol_seq + place_of(n) - 1, is_const |-> FALSE]]
  BY DEF ParameterTable, place_of
<1>3. Len(parametrs) \in Nat
  OBVIOUS
<1>4. ASSUME NEW m \in Range(parametrs), NEW n \in Range(parametrs),
             symbol_seq + place_of(m) - 1 = symbol_seq + place_of(n) - 1
      PROVE  m = n
  <2>1. place_of(m) = place_of(n)
    BY <1>1, <1>3, <1>4
  <2> QED
    BY <1>1, <2>1
<1> QED
  BY <1>2, <1>4

LEMMA EnterDecided ==
    ASSUME Live, Checking, phase \in {"register", "check"}, NEW f \in 1 .. Len(program),
           f = Len(tables) + 1, Len(funcs) = Len(program), blocks = <<>>, Enter(f),
           UNCHANGED <<program, blocks>>
    PROVE  Decided
<1> DEFINE head == program[f].head
           new == ParameterTable(head.parametrs)
<1>1. /\ head.name \in FunctionNames /\ head.parametrs \in Seq(Names) /\ Len(program) \in Nat
      /\ program \in Seq(FunctionSet)
  <2>1. program \in Seq(FunctionSet) /\ program[f] \in FunctionSet
    BY DEF Live, Typed
  <2>2. head \in HeadSet
    BY <2>1 DEF FunctionSet
  <2> QED
    BY <2>1, <2>2 DEF HeadSet
<1>2. CASE ~IsInjective(head.parametrs)
  <2>1. phase' = "refused"
    BY <1>2 DEF Enter
  <2>2. ~LegalFile(program)
    BY <1>2 DEF LegalFile, FunctionLegal
  <2> QED
    BY <1>1, <2>1, <2>2, LegalIs, LegalStays DEF Decided
<1>3. CASE IsInjective(head.parametrs)
  <2>1. /\ phase' = "check" /\ at' = f /\ tables' = Append(tables, new)
        /\ funcs' = [funcs EXCEPT ![FindFunction(head.name)].scope = f]
    BY <1>3 DEF Enter
  <2>2. /\ new \in Table /\ DOMAIN new = Range(head.parametrs)
        /\ \A n \in DOMAIN new : ~new[n].is_const
        /\ \A m, n \in DOMAIN new : new[m].symbol_id = new[n].symbol_id => m = n
    BY <1>1, ParameterTableFits, ParameterTableRules DEF Live, Typed
  <2> HIDE DEF new
  <2>3. /\ Len(tables') = f /\ tables'[f] = new /\ Len(tables) = f - 1
        /\ \A t \in 1 .. f - 1 : tables'[t] = tables[t]
    BY <2>1, <2>2, AppendProperties DEF Live, Typed
  <2>4. Function' = program[f] /\ program[f].body = <<>> /\ blocks' = <<>> /\ Len(blocks') = 0
        /\ Len(Function'.body) = 0 /\ Function'.head = head
    <3>1. program[f].body = <<>>
      BY <2>3 DEF Checking, EmptyAhead
    <3> QED
      BY <2>1, <3>1 DEF Function
  <2>5. Here' = <<>> /\ Path(Function'.body, 0) = <<>>
    BY <2>4, PathSteps DEF Here
  <2>6. EmptyAhead' /\ PathsTyped'
    <3>1. EmptyAhead'
      BY <1>1, <2>3 DEF Checking, EmptyAhead
    <3>2. PathsTyped'
      BY DEF Checking, PathsTyped
    <3> QED
      BY <3>1, <3>2
  <2>7. CountsKept'
    <3>1. funcs \in Seq(EntrySet) /\ FindFunction(head.name) = f
      BY FindsItself DEF Live, Typed
    <3>2. Len(funcs') = Len(funcs) /\ \A i \in 1 .. Len(funcs) : funcs'[i].param_count = funcs[i].param_count
      <4>1. /\ funcs' = [funcs EXCEPT ![f] = [funcs[f] EXCEPT !.scope = f]] /\ f \in Nat
            /\ f \in 1 .. Len(funcs) /\ funcs[f] \in EntrySet
        BY <2>1, <3>1
      <4>2. [funcs[f] EXCEPT !.scope = f] \in EntrySet
            /\ [funcs[f] EXCEPT !.scope = f].param_count = funcs[f].param_count
        BY <4>1 DEF EntrySet
      <4> QED
        BY <3>1, <4>1, <4>2, ExceptSeq
    <3> QED
      BY <3>2 DEF Checking, CountsKept
  <2>8. LegalSoFar'
    <3>1. FunctionLegal(program, f)
      BY <1>3, <2>4 DEF FunctionLegal
    <3>2. \A t \in 1 .. f : t = f \/ t \in 1 .. Len(tables)
      BY <2>3
    <3>3. \A t \in 1 .. f : FunctionLegal(program, t)
      BY <3>1, <3>2 DEF Checking, LegalSoFar
    <3> QED
      BY <2>3, <3>3 DEF LegalSoFar
  <2>9. PathsFit'
    <3>1. \A i \in 0 .. Len(Function'.body) : Path(Function'.body, i) = <<>>
      BY <2>4, <2>5
    <3> QED
      BY <2>4, <2>5, <3>1 DEF PathsFit
  <2>10. TablesExact'
    <3>1. TableAt(0)' = new
      BY <2>1, <2>3 DEF TableAt
    <3>2. \A n : Held(0, n)' <=> n \in Range(head.parametrs)
      BY <2>4 DEF Held
    <3>3. \A k \in 0 .. Len(blocks') : k = 0
      BY <2>4
    <3>4. \A k \in 0 .. Len(blocks') : \A n \in Names : n \in DOMAIN TableAt(k)' <=> Held(k, n)'
      BY <2>2, <3>1, <3>2, <3>3
    <3> QED
      BY <2>2, <2>4, <3>1, <3>4 DEF TablesExact
  <2>11. OuterTables'
    <3>1. ASSUME NEW t \in 1 .. f
          PROVE  /\ \A n \in Names : \A j \in 1 .. Len(program[t].body) :
                        Declares(program[t].body, j, n) /\ Path(program[t].body, j) = <<>> =>
                            n \in DOMAIN tables'[t]
                 /\ \A m, n \in DOMAIN tables'[t] :
                        tables'[t][m].symbol_id = tables'[t][n].symbol_id => m = n
      <4>1. CASE t = f
        BY <2>2, <2>3, <2>4, <4>1
      <4>2. CASE t \in 1 .. f - 1
        BY <2>3, <4>2 DEF Checking, OuterTables
      <4> QED
        BY <4>1, <4>2
    <3> QED
      BY <2>3, <3>1 DEF OuterTables
  <2> QED
    BY <2>1, <2>6, <2>7, <2>8, <2>9, <2>10, <2>11 DEF Decided, Checking
<1> QED
  BY <1>2, <1>3

-----------------------------------------------------------------------------
(* IR generation *)

\* As long as no arm declares a name, the register of every declaration come
\* past is the one that its name stands for.
RegistersHold ==
    phase = "generate" /\ Flat =>
        /\ \A j \in 1 .. place - 1 : \A n \in Names :
               Declares(Function.body, j, n) =>
                   j \in DOMAIN registers /\ registers[j] = last_regs[tables[at][n].symbol_id]
        /\ \A k \in DOMAIN Function.head.parametrs :
               /\ -k \in DOMAIN registers
               /\ registers[-k] = last_regs[tables[at][Function.head.parametrs[k]].symbol_id]

\* While IR is generated.
Generated ==
    /\ PathsTyped
    /\ OuterTables
    /\ RegistersHold
    /\ Legal
    /\ FlatMeansSame

\* Where a function's generation starts.
LEMMA GeneratesDecided ==
    ASSUME Live, Legal, PathsTyped, OuterTables, NEW f \in 1 .. Len(program),
           phase \in {"check", "generate"}, Len(tables) = Len(program),
           Generates(f), UNCHANGED <<program, funcs, tables, symbol_seq>>
    PROVE  Generated'
<1> DEFINE parametrs == program[f].head.parametrs
           first(id) == SelectInSeq(parametrs, LAMBDA n : tables[f][n].symbol_id = id)
<1>1. /\ parametrs \in Seq(Names) /\ Len(parametrs) \in Nat
      /\ DOMAIN parametrs = 1 .. Len(parametrs)
      /\ program \in Seq(FunctionSet) /\ Len(funcs) = Len(program)
      /\ tables[f] \in Table /\ symbol_seq \in Nat
  <2>1. program[f] \in FunctionSet /\ program \in Seq(FunctionSet) /\ Len(funcs) = Len(program)
        /\ tables[f] \in Table /\ symbol_seq \in Nat
    BY DEF Live, Typed, FunctionsFound
  <2>2. program[f].head \in HeadSet
    BY <2>1 DEF FunctionSet
  <2> QED
    BY <2>1, <2>2 DEF HeadSet
<1>2. ScopeOf(f) = tables[f]
  BY <1>1, ScopeIsOwn DEF Live
<1>3. /\ phase' = "generate" /\ at' = f /\ place' = 1 /\ found' = {}
      /\ Function' = program[f]
  BY DEF Generates, Function
<1>4. last_regs' = [id \in 0 .. symbol_seq - 1 |->
                       IF \E n \in Range(parametrs) : tables[f][n].symbol_id = id
                       THEN first(id) - 1 ELSE NoReg]
  BY <1>2, SMTT(30) DEF Generates
<1> HIDE DEF first
<1>5. ASSUME NEW k \in DOMAIN parametrs
      PROVE  /\ tables[f][parametrs[k]].symbol_id \in 0 .. symbol_seq - 1
             /\ first(tables[f][parametrs[k]].symbol_id) = k
  <2> DEFINE id == tables[f][parametrs[k]].symbol_id
             I == {i \in 1 .. Len(parametrs) : tables[f][parametrs[i]].symbol_id = id}
  <2>1. \A i \in DOMAIN parametrs : parametrs[i] \in DOMAIN tables[f]
    <3>1. Range(parametrs) \subseteq DOMAIN tables[f]
      BY SMTT(30) DEF Live, ParametersInTables
    <3> QED
      BY <3>1 DEF Range
  <2>2. id \in 0 .. symbol_seq - 1
    <3>1. id \in Nat
      BY <1>1, <2>1, TableEntries
    <3>2. id < symbol_seq
      BY <2>1 DEF Live, ParametersInTables
    <3> QED
      BY <1>1, <3>1, <3>2
  <2>3. IsInjective(parametrs)
    BY <1>1, LegalIs DEF LegalFile, FunctionLegal
  <2>4. I = {k}
    <3>1. ASSUME NEW i \in I PROVE i = k
      <4>1. parametrs[i] = parametrs[k]
        BY <1>1, <2>1, <3>1 DEF OuterTables
      <4> QED
        BY <1>1, <2>3, <4>1 DEF IsInjective
    <3>2. k \in I
      BY <1>1
    <3> HIDE DEF I
    <3> QED
      BY <3>1, <3>2
  <2>5. first(id) = Min(I)
    <3>1. I # {}
      BY <2>4
    <3> QED
      BY <3>1 DEF first, SelectInSeq
  <2> HIDE DEF I, id
  <2>6. Min({k}) = k
    BY DEF Min
  <2> QED
    BY <2>2, <2>4, <2>5, <2>6 DEF id
<1>6. ASSUME NEW k \in DOMAIN parametrs
      PROVE  /\ -k \in DOMAIN registers'
             /\ registers'[-k] = last_regs'[tables[f][parametrs[k]].symbol_id]
  <2> DEFINE id == tables[f][parametrs[k]].symbol_id
  <2>1. \E n \in Range(parametrs) : tables[f][n].symbol_id = id
    BY DEF Range
  <2>2. id \in 0 .. symbol_seq - 1 /\ first(id) = k
    BY <1>5
  <2> HIDE DEF id
  <2>3. last_regs'[id] = k - 1
    BY ONLY <1>4, <2>1, <2>2
  <2> DEFINE K == {-i : i \in DOMAIN parametrs}
  <2>4. -k \in K /\ -(-k) - 1 = k - 1
    BY <1>1
  <2>5. registers' = [x \in K |-> -x - 1]
    BY DEF Generates
  <2> HIDE DEF K
  <2>6. -k \in DOMAIN registers' /\ registers'[-k] = k - 1
    BY ONLY <2>4, <2>5, SMTT(30)
  <2> QED
    BY <2>3, <2>6 DEF id
<1>7. RegistersHold'
  <2>1. \A j \in 1 .. place' - 1 : FALSE
    BY <1>3
  <2> QED
    BY <1>3, <1>6, <2>1 DEF RegistersHold
<1>8. FlatMeansSame'
  BY <1>3 DEF FlatMeansSame, MeansSame
<1>9. Legal'
  BY LegalStays
<1>10. PathsTyped' /\ OuterTables'
  BY DEF PathsTyped, OuterTables
<1> QED
  BY <1>7, <1>8, <1>9, <1>10 DEF Generated

-----------------------------------------------------------------------------
(* The steps of IR generation *)

LEMMA EnterFirstDecided ==
    ASSUME Live, Checking, EnterFirst
    PROVE  Decided
<1>1. /\ phase = "register" /\ at = Len(program) + 1 /\ Len(program) \in Nat \ {0}
      /\ Len(funcs) = Len(program) /\ Len(tables) = 0 /\ blocks = <<>>
  BY DEF EnterFirst, Live, Typed, FunctionsFound, TablesKnown
<1>2. Enter(1) /\ UNCHANGED <<program, blocks>> /\ 1 \in 1 .. Len(program) /\ 1 = Len(tables) + 1
  BY <1>1 DEF EnterFirst
<1> QED
  BY <1>1, <1>2, EnterDecided

LEMMA LeaveFunctionDecided ==
    ASSUME Live, Checking, LeaveFunction
    PROVE  Decided \/ (phase' = "generate" /\ Generated')
<1>1. /\ phase = "check" /\ blocks = <<>> /\ at \in 1 .. Len(program) /\ Len(program) \in Nat
      /\ Len(funcs) = Len(program) /\ Len(tables) = at /\ UNCHANGED <<program, blocks>>
      /\ program \in Seq(FunctionSet)
  BY DEF LeaveFunction, Live, Typed, FunctionsFound
<1>2. CASE at < Len(program)
  <2>1. Enter(at + 1) /\ at + 1 \in 1 .. Len(program)
    BY <1>1, <1>2 DEF LeaveFunction
  <2> QED
    BY <1>1, <2>1, EnterDecided
<1>3. CASE ~(at < Len(program))
  <2>1. Generates(1) /\ UNCHANGED <<funcs, tables, symbol_seq>>
    BY <1>3 DEF LeaveFunction
  <2>2. Len(tables) = Len(program) /\ 1 \in 1 .. Len(program)
    BY <1>1, <1>3
  <2>3. Legal
    <3>1. NamesDistinct(program)
      <4>1. \A i, j \in 1 .. Len(funcs) : funcs[i].name = funcs[j].name => i = j
        BY DEF Live, FunctionsFound
      <4>2. \A i \in 1 .. Len(funcs) : funcs[i].name = program[i].head.name
        BY DEF Live, FunctionsFound
      <4> QED
        BY <1>1, <4>1, <4>2 DEF NamesDistinct
    <3>2. Len(program) <= MaxFunctions
      BY <1>1 DEF Checking, CountsKept
    <3>3. LegalFile(program)
      BY <2>2, <3>1, <3>2 DEF Checking, LegalSoFar, LegalFile
    <3> QED
      BY <1>1, <3>3, LegalIs
  <2>4. PathsTyped /\ OuterTables
    BY DEF Checking
  <2>5. phase' = "generate"
    BY <2>1 DEF Generates
  <2> QED
    BY <1>1, <2>1, <2>2, <2>3, <2>4, <2>5, GeneratesDecided
<1> QED
  BY <1>2, <1>3

\* Generation in the function at hand.
LEMMA EventIsLegal ==
    ASSUME Live, Generated, Generating
    PROVE  /\ LegalHere(Function, place) /\ Function \in FunctionSet
           /\ at \in 1 .. Len(program) /\ at \in 1 .. Len(tables)
           /\ place \in 1 .. Len(Function.body) /\ Len(Function.body) \in Nat
           /\ Event = Function.body[place] /\ Event \in EventSet
           /\ ScopeOf(at) = tables[at]
           /\ \A j \in 0 .. Len(Function.body) : Path(Function.body, j) \in PathSet
           /\ phase = "generate"
<1>1. /\ phase = "generate" /\ at \in 1 .. Len(program) /\ at \in 1 .. Len(tables)
      /\ ScopeOf(at) = tables[at] /\ program \in Seq(FunctionSet)
  BY OwnScope DEF Generating, Live, Typed
<1>2. place \in 1 .. Len(Function.body) /\ Event \in EventSet /\ Event = Function.body[place]
  BY EventIsOne DEF Function
<1>3. Function \in FunctionSet /\ Len(Function.body) \in Nat
  <2>1. Function \in FunctionSet
    BY <1>1 DEF Function
  <2> QED
    BY <2>1 DEF FunctionSet
<1>4. LegalHere(Function, place)
  BY <1>1, <1>2, LegalIs DEF Generated, LegalFile, FunctionLegal, Function
<1>5. \A j \in 0 .. Len(Function.body) : Path(Function.body, j) \in PathSet
  BY <1>1 DEF Generated, PathsTyped, Function
<1> QED
  BY <1>1, <1>2, <1>3, <1>4, <1>5

\* A name that is seen, in a body that declares none in an arm, is in the
\* function's table.
LEMMA SeenInTable ==
    ASSUME Live, Generated, Generating, Flat, NEW n \in Names, NEW j \in Seen(Function, place, n)
    PROVE  /\ n \in DOMAIN tables[at]
           /\ \/ j \in 1 .. place /\ Declares(Function.body, j, n)
              \/ \E k \in DOMAIN Function.head.parametrs :
                     j = -k /\ Function.head.parametrs[k] = n
<1>1. /\ Function \in FunctionSet
      /\ at \in 1 .. Len(program) /\ at \in 1 .. Len(tables)
      /\ place \in 1 .. Len(Function.body) /\ Len(Function.body) \in Nat
  BY EventIsLegal
<1>2. \/ j \in 1 .. place /\ Declares(Function.body, j, n)
      \/ \E k \in DOMAIN Function.head.parametrs : j = -k /\ Function.head.parametrs[k] = n
  BY DEF Seen
<1>3. CASE j \in 1 .. place /\ Declares(Function.body, j, n)
  <2>1. j \in 1 .. Len(Function.body) /\ DOMAIN Function.body = 1 .. Len(Function.body)
    BY <1>1, <1>3 DEF FunctionSet
  <2>2. Path(Function.body, j) = <<>>
    BY <1>3, <2>1 DEF Flat, Declares
  <2>3. n \in DOMAIN tables[at]
    BY <1>1, <1>3, <2>1, <2>2 DEF Generated, OuterTables, Function
  <2> QED
    BY <1>2, <2>3
<1>4. CASE \E k \in DOMAIN Function.head.parametrs : j = -k /\ Function.head.parametrs[k] = n
  <2>1. n \in Range(Function.head.parametrs)
    BY <1>4 DEF Range
  <2>2. n \in DOMAIN tables[at]
    BY <1>1, <2>1 DEF Live, ParametersInTables, Function
  <2> QED
    BY <1>2, <2>2
<1> QED
  BY <1>2, <1>3, <1>4

\* The declaration that is meant has the register that is read.
LEMMA MeantHolds ==
    ASSUME Live, Generated, Generating, Flat, NEW n \in Names, Seen(Function, place, n) # {},
           Meant(Function, place, n) # place
    PROVE  /\ Meant(Function, place, n) \in DOMAIN registers
           /\ registers[Meant(Function, place, n)] = ReadReg(n)
<1> DEFINE d == Meant(Function, place, n)
<1>1. /\ Function \in FunctionSet /\ phase = "generate"
      /\ place \in 1 .. Len(Function.body) /\ Len(Function.body) \in Nat
      /\ \A j \in 0 .. Len(Function.body) : Path(Function.body, j) \in PathSet
      /\ ScopeOf(at) = tables[at]
  BY EventIsLegal
<1>2. d \in Seen(Function, place, n)
  BY <1>1, MeantIsSeen
<1> HIDE DEF d
<1>3. \/ d \in 1 .. place /\ Declares(Function.body, d, n)
      \/ \E k \in DOMAIN Function.head.parametrs :
             d = -k /\ Function.head.parametrs[k] = n
  BY <1>2, SeenInTable
<1>4. ReadReg(n) = last_regs[tables[at][n].symbol_id]
  BY <1>1 DEF ReadReg
<1>5. CASE d \in 1 .. place /\ Declares(Function.body, d, n)
  <2>1. d \in 1 .. place - 1
    BY <1>1, <1>5 DEF d
  <2> QED
    BY <1>1, <1>4, <1>5, <2>1 DEF Generated, RegistersHold, d
<1>6. CASE \E k \in DOMAIN Function.head.parametrs : d = -k /\ Function.head.parametrs[k] = n
  <2>1. PICK k \in DOMAIN Function.head.parametrs : d = -k /\ Function.head.parametrs[k] = n
    BY <1>6
  <2> QED
    BY <1>1, <1>4, <2>1 DEF Generated, RegistersHold, d
<1> QED
  BY <1>3, <1>5, <1>6

\* What an event finds is the register of what it means.
LEMMA FoundMeansSame ==
    ASSUME Live, Generated, Generating,
           UNCHANGED <<phase, at, checkVars>>, place' = place + 1,
           found' = {} \/ (/\ Event.kind \in {"declare", "mention", "assign"}
                           /\ Event.reads \in Names /\ found' = {ReadReg(Event.reads)}),
           \A k \in DOMAIN registers : k # place => k \in DOMAIN registers' /\ registers'[k] = registers[k]
    PROVE  FlatMeansSame'
<1> DEFINE n == Event.reads
           d == Meant(Function, place, n)
<1>1. /\ LegalHere(Function, place) /\ place \in 1 .. Len(Function.body)
      /\ Event = Function.body[place] /\ phase = "generate"
      /\ Len(Function.body) \in Nat
  BY EventIsLegal
<1>2. /\ Function' = Function /\ phase' = "generate" /\ place' - 1 = place /\ (Flat' <=> Flat)
  BY <1>1 DEF checkVars, Function, Flat
<1>3. ASSUME Flat, NEW r \in found', d # place
      PROVE  r = registers'[d]
  <2>1. n \in Names /\ r = ReadReg(n) /\ Event.kind \in {"declare", "mention", "assign"}
    BY <1>3
  <2>2. Seen(Function, place, n) # {}
    BY <1>1, <2>1, ScopesAssumption DEF LegalHere
  <2>3. d \in DOMAIN registers /\ registers[d] = ReadReg(n)
    BY <1>3, <2>1, <2>2, MeantHolds
  <2> HIDE DEF d
  <2> QED
    BY <1>3, <2>1, <2>3
<1>4. Flat => MeansSame'
  <2> SUFFICES ASSUME Flat, NEW r \in found'
               PROVE  LET i == place' - 1
                          e == Meant(Function', i, Function'.body[i].reads)
                      IN  e # i => r = registers'[e]
    BY DEF MeansSame
  <2>1. Meant(Function', place' - 1, Function'.body[place' - 1].reads) = d
    BY <1>1, <1>2
  <2> HIDE DEF d
  <2> QED
    BY <1>2, <1>3, <2>1
<1> QED
  BY <1>2, <1>4 DEF FlatMeansSame

LEMMA GenNameDecided ==
    ASSUME Live, Generated, GenMention \/ GenAssign \/ GenOther
    PROVE  Generated'
<1>1. /\ Generating /\ UNCHANGED <<phase, at, checkVars, last_regs, registers>>
      /\ place' = place + 1 /\ Event.kind # "declare"
      /\ found' = {} \/ (Event.kind \in {"mention", "assign"} /\ found' = {ReadReg(Event.reads)})
  BY AssignKeeps DEF GenMention, GenAssign, GenOther
<1>2. /\ place \in 1 .. Len(Function.body) /\ Event = Function.body[place]
      /\ Event \in EventSet /\ phase = "generate"
  BY <1>1, EventIsLegal
<1>3. Event.kind \in {"mention", "assign"} => Event.reads \in Names
  BY <1>2 DEF EventSet
<1>4. FlatMeansSame'
  <2>1. found' = {} \/ (/\ Event.kind \in {"declare", "mention", "assign"}
                        /\ Event.reads \in Names /\ found' = {ReadReg(Event.reads)})
    BY <1>1, <1>3
  <2>2. \A k \in DOMAIN registers : k # place => k \in DOMAIN registers' /\ registers'[k] = registers[k]
    BY <1>1
  <2> QED
    BY <1>1, <2>1, <2>2, FoundMeansSame
<1>5. UNCHANGED <<program, tables, at, phase>> /\ Function' = Function /\ (Flat' <=> Flat)
  BY <1>1 DEF checkVars, Function, Flat
<1>6. PathsTyped' /\ OuterTables' /\ Legal'
  BY <1>5, LegalStays DEF Generated, PathsTyped, OuterTables
<1>7. RegistersHold'
  <2>1. \A j \in 1 .. place' - 1 : j = place \/ j \in 1 .. place - 1
    BY <1>1, <1>2
  <2>2. \A n : ~Declares(Function.body, place, n)
    BY <1>1, <1>2 DEF Declares
  <2> QED
    BY <1>1, <1>5, <2>1, <2>2 DEF Generated, RegistersHold
<1> QED
  BY <1>4, <1>6, <1>7 DEF Generated

LEMMA GenDeclareDecided ==
    ASSUME Live, Generated, GenDeclare
    PROVE  Generated'
<1> DEFINE n == Event.name
           id == tables[at][n].symbol_id
<1>1. /\ Generating /\ UNCHANGED <<phase, at, checkVars>>
      /\ LooksUp(Event) \subseteq DOMAIN ScopeOf(at)
      /\ place' = place + 1 /\ Event.kind = "declare" /\ last_regs' = Written(Event)
      /\ registers' = With(registers, place, reg_count)
      /\ found' = IF Event.reads = NoName THEN {} ELSE {ReadReg(Event.reads)}
  BY DEF GenDeclare
<1>2. /\ place \in 1 .. Len(Function.body) /\ Event = Function.body[place]
      /\ Event \in EventSet /\ phase = "generate" /\ ScopeOf(at) = tables[at]
      /\ LegalHere(Function, place) /\ at \in 1 .. Len(program) /\ at \in 1 .. Len(tables)
      /\ Function \in FunctionSet /\ Len(Function.body) \in Nat
  BY <1>1, EventIsLegal
<1>3. n \in Names /\ Event.reads \in Names \cup {NoName}
  BY <1>1, <1>2 DEF EventSet
<1>4. /\ place \in DOMAIN registers' /\ registers'[place] = reg_count
      /\ \A k \in DOMAIN registers : k # place => k \in DOMAIN registers' /\ registers'[k] = registers[k]
  BY <1>1 DEF With
<1>5. FlatMeansSame'
  <2>1. found' = {} \/ (/\ Event.kind \in {"declare", "mention", "assign"}
                        /\ Event.reads \in Names /\ found' = {ReadReg(Event.reads)})
    BY <1>1, <1>3
  <2> QED
    BY <1>1, <1>4, <2>1, FoundMeansSame
<1>6. UNCHANGED <<program, tables, at, phase>> /\ Function' = Function /\ (Flat' <=> Flat)
  BY <1>1 DEF checkVars, Function, Flat
<1>7. PathsTyped' /\ OuterTables' /\ Legal'
  BY <1>6, LegalStays DEF Generated, PathsTyped, OuterTables
<1>8. n \in DOMAIN tables[at] /\ id \in 0 .. symbol_seq - 1
  <2>1. n \in LooksUp(Event)
    BY <1>1, <1>3, ScopesAssumption DEF LooksUp
  <2> QED
    BY <1>1, <1>2, <2>1, SymbolsHavePlaces
<1>9. last_regs' = [last_regs EXCEPT ![id] = reg_count] /\ last_regs \in [0 .. symbol_seq - 1 -> Int]
  BY <1>1, <1>2 DEF Written, Live, KnownWritten
<1>10. \A m \in DOMAIN tables[at] : m # n =>
           last_regs'[tables[at][m].symbol_id] = last_regs[tables[at][m].symbol_id]
  <2> SUFFICES ASSUME NEW m \in DOMAIN tables[at], m # n
               PROVE  last_regs'[tables[at][m].symbol_id] = last_regs[tables[at][m].symbol_id]
    OBVIOUS
  <2>1. tables[at][m].symbol_id # id
    BY <1>2, <1>8 DEF Generated, OuterTables
  <2>2. tables[at][m].symbol_id \in 0 .. symbol_seq - 1
    BY <1>2, SymbolsHavePlaces
  <2> HIDE DEF id
  <2> QED
    BY <1>9, <2>1, <2>2
<1>11. last_regs'[id] = reg_count
  BY <1>8, <1>9
<1> HIDE DEF id
<1>12. RegistersHold'
  <2> SUFFICES ASSUME Flat
               PROVE  /\ \A j \in 1 .. place : \A m \in Names :
                             Declares(Function.body, j, m) =>
                                 j \in DOMAIN registers'
                                 /\ registers'[j] = last_regs'[tables[at][m].symbol_id]
                      /\ \A k \in DOMAIN Function.head.parametrs :
                             /\ -k \in DOMAIN registers'
                             /\ registers'[-k] = last_regs'[tables[at][Function.head.parametrs[k]].symbol_id]
    <3>1. place' - 1 = place
      BY <1>1, <1>2
    <3> QED
      BY <1>6, <3>1 DEF RegistersHold
  <2>1. \A j \in 1 .. Len(Function.body) : \A m : Declares(Function.body, j, m) => Path(Function.body, j) = <<>>
    <3>1. DOMAIN Function.body = 1 .. Len(Function.body)
      BY <1>2 DEF FunctionSet
    <3> QED
      BY <3>1 DEF Flat, Declares
  <2>2. Path(Function.body, place) = <<>>
    BY <1>1, <1>2, <2>1 DEF Declares
  <2>3. /\ \A j \in 1 .. place - 1 : Declares(Function.body, j, n) => Path(Function.body, j) # <<>>
        /\ ~Contains(Function.head.parametrs, n)
    BY <1>1, <1>2, <2>2 DEF LegalHere
  <2>4. ASSUME NEW j \in 1 .. place, NEW m \in Names, Declares(Function.body, j, m)
        PROVE  j \in DOMAIN registers' /\ registers'[j] = last_regs'[tables[at][m].symbol_id]
    <3>1. CASE j = place
      <4>1. m = n
        BY <1>2, <2>4, <3>1 DEF Declares
      <4> QED
        BY <1>4, <1>11, <3>1, <4>1 DEF id
    <3>2. CASE j # place
      <4>1. j \in 1 .. place - 1 /\ j \in 1 .. Len(Function.body)
        BY <1>2, <3>2
      <4>2. Path(Function.body, j) = <<>> /\ m # n
        BY <2>1, <2>3, <2>4, <4>1
      <4>3. m \in DOMAIN tables[at]
        BY <1>2, <2>4, <4>1, <4>2 DEF Generated, OuterTables, Function
      <4>4. j \in DOMAIN registers /\ registers[j] = last_regs[tables[at][m].symbol_id]
        BY <1>2, <2>4, <4>1 DEF Generated, RegistersHold
      <4> QED
        BY <1>4, <1>10, <3>2, <4>2, <4>3, <4>4
    <3> QED
      BY <3>1, <3>2
  <2>5. ASSUME NEW k \in DOMAIN Function.head.parametrs
        PROVE  /\ -k \in DOMAIN registers'
               /\ registers'[-k] = last_regs'[tables[at][Function.head.parametrs[k]].symbol_id]
    <3>1. Function.head.parametrs \in Seq(Names)
      BY <1>2 DEF FunctionSet, HeadSet
    <3>2. k \in Nat \ {0} /\ -k # place
      BY <1>2, <3>1
    <3>3. Function.head.parametrs[k] # n
      BY <2>3, <3>1 DEF Contains
    <3>4. Function.head.parametrs[k] \in DOMAIN tables[at]
      <4>1. Function.head.parametrs[k] \in Range(Function.head.parametrs)
        BY DEF Range
      <4> QED
        BY <1>2, <4>1 DEF Live, ParametersInTables, Function
    <3>5. -k \in DOMAIN registers
          /\ registers[-k] = last_regs[tables[at][Function.head.parametrs[k]].symbol_id]
      BY <1>2 DEF Generated, RegistersHold
    <3> QED
      BY <1>4, <1>10, <3>2, <3>3, <3>4, <3>5
  <2> QED
    BY <2>4, <2>5
<1> QED
  BY <1>5, <1>7, <1>12 DEF Generated

\* IR generation refuses nothing that was checked, as long as no arm declares
\* a name.
LEMMA RefuseLateDecided ==
    ASSUME Live, Generated, RefuseLate
    PROVE  phase' = "refused_late" /\ Legal' /\ FlatMeansSame'
<1>1. /\ Generating /\ ~ LooksUp(Event) \subseteq DOMAIN ScopeOf(at)
      /\ phase' = "refused_late" /\ UNCHANGED <<at, checkVars, genVars>>
  BY DEF RefuseLate
<1>2. /\ LegalHere(Function, place) /\ place \in 1 .. Len(Function.body)
      /\ Event = Function.body[place] /\ Event \in EventSet /\ ScopeOf(at) = tables[at]
      /\ Function \in FunctionSet /\ at \in 1 .. Len(program) /\ at \in 1 .. Len(tables)
  BY <1>1, EventIsLegal
<1>3. UNCHANGED <<program, place>> /\ Event' = Event /\ (Flat' <=> Flat)
  BY <1>1 DEF checkVars, genVars, Event, Function, Flat
<1>4. ASSUME Flat, Event.kind # "unchecked" PROVE FALSE
  <2>1. PICK n \in LooksUp(Event) : n \notin DOMAIN tables[at]
    BY <1>1, <1>2
  <2>2. CASE Event.kind = "declare" /\ n = Event.name
    <3>1. place \in DOMAIN Function.body
      BY <1>2 DEF FunctionSet
    <3>2. Path(Function.body, place) = <<>>
      BY <1>2, <1>4, <2>2, <3>1 DEF Flat
    <3>3. n \in Names
      BY <1>2, <2>2 DEF EventSet
    <3>4. Declares(Function.body, place, n)
      BY <1>2, <2>2 DEF Declares
    <3> QED
      BY <1>2, <2>1, <3>2, <3>3, <3>4 DEF Generated, OuterTables, Function
  <2>3. CASE Event.kind \in {"declare", "mention", "assign"} /\ n = Event.reads /\ n # NoName
    <3>1. n \in Names
      BY <1>2, <2>3 DEF EventSet
    <3>2. Seen(Function, place, n) # {}
      BY <1>2, <2>3 DEF LegalHere
    <3> QED
      BY <1>1, <1>4, <2>1, <3>1, <3>2, SeenInTable
  <2>4. \/ Event.kind = "declare" /\ n = Event.name
        \/ Event.kind \in {"declare", "mention", "assign"} /\ n = Event.reads /\ n # NoName
    <3>1. Event.kind \in {"mention", "assign"} => Event.reads \in Names
      BY <1>2 DEF EventSet
    <3> QED
      BY <1>4, <2>1, <3>1, ScopesAssumption DEF LooksUp
  <2> QED
    BY <2>2, <2>3, <2>4
<1>5. FlatMeansSame'
  BY <1>1, <1>3, <1>4 DEF FlatMeansSame
<1>6. Legal'
  BY <1>3, LegalStays DEF Generated
<1> QED
  BY <1>1, <1>5, <1>6

LEMMA GenLeaveDecided ==
    ASSUME Live, Generated, GenLeave
    PROVE  \/ phase' = "generate" /\ Generated'
           \/ phase' = "done" /\ Legal'
<1>1. /\ phase = "generate" /\ at \in 1 .. Len(program) /\ Len(tables) = Len(program)
      /\ Len(program) \in Nat
  BY OwnScope DEF GenLeave, Live, Typed
<1>2. UNCHANGED <<program, funcs, tables, symbol_seq>>
  BY DEF GenLeave, checkVars
<1>3. CASE at < Len(program)
  <2>1. Generates(at + 1)
    BY <1>3 DEF GenLeave
  <2>2. at + 1 \in 1 .. Len(program)
    BY <1>1, <1>3
  <2>3. phase' = "generate"
    BY <2>1 DEF Generates
  <2> QED
    BY <1>1, <1>2, <2>1, <2>2, <2>3, GeneratesDecided DEF Generated
<1>4. CASE ~(at < Len(program))
  <2>1. phase' = "done"
    BY <1>4 DEF GenLeave
  <2> QED
    BY <1>2, <2>1, LegalStays DEF Generated
<1> QED
  BY <1>3, <1>4

-----------------------------------------------------------------------------
(* The invariant *)

RulesInv ==
    /\ AcceptedIffLegal
    /\ FlatMeansSame
    /\ phase \in {"register", "check"} => Checking
    /\ phase = "generate" => Generated

LEMMA InitRules == Init => RulesInv
<1> SUFFICES ASSUME Init PROVE RulesInv
  OBVIOUS
<1>1. PICK heads \in Programs :
          program = [i \in DOMAIN heads |-> [head |-> heads[i], body |-> <<>>]]
  BY DEF Init
<1>2. /\ phase = "register" /\ funcs = <<>> /\ tables = <<>> /\ Len(tables) = 0 /\ Len(funcs) = 0
      /\ blocks = <<>>
  BY EmptySeq DEF Init
<1>3. Typed
  BY <1>2, InitInv DEF Inv, Stopped, Live
<1>4. \A t \in 1 .. Len(program) : program[t].body = <<>> /\ Len(program[t].body) = 0
  <2>1. program \in Seq(FunctionSet) /\ DOMAIN program = 1 .. Len(program)
    BY <1>3 DEF Typed
  <2> QED
    BY <1>1, <2>1, EmptySeq
<1>5. PathsTyped
  <2>1. \A t \in 1 .. Len(program) : \A i \in 0 .. Len(program[t].body) :
            i = 0 /\ Path(program[t].body, i) = <<>>
    BY <1>4, PathSteps
  <2>2. <<>> \in PathSet
    BY DEF PathSet
  <2> QED
    BY <2>1, <2>2 DEF PathsTyped
<1>6. Checking
  BY <1>2, <1>4, <1>5, ScopesAssumption
  DEF Checking, EmptyAhead, CountsKept, LegalSoFar, PathsFit, TablesExact, OuterTables
<1> QED
  BY <1>2, <1>6 DEF RulesInv, AcceptedIffLegal, FlatMeansSame

LEMMA RulesStay == RulesInv /\ UNCHANGED vars => RulesInv'
<1> SUFFICES ASSUME RulesInv, UNCHANGED vars PROVE RulesInv'
  OBVIOUS
<1>1. UNCHANGED <<phase, at, program, funcs, tables, blocks, symbol_seq,
                  place, last_regs, reg_count, registers, found>>
  BY DEF vars, checkVars, genVars
<1>2. Legal' <=> Legal
  BY <1>1, LegalStays
<1>3. AcceptedIffLegal'
  BY <1>1, <1>2 DEF RulesInv, AcceptedIffLegal
<1>4. FlatMeansSame'
  BY <1>1 DEF RulesInv, FlatMeansSame, MeansSame, Flat, Function, Event
<1>5. PathsTyped' = PathsTyped /\ OuterTables' = OuterTables
  BY <1>1 DEF PathsTyped, OuterTables
<1>6. phase \in {"register", "check"} => Checking'
  <2> SUFFICES ASSUME Checking PROVE Checking'
    BY <1>1 DEF RulesInv
  <2>1. EmptyAhead' /\ CountsKept' /\ LegalSoFar'
    BY <1>1 DEF Checking, EmptyAhead, CountsKept, LegalSoFar
  <2>2. PathsFit'
    BY ONLY <1>1, Checking DEF Checking, PathsFit, Here, Function
  <2>3. TablesExact'
    BY ONLY <1>1, Checking DEF Checking, TablesExact, TableAt, Held, Here, Function
  <2> QED
    BY <1>5, <2>1, <2>2, <2>3 DEF Checking
<1>7. phase = "generate" => Generated'
  <2> SUFFICES ASSUME Generated PROVE Generated'
    BY <1>1, SMTT(30) DEF RulesInv
  <2>1. RegistersHold'
    BY <1>1, SMTT(30) DEF Generated, RegistersHold, Flat, Function
  <2> QED
    BY <1>2, <1>4, <1>5, <2>1 DEF Generated
<1> QED
  BY <1>1, <1>3, <1>4, <1>6, <1>7 DEF RulesInv

LEMMA StopsWhole ==
    ASSUME Stopped, [Next]_vars
    PROVE  UNCHANGED vars
<1>1. phase \notin {"register", "check", "generate"}
  BY DEF Stopped
<1> QED
  BY <1>1 DEF Next, RegisterFunction, EnterFirst, LeaveFunction, Declare, Mention,
              UncheckedMention, Assign, Call, BeginIf, BeginElse, EndIf, Walk, RefuseLate,
              GenDeclare, GenMention, GenAssign, GenOther, GenLeave, Generating

\* How a step of the check, and one of IR generation, ends the proof.
LEMMA DecidedRules == Decided => RulesInv'
BY DEF Decided, RulesInv, AcceptedIffLegal, FlatMeansSame

LEMMA GeneratedRules == phase' = "generate" /\ Generated' => RulesInv'
BY DEF Generated, RulesInv, AcceptedIffLegal

LEMMA NextRules == Inv /\ RulesInv /\ [Next]_vars => RulesInv'
<1> SUFFICES ASSUME Inv, RulesInv, [Next]_vars PROVE RulesInv'
  OBVIOUS
<1>1. CASE Stopped
  BY <1>1, StopsWhole, RulesStay
<1>2. CASE UNCHANGED vars
  BY <1>2, RulesStay
<1>3. CASE Live /\ Next
  <2>1. CASE RegisterFunction
    <3>1. Checking
      BY <2>1 DEF RegisterFunction, RulesInv
    <3>2. \/ phase' = "register" /\ Checking'
          \/ phase' = "refused" /\ ~Legal'
      BY <1>3, <2>1, <3>1, RegisterDecided
    <3> QED
      BY <3>2 DEF RulesInv, AcceptedIffLegal, FlatMeansSame
  <2>2. CASE EnterFirst
    <3>1. Checking
      BY <2>2 DEF EnterFirst, RulesInv
    <3> QED
      BY <1>3, <2>2, <3>1, EnterFirstDecided, DecidedRules
  <2>3. CASE LeaveFunction
    <3>1. Checking
      BY <2>3 DEF LeaveFunction, RulesInv
    <3> QED
      BY <1>3, <2>3, <3>1, LeaveFunctionDecided, DecidedRules, GeneratedRules
  <2>4. CASE \E n \in Names : \E init \in Names \cup {NoName}, is_const \in BOOLEAN :
                 Declare(n, is_const, init)
    <3>1. Checking
      BY <2>4 DEF Declare, Walk, RulesInv
    <3> QED
      BY <1>3, <2>4, <3>1, DeclareDecided, DecidedRules
  <2>5. CASE \E n \in Names : Mention(n) \/ UncheckedMention(n) \/ Assign(n)
    <3>1. Checking
      BY <2>5 DEF Mention, UncheckedMention, Assign, Walk, RulesInv
    <3> QED
      BY <1>3, <2>5, <3>1, MentionDecided, DecidedRules
  <2>6. CASE \E name \in FunctionNames, argument_count \in 0 .. 2 : Call(name, argument_count)
    <3>1. Checking
      BY <2>6 DEF Call, Walk, RulesInv
    <3> QED
      BY <1>3, <2>6, <3>1, CallDecided, DecidedRules
  <2>7. CASE BeginIf \/ BeginElse \/ EndIf
    <3>1. Checking
      BY <2>7 DEF BeginIf, BeginElse, EndIf, Walk, RulesInv
    <3> QED
      BY <1>3, <2>7, <3>1, BeginIfDecided, BeginElseDecided, EndIfDecided, DecidedRules
  <2>8. CASE RefuseLate \/ GenDeclare \/ GenMention \/ GenAssign \/ GenOther \/ GenLeave
    <3>1. Generated
      BY <2>8 DEF RefuseLate, GenDeclare, GenMention, GenAssign, GenOther, GenLeave, Generating, RulesInv
    <3>2. CASE RefuseLate
      BY <1>3, <3>1, <3>2, RefuseLateDecided DEF RulesInv, AcceptedIffLegal
    <3>3. CASE GenDeclare
      <4>1. phase' = "generate"
        BY <3>3 DEF GenDeclare, Generating
      <4> QED
        BY <1>3, <3>1, <3>3, <4>1, GenDeclareDecided, GeneratedRules
    <3>4. CASE GenMention \/ GenAssign \/ GenOther
      <4>1. phase' = "generate"
        BY <3>4 DEF GenMention, GenAssign, GenOther, Generating
      <4> QED
        BY <1>3, <3>1, <3>4, <4>1, GenNameDecided, GeneratedRules
    <3>5. CASE GenLeave
      <4>1. CASE phase' = "generate" /\ Generated'
        BY <4>1, GeneratedRules
      <4>2. CASE phase' = "done" /\ Legal'
        BY <4>2 DEF RulesInv, AcceptedIffLegal, FlatMeansSame
      <4> QED
        BY <1>3, <3>1, <3>5, <4>1, <4>2, GenLeaveDecided
    <3> QED
      BY <2>8, <3>2, <3>3, <3>4, <3>5
  <2> QED
    BY <1>3, <2>1, <2>2, <2>3, <2>4, <2>5, <2>6, <2>7, <2>8 DEF Next
<1> QED
  BY <1>1, <1>2, <1>3 DEF Inv

\* The check refuses a file exactly if it has more functions than the table has
\* places or breaks a rule of scope, of constants or of calls that are
\* statements, and what it lets through to IR generation breaks none
\* (check_semantics, semantic/semantic.c, with its tables).
THEOREM ChecksRightly == Spec => []AcceptedIffLegal
<1>1. RulesInv => AcceptedIffLegal
  BY DEF RulesInv
<1> QED
  BY <1>1, InitInv, NextInv, InitRules, NextRules, PTL DEF Spec

\* As long as no arm of an if declares a name, IR generation gives a name the
\* register of the declaration that the rules of scope mean, and refuses
\* nothing that the check has looked up (IR/ir.c, IR/ir_reg.c).
THEOREM FlatNamesKept == Spec => []FlatMeansSame
<1>1. RulesInv => FlatMeansSame
  BY DEF RulesInv
<1> QED
  BY <1>1, InitInv, NextInv, InitRules, NextRules, PTL DEF Spec

=============================================================================
