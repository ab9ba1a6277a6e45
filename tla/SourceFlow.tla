----------------------------- MODULE SourceFlow -----------------------------
(***************************************************************************)
(* What control flow a function of the source language means, statement by *)
(* statement in source order: the pairs of points that may follow each     *)
(* other when the function runs.  A point is the number of a statement, of *)
(* an if's condition, Start or End; a port is a point and the way control  *)
(* leaves it.  loose holds the ports that lead to the next statement.      *)
(* Code no port leads to is dead and has no flow.                          *)
(***************************************************************************)
EXTENDS Integers, Sequences, SequencesExt

VARIABLES
    flow,             \* set of <<point, way, point>>
    loose,            \* set of <<point, way>>
    ifs               \* enclosing ifs, innermost last

Start == 0
End == -1

Init ==
    /\ flow = {}
    /\ loose = {<<Start, "next">>}
    /\ ifs = <<>>

Arrive(q) == {<<l[1], l[2], q>> : l \in loose}

\* The port of q, unless q is dead.
Port(q, way) == IF loose = {} THEN {} ELSE {<<q, way>>}

Statement(q) ==
    /\ flow' = flow \cup Arrive(q)
    /\ loose' = Port(q, "next")
    /\ UNCHANGED ifs

Return(q) ==
    /\ flow' = flow \cup Arrive(q)
    /\ loose' = {}
    /\ UNCHANGED ifs

If(q) ==
    /\ flow' = flow \cup Arrive(q)
    /\ loose' = Port(q, "true")
    /\ ifs' = Append(ifs, [otherwise |-> Port(q, "false"), leaving |-> {}])

\* The then-arm ends, the else-arm (possibly empty) begins.
Else ==
    /\ ifs # <<>>
    /\ loose' = Last(ifs).otherwise
    /\ ifs' = Append(Front(ifs), [otherwise |-> {}, leaving |-> loose])
    /\ UNCHANGED flow

EndIf ==
    /\ ifs # <<>>
    /\ loose' = loose \cup Last(ifs).leaving
    /\ ifs' = Front(ifs)
    /\ UNCHANGED flow

Finish ==
    /\ ifs = <<>>
    /\ flow' = flow \cup Arrive(End)
    /\ loose' = {}
    /\ UNCHANGED ifs

=============================================================================
