------------------------------ MODULE MCScopes ------------------------------
(***************************************************************************)
(* Files of one and two functions over two names, heads that the check     *)
(* refuses among them, and files of as many functions as the table holds   *)
(* and of one more.                                                        *)
(***************************************************************************)
EXTENDS Scopes, TLC

CONSTANTS a, b

HeadOf(f, parametrs) == [name |-> f, parametrs |-> parametrs]

\* Two functions, heads that the check refuses or nearly refuses, and a third
\* function that the table has no place for.
MCPrograms ==
    {<<HeadOf("f", <<a>>), HeadOf("g", <<>>)>>, <<HeadOf("f", <<>>), HeadOf("f", <<a>>)>>,
     <<HeadOf("f", <<a, a>>)>>, <<HeadOf("f", <<a, b>>)>>,
     <<HeadOf("f", <<>>), HeadOf("g", <<>>), HeadOf("h", <<>>)>>}
MCOneFunction == {<<HeadOf("f", <<a>>)>>}

=============================================================================
