------------------------------- MODULE Lexer --------------------------------
(***************************************************************************)
(* next_token of mncc (lexer/lexer.c) on a text, a sequence of characters. *)
(* A token keeps the characters it stands for, as token.text does, and     *)
(* lexer->pos behind it.  The end of the text is its '\0'.                 *)
(***************************************************************************)
EXTENDS Integers, Sequences, SequencesExt

CONSTANT TokenSize    \* sizeof(token->text); 60 in the code

Digits == {"0", "1", "2", "3", "4", "5", "6", "7", "8", "9"}
Letters == {"a", "b", "c", "e", "f", "i", "l", "n", "o", "r", "s", "t", "u", "x", "y", "_"}
Blanks == {" ", "\t", "\n", "\r"}

Single == [c \in {";", "+", "-", "*", "/", "{", "}", "(", ")", ",", "="} |->
              CASE c = ";" -> "TK_SEMICOLON" [] c = "+" -> "TK_ADD" [] c = "-" -> "TK_SUBTRACTION"
                [] c = "*" -> "TK_MULTYPLY" [] c = "/" -> "TK_DIVISION" [] c = "{" -> "TK_START"
                [] c = "}" -> "TK_END" [] c = "(" -> "TK_LARPEN" [] c = ")" -> "TK_RARPEN"
                [] c = "," -> "TK_COMMA" [] c = "=" -> "TK_ASSIGN"]

Keywords == {<<"TK_INTEGER", <<"i", "n", "t">>>>, <<"TK_RETURN", <<"r", "e", "t", "u", "r", "n">>>>,
             <<"TK_CONST", <<"c", "o", "n", "s", "t">>>>, <<"TK_IF", <<"i", "f">>>>,
             <<"TK_ELSE", <<"e", "l", "s", "e">>>>}

\* The length of the longest run of characters of a set, from place i on.
RunOf(source, i, set) ==
    LET ends == {j \in i .. Len(source) : source[j] \notin set}
    IN  IF ends = {} THEN Len(source) + 1 - i ELSE (CHOOSE j \in ends : \A k \in ends : j <= k) - i

Token(type, text, pos) == [type |-> type, text |-> text, pos |-> pos]

\* lex_number stops at the size of a token, and the next token goes on there.
LexNumber(source, i) ==
    LET run == RunOf(source, i, Digits)
        n == IF run < TokenSize - 1 THEN run ELSE TokenSize - 1
    IN  Token("TK_NUMBER", SubSeq(source, i, i + n - 1), i + n)

\* lex_ident_or_keyword reads on, and drops what the token has no place for.
WordType(text) ==
    IF \E k \in Keywords : k[2] = text THEN (CHOOSE k \in Keywords : k[2] = text)[1]
    ELSE "TK_IDENTIFIER"

WordRunOfLetters(source, i) == RunOf(source, i, Letters)
WordRun(source, i) == RunOf(source, i, Letters \cup Digits)

LexWord(source, i) ==
    LET run == WordRun(source, i)
        n == IF run < TokenSize - 1 THEN run ELSE TokenSize - 1
        text == SubSeq(source, i, i + n - 1)
    IN  Token(WordType(text), text, i + run)

\* The token at pos or behind; an unknown character counts as the end.
NextToken(source, pos) ==
    LET i == pos + RunOf(source, pos, Blanks)
        c == source[i]
    IN  CASE i > Len(source)           -> Token("TK_EOF", <<>>, i)
          [] IsPrefix(<<"=", "=">>, SubSeq(source, i, Len(source))) ->
                Token("TK_CMP", <<"=", "=">>, i + 2)
          [] c \in DOMAIN Single       -> Token(Single[c], <<c>>, i + 1)
          [] c \in Digits              -> LexNumber(source, i)
          [] c \in Letters             -> LexWord(source, i)
          [] OTHER                     -> Token("TK_EOF", <<>>, i + 1)

\* The tokens that the parser gets to see: up to the first end.
RECURSIVE TokensFrom(_, _)
TokensFrom(source, pos) ==
    LET token == NextToken(source, pos)
    IN  IF token.type = "TK_EOF" THEN <<token>> ELSE <<token>> \o TokensFrom(source, token.pos)

Tokens(source) == TokensFrom(source, 1)

=============================================================================
