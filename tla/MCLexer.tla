------------------------------ MODULE MCLexer ------------------------------
(***************************************************************************)
(* Every file of at most MaxText characters.                               *)
(***************************************************************************)
EXTENDS Lexer, SequencesExt

CONSTANT MaxText

MCTexts == BoundedSeq(Char, MaxText)
MCKeywords == {<<"e", "n">>}
=============================================================================
