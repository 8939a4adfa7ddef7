------------------------------- MODULE MC_Lexer -------------------------------
(***************************************************************************)
(* Source texts for Lexer: every text of up to MaxText characters over a  *)
(* small alphabet that has a letter of each case of the reserved word IF,  *)
(* a digit, a quote, a newline, a symbol and operator characters that      *)
(* form a two-character operator ("<=", "==") and an unmatched run ("=<").  *)
(***************************************************************************)
EXTENDS Lexer

MaxText == 4

PassAlphabet == {"i", "f", "F", "1", "\"", "\n", "(", "=", "<"}

PassInputs == BoundedSeq(PassAlphabet, MaxText)

(* Texts with a lone '!' or '|'. *)
AbortInputs == {<<"!">>, <<"i", "|", "f">>}

=============================================================================
