------------------------------- MODULE Token -------------------------------
(***************************************************************************)
(* The tables of exec/token.hpp and the character classes of               *)
(* exec/tokenize.hpp.  A character is a one-character string; a word is a  *)
(* sequence of characters; a token type is the string strs[] gives it.     *)
(***************************************************************************)
EXTENDS Integers, Sequences, SequencesExt

Delimiters     == {"\n", " ", "\t"}
Symbols        == {"{", "}", "(", ")", "[", "]", ",", ":", ";"}
Numbers        == {"1", "2", "3", "4", "5", "6", "7", "8", "9", "0"}
OperatorChars  == {"+", "-", "*", "/", "%", "=", "!", "<", ">", ".", "&", "|"}
Quote          == "\""

(* The reserved words: strs[] from reserved_splitter + 1 up to INVALID. *)
ReservedWords ==
    {"TYPE", "INT", "DEFINE", "LET", "TRANSACTION", "SERIALIZABLE", "IF",
     "ELSE", "FOR", "EMIT", "INSERT", "SCAN", "BREAK", "CONTINUE", "TUPLE"}

(* w[i] &= ~0x20 on the characters of a word: a lower-case letter becomes *)
(* its capital, and no other character becomes a letter.                  *)
LowerCase == <<"a","b","c","d","e","f","g","h","i","j","k","l","m",
               "n","o","p","q","r","s","t","u","v","w","x","y","z">>
UpperCase == <<"A","B","C","D","E","F","G","H","I","J","K","L","M",
               "N","O","P","Q","R","S","T","U","V","W","X","Y","Z">>

Capital(c) ==
    IF \E j \in 1..26 : LowerCase[j] = c
    THEN UpperCase[CHOOSE j \in 1..26 : LowerCase[j] = c]
    ELSE c

(* A word as one string. *)
Str(w) == FoldLeft(LAMBDA acc, c : acc \o c, "", w)

(* in_reserverd_word and as_reserved: the capitalised word is one of      *)
(* strs[from..to), and then it is its own token type.                      *)
AsReserved(w)     == Str([i \in DOMAIN w |-> Capital(w[i])])
InReservedWord(w) == AsReserved(w) \in ReservedWords

(* symbol_token: the character's token type; the characters outside its   *)
(* switch ('!', '|') reach abort().                                        *)
SymbolToken ==
    ("{" :> "OPEN_BRACE") @@ ("}" :> "CLOSE_BRACE") @@ ("(" :> "OPEN_PAREN")
    @@ (")" :> "CLOSE_PAREN") @@ ("[" :> "OPEN_BRACKET") @@ ("]" :> "CLOSE_BRACKET")
    @@ ("<" :> "OPEN_ANGLE") @@ (">" :> "CLOSE_ANGLE") @@ ("," :> "COMMA")
    @@ ("*" :> "ASTERISK") @@ ("/" :> "SLASH") @@ ("+" :> "PLUS") @@ ("-" :> "MINUS")
    @@ (":" :> "COLON") @@ (";" :> "SEMICOLON") @@ ("." :> "PERIOD")
    @@ ("=" :> "EQUAL") @@ ("&" :> "AND") @@ ("%" :> "PERCENT")

(* operator_token_list *)
OperatorTokenList ==
    ("==" :> "EQUAL_EQUAL") @@ ("!=" :> "EXCLAMATION_MARK_EQUAL")
    @@ ("<=" :> "OPEN_ANGLE_EQUAL") @@ (">=" :> "CLOSE_ANGLE_EQUAL")
    @@ ("+=" :> "PLUS_EQUAL") @@ ("-=" :> "MINUS_EQUAL") @@ ("*=" :> "ASTERISK_EQUAL")
    @@ ("/=" :> "SLASH_EQUAL") @@ ("%=" :> "PERCENT_EQUAL")
    @@ ("&&" :> "AND_AND") @@ ("||" :> "OR_OR")

Abort == "abort"

(* operator_token: a one-character run goes through symbol_token (Abort   *)
(* for a character it does not know); a longer one is looked up in the   *)
(* list, INVALID when absent.                                              *)
OperatorToken(w) ==
    IF Len(w) = 1
    THEN IF w[1] \in DOMAIN SymbolToken THEN SymbolToken[w[1]] ELSE Abort
    ELSE IF Str(w) \in DOMAIN OperatorTokenList THEN OperatorTokenList[Str(w)]
    ELSE "INVALID"

(* struct Token, without col: type, text and row. *)
Tok(type, text, row) == [type |-> type, text |-> text, row |-> row]
=============================================================================
