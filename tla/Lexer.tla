------------------------------- MODULE Lexer -------------------------------
(***************************************************************************)
(* tokenize() of exec/tokenize.hpp: one step per iteration of its loop     *)
(* over the characters of code, split by the branch the character takes,   *)
(* and a last step for the switch after the loop.  from, len, row and col  *)
(* are the locals of the same names; from is the 0-based index the pending *)
(* word starts at, i the 0-based index of the next character.              *)
(***************************************************************************)
EXTENDS Integers, Sequences, SequencesExt, Token

CONSTANT Inputs   \* the source texts, as sequences of characters

VARIABLES code, i, state, from, len, row, col, ret, status

vars == <<code, i, state, from, len, row, col, ret, status>>

States == {"INIT", "NAME", "NUMBER", "STRING", "OPERATOR"}

Init ==
    /\ code \in Inputs
    /\ i = 0 /\ state = "INIT" /\ from = 0 /\ len = 0 /\ row = 1 /\ col = 0
    /\ ret = <<>> /\ status = "run"

C    == code[i + 1]                        \* code[i]
Word == SubSeq(code, from + 1, from + len)  \* util::slice(&code[from], len)

NameChar(c) == c \notin Delimiters \cup Symbols \cup OperatorChars \cup Numbers \cup {Quote}

(* add_token(ret, word, row, col) for a NAME: a reserved word is          *)
(* Token{as_reserved(word), word, row}; an identifier is                   *)
(* Token{IDENTIFIER, word, col}, so col lands in the row field.            *)
AddName(w) ==
    IF InReservedWord(w) THEN Tok(AsReserved(w), w, row) ELSE Tok("IDENTIFIER", w, col)

(* Fault variant of Pending: a name never checked against the reserved   *)
(* words.                                                                  *)
PendingNoReserved(st) ==
    CASE st = "NAME"     -> Tok("IDENTIFIER", Word, col)
      [] st = "NUMBER"   -> Tok("NUMBER", Word, row)
      [] st = "OPERATOR" -> Tok(OperatorToken(Word), Word, row)

(* add_token(state, ret, word, row, col) of the pending word. *)
Pending(st) ==
    CASE st = "NAME"     -> AddName(Word)
      [] st = "NUMBER"   -> Tok("NUMBER", Word, row)
      [] st = "OPERATOR" -> Tok(OperatorToken(Word), Word, row)

(* ret after "if (current_state != INIT) add_token(current_state, ...)". *)
Flushed(st) == IF st = "INIT" THEN ret ELSE Append(ret, Pending(st))

(* The new ret; a token whose type is Abort is abort() in operator_token. *)
Emit(toks, next) ==
    /\ ret' = toks
    /\ status' = IF \E k \in DOMAIN toks : toks[k].type = Abort THEN Abort ELSE next

(* The next iteration of the loop, at character code[i]. *)
Running == status = "run" /\ i < Len(code) /\ i' = i + 1

(* In a string: a quote closes it with the characters after the opening  *)
(* quote; any other character is part of it.                               *)
StringChar ==
    /\ Running /\ state = "STRING" /\ C # Quote
    /\ len' = len + 1 /\ col' = col + 1
    /\ UNCHANGED <<code, state, from, row, ret, status>>

CloseString ==
    /\ Running /\ state = "STRING" /\ C = Quote
    /\ ret' = Append(ret, Tok("STRING_LITERAL", SubSeq(code, from + 2, from + len), row))
    /\ state' = "INIT" /\ from' = i /\ len' = 0 /\ col' = col + 1
    /\ UNCHANGED <<code, row, status>>

(* A quote outside a string ends the pending word and opens a string. *)
OpenString ==
    /\ Running /\ state # "STRING" /\ C = Quote
    /\ Emit(Flushed(state), "run")
    /\ state' = "STRING" /\ from' = i /\ len' = 1
    /\ UNCHANGED <<code, row, col>>

(* Fault variant of Delimiter: len not reset with from. *)
DelimiterKeepLen ==
    /\ Running /\ state # "STRING" /\ C \in Delimiters
    /\ Emit(Flushed(state), "run")
    /\ state' = "INIT" /\ from' = i /\ UNCHANGED len
    /\ IF C = "\n" THEN row' = row + 1 /\ col' = -1 ELSE UNCHANGED <<row, col>>
    /\ UNCHANGED code

(* A delimiter ends the pending word; a newline starts the next row. *)
Delimiter ==
    /\ Running /\ state # "STRING" /\ C \in Delimiters
    /\ Emit(Flushed(state), "run")
    /\ state' = "INIT" /\ from' = i /\ len' = 0
    /\ IF C = "\n" THEN row' = row + 1 /\ col' = -1 ELSE UNCHANGED <<row, col>>
    /\ UNCHANGED code

(* A symbol ends the pending word and is a token of its own. *)
Symbol ==
    /\ Running /\ state # "STRING" /\ C \in Symbols
    /\ Emit(Append(Flushed(state), Tok(SymbolToken[C], <<C>>, row)), "run")
    /\ state' = "INIT" /\ from' = i /\ len' = 0
    /\ UNCHANGED <<code, row, col>>

(* An operator character extends an operator run, or ends the pending   *)
(* word and starts one.                                                  *)
OperatorChar ==
    /\ Running /\ state # "STRING" /\ C \in OperatorChars
    /\ IF state = "OPERATOR"
       THEN len' = len + 1 /\ UNCHANGED <<ret, status, state, from>>
       ELSE Emit(Flushed(state), "run") /\ state' = "OPERATOR" /\ from' = i /\ len' = 1
    /\ UNCHANGED <<code, row, col>>

(* A digit extends a name or a number, or starts a number. *)
Digit ==
    /\ Running /\ state # "STRING" /\ C \in Numbers
    /\ IF state \in {"NAME", "NUMBER"}
       THEN len' = len + 1 /\ UNCHANGED <<ret, status, state, from>>
       ELSE Emit(Flushed(state), "run") /\ state' = "NUMBER" /\ from' = i /\ len' = 1
    /\ UNCHANGED <<code, row, col>>

(* Any other character extends a name or starts one; inside a number it  *)
(* throws.                                                               *)
Letter ==
    /\ Running /\ state # "STRING" /\ NameChar(C)
    /\ CASE state = "NUMBER" ->
              status' = "error" /\ UNCHANGED <<ret, state, from, len, col>>
         [] state = "NAME" ->
              len' = len + 1 /\ col' = col + 1 /\ UNCHANGED <<ret, status, state, from>>
         [] OTHER ->
              /\ Emit(Flushed(state), "run") /\ state' = "NAME" /\ from' = i
              /\ len' = 1 /\ col' = col + 1
    /\ UNCHANGED <<code, row>>

(* The switch after the loop: the pending word is the last token; an      *)
(* open string throws.                                                     *)
Finish ==
    /\ status = "run" /\ i = Len(code)
    /\ IF state = "STRING" THEN status' = "error" /\ UNCHANGED ret
                           ELSE Emit(Flushed(state), "done")
    /\ UNCHANGED <<code, i, state, from, len, row, col>>

Next ==
    \/ StringChar \/ CloseString \/ OpenString \/ Delimiter \/ Symbol
    \/ OperatorChar \/ Digit \/ Letter \/ Finish

Spec == Init /\ [][Next]_vars

-----------------------------------------------------------------------------
(* The tokenizer of the specification (section 4.1): maximal runs by      *)
(* character class; a number run followed by a name character, or an      *)
(* unterminated string, fails; an operator run is looked up in the table  *)
(* and is INVALID when unmatched; a name run is a reserved word when its   *)
(* case-insensitive form is one.  Each token carries the row it starts on. *)

(* The length of the longest prefix of s whose characters are in S. *)
RECURSIVE RunLen(_, _)
RunLen(s, S) == IF s # <<>> /\ Head(s) \in S THEN 1 + RunLen(Tail(s), S) ELSE 0

NewLines(w) == Len(SelectSeq(w, LAMBDA c : c = "\n"))

RefOperator(run) ==
    IF Len(run) = 1 /\ run[1] \in DOMAIN SymbolToken THEN SymbolToken[run[1]]
    ELSE IF Len(run) > 1 /\ Str(run) \in DOMAIN OperatorTokenList
         THEN OperatorTokenList[Str(run)]
    ELSE "INVALID"

LexFail == [ok |-> FALSE, toks |-> <<>>]

Prepend(t, rest) == [rest EXCEPT !.toks = <<t>> \o @]

RECURSIVE RefLex(_, _)
RefLex(s, r) ==
    IF s = <<>> THEN [ok |-> TRUE, toks |-> <<>>]
    ELSE LET c    == Head(s)
             Drop(n) == SubSeq(s, n + 1, Len(s))
         IN
         CASE c \in Delimiters -> RefLex(Tail(s), IF c = "\n" THEN r + 1 ELSE r)
           [] c = Quote ->
                LET n == RunLen(Tail(s), ToSet(s) \ {Quote}) IN
                IF n = Len(s) - 1 THEN LexFail
                ELSE Prepend(Tok("STRING_LITERAL", SubSeq(s, 2, n + 1), r),
                          RefLex(Drop(n + 2), r + NewLines(SubSeq(s, 2, n + 1))))
           [] c \in Symbols -> Prepend(Tok(SymbolToken[c], <<c>>, r), RefLex(Tail(s), r))
           [] c \in OperatorChars ->
                LET n == RunLen(s, OperatorChars) IN
                Prepend(Tok(RefOperator(SubSeq(s, 1, n)), SubSeq(s, 1, n), r), RefLex(Drop(n), r))
           [] c \in Numbers ->
                LET n == RunLen(s, Numbers) IN
                IF n < Len(s) /\ NameChar(s[n + 1]) THEN LexFail
                ELSE Prepend(Tok("NUMBER", SubSeq(s, 1, n), r), RefLex(Drop(n), r))
           [] OTHER ->
                LET n == RunLen(s, {x \in ToSet(s) : NameChar(x) \/ x \in Numbers})
                    w == SubSeq(s, 1, n)
                IN  Prepend(Tok(IF InReservedWord(w) THEN AsReserved(w) ELSE "IDENTIFIER", w, r),
                         RefLex(Drop(n), r))

Ref == RefLex(code, 1)

(* A token without its position. *)
Kinds(toks) == [k \in DOMAIN toks |-> [type |-> toks[k].type, text |-> toks[k].text]]

(* The pending word lies within the characters read so far, and the loop *)
(* never passes the end of the text.                                      *)
TypeOK ==
    /\ state \in States /\ status \in {"run", "done", "error", Abort}
    /\ 0 <= from /\ from + len <= i /\ i <= Len(code)
    /\ \A k \in DOMAIN ret : ret[k].text \in Seq(ToSet(code))

(* tokenize never calls abort(): it returns the specification's tokens   *)
(* (type and text) for every text the specification accepts, and throws  *)
(* for every text it rejects.                                             *)
TokensAsSpecified ==
    /\ status # Abort
    /\ status = "done" => Ref.ok /\ Kinds(ret) = Kinds(Ref.toks)
    /\ status = "error" => ~Ref.ok

=============================================================================
