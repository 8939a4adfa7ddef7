------------------------------ MODULE ParseExec ------------------------------
(***************************************************************************)
(* parse() of exec/parser.cpp: the loop that reads top-level statements    *)
(* from the TokenStream into global_block while has_next(), one step per   *)
(* iteration.  idx is idx_ + 1; block holds the statements added so far.   *)
(*                                                                         *)
(* The reference is the grammar of the specification (sections 4.2 and    *)
(* 6): a program is the sequence of tokens its AST prints as, binary       *)
(* operators right-associative with a compound left operand in            *)
(* parentheses, every optional part of if, for and transaction left out   *)
(* when absent, and the statement forms of the grammar sketch of section   *)
(* 6: define<type> name, tuple name type, insert name row, scan name,     *)
(* row block, emit expr, let <type> name = expr.                          *)
(***************************************************************************)
EXTENDS Integers, Sequences, SequencesExt, Parser

CONSTANTS
    Programs,   \* ASTs: each is printed and the tokens parsed
    Texts       \* token sequences the grammar rejects

VARIABLES toks, idx, block, status

vars == <<toks, idx, block, status>>

Tk(type)  == [type |-> type, text |-> ""]
Name(x)   == [type |-> "IDENTIFIER", text |-> x]
OpToken(o) == CHOOSE t \in DOMAIN BinOps : BinOps[t] = o

RECURSIVE PrintExpr(_), PrintList(_), PrintStmts(_)

(* Elements separated by ','. *)
PrintList(es) ==
    IF es = <<>> THEN <<>>
    ELSE PrintExpr(Head(es)) \o (IF Len(es) = 1 THEN <<>> ELSE << Tk("COMMA") >> \o PrintList(Tail(es)))

(* An expression as the grammar writes it: an operand of a binary or      *)
(* postfix operator in parentheses unless it is a literal, a name or a    *)
(* postfix form itself.                                                    *)
PrintExpr(e) ==
    LET Operand(l) == IF l.k \in {"num", "var", "str", "row", "array", "call", "index", "member"}
                      THEN PrintExpr(l)
                      ELSE << Tk("OPEN_PAREN") >> \o PrintExpr(l) \o << Tk("CLOSE_PAREN") >>
    IN
    CASE e.k = "num"    -> << [type |-> "NUMBER", text |-> e.n] >>
      [] e.k = "var"    -> << Name(e.x) >>
      [] e.k = "str"    -> << [type |-> "STRING_LITERAL", text |-> e.w] >>
      [] e.k = "row"    -> << Tk("OPEN_BRACE") >> \o PrintList(e.es) \o << Tk("CLOSE_BRACE") >>
      [] e.k = "array"  -> << Tk("OPEN_BRACKET") >> \o PrintList(e.es) \o << Tk("CLOSE_BRACKET") >>
      [] e.k = "ptr"    -> << Tk("AND") >> \o Operand(e.e)
      [] e.k = "call"   -> Operand(e.f) \o << Tk("OPEN_PAREN") >> \o PrintList(e.args) \o << Tk("CLOSE_PAREN") >>
      [] e.k = "index"  -> Operand(e.e) \o << Tk("OPEN_BRACKET") >> \o PrintExpr(e.i) \o << Tk("CLOSE_BRACKET") >>
      [] e.k = "member" -> Operand(e.e) \o << Tk("PERIOD"), Name(e.name) >>
      [] e.k = "assign" -> << Name(e.x) >> \o << Tk("EQUAL") >> \o PrintExpr(e.e)
      [] e.k = "assignto" -> PrintExpr(e.t) \o << Tk("EQUAL") >> \o PrintExpr(e.e)
      [] e.k = "bin"    -> Operand(e.l) \o << Tk(OpToken(e.op)) >> \o PrintExpr(e.r)

(* A type as the grammar writes it: int, [int], or a tuple of attributes  *)
(* "type(size): name properties" separated by ','.  Only INTEGER is a     *)
(* primary type the programs declare.                                      *)
PrintType(t) ==
    LET IntTok == << [type |-> "INT", text |-> "int"] >>
        Props(ps) == LET ws == SelectSeq(<<"key", "nullable", "unique">>, LAMBDA w : w \in ps)
                     IN  [i \in 1..Len(ws) |-> Name(ws[i])]
        PrintAttr(a) ==
            (IF a.type = "int" THEN IntTok ELSE << [type |-> "IDENTIFIER", text |-> a.type] >>)
            \o (IF a.param = << >> THEN << >>
                ELSE << Tk("OPEN_PAREN"), [type |-> "NUMBER", text |-> a.param[1]], Tk("CLOSE_PAREN") >>)
            \o << Tk("COLON"), [type |-> "IDENTIFIER", text |-> a.name] >> \o Props(a.props)
        Attrs(as) == [i \in 1..2 * Len(as) - 1 |-> IF i % 2 = 1 THEN PrintAttr(as[(i + 1) \div 2]) ELSE << Tk("COMMA") >>]
    IN
    CASE t.k = "primT"  -> IntTok
      [] t.k = "arrayT" -> << Tk("OPEN_BRACKET") >> \o IntTok \o << Tk("CLOSE_BRACKET") >>
      [] t.k = "tupleT" -> << Tk("OPEN_BRACE") >> \o FlattenSeq(Attrs(t.attrs)) \o << Tk("CLOSE_BRACE") >>

RowType(t) == << Tk("OPEN_ANGLE") >> \o PrintType(t) \o << Tk("CLOSE_ANGLE") >>

PrintOpt(e)   == IF e = None THEN <<>> ELSE PrintExpr(e)
PrintBlock(ss) == << Tk("OPEN_BRACE") >> \o PrintStmts(ss) \o << Tk("CLOSE_BRACE") >>

(* Statements as the grammar writes them, one after another. *)
PrintStmts(ss) ==
    IF ss = <<>> THEN <<>>
    ELSE LET s == Head(ss)
             this ==
               CASE s.k = "let"  -> << Tk("LET") >> \o (IF "type" \in DOMAIN s THEN RowType(s.type) ELSE << >>)
                                    \o << Name(s.x), Tk("EQUAL") >> \o PrintExpr(s.e)
                 [] s.k = "expr" -> PrintExpr(s.e)
                 [] s.k = "if"   -> << Tk("IF") >> \o PrintExpr(s.c) \o PrintBlock(s.t)
                                    \o (IF s.f = <<>> THEN <<>> ELSE << Tk("ELSE") >> \o PrintBlock(s.f))
                 [] s.k = "for"  -> << Tk("FOR") >> \o PrintStmts(s.init) \o << Tk("SEMICOLON") >>
                                    \o PrintOpt(s.c) \o << Tk("SEMICOLON") >> \o PrintOpt(s.step)
                                    \o PrintBlock(s.body)
                 [] s.k = "jump" -> << Tk(IF s.t = "break" THEN "BREAK" ELSE "CONTINUE") >>
                 [] s.k = "txn"  -> << Tk("TRANSACTION") >>
                                    \o (IF s.iso = "SERIALIZABLE" THEN << >> ELSE << Name(s.iso) >>)
                                    \o PrintBlock(s.ss)
                 [] s.k = "define" -> << Tk("DEFINE") >> \o RowType(s.schema) \o << Name(s.x) >>
                 [] s.k = "tuple"  -> << Tk("TUPLE"), Name(s.x) >> \o PrintType(s.type)
                 [] s.k = "emit"   -> << Tk("EMIT") >> \o PrintExpr(s.e)
                 [] s.k = "insert" -> << Tk("INSERT"), Name(s.table) >> \o PrintExpr(s.e)
                 [] s.k = "scan"   -> << Tk("SCAN"), Name(s.table), Tk("COMMA"), Name(s.row) >>
                                      \o PrintBlock(s.ss)
         IN  this \o PrintStmts(Tail(ss))

Printed == [a \in Programs |-> PrintStmts(a)]

Init ==
    /\ toks \in { Printed[a] : a \in Programs } \cup Texts
    /\ idx = 1 /\ block = <<>> /\ status = "run"

(* has_next(): idx_ != tokens_.size(). *)
HasNext == idx # Len(toks) + 1

Entry == ParseStatement(toks, idx)

(* Fault variant of AddEntry: the entry added without "if (entry)". *)
AddEntryUnchecked ==
    /\ status = "run" /\ HasNext /\ Entry.ok
    /\ block' = Append(block, Entry.node) /\ idx' = Entry.p
    /\ UNCHANGED <<toks, status>>

(* A statement parsed and added to global_block. *)
AddEntry ==
    /\ status = "run" /\ HasNext /\ Entry.ok /\ Entry.node # Null
    /\ block' = Append(block, Entry.node) /\ idx' = Entry.p
    /\ UNCHANGED <<toks, status>>

(* parse_statement returned nullptr at a '}': nothing added, nothing      *)
(* consumed.                                                               *)
SkipNull ==
    /\ status = "run" /\ HasNext /\ Entry.ok /\ Entry.node = Null
    /\ UNCHANGED vars

(* parse_statement threw: the exception leaves parse(). *)
SyntaxError ==
    /\ status = "run" /\ HasNext /\ ~Entry.ok
    /\ status' = "error"
    /\ UNCHANGED <<toks, idx, block>>

(* The loop ends and fun(global_block) gets the program. *)
Finish ==
    /\ status = "run" /\ ~HasNext
    /\ status' = "done"
    /\ UNCHANGED <<toks, idx, block>>

Next == AddEntry \/ SkipNull \/ SyntaxError \/ Finish

(* parse() runs on the calling thread to its end. *)
Spec == Init /\ [][Next]_vars /\ WF_vars(Next)

-----------------------------------------------------------------------------
(* The stream position stays within the tokens or just past the last. *)
TypeOK ==
    /\ status \in {"run", "done", "error"}
    /\ idx \in 1..Len(toks) + 1
    /\ \A i \in DOMAIN block : block[i].k \in {"let", "expr", "if", "for", "jump", "block",
                                         "txn", "define", "tuple", "emit", "insert", "scan"}

(* parse() returns, for the tokens of every program of the grammar, that  *)
(* program's AST and never throws on them, and returns no program for a   *)
(* text the grammar rejects (it throws, or, for a stray '}', never ends:   *)
(* Terminates is about that).  The AST is compared with the one printed,  *)
(* so a node built differently from the grammar's (a nullptr parent)       *)
(* breaks it.                                                              *)
ParsesAsSpecified ==
    /\ status = "done" => \E a \in Programs : Printed[a] = toks /\ block = a
    /\ status = "error" => toks \in Texts

(* parse() returns or throws on every token sequence. *)
Terminates == <>(status # "run")
=============================================================================
