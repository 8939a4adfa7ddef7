----------------------------- MODULE MC_Parser -----------------------------
(***************************************************************************)
(* Token texts for ParseExec: programs of every statement form, binary     *)
(* expressions over every operator with a compound operand on either       *)
(* side, and texts the grammar rejects.                                    *)
(***************************************************************************)
EXTENDS ParseExec

Put(x, e) == ExprStmt(Assign(x, e))
Incr(x)   == Assign(x, Bin("+", Var(x), Num(1)))

Ops == {BinOps[t] : t \in DOMAIN BinOps}

(* x = x o1 1 o2 y, read right to left, and x = (x o1 1) o2 y, each        *)
(* followed by a statement that starts with an identifier.                 *)
Expressions ==
    UNION { { << Let("x", Num(1)), Put("x", Bin(o1, Var("x"), Bin(o2, Num(1), Var("y")))), Put("y", Var("x")) >>,
              << Let("x", Num(1)), Put("x", Bin(o2, Bin(o1, Var("x"), Num(1)), Var("y"))) >> }
            : o1, o2 \in Ops }

(* If with and without else, a condition with an assignment in           *)
(* parentheses, a loop with every header part and a continue, a top-level *)
(* break, and the short circuit of section 8 as a statement.              *)
Statements ==
    { << If(Bin("&&", Bin("<", Var("x"), Num(1)), Bin("==", Assign("y", Num(5)), Num(5))),
            << Put("y", Num(2)) >>, << Put("y", Num(3)) >>) >>,
      << If(Var("x"), << Let("z", Num(0)), Put("z", Num(1)) >>, << >>), Let("w", Num(2)) >>,
      << Let("x", Num(0)),
         For(<< Let("i", Num(0)) >>, Bin("<", Var("i"), Num(3)), Incr("i"),
             << If(Bin("==", Var("i"), Num(1)), << Jump("continue") >>, << >>), Put("x", Var("i")) >>) >>,
      << Jump("break") >>,
      << ExprStmt(Bin("&&", Num(0), Assign("x", Num(1)))) >> }

(* Row and array literals, a string, a pointer-of, calls, a member of an  *)
(* array element, an assignment to an array element.  An index is only    *)
(* ever of a variable: parse_expr_postfix drops any other parent.          *)
Postfixes ==
    { << Let("r", Row(<< Num(1), Var("x") >>)), Put("y", Member(Index(Var("a"), Num(0)), "b")) >>,
      << ExprStmt(Call(Var("f"), << Num(1), Bin("+", Var("x"), Num(2)) >>)),
         Let("a", Array(<< StrLit("s") >>)) >>,
      << Let("p", PointerOf(Var("x"))), Put("q", Bin("==", Call(Var("g"), << >>), Num(0))) >>,
      << ExprStmt(AssignTo(Index(Var("a"), Var("i")), Index(Var("a"), Num(0)))) >> }

(* The scenarios of section 7: a table defined, a row inserted and      *)
(* scanned in a transaction, and a loop emitting rows; a named tuple     *)
(* type with a sized, nullable attribute; declared let types of each     *)
(* kind; a transaction with an isolation level.                           *)
Storage ==
    { << DefineNode(TupleT(<< Attr("int", << >>, "a", {"key"}), Attr("int", << >>, "b", {}) >>), "t"),
         TxnNode("SERIALIZABLE", << InsertNode("t", Row(<< Num(1), Num(2) >>)),
                                    ScanNode("t", "row", << EmitNode(Var("row")) >>) >>) >>,
      << For(<< Let("x", Num(0)) >>, Bin("<", Var("x"), Num(5)), Incr("x"), << EmitNode(Row(<< Var("x") >>)) >>) >>,
      << TupleDef("p", TupleT(<< Attr("string", << 8 >>, "name", {"nullable", "unique"}),
                                 Attr("int", << >>, "id", {"key", "unique"}) >>)),
         LetDecl("r", Row(<< Num(1) >>), TupleT(<< Attr("int", << >>, "x", {}) >>)),
         TxnNode("snapshot", << EmitNode(Var("r")) >>) >>,
      << LetDecl("n", Num(1), PrimT("INTEGER")), LetDecl("a", Array(<< Num(1) >>), ArrayT("INTEGER")) >> }

T(type)        == [type |-> type, text |-> ""]
Ident(x)       == [type |-> "IDENTIFIER", text |-> x]
Number(n)      == [type |-> "NUMBER", text |-> n]

(* let = 1; an if block never closed; x = (1 with no ')'; a for header   *)
(* with one ';'; a stray '}' after a statement; a tuple declared with a  *)
(* primary type; an unknown attribute property; a size that is not a     *)
(* number; a scan without ','; a declared type that is no type.           *)
Rejected ==
    { << T("LET"), T("EQUAL"), Number(1) >>,
      << T("IF"), Ident("x"), T("OPEN_BRACE"), Ident("y"), T("EQUAL"), Number(1) >>,
      << Ident("x"), T("EQUAL"), T("OPEN_PAREN"), Number(1) >>,
      << T("FOR"), T("LET"), Ident("i"), T("EQUAL"), Number(0), T("SEMICOLON"),
         Ident("i"), T("OPEN_ANGLE"), Number(2), T("OPEN_BRACE"), T("CLOSE_BRACE") >>,
      << T("LET"), Ident("x"), T("EQUAL"), Number(0), T("CLOSE_BRACE") >>,
      << T("TUPLE"), Ident("p"), [type |-> "INT", text |-> "int"] >>,
      << T("DEFINE"), T("OPEN_ANGLE"), T("OPEN_BRACE"), [type |-> "INT", text |-> "int"], T("COLON"),
         Ident("a"), Ident("primary"), T("CLOSE_BRACE"), T("CLOSE_ANGLE"), Ident("t") >>,
      << T("DEFINE"), T("OPEN_ANGLE"), T("OPEN_BRACE"), Ident("string"), T("OPEN_PAREN"), Ident("n"),
         T("CLOSE_PAREN"), T("COLON"), Ident("a"), T("CLOSE_BRACE"), T("CLOSE_ANGLE"), Ident("t") >>,
      << T("SCAN"), Ident("t"), Ident("row"), T("OPEN_BRACE"), T("CLOSE_BRACE") >>,
      << T("LET"), T("OPEN_ANGLE"), Ident("string"), T("CLOSE_ANGLE"), Ident("s"), T("EQUAL"), Number(1) >> }

(* The stray '}' alone. *)
StrayBrace == { << T("LET"), Ident("x"), T("EQUAL"), Number(0), T("CLOSE_BRACE") >> }

PassPrograms == Expressions \cup Statements \cup Postfixes \cup Storage

NoPrograms == {}
=============================================================================
