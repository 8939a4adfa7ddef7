------------------------------- MODULE Parser -------------------------------
(***************************************************************************)
(* The recursive-descent parser of exec/ast_expression_parser.cpp and      *)
(* exec/ast_statement_parser.cpp over a TokenStream, for the node forms of *)
(* AST.  A token is [type, text]: an IDENTIFIER's text is its name, a      *)
(* NUMBER's the value std::stoi gives it, the INT token's "int", any      *)
(* other token's "" (the parser only reads those three texts).  The        *)
(* stream is a sequence ts and a position p (idx_ + 1); get() at p past    *)
(* the end throws.                                                         *)
(*                                                                         *)
(* A parse function returns Ok(node, p), p the position after the node, or *)
(* Fail where the C++ code throws (expect_token, get() at the end, an      *)
(* unknown token).                                                         *)
(* The types of exec/ast_node_parser.cpp are parsed here too: the row     *)
(* types of Define and Let, and the tuple types of DefineTuple.            *)
(***************************************************************************)
EXTENDS Integers, Sequences, TLC, AST

Ok(node, p) == [ok |-> TRUE, node |-> node, p |-> p]
Fail        == [ok |-> FALSE, node |-> None, p |-> 0]

Null   == [k |-> "null"]     \* a nullptr: parse_statement's at '}', an index's parent
Uninit == [k |-> "uninit"]   \* a member For::For leaves uninitialised

(* The nodes only the parser builds. *)
StrLit(w)        == [k |-> "str", w |-> w]                       \* PrimaryExpression
PointerOf(e)     == [k |-> "ptr", e |-> e]
Call(f, args)    == [k |-> "call", f |-> f, args |-> args]       \* FunctionCall
BlockNode(ss)    == [k |-> "block", ss |-> ss]                   \* Block
TxnNode(iso, ss) == [k |-> "txn", iso |-> iso, ss |-> ss]        \* Transaction
DefineNode(t, x) == [k |-> "define", schema |-> t, x |-> x]      \* Define
TupleDef(x, t)   == [k |-> "tuple", x |-> x, type |-> t]         \* DefineTuple
InsertNode(t, e) == [k |-> "insert", table |-> t, e |-> e]       \* Insert
ScanNode(t, r, ss) == [k |-> "scan", table |-> t, row |-> r, ss |-> ss]  \* Scan

(* The types of ast_node.hpp: PrimaryType and ArrayType (TupleType is in *)
(* AST).                                                                  *)
PrimT(t)       == [k |-> "primT", t |-> t]
ArrayT(t)      == [k |-> "arrayT", t |-> t]   \* t: the element's type_ only

(* tokens.get().type at p; "EOF" where get() would throw. *)
Ty(ts, p) == IF p \in 1..Len(ts) THEN ts[p].type ELSE "EOF"

(* The operators of the binary case of parse_expr_postfix. *)
BinOps ==
    [PLUS |-> "+", MINUS |-> "-", ASTERISK |-> "*", SLASH |-> "/",
     PERCENT |-> "%", OPEN_ANGLE |-> "<", CLOSE_ANGLE |-> ">",
     EQUAL_EQUAL |-> "==", EXCLAMATION_MARK_EQUAL |-> "!=",
     OPEN_ANGLE_EQUAL |-> "<=", CLOSE_ANGLE_EQUAL |-> ">=",
     AND_AND |-> "&&", OR_OR |-> "||"]

(* Fault variant of OperatorOf: '<' and '>' swapped in the switch. *)
OperatorOfSwapped(t) ==
    CASE t = "OPEN_ANGLE" -> ">" [] t = "CLOSE_ANGLE" -> "<" [] OTHER -> BinOps[t]

(* The switch from the operator token to the operators value. *)
OperatorOf(t) == BinOps[t]

(* A parse result r followed by the token tok, which is consumed         *)
(* (expect_token, then next()).                                            *)
Closed(ts, r, tok) == IF r.ok /\ Ty(ts, r.p) = tok THEN Ok(r.node, r.p + 1) ELSE Fail

(* The node Node builds from a successful parse result r. *)
Wrap(r, Node(_)) == IF r.ok THEN Ok(Node(r.node), r.p) ELSE Fail

RECURSIVE ParseExpr(_, _), ParsePostfix(_, _, _), ParseList(_, _, _, _)

(* The element loop of RowLiteral, ArrayLiteral and FunctionCall after    *)
(* the opening token: expressions separated by ',' up to the closing      *)
(* token close, which is consumed.  Returns the elements as the node.     *)
ParseList(ts, p, close, es) ==
    IF Ty(ts, p) = close THEN Ok(es, p + 1)
    ELSE LET e == ParseExpr(ts, p) IN
         CASE ~e.ok                   -> Fail
           [] Ty(ts, e.p) = close     -> Ok(Append(es, e.node), e.p + 1)
           [] Ty(ts, e.p) = "COMMA"   -> ParseList(ts, e.p + 1, close, Append(es, e.node))
           [] OTHER                   -> Fail

(* FunctionCall::FunctionCall: the arguments in parentheses. *)
ParseCall(ret, ts, p) ==
    LET a == ParseList(ts, p + 1, "CLOSE_PAREN", <<>>) IN
    IF a.ok THEN Ok(Call(ret, a.node), a.p) ELSE Fail

(* ArrayReference::ArrayReference: '[', the index, ']'.  parse_expr_      *)
(* postfix hands it dynamic_cast<VariableReference*>(ret): any parent but *)
(* a variable becomes a nullptr parent (Null).                            *)
IndexParent(ret) == IF ret.k = "var" THEN ret ELSE Null
ParseIndex(ret, ts, p) ==
    LET i == ParseExpr(ts, p + 1) IN
    IF i.ok /\ Ty(ts, i.p) = "CLOSE_BRACKET" THEN Ok(Index(IndexParent(ret), i.node), i.p + 1) ELSE Fail

(* MemberReference::MemberReference: '.', then the next token's text,     *)
(* whatever its type.                                                      *)
ParseMember(ret, ts, p) ==
    IF p + 1 <= Len(ts) THEN Ok(Member(ret, ts[p + 1].text), p + 2) ELSE Fail

(* ArrayLiteral::ArrayLiteral: elements between '[' and ']'. *)
ParseArrayLit(ts, p) ==
    LET l == ParseList(ts, p + 1, "CLOSE_BRACKET", <<>>) IN
    IF l.ok THEN Ok(Array(l.node), l.p) ELSE Fail

(* parse_expr_postfix: a call, an index or a member access extends the    *)
(* expression and goes on; '=' makes an Assign of everything after it and *)
(* goes on from there; a binary operator takes the whole rest of the      *)
(* expression as its right-hand side; anything else, or the end, ends the *)
(* expression.                                                             *)
ParsePostfix(ret, ts, p) ==
    LET t == Ty(ts, p)
        x == CASE t = "OPEN_PAREN"   -> ParseCall(ret, ts, p)
               [] t = "OPEN_BRACKET" -> ParseIndex(ret, ts, p)
               [] t = "PERIOD"       -> ParseMember(ret, ts, p)
               [] OTHER              -> Fail
    IN
    CASE t \in {"OPEN_PAREN", "OPEN_BRACKET", "PERIOD"} ->
           IF x.ok THEN ParsePostfix(x.node, ts, x.p) ELSE Fail
      [] t = "EQUAL" ->
           LET v == ParseExpr(ts, p + 1) IN
           IF ~v.ok THEN Fail
           ELSE ParsePostfix(IF ret.k = "var" THEN Assign(ret.x, v.node) ELSE AssignTo(ret, v.node),
                             ts, v.p)
      [] t \in DOMAIN BinOps ->
           LET r == ParseExpr(ts, p + 1) IN
           IF r.ok THEN Ok(Bin(OperatorOf(t), ret, r.node), r.p) ELSE Fail
      [] OTHER -> Ok(ret, p)

(* parse_expr: a pointer-of, a row literal, a parenthesised expression,   *)
(* an array literal, a variable, a number or a string, then its postfixes. *)
ParseExpr(ts, p) ==
    LET t    == Ty(ts, p)
        prim == CASE t = "AND" ->
                       LET e == ParseExpr(ts, p + 1) IN IF e.ok THEN Ok(PointerOf(e.node), e.p) ELSE Fail
                  [] t = "OPEN_BRACE" ->
                       LET l == ParseList(ts, p + 1, "CLOSE_BRACE", <<>>) IN
                       IF l.ok THEN Ok(Row(l.node), l.p) ELSE Fail
                  [] t = "OPEN_PAREN" ->
                       LET e == ParseExpr(ts, p + 1) IN
                       IF e.ok /\ Ty(ts, e.p) = "CLOSE_PAREN" THEN Ok(e.node, e.p + 1) ELSE Fail
                  [] t = "OPEN_BRACKET"   -> ParseArrayLit(ts, p)
                  [] t = "IDENTIFIER"     -> Ok(Var(ts[p].text), p + 1)
                  [] t = "NUMBER"         -> Ok(Num(ts[p].text), p + 1)
                  [] t = "STRING_LITERAL" -> Ok(StrLit(ts[p].text), p + 1)
                  [] OTHER                -> Fail
    IN  IF prim.ok THEN ParsePostfix(prim.node, ts, prim.p) ELSE Fail

(* PrimaryType::type_parse *)
TypeParse ==
    ("int" :> "INTEGER") @@ ("double" :> "DOUBLE") @@ ("bool" :> "BOOL")
      @@ ("string" :> "STRING") @@ ("date" :> "DATE")

(* Type::type_, the type_id a parsed type carries. *)
TypeId(t) == CASE t.k = "primT" -> t.t [] t.k = "arrayT" -> "ARRAY" [] t.k = "tupleT" -> "TUPLE"

RECURSIVE ParseType(_, _), ParseAttrs(_, _, _), ParseProps(_, _, _)

(* The property loop of TupleType::TupleType: identifiers key, nullable   *)
(* and unique or'ed into the flags; any other identifier throws.          *)
ParseProps(ts, p, ps) ==
    CASE Ty(ts, p) # "IDENTIFIER"                   -> Ok(ps, p)
      [] ts[p].text \in {"key", "nullable", "unique"} -> ParseProps(ts, p + 1, ps \cup {ts[p].text})
      [] OTHER                                      -> Fail

(* The attribute loop of TupleType::TupleType: a type name (any token's  *)
(* text), an optional '(' number ')', ':', the attribute name, its        *)
(* properties; another attribute follows a ','.                           *)
ParseAttrs(ts, p, as) ==
    LET par  == CASE p > Len(ts) -> Fail
                  [] Ty(ts, p + 1) # "OPEN_PAREN" -> Ok(<< >>, p + 1)
                  [] Ty(ts, p + 2) = "NUMBER" /\ Ty(ts, p + 3) = "CLOSE_PAREN" -> Ok(<< ts[p + 2].text >>, p + 4)
                  [] OTHER -> Fail
        q    == par.p
        prop == IF par.ok /\ Ty(ts, q) = "COLON" /\ Ty(ts, q + 1) = "IDENTIFIER"
                THEN ParseProps(ts, q + 2, {}) ELSE Fail
        as2  == Append(as, Attr(ts[p].text, par.node, ts[q + 1].text, prop.node))
    IN  CASE ~prop.ok                      -> Fail
          [] Ty(ts, prop.p) # "COMMA"      -> Ok(as2, prop.p)
          [] OTHER                         -> ParseAttrs(ts, prop.p + 1, as2)

(* parse_type: an ArrayType in '[' ']', a TupleType in '{' '}', or a      *)
(* PrimaryType, which must be the INT token.                               *)
ParseType(ts, p) ==
    LET t == Ty(ts, p) IN
    CASE t = "OPEN_BRACKET" ->
           Wrap(Closed(ts, ParseType(ts, p + 1), "CLOSE_BRACKET"), LAMBDA e : ArrayT(TypeId(e)))
      [] t = "OPEN_BRACE" ->
           Wrap(Closed(ts, ParseAttrs(ts, p + 1, <<>>), "CLOSE_BRACE"), TupleT)
      [] t = "INT" /\ ts[p].text \in DOMAIN TypeParse -> Ok(PrimT(TypeParse[ts[p].text]), p + 1)
      [] OTHER -> Fail

(* parse_row_type: a type between '<' and '>'. *)
ParseRowType(ts, p) ==
    IF Ty(ts, p) = "OPEN_ANGLE" THEN Closed(ts, ParseType(ts, p + 1), "CLOSE_ANGLE") ELSE Fail

RECURSIVE ParseStatement(_, _), ParseBlock(_, _), ParseStmts(_, _, _)

(* Let::Let after the optional row type t: a name, '=', an expression.   *)
LetNamed(ts, t) ==
    IF t.ok /\ Ty(ts, t.p) = "IDENTIFIER" /\ Ty(ts, t.p + 1) = "EQUAL"
    THEN Wrap(ParseExpr(ts, t.p + 2),
              LAMBDA e : IF t.node = None THEN Let(ts[t.p].text, e) ELSE LetDecl(ts[t.p].text, e, t.node))
    ELSE Fail

(* Let::Let: 'let', then a row type when '<' follows (type_ nullptr, None *)
(* here, otherwise).                                                       *)
ParseLet(ts, p) ==
    LetNamed(ts, IF Ty(ts, p + 1) = "OPEN_ANGLE" THEN ParseRowType(ts, p + 1) ELSE Ok(None, p + 1))

(* Transaction::Transaction: 'transaction', the isolation level (the text *)
(* of whatever token precedes '{', "SERIALIZABLE" when none does), then  *)
(* the block.                                                              *)
ParseTransaction(ts, p) ==
    LET iso == IF Ty(ts, p + 1) # "OPEN_BRACE" /\ p + 1 <= Len(ts) THEN Ok(ts[p + 1].text, p + 2)
               ELSE Ok("SERIALIZABLE", p + 1)
    IN  Wrap(ParseBlock(ts, iso.p), LAMBDA b : TxnNode(iso.node, b.ss))

(* Define::Define after its row type r: the table name.  schema_ is the  *)
(* dynamic_cast of the row type to a TupleType: Null for any other type.  *)
DefineNamed(ts, r) ==
    IF r.ok /\ Ty(ts, r.p) = "IDENTIFIER"
    THEN Ok(DefineNode(IF r.node.k = "tupleT" THEN r.node ELSE Null, ts[r.p].text), r.p + 1)
    ELSE Fail

(* Define::Define: 'define', a row type, the table name. *)
ParseDefine(ts, p) == DefineNamed(ts, ParseRowType(ts, p + 1))

(* DefineTuple::DefineTuple: 'tuple', a name, a type that must be a       *)
(* TupleType ("invalid define tuple" otherwise).                           *)
ParseDefineTuple(ts, p) ==
    LET Typed(t) == IF t.ok /\ t.node.k = "tupleT" THEN Ok(TupleDef(ts[p + 1].text, t.node), t.p) ELSE Fail
    IN  IF Ty(ts, p + 1) = "IDENTIFIER" THEN Typed(ParseType(ts, p + 2)) ELSE Fail

(* Emit::Emit: 'emit', an expression. *)
ParseEmit(ts, p) == Wrap(ParseExpr(ts, p + 1), EmitNode)

(* Insert::Insert: 'insert', the table, then an expression that must      *)
(* start at '{' (a row literal); the '{' is not consumed here.             *)
ParseInsert(ts, p) ==
    IF Ty(ts, p + 1) = "IDENTIFIER" /\ Ty(ts, p + 2) = "OPEN_BRACE"
    THEN Wrap(ParseExpr(ts, p + 2), LAMBDA e : InsertNode(ts[p + 1].text, e))
    ELSE Fail

(* Scan::Scan: 'scan', the table, ',', the row name (any token's text),  *)
(* the block.                                                              *)
ParseScan(ts, p) ==
    IF Ty(ts, p + 1) = "IDENTIFIER" /\ Ty(ts, p + 2) = "COMMA" /\ p + 3 <= Len(ts)
    THEN Wrap(ParseBlock(ts, p + 4), LAMBDA b : ScanNode(ts[p + 1].text, ts[p + 3].text, b.ss))
    ELSE Fail

(* If::If after the condition c and the true block t: an 'else' block    *)
(* when the next token is 'else'; false_block_ stays nullptr otherwise.    *)
IfElse(ts, c, t) ==
    CASE ~t.ok                -> Fail
      [] Ty(ts, t.p) # "ELSE" -> Ok(If(c, t.node.ss, <<>>), t.p)
      [] OTHER                -> Wrap(IF Ty(ts, t.p + 1) = "OPEN_BRACE" THEN ParseBlock(ts, t.p + 1) ELSE Fail,
                                      LAMBDA f : If(c, t.node.ss, f.ss))

(* If::If: 'if', the condition, a block, the optional else block. *)
ParseIf(ts, p) ==
    LET Cond(c) == IF c.ok /\ Ty(ts, c.p) = "OPEN_BRACE" THEN IfElse(ts, c.node, ParseBlock(ts, c.p)) ELSE Fail
    IN  Cond(ParseExpr(ts, p + 1))

(* The condition or step of a for header: an expression, unless the      *)
(* token is ';'.  A part left out is never assigned, so its member keeps  *)
(* whatever the allocation held.                                           *)
ForPart(ts, p) == IF Ty(ts, p) # "SEMICOLON" THEN ParseExpr(ts, p) ELSE Ok(Uninit, p)

(* For::For after the step s: '{' and the body block. *)
ForStep(ts, init, c, s) ==
    IF s.ok /\ Ty(ts, s.p) = "OPEN_BRACE"
    THEN Wrap(ParseBlock(ts, s.p),
              LAMBDA b : For(IF init = Uninit THEN Uninit ELSE <<init>>, c, s.node, b.ss))
    ELSE Fail

(* For::For after the condition c: ';', then the step. *)
ForCond(ts, init, c) ==
    IF c.ok /\ Ty(ts, c.p) = "SEMICOLON" THEN ForStep(ts, init, c.node, ForPart(ts, c.p + 1)) ELSE Fail

(* For::For after the init statement i: ';', then the condition. *)
ForInit(ts, i) ==
    IF i.ok /\ Ty(ts, i.p) = "SEMICOLON" THEN ForCond(ts, i.node, ForPart(ts, i.p + 1)) ELSE Fail

(* For::For: 'for', then the init statement unless the token is ';'. *)
ParseFor(ts, p) ==
    ForInit(ts, IF Ty(ts, p + 1) # "SEMICOLON" THEN ParseStatement(ts, p + 1) ELSE Ok(Uninit, p + 1))

(* parse_statement: the statement its first token starts; nullptr at '}'. *)
ParseStatement(ts, p) ==
    LET t == Ty(ts, p) IN
    CASE t = "CLOSE_BRACE" -> Ok(Null, p)
      [] t = "OPEN_BRACE"  -> ParseBlock(ts, p)
      [] t = "LET"         -> ParseLet(ts, p)
      [] t = "IF"          -> ParseIf(ts, p)
      [] t = "FOR"         -> ParseFor(ts, p)
      [] t = "TRANSACTION" -> ParseTransaction(ts, p)
      [] t = "DEFINE"      -> ParseDefine(ts, p)
      [] t = "EMIT"        -> ParseEmit(ts, p)
      [] t = "INSERT"      -> ParseInsert(ts, p)
      [] t = "SCAN"        -> ParseScan(ts, p)
      [] t = "TUPLE"       -> ParseDefineTuple(ts, p)
      [] t = "BREAK"       -> Ok(Jump("break"), p + 1)
      [] t = "CONTINUE"    -> Ok(Jump("continue"), p + 1)
      [] t \in {"OPEN_BRACKET", "OPEN_PAREN", "NUMBER", "STRING_LITERAL", "IDENTIFIER"} ->
           Wrap(ParseExpr(ts, p), ExprStmt)
      [] OTHER             -> Fail

(* Block::Block after its '{': statements up to the '}'. *)
ParseStmts(ts, p, ss) ==
    IF Ty(ts, p) = "CLOSE_BRACE" THEN Ok(BlockNode(ss), p + 1)
    ELSE LET st == ParseStatement(ts, p) IN
         IF ~st.ok THEN Fail
         ELSE ParseStmts(ts, st.p, IF st.node = Null THEN ss ELSE Append(ss, st.node))

ParseBlock(ts, p) == IF Ty(ts, p) = "OPEN_BRACE" THEN ParseStmts(ts, p + 1, <<>>) ELSE Fail
=============================================================================
