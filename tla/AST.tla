--------------------------------- MODULE AST ---------------------------------
(***************************************************************************)
(* The expression and statement nodes of exec/ast_expression.hpp and       *)
(* exec/ast_statement.hpp that ControlFlow, Analysis and Parser work on,   *)
(* as records tagged by their kind.  A child pointer is a nested record;   *)
(* a Block* is the sequence of its statements_.                            *)
(***************************************************************************)

None == [k |-> "none"]   \* an absent cond_, every_ or else block

Num(n)          == [k |-> "num", n |-> n]                   \* PrimaryExpression
Var(x)          == [k |-> "var", x |-> x]                   \* VariableReference
Bin(o, l, r)    == [k |-> "bin", op |-> o, l |-> l, r |-> r]
Assign(x, e)    == [k |-> "assign", x |-> x, e |-> e]       \* Assign to a variable
AssignTo(t, e)  == [k |-> "assignto", t |-> t, e |-> e]     \* Assign to another target_
Let(x, e)       == [k |-> "let", x |-> x, e |-> e]
ExprStmt(e)     == [k |-> "expr", e |-> e]
If(c, t, f)     == [k |-> "if", c |-> c, t |-> t, f |-> f]
For(i, c, s, b) == [k |-> "for", init |-> i, c |-> c, step |-> s, body |-> b]
Jump(t)         == [k |-> "jump", t |-> t]
Row(es)         == [k |-> "row", es |-> es]                 \* RowLiteral
EmitNode(e)     == [k |-> "emit", e |-> e]                  \* Emit
Array(es)       == [k |-> "array", es |-> es]               \* ArrayLiteral
Index(e, i)     == [k |-> "index", e |-> e, i |-> i]        \* ArrayReference
Member(e, name) == [k |-> "member", e |-> e, name |-> name] \* MemberReference
LetDecl(x, e, t) == [k |-> "let", x |-> x, e |-> e, type |-> t]  \* Let with type_

(* TupleType of ast_node.hpp: its attributes, each carrying the type name, *)
(* the size parameter (<< >> for a nullptr), the name and the property     *)
(* flags.                                                                  *)
TupleT(attrs)  == [k |-> "tupleT", attrs |-> attrs]
Attr(tn, n, nm, props) == [type |-> tn, param |-> n, name |-> nm, props |-> props]
=============================================================================
