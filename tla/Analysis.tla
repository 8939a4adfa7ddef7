------------------------------- MODULE Analysis -------------------------------
(***************************************************************************)
(* The analysis pass (Node::analyze) over the statements and expressions   *)
(* of ControlFlow: the analysed type of each expression and the            *)
(* variable_type_table_ the pass fills, or TypeError where it throws.      *)
(* Types are the names analyze_type_table_ gives them: "integer" and       *)
(* "bool", and "array:" followed by the element's type for an ArrayType.   *)
(***************************************************************************)
EXTENDS Integers, Sequences, TLC

TypeError == "TypeError"

Arith == {"+", "-", "*", "/", "%"}
Cmp   == {"==", "<", "<=", ">", ">=", "!="}
Logic == {"&&", "||"}

(* operate(): an INTEGER lhs takes an arithmetic operator to its own type *)
(* and a comparison to bool when the rhs matches, and throws for && and  *)
(* ||; a BOOL lhs reaches the throw after the switch.                     *)
Operate(l, r, op) ==
    IF l = "integer" /\ r = l /\ op \in Arith THEN "integer"
    ELSE IF l = "integer" /\ r = l /\ op \in Cmp THEN "bool"
    ELSE TypeError

(* Fault variant of AnalyzeExpr: a variable typed without the lookup. *)
RECURSIVE AnalyzeExprUnbound(_, _)
AnalyzeExprUnbound(e, V) ==
    CASE e.k = "num" -> "integer"
      [] e.k = "var" -> "integer"
      [] e.k = "assign" -> AnalyzeExprUnbound(e.e, V)
      [] OTHER ->
           LET l == AnalyzeExprUnbound(e.l, V)  r == AnalyzeExprUnbound(e.r, V)
           IN  IF TypeError \in {l, r} THEN TypeError ELSE Operate(l, r, e.op)

(* VariableReference::analyze: the type variable_type_table_ V holds for *)
(* x; an undefined variable throws.                                        *)
VarType(x, V) == IF x \in DOMAIN V THEN V[x] ELSE TypeError

(* Assign::analyze: its target, then its value, typed as the value. *)
AssignType(x, t, V) == IF x \notin DOMAIN V THEN TypeError ELSE t

(* analyze() of an expression under variable_type_table_ V: a             *)
(* PrimaryExpression number is an integer; a BinaryExpression analyses     *)
(* its sides, then takes the type operate() gives.                         *)
(* RowLiteral::analyze: its elements, then a TupleType over their types, *)
(* "tuple" here: no modelled expression reads a tuple's element types.    *)
RowType(ts) == IF \E i \in DOMAIN ts : ts[i] = TypeError THEN TypeError ELSE "tuple"

(* ArrayLiteral::analyze: an empty literal throws; only the first element *)
(* is analysed, and the ArrayType takes its type id.                      *)
ArrayOf(t) == IF t = TypeError THEN TypeError ELSE "array:" \o t

ArrayTypes == {ArrayOf(t) : t \in {"integer", "bool", "tuple"}}

(* ArrayReference::analyze: its parent and its index, the parent an       *)
(* ArrayType or a throw; its type_ is the parent's type, the array type   *)
(* itself.                                                                 *)
IndexType(pt, it) ==
    IF TypeError \in {pt, it} \/ pt \notin ArrayTypes THEN TypeError ELSE pt

(* Assign::analyze of any target: the target, then the value, typed as   *)
(* the value.                                                             *)
AssignToType(tt, vt) == IF tt = TypeError THEN TypeError ELSE vt

(* A declared tuple type is named after its Let's variable, as Let::      *)
(* analyze enters it in analyze_type_table_ under name_.  V also holds, at *)
(* the key "T.n", the type of the attribute n of the tuple type T: the    *)
(* names_ and types_ MemberReference::analyze reads.  Neither kind of key *)
(* can be a variable's name.                                              *)
TupleName(x) == "tuple:" \o x
TypeKey(n) == "type:" \o n
FieldKey(t, n) == t \o "." \o n

(* TupleType::analyze: "int" and "date" are integers, "double" and        *)
(* "string" themselves, any other name what analyze_type_table_ holds     *)
(* for it (the builtin integer and bool, or a Let's type); an unknown    *)
(* name throws.                                                           *)
FieldType(tn, V) ==
    CASE tn \in {"int", "date"}          -> "integer"
      [] tn \in {"double", "string"}     -> tn
      [] tn \in {"integer", "bool"}      -> tn
      [] TypeKey(tn) \in DOMAIN V        -> V[TypeKey(tn)]
      [] OTHER                           -> TypeError

(* MemberReference::analyze: the parent's type must be a TupleType with an *)
(* attribute of that name; the first such attribute's type.  A row       *)
(* literal's TupleType has no names, so no member of it is found.        *)
MemberType(pt, n, V) == IF FieldKey(pt, n) \in DOMAIN V THEN V[FieldKey(pt, n)] ELSE TypeError

(* The first attribute of attrs named n. *)
FirstNamed(attrs, n) == CHOOSE i \in DOMAIN attrs : attrs[i].name = n /\ \A j \in 1..i - 1 : attrs[j].name # n

(* Let::analyze with a declared TupleType and a row literal: the type's    *)
(* attributes resolved to fs, the type entered under the variable's name  *)
(* in analyze_type_table_, and the variable bound to it.                  *)
DeclareTuple(x, attrs, fs, V) ==
    LET t == TupleName(x) IN
    IF \E i \in DOMAIN fs : fs[i] = TypeError THEN [vars |-> V, err |-> TRUE]
    ELSE [vars |-> (x :> t) @@ (TypeKey(x) :> t)
                   @@ [k \in {FieldKey(t, attrs[i].name) : i \in DOMAIN attrs} |->
                         fs[CHOOSE i \in DOMAIN attrs : k = FieldKey(t, attrs[i].name) /\
                                                        i = FirstNamed(attrs, attrs[i].name)]]
                   @@ V,
          err |-> FALSE]

RECURSIVE AnalyzeExpr(_, _)
AnalyzeExpr(e, V) ==
    CASE e.k = "num" -> "integer"
      [] e.k = "var" -> VarType(e.x, V)
      [] e.k = "assign" -> AssignType(e.x, AnalyzeExpr(e.e, V), V)
      [] e.k = "row" -> RowType([i \in DOMAIN e.es |-> AnalyzeExpr(e.es[i], V)])
      [] e.k = "array" -> IF e.es = <<>> THEN TypeError ELSE ArrayOf(AnalyzeExpr(e.es[1], V))
      [] e.k = "index" -> IndexType(AnalyzeExpr(e.e, V), AnalyzeExpr(e.i, V))
      [] e.k = "assignto" -> AssignToType(AnalyzeExpr(e.t, V), AnalyzeExpr(e.e, V))
      [] e.k = "member" -> MemberType(AnalyzeExpr(e.e, V), e.name, V)
      [] OTHER ->
           LET l == AnalyzeExpr(e.l, V)  r == AnalyzeExpr(e.r, V)
           IN  IF TypeError \in {l, r} THEN TypeError ELSE Operate(l, r, e.op)

(* The pass's state: variable_type_table_ and whether it has thrown. *)
Typed(V, err) == [vars |-> V, err |-> err]

RECURSIVE AnalyzeStmt(_, _), AnalyzeBlock(_, _)

(* Let::analyze: its expression, then, for a row literal with a declared *)
(* type, that type; for an array literal, the array type, also entered in *)
(* analyze_type_table_ (a declared type is ignored); for any other value, *)
(* the value's type, unless a type is declared, which throws.             *)
LetBound(s, t, V) ==
    CASE t = TypeError -> Typed(V, TRUE)
      [] "type" \in DOMAIN s /\ s.e.k = "row" ->
           DeclareTuple(s.x, s.type.attrs, [i \in DOMAIN s.type.attrs |-> FieldType(s.type.attrs[i].type, V)], V)
      [] s.e.k = "array" -> Typed((s.x :> t) @@ (TypeKey(s.x) :> t) @@ V, FALSE)
      [] "type" \in DOMAIN s -> Typed(V, TRUE)
      [] OTHER -> Typed((s.x :> t) @@ V, FALSE)

LetTyped(s, A) == LetBound(s, AnalyzeExpr(s.e, A.vars), A.vars)

(* analyze() of a statement: ExprStatement and Emit their expression; If   *)
(* its two blocks but not its condition; For its init, condition, step   *)
(* and body, each when present; Jump nothing.                             *)
AnalyzeStmt(s, A) ==
    CASE A.err -> A
      [] s.k = "let"  -> LetTyped(s, A)
      [] s.k \in {"expr", "emit"} -> Typed(A.vars, AnalyzeExpr(s.e, A.vars) = TypeError)
      [] s.k = "if"   -> AnalyzeBlock(s.f, AnalyzeBlock(s.t, A))
      [] s.k = "for"  ->
           LET I == AnalyzeBlock(s.init, A)
               Opt(e) == e.k = "none" \/ AnalyzeExpr(e, I.vars) # TypeError
           IN  IF I.err \/ ~Opt(s.c) \/ ~Opt(s.step) THEN Typed(I.vars, TRUE)
               ELSE AnalyzeBlock(s.body, I)
      [] s.k = "jump" -> A

(* Block::analyze: its statements in order. *)
AnalyzeBlock(ss, A) == IF ss = <<>> THEN A ELSE AnalyzeBlock(Tail(ss), AnalyzeStmt(Head(ss), A))

(* ast->analyze(ctx) in Compiler::compile, from an empty table. *)
Analyze(prog) == AnalyzeBlock(prog, Typed([x \in {} |-> "integer"], FALSE))

-----------------------------------------------------------------------------
(* The type rules of the specification (section 4.3): an unbound variable, *)
(* mismatched operand types or an unsupported operator is a TypeError;     *)
(* arithmetic on integers is an integer; a comparison of matching types is *)
(* a bool; && and || are unsupported only on doubles (and give a bool); no *)
(* operator applies to an Array or a Tuple; a Let with a declared type     *)
(* records that type, and a member of a Tuple has its attribute's type; a  *)
(* row literal is a tuple of its elements' types; an array literal is     *)
(* non-empty and an Array of its first element's type, an index of an     *)
(* Array has the element type, and an assignment to an element has the    *)
(* value's type.                                                           *)
ElemOf(t) == CHOOSE u \in {"integer", "bool", "tuple"} : t = ArrayOf(u)

(* A declared attribute type: "int" names Integer, "date" Date, and the   *)
(* other primary types their own names; any other name is unbound.        *)
SpecFieldType(tn) ==
    CASE tn = "int"                                         -> "integer"
      [] tn \in {"date", "integer", "bool", "double", "string"} -> tn
      [] OTHER                                              -> TypeError

(* Every statement is checked, an If's condition included.                 *)
SpecOperate(l, r, op) ==
    CASE l # r                        -> TypeError
      [] l \notin {"integer", "bool", "double", "string", "date"} -> TypeError
      [] op \in Arith /\ l = "integer" -> "integer"
      [] op \in Cmp \cup Logic        -> "bool"
      [] OTHER                        -> TypeError

RECURSIVE SpecType(_, _)
SpecType(e, V) ==
    CASE e.k = "num" -> "integer"
      [] e.k = "var" -> IF e.x \in DOMAIN V THEN V[e.x] ELSE TypeError
      [] e.k = "assign" -> IF e.x \notin DOMAIN V THEN TypeError ELSE SpecType(e.e, V)
      [] e.k = "row" ->
           IF \E i \in DOMAIN e.es : SpecType(e.es[i], V) = TypeError THEN TypeError
           ELSE "tuple"
      [] e.k = "array" ->
           IF e.es = <<>> \/ \E i \in DOMAIN e.es : SpecType(e.es[i], V) = TypeError THEN TypeError
           ELSE ArrayOf(SpecType(e.es[1], V))
      [] e.k = "index" ->
           IF SpecType(e.e, V) \notin ArrayTypes \/ SpecType(e.i, V) = TypeError THEN TypeError
           ELSE ElemOf(SpecType(e.e, V))
      [] e.k = "assignto" ->
           IF SpecType(e.t, V) = TypeError THEN TypeError ELSE SpecType(e.e, V)
      [] e.k = "member" -> MemberType(SpecType(e.e, V), e.name, V)
      [] OTHER ->
           LET l == SpecType(e.l, V)  r == SpecType(e.r, V)
           IN  IF TypeError \in {l, r} THEN TypeError ELSE SpecOperate(l, r, e.op)

RECURSIVE SpecCheck(_, _), SpecCheckBlock(_, _)
SpecCheck(s, A) ==
    LET OK(e, V) == e.k = "none" \/ SpecType(e, V) # TypeError IN
    CASE A.err -> A
      [] s.k = "let" /\ ~OK(s.e, A.vars) -> Typed(A.vars, TRUE)
      [] s.k = "let" /\ "type" \in DOMAIN s ->
           DeclareTuple(s.x, s.type.attrs, [i \in DOMAIN s.type.attrs |-> SpecFieldType(s.type.attrs[i].type)], A.vars)
      [] s.k = "let"  -> Typed((s.x :> SpecType(s.e, A.vars)) @@ A.vars, FALSE)
      [] s.k \in {"expr", "emit"} -> Typed(A.vars, ~OK(s.e, A.vars))
      [] s.k = "if"   -> IF OK(s.c, A.vars) THEN SpecCheckBlock(s.f, SpecCheckBlock(s.t, A))
                         ELSE Typed(A.vars, TRUE)
      [] s.k = "for"  ->
           LET I == SpecCheckBlock(s.init, A)
           IN  IF I.err \/ ~OK(s.c, I.vars) \/ ~OK(s.step, I.vars) THEN Typed(I.vars, TRUE)
               ELSE SpecCheckBlock(s.body, I)
      [] s.k = "jump" -> A

SpecCheckBlock(ss, A) == IF ss = <<>> THEN A ELSE SpecCheckBlock(Tail(ss), SpecCheck(Head(ss), A))

SpecTyped(prog) == ~SpecCheckBlock(prog, Typed([x \in {} |-> "integer"], FALSE)).err
=============================================================================
