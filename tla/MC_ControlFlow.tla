--------------------------- MODULE MC_ControlFlow ---------------------------
(***************************************************************************)
(* Programs for CFGExec: the statement forms of the language built from a  *)
(* few variables and small constants.                                      *)
(***************************************************************************)
EXTENDS CFGExec

Incr(x) == Assign(x, Bin("+", Var(x), Num(1)))
Put(x, e) == ExprStmt(Assign(x, e))

(* The short circuit of section 8 inside If conditions, the one place    *)
(* analyze lets && and || through: a && or || whose rhs assigns x, then   *)
(* an If on a && or || whose rhs is itself a && or || that may assign y,  *)
(* so the phi's second block is not bin_next.  Every operand is a         *)
(* comparison, so the specification types each condition too.            *)
ShortCircuit(o1, o2, a, b) ==
    << Let("x", Num(0)), Let("y", Num(b)),
       If(Bin(o1, Bin("==", Num(a), Num(1)), Bin("==", Assign("x", Num(1)), Num(1))),
          << >>, << >>),
       If(Bin(o2, Bin("<", Var("x"), Num(1)),
                  Bin(o1, Bin("<", Var("y"), Num(1)), Bin("==", Assign("y", Num(5)), Num(5)))),
          << Put("y", Num(2)) >>, << Put("y", Bin("-", Var("y"), Num(3))) >>) >>

(* Programs both type systems reject: an undefined variable, arithmetic  *)
(* on a bool, and an assignment to an undefined variable in a loop step. *)
IllTyped ==
    { << Let("x", Var("y")) >>,
      << Let("b", Bin("<", Num(0), Num(1))), Put("b", Bin("+", Var("b"), Num(1))) >>,
      << For(<< Let("i", Num(0)) >>, Bin("<", Var("i"), Num(2)), Incr("j"), << >>) >> }

(* A counted loop whose body branches on i % 2 and emits {i, x}, with n   *)
(* iterations.                                                            *)
Counted(n) ==
    << Let("x", Num(0)),
       For(<< Let("i", Num(0)) >>, Bin("<", Var("i"), Num(n)), Incr("i"),
           << If(Bin("%", Var("i"), Num(2)),
                 << Put("x", Bin("+", Var("x"), Var("i"))) >>,
                 << Put("x", Bin("/", Bin("-", Var("x"), Num(3)), Num(2))) >>),
              EmitNode(Row(<< Var("i"), Var("x") >>)) >>) >>

(* Two nested loops without a let in the inner init, and a loop without a *)
(* step.                                                                   *)
Nested(n) ==
    << Let("x", Num(0)), Let("i", Num(0)), Let("j", Num(0)),
       For(<< >>, Bin("<", Var("i"), Num(n)), Incr("i"),
           << For(<< Put("j", Num(0)) >>, Bin("<", Var("j"), Num(2)), Incr("j"),
                  << Put("x", Bin("+", Bin("*", Var("x"), Num(2)), Var("j"))) >>) >>),
       For(<< >>, Bin(">", Var("i"), Num(0)), None,
           << Put("i", Bin("-", Var("i"), Num(1))) >>) >>

(* The loop of section 8, emitting 0 to 4, and an emit of a value that is *)
(* not a row, which analyze lets through and Emit::codegen throws on.     *)
Emits ==
    { << For(<< Let("x", Num(0)) >>, Bin("<", Var("x"), Num(5)), Incr("x"),
             << EmitNode(Row(<< Var("x") >>)) >>) >>,
      << Let("x", Num(0)), EmitNode(Var("x")) >> }

(* An array of three, its elements set in a loop of n iterations by an   *)
(* assignment through a[i], then an element read into y and a row of an  *)
(* element and y emitted.  Every index stays inside the array, and y is  *)
(* never used in arithmetic (analyze types a[1] as the array).           *)
Arrays(n) ==
    << Let("a", Array(<< Num(0), Num(0), Num(0) >>)),
       For(<< Let("i", Num(0)) >>, Bin("<", Var("i"), Num(n)), Incr("i"),
           << ExprStmt(AssignTo(Index(Var("a"), Var("i")), Bin("*", Var("i"), Num(2)))) >>),
       Let("y", Index(Var("a"), Num(1))),
       EmitNode(Row(<< Index(Var("a"), Num(2)), Var("y") >>)) >>

(* A row declared <{int: a, int: b}>, its b accumulated in a loop of n   *)
(* iterations through r.b, its a read into y, then the row and a row of  *)
(* r.b and y emitted; and a member the declared type does not have, which *)
(* both type systems reject.                                              *)
IntAttrs == << Attr("int", << >>, "a", {}), Attr("int", << >>, "b", {}) >>
Members(n) ==
    << LetDecl("r", Row(<< Num(1), Num(0) >>), TupleT(IntAttrs)),
       For(<< Let("i", Num(0)) >>, Bin("<", Var("i"), Num(n)), Incr("i"),
           << ExprStmt(AssignTo(Member(Var("r"), "b"), Bin("+", Member(Var("r"), "b"), Var("i")))) >>),
       Let("y", Member(Var("r"), "a")),
       EmitNode(Var("r")),
       EmitNode(Row(<< Member(Var("r"), "b"), Var("y") >>)) >>
NoMember == << LetDecl("r", Row(<< Num(1), Num(0) >>), TupleT(IntAttrs)), Let("y", Member(Var("r"), "c")) >>

PassPrograms ==
    { ShortCircuit(o1, o2, a, b) : o1, o2 \in {"&&", "||"}, a, b \in {0, 1} }
    \cup { Counted(n) : n \in 0..3 } \cup { Nested(n) : n \in 1..2 } \cup IllTyped \cup Emits
    \cup { Arrays(n) : n \in 2..3 } \cup { Members(n) : n \in 2..3 } \cup { NoMember }

(* break in a loop, the way every program that uses it does: under an If. *)
BreakPrograms ==
    { << Let("x", Num(0)),
         For(<< Let("i", Num(0)) >>, Bin("<", Var("i"), Num(3)), Incr("i"),
             << If(Bin("==", Var("i"), Num(1)), << Jump("break") >>, << >>),
                Put("x", Var("i")) >>) >> }

(* The example of section 8, as an expression statement. *)
AndPrograms ==
    { << Let("x", Num(0)), ExprStmt(Bin("&&", Num(0), Assign("x", Num(1)))) >> }

MC_MaxSteps == 48
=============================================================================
