----------------------------- MODULE ControlFlow -----------------------------
(***************************************************************************)
(* Code generation of the control-flow statements and expressions of      *)
(* exec/ast_statement_codegen.cpp and exec/ast_expression_codegen.cpp:    *)
(* Let, ExprStatement, If, For, Jump, Emit, VariableReference, Assign,     *)
(* BinaryExpression (with the short-circuit && and ||), RowLiteral,        *)
(* ArrayLiteral and ArrayReference, after the alloca_stack pass of         *)
(* Compiler::compile.                                                      *)
(*                                                                         *)
(* The LLVM function is a sequence of basic blocks, each a sequence of     *)
(* instructions; a value is an SSA temporary numbered in creation order,   *)
(* with an LLVM type "i64", "i1", "ptr", a struct named by its signature   *)
(* "{t,...,}" or an array type "[n x t]".  A stack slot is named after its *)
(* variable, as variable_table_ is keyed by name.  The code generator's    *)
(* state G holds the blocks, the insert block cur, the types of the        *)
(* temporaries, the loop-context stack (innermost first), the slot types   *)
(* and crash, set where the C++ code throws or dereferences a null         *)
(* loop_.                                                                  *)
(***************************************************************************)
EXTENDS Integers, Sequences, SequencesExt, AST, Analysis

(* Instructions.  d is the temporary an instruction defines. *)
IConst(d, n)               == [op |-> "const", d |-> d, n |-> n]
ILoad(d, x)                == [op |-> "load", d |-> d, x |-> x]
IStore(x, v)               == [op |-> "store", x |-> x, v |-> v]
IBin(d, o, a, b)           == [op |-> "bin", d |-> d, o |-> o, a |-> a, b |-> b]
INe0(d, a)                 == [op |-> "ne0", d |-> d, a |-> a]
IPhi(d, b1, v1, b2, v2)    == [op |-> "phi", d |-> d, b1 |-> b1, v1 |-> v1, b2 |-> b2, v2 |-> v2]
IBr(t)                     == [op |-> "br", t |-> t]
ICondBr(c, t, f)           == [op |-> "condbr", c |-> c, t |-> t, f |-> f]
IRet                       == [op |-> "ret"]
(* insertvalue of v into aggregate a, at the next index (a = 0: undef),  *)
(* whose field the struct type gives type t.                              *)
IInsertValue(d, a, v, t)   == [op |-> "insertvalue", d |-> d, a |-> a, v |-> v, t |-> t]
(* The store of row v to the emit stack and the call of __emit_func on    *)
(* its first size bytes; tys are the row's element types.                 *)
IEmit(v, tys, size)        == [op |-> "emit", v |-> v, tys |-> tys, size |-> size]

(* getelementptr inbounds of element i of array slot x, of the constant   *)
(* field o of struct slot x, and a load or store through the pointer p    *)
(* they give (x is the slot it points into, t the type it points to).     *)
IGep(d, x, i)              == [op |-> "gep", d |-> d, x |-> x, i |-> i]
ILoadPtr(d, p, x)          == [op |-> "loadptr", d |-> d, p |-> p, x |-> x]
IStorePtr(p, v, x, t)      == [op |-> "storeptr", p |-> p, v |-> v, x |-> x, t |-> t]
IFieldGep(d, x, o)         == [op |-> "fieldgep", d |-> d, x |-> x, o |-> o]

Terminators == {"br", "condbr", "ret"}

(* The blocks an instruction names, and the temporaries it reads. *)
Targets(I) ==
    CASE I.op = "br" -> {I.t} [] I.op = "condbr" -> {I.t, I.f}
      [] I.op = "phi" -> {I.b1, I.b2} [] OTHER -> {}
Operands(I) ==
    CASE I.op = "store" -> {I.v} [] I.op = "bin" -> {I.a, I.b} [] I.op = "ne0" -> {I.a}
      [] I.op = "phi" -> {I.v1, I.v2} [] I.op = "condbr" -> {I.c}
      [] I.op = "insertvalue" -> {I.v} \cup (IF I.a = 0 THEN {} ELSE {I.a})
      [] I.op = "emit" -> IF I.v = 0 THEN {} ELSE {I.v}
      [] I.op = "gep" -> {I.i} [] I.op = "loadptr" -> {I.p}
      [] I.op = "storeptr" -> {I.p, I.v} [] OTHER -> {}

Instructions(G) == UNION {ToSet(G.blocks[b]) : b \in DOMAIN G.blocks}

(* IRBuilder: append at the insert block; BasicBlock::Create appends a    *)
(* block to the function; SetInsertPoint moves the insert block.           *)
Insert(G, ins) == [G EXCEPT !.blocks[G.cur] = Append(@, ins)]
(* Fault variant of NextBlock: one past the block Create appends. *)
NextBlockPastEnd(G) == Len(G.blocks) + 2
NextBlock(G) == Len(G.blocks) + 1
AddBlocks(G, n) == [G EXCEPT !.blocks = @ \o [j \in 1..n |-> <<>>]]
SetInsertPoint(G, b) == [G EXCEPT !.cur = b]
NextTemp(G) == Len(G.tys) + 1
(* An instruction defining the next temporary, of LLVM type ty. *)
Def(G, ty, ins) == Insert([G EXCEPT !.tys = Append(@, ty)], ins)
Crash(G) == [G EXCEPT !.crash = TRUE]

(* A generated value: the generator's state after it, and its temporary. *)
Val(G, v) == [g |-> G, v |-> v]

(* get_type_signature: "{" then each element type and a comma, then "}". *)
(* RowLiteral::get_type names its struct type by it (type_table_), so two *)
(* rows with the same signature share one type; Emit::codegen reads the  *)
(* field types back off it.  FieldTys and RowLens bound the rows used.    *)
TypeSignature(ts) == "{" \o FoldLeft(LAMBDA acc, t : acc \o t \o ",", "", ts) \o "}"
FieldTys == {"i64", "i1"}
RowLens == 0..3
FieldSeqs == UNION {[1..n -> FieldTys] : n \in RowLens}
StructTys == {TypeSignature(ts) : ts \in FieldSeqs}
FieldsOf(st) == CHOOSE ts \in FieldSeqs : TypeSignature(ts) = st
StructOf(ts) == IF \E i \in DOMAIN ts : ts[i] = "throw" THEN "throw" ELSE TypeSignature(ts)

(* llvm::ArrayType::get(t, n), and getArrayElementType and                *)
(* getNumElements of it; ArrayLens bounds the lengths the programs use.   *)
ArrTy(t, n) == "[" \o ToString(n) \o " x " \o t \o "]"
ArrayLens == 1..3
ScalarTys == FieldTys \cup StructTys
ArrTys == {ArrTy(t, n) : t \in ScalarTys, n \in ArrayLens}
ElemTy(at) == CHOOSE t \in ScalarTys : \E n \in ArrayLens : ArrTy(t, n) = at
ArrLen(at) == CHOOSE n \in ArrayLens : \E t \in ScalarTys : ArrTy(t, n) = at

(* ArrayLiteral::get_type: zero elements throw; else an array of the     *)
(* first element's type.  ArrayReference::get_type: the parent's element *)
(* type.                                                                  *)
(* Mutant: the array type one element short of the literal. *)
ArrayTyOfShort(t, n) == IF t = "throw" \/ n = 0 THEN "throw" ELSE ArrTy(t, n - 1)
ArrayTyOf(t, n) == IF t = "throw" \/ n = 0 THEN "throw" ELSE ArrTy(t, n)
ElemTyOf(t) == IF t \in ArrTys THEN ElemTy(t) ELSE "throw"

(* convert_type: an integer is i64, a string the "string" struct, a double *)
(* double; any other type (bool, a tuple) throws.                          *)
ConvertType(t) ==
    CASE t = "integer" -> "i64"
      [] t \in {"string", "double"} -> t
      [] OTHER -> "throw"

(* The declared attributes of x's tuple type, which the alloca pass       *)
(* records in C.fields (a member's parent is a variable: get_ref casts it  *)
(* to a VariableReference).  MemberReference::analyze set type_ and       *)
(* offset_ to the first attribute of the member's name; the attribute     *)
(* types resolve as TupleType::analyze resolves them, a tuple's name to a  *)
(* tuple, which convert_type throws on as it does on an unknown name.     *)
HasMember(e, C) ==
    /\ e.e.k = "var" /\ e.e.x \in DOMAIN C.fields
    /\ \E i \in DOMAIN C.fields[e.e.x] : C.fields[e.e.x][i].name = e.name
MemberOffset(e, C) == FirstNamed(C.fields[e.e.x], e.name) - 1
MemberTy(e, C) ==
    IF HasMember(e, C)
    THEN ConvertType(FieldType(C.fields[e.e.x][MemberOffset(e, C) + 1].type, <<>>))
    ELSE "throw"

(* get_type under C, the slots and declared fields so far: an int         *)
(* literal is i64; a variable the type of its slot; a member the type     *)
(* MemberTy gives; an Assign the type of its value; a BinaryExpression    *)
(* the type of its rhs, whatever its operator, and "throw" when its sides *)
(* differ.                                                                 *)
RECURSIVE GetType(_, _)
GetType(e, C) ==
    CASE e.k = "num"    -> "i64"
      [] e.k = "var"    -> IF e.x \in DOMAIN C.slots THEN C.slots[e.x] ELSE "throw"
      [] e.k = "assign" -> GetType(e.e, C)
      [] e.k = "row"    -> StructOf([i \in DOMAIN e.es |-> GetType(e.es[i], C)])
      [] e.k = "array"  -> ArrayTyOf(IF e.es = <<>> THEN "throw" ELSE GetType(e.es[1], C),
                                     Len(e.es))
      [] e.k = "index"  -> ElemTyOf(GetType(e.e, C))
      [] e.k = "assignto" -> GetType(e.e, C)
      [] e.k = "member" -> MemberTy(e, C)
      [] e.k = "bin"    ->
           LET l == GetType(e.l, C)  r == GetType(e.r, C)
           IN  IF l = "throw" \/ l # r THEN "throw" ELSE r

(* Let::alloca_stack: a slot of get_type(expr) under the let's name, which *)
(* replaces an earlier slot of that name; ExprStatement::alloca_stack      *)
(* and Emit::alloca_stack call get_type too.  A is [slots, fields, crash]; *)
(* fields takes the attributes of a Let with a declared type and a row    *)
(* literal, the Lets whose type analyze set to the declared one, in the    *)
(* order analyze visited them.                                            *)
AllocaStack(s, A) ==
    LET t == GetType(s.e, A) IN
    CASE t = "throw"            -> [A EXCEPT !.crash = TRUE]
      [] s.k = "let" /\ "type" \in DOMAIN s /\ s.e.k = "row" ->
           [A EXCEPT !.slots = (s.x :> t) @@ @, !.fields = (s.x :> s.type.attrs) @@ @]
      [] s.k = "let"            -> [A EXCEPT !.slots = (s.x :> t) @@ @]
      [] OTHER                  -> A

(* Compiler::compile calls alloca_stack on every statement Block's         *)
(* each_statement visits, in its order: a statement, then the statements   *)
(* nested in it.  For::alloca_stack allocates the init statement, and      *)
(* For::each_statement visits it again; If::alloca_stack allocates nothing *)
(* itself.                                                                 *)
RECURSIVE EachStatement(_, _)
EachStatement(ss, A) ==
    IF ss = <<>> THEN A
    ELSE LET s  == Head(ss)
             A1 == CASE s.k \in {"let", "expr", "emit"} -> AllocaStack(s, A)
                     [] s.k = "for" -> EachStatement(s.body,
                                          EachStatement(s.init, EachStatement(s.init, A)))
                     [] s.k = "if"  -> EachStatement(s.f, EachStatement(s.t, A))
                     [] OTHER       -> A
         IN  EachStatement(Tail(ss), A1)

-----------------------------------------------------------------------------
(* Fault variant of ToI1: the value used as it is. *)
ToI1Missing(r) == r

(* BinaryExpression::to_i1: a value that is not i1 compared != 0. *)
ToI1(r) ==
    IF r.g.tys[r.v] = "i1" THEN r
    ELSE Val(Def(r.g, "i1", INe0(NextTemp(r.g), r.v)), NextTemp(r.g))

(* The targets of get_conditional_value's CondBr: for && a true lhs goes  *)
(* on to bin_next, for || to bin_fin.                                      *)
ShortCircuitTargetsSwapped(forAND, next, fin) == IF forAND THEN <<fin, next>> ELSE <<next, fin>>
ShortCircuitTargets(forAND, next, fin) == IF forAND THEN <<next, fin>> ELSE <<fin, next>>

(* LoopContext, as enter_loop pushes it. *)
LoopContext(b) == [begin |-> b, body |-> b + 1, every |-> b + 2, finish |-> b + 3]
EnterLoop(G, b) == [G EXCEPT !.loop = <<LoopContext(b)>> \o @]
ExitLoopCtx(G)  == [G EXCEPT !.loop = Tail(@)]

(* Fault variant of LoopBack: back to for_body, past the condition. *)
LoopBackToBody(G, begin) == Insert(G, IBr(begin + 1))

(* The branch back to for_begin at the end of For::codegen. *)
LoopBack(G, begin) == Insert(G, IBr(begin))

(* getPrimitiveSizeInBits rounded up to bytes: 0 for a struct. *)
PrimitiveBytes(t) == CASE t = "i64" -> 8 [] t = "i1" -> 1 [] OTHER -> 0

(* Emit::codegen: the row stored to the emit stack, then __emit_func on   *)
(* the sum of its elements' primitive sizes.                               *)
EmitRow(r, tys) ==
    Insert(r.g, IEmit(r.v, tys, FoldLeft(LAMBDA acc, t : acc + PrimitiveBytes(t), 0, tys)))

(* A pointer: the generator's state, its temporary and the type it       *)
(* points to, which types a load or a store through it.                  *)
Ptr(G, v, t) == [g |-> G, v |-> v, t |-> t]

(* A GEP into slot x at index value i (see IndexRef). *)
GepInto(i, x) == Ptr(Def(i.g, "ptr", IGep(NextTemp(i.g), x, i.v)), NextTemp(i.g), ElemTyOf(i.g.slots[x]))

(* MemberReference::get_ref: an inbounds GEP at the constant offset_ into *)
(* the variable's slot, which is of the row literal's struct type, not   *)
(* the declared one.  An offset past its fields has no element type: the *)
(* GEP cannot be built.                                                   *)
FieldRef(e, G) ==
    LET x == e.e.x  o == MemberOffset(e, G) IN
    IF HasMember(e, G) /\ o < Len(FieldsOf(G.slots[x]))
    THEN Ptr(Def(G, "ptr", IFieldGep(NextTemp(G), x, o)), NextTemp(G), FieldsOf(G.slots[x])[o + 1])
    ELSE Ptr(Def(Crash(G), "ptr", IFieldGep(NextTemp(G), x, o)), NextTemp(G), "i64")

(* ArrayReference::get_value and MemberReference::get_value: a load       *)
(* through get_ref.                                                        *)
LoadThrough(p, x) == Val(Def(p.g, p.t, ILoadPtr(NextTemp(p.g), p.v, x)), NextTemp(p.g))

(* Assign::get_value of a target that is not a variable: the value stored *)
(* through the target's get_ref, then loaded back.                        *)
StoreThrough(r, p, x) == LoadThrough(Ptr(Insert(r.g, IStorePtr(p.v, r.v, x, p.t)), p.v, p.t), x)

RECURSIVE GetValue(_, _), GetConditionalValue(_, _, _), Codegen(_, _), CodegenSeq(_, _),
          RowValue(_, _, _, _), RowElem(_, _, _, _),
          ArrayValue(_, _, _, _, _), ArrayElem(_, _, _, _, _), IndexRef(_, _), TargetRef(_, _),
          AssignToRef(_, _, _)

(* get_value: the instructions an expression emits and its value.  A     *)
(* variable without a slot throws in get_ref (crash, and a dummy value).  *)
GetValue(e, G) ==
    LET t == NextTemp(G) IN
    CASE e.k = "num" -> Val(Def(G, "i64", IConst(t, e.n)), t)
      [] e.k \in {"var", "assign"} /\ e.x \notin DOMAIN G.slots ->
           Val(Def(Crash(G), "i64", IConst(t, 0)), t)
      [] e.k = "var" /\ e.x \in DOMAIN G.slots -> Val(Def(G, G.slots[e.x], ILoad(t, e.x)), t)
      [] e.k = "assign" /\ e.x \in DOMAIN G.slots ->
           LET r  == GetValue(e.e, G)
               G1 == Insert(r.g, IStore(e.x, r.v))
           IN  Val(Def(G1, G.slots[e.x], ILoad(NextTemp(G1), e.x)), NextTemp(G1))
      [] e.k = "bin" /\ e.op \in Arith \cup Cmp ->
           LET l == GetValue(e.l, G)
               r == GetValue(e.r, l.g)
           IN  Val(Def(r.g, IF e.op \in Cmp THEN "i1" ELSE "i64",
                       IBin(NextTemp(r.g), e.op, l.v, r.v)), NextTemp(r.g))
      [] e.k = "row" -> RowValue(e.es, 1, G, 0)
      [] e.k = "array" -> ArrayValue(e.es, 1, G, 0, GetType(e, G))
      [] e.k \in {"index", "member"} /\ e.e.k = "var" -> LoadThrough(TargetRef(e, G), e.e.x)
      [] e.k = "assignto" /\ e.t.k \in {"index", "member"} /\ e.t.e.k = "var" ->
           AssignToRef(e, TargetRef(e.t, G), e.t.e.x)
      [] e.k = "member" /\ e.e.k # "var" -> Val(Def(Crash(G), "i64", IConst(t, 0)), t)
      [] e.k = "assignto" /\ (e.t.k \notin {"index", "member"} \/ e.t.e.k # "var") ->
           Val(Def(Crash(G), "i64", IConst(t, 0)), t)
      [] e.k = "bin" /\ e.op = "&&" -> GetConditionalValue(e, G, TRUE)
      [] e.k = "bin" /\ e.op = "||" -> GetConditionalValue(e, G, FALSE)

(* get_conditional_value: blocks bin_next and bin_fin; the lhs, as i1,    *)
(* branches to them; the rhs is evaluated in bin_next, which branches to  *)
(* bin_fin; there an i1 phi takes the lhs from the block that branched    *)
(* and the rhs from the block the rhs ended in.                           *)
GetConditionalValue(e, G, forAND) ==
    LET next    == NextBlock(G)
        fin     == next + 1
        l       == ToI1(GetValue(e.l, AddBlocks(G, 2)))
        tg      == ShortCircuitTargets(forAND, next, fin)
        current == l.g.cur
        r       == ToI1(GetValue(e.r, SetInsertPoint(Insert(l.g, ICondBr(l.v, tg[1], tg[2])), next)))
        G1      == SetInsertPoint(Insert(r.g, IBr(fin)), fin)
    IN  Val(Def(G1, "i1", IPhi(NextTemp(G1), current, l.v, r.g.cur, r.v)), NextTemp(G1))

(* RowLiteral::get_value: from undef, each element inserted in order.  It *)
(* calls the element's get_value twice, once to test isPointerTy and once *)
(* for the value it inserts; the first call's instructions stay in the    *)
(* block.                                                                  *)
RowValue(es, i, G, agg) ==
    IF i > Len(es) THEN Val(G, agg)
    ELSE RowElem(es, i, GetValue(es[i], GetValue(es[i], G).g), agg)

RowElem(es, i, r, agg) ==
    RowValue(es, i + 1, Def(r.g, GetType(Row(es), r.g),
                            IInsertValue(NextTemp(r.g), agg, r.v, GetType(es[i], r.g))),
             NextTemp(r.g))

(* ArrayLiteral::get_value: undef of the array type at, then an          *)
(* insertvalue of each element's get_value, each evaluated once.         *)
ArrayValue(es, i, G, agg, at) ==
    IF i > Len(es) THEN Val(G, agg)
    ELSE ArrayElem(es, i, GetValue(es[i], G), agg, at)

ArrayElem(es, i, r, agg, at) ==
    ArrayValue(es, i + 1, Def(r.g, at, IInsertValue(NextTemp(r.g), agg, r.v, ElemTy(at))),
               NextTemp(r.g), at)

(* ArrayReference::get_ref: the parent's get_value (a load of the whole  *)
(* array, whose LoadInst names the slot), the index's get_value, then an *)
(* inbounds GEP into the slot, with no check of the index.  The parser    *)
(* turns any parent but a variable into a nullptr (Parser's IndexParent), *)
(* which get_value dereferences: GetValue crashes on it.                 *)
IndexRef(e, G) == GepInto(GetValue(e.i, GetValue(e.e, G).g), e.e.x)

TargetRef(e, G) == IF e.k = "index" THEN IndexRef(e, G) ELSE FieldRef(e, G)

(* Assign::get_value on an element: get_ref of the target, get_value of  *)
(* the value, a store through the pointer, and a load of it.             *)
AssignToRef(e, p, x) == StoreThrough(GetValue(e.e, p.g), p, x)

(* codegen of one statement. *)
Codegen(s, G) ==
    CASE s.k = "let" /\ GetType(s.e, G) = "throw" -> Crash(G)   \* Let::codegen's get_type
      [] s.k = "let"  -> LET r == GetValue(s.e, G) IN Insert(r.g, IStore(s.x, r.v))
      [] s.k = "expr" -> GetValue(s.e, G).g
      [] s.k = "emit" ->
           \* a value that is not a struct throws; the field types are
           \* those of the struct type get_type returns
           IF GetType(s.e, G) \notin StructTys THEN Crash(G)
           ELSE EmitRow(GetValue(s.e, G), FieldsOf(GetType(s.e, G)))
      [] s.k = "if" ->
           \* true_blk, false_blk and fin are created before the condition
           LET tb == NextBlock(G)
               c  == ToI1(GetValue(s.c, AddBlocks(G, 3)))
               G1 == CodegenSeq(s.t, SetInsertPoint(Insert(c.g, ICondBr(c.v, tb, tb + 1)), tb))
               G2 == CodegenSeq(s.f, SetInsertPoint(Insert(G1, IBr(tb + 2)), tb + 1))
           IN  SetInsertPoint(Insert(G2, IBr(tb + 2)), tb + 2)
      [] s.k = "for" ->
           \* init, then for_begin, for_body, for_every and for_finish;
           \* for_begin gets its CondBr only when there is a condition,
           \* and the condition is not converted to i1
           LET G0 == CodegenSeq(s.init, G)
               b  == NextBlock(G0)
               G1 == SetInsertPoint(Insert(EnterLoop(AddBlocks(G0, 4), b), IBr(b)), b)
               G2 == IF s.c = None THEN G1
                     ELSE LET c == GetValue(s.c, G1) IN Insert(c.g, ICondBr(c.v, b + 1, b + 3))
               G3 == CodegenSeq(s.body, SetInsertPoint(G2, b + 1))
               G4 == SetInsertPoint(Insert(G3, IBr(b + 2)), b + 2)
               G5 == IF s.step = None THEN G4 ELSE GetValue(s.step, G4).g
           IN  ExitLoopCtx(SetInsertPoint(LoopBack(G5, b), b + 3))
      [] s.k = "jump" ->
           \* Jump::codegen dereferences loop_, null outside a loop
           IF G.loop = <<>> THEN Crash(G)
           ELSE Insert(G, IBr(IF s.t = "break" THEN G.loop[1].finish ELSE G.loop[1].every))

(* Block::codegen: its statements in order.  (The test of G1.cur, always *)
(* true, makes TLC compute G1 before the rest of the block; without it     *)
(* the unevaluated states nest as deep as the program is long.)            *)
CodegenSeq(ss, G) ==
    IF ss = <<>> THEN G
    ELSE LET G1 == Codegen(Head(ss), G)
         IN  IF G1.cur > 0 THEN CodegenSeq(Tail(ss), G1) ELSE G1

(* Compiler::compile: analyze, then the alloca pass in the entry block,  *)
(* codegen of the whole block, then ret.  A throw in analyze or in the    *)
(* alloca pass ends it; analyzed records whether analyze passed.          *)
Compile(prog) ==
    LET T  == Analyze(prog)
        A  == EachStatement(prog, [slots |-> [x \in {} |-> "i64"], fields |-> [x \in {} |-> <<>>],
                                   crash |-> FALSE])
        G0 == [blocks |-> <<<<>>>>, cur |-> 1, tys |-> <<>>, loop |-> <<>>,
               slots |-> A.slots, fields |-> A.fields, crash |-> A.crash, analyzed |-> ~T.err]
    IN  IF T.err \/ A.crash THEN G0 ELSE Insert(CodegenSeq(prog, G0), IRet)

(* What the LLVM verifier demands of the instructions modelled: every     *)
(* block ends in its one terminator, a conditional branch tests an i1,    *)
(* a store writes a value of its slot's type, and an insertvalue a value  *)
(* of its field's type.                                                   *)
WellFormed(G) ==
    /\ \A b \in DOMAIN G.blocks :
          LET B == G.blocks[b] IN
          /\ B # <<>> /\ B[Len(B)].op \in Terminators
          /\ \A j \in 1..Len(B) - 1 : B[j].op \notin Terminators
    /\ \A b \in DOMAIN G.blocks : \A j \in DOMAIN G.blocks[b] :
          LET I == G.blocks[b][j] IN
          /\ I.op = "condbr" => G.tys[I.c] = "i1"
          /\ I.op = "store"  => G.tys[I.v] = G.slots[I.x]
          /\ I.op = "insertvalue" => G.tys[I.v] = I.t
          /\ I.op = "storeptr" => G.tys[I.v] = I.t
=============================================================================
