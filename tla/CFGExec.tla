------------------------------- MODULE CFGExec -------------------------------
(***************************************************************************)
(* A program compiled by Compiler::compile (ControlFlow), then run the way *)
(* the JIT runs the LLVM function: one instruction per step, from the      *)
(* entry block.  mem holds the stack slots cell by cell (<<x, 0>> for a    *)
(* scalar slot, <<x, i>> for element or field i of an array or struct      *)
(* slot), which alloca leaves uninitialised (any value here); temps the    *)
(* SSA values; prev the block control came from, which a phi reads; aggs   *)
(* the struct and array values that insertvalue and a load of such a slot  *)
(* build, by temporary; a GEP's temporary holds the element or field index *)
(* it points at.  A state in which status is "run" and no step applies is *)
(* undefined behaviour: control ran off the end of a block without a       *)
(* terminator, a division by zero, a load or store through a GEP outside   *)
(* its slot, a phi reached from a block it does not list, or a run past    *)
(* MaxSteps branches.                                                      *)
(*                                                                         *)
(* The reference is the statement semantics of the specification          *)
(* (section 4.5), with && and || short-circuit.                            *)
(***************************************************************************)
EXTENDS Integers, Sequences, SequencesExt, ControlFlow, KeyLayout

CONSTANTS
    Programs,   \* the ASTs compiled, each a sequence of statements
    MaxSteps    \* the branches a run may take

VARIABLES prog, ir, blk, idx, prev, temps, mem, steps, status, aggs,
          outputs  \* CompilerContext::outputs_: the bytes of each emitted row

vars == <<prog, ir, blk, idx, prev, temps, mem, steps, status, aggs, outputs>>

(* The cells of the stack slots: one per element of an array slot and   *)
(* one per field of a struct slot.                                     *)
IsAggregate(t) == t \in ArrTys \cup StructTys
Width(t) == CASE t \in ArrTys -> ArrLen(t) [] t \in StructTys -> Len(FieldsOf(t)) [] OTHER -> 1
Cells == UNION {{<<x, i>> : i \in 0..Width(ir.slots[x]) - 1} : x \in DOMAIN ir.slots}

Init ==
    /\ prog \in Programs
    /\ ir = Compile(prog)
    /\ blk = 1 /\ idx = 1 /\ prev = 0 /\ steps = 0
    /\ temps = [t \in 1..Len(ir.tys) |-> 0]
    /\ aggs = [t \in 1..Len(ir.tys) |-> <<>>]
    /\ mem \in [Cells -> {0, 1}]
    /\ outputs = <<>>
    /\ status = CASE ~ir.analyzed -> "rejected" [] ir.crash -> "crashed" [] OTHER -> "run"

(* sdiv and srem: the quotient rounded toward zero. *)
Abs(n)     == IF n < 0 THEN -n ELSE n
SDiv(a, b) == IF (a < 0) = (b < 0) THEN Abs(a) \div Abs(b) ELSE -(Abs(a) \div Abs(b))
SRem(a, b) == a - b * SDiv(a, b)
Bit(p)     == IF p THEN 1 ELSE 0

(* The instruction BinaryExpression::get_value creates for an operator. *)
BinOp(o, a, b) ==
    CASE o = "+"  -> a + b       [] o = "-"  -> a - b      [] o = "*" -> a * b
      [] o = "/"  -> SDiv(a, b)  [] o = "%"  -> SRem(a, b)
      [] o = "==" -> Bit(a = b)  [] o = "!=" -> Bit(a # b)
      [] o = "<"  -> Bit(a < b)  [] o = "<=" -> Bit(a <= b)
      [] o = ">"  -> Bit(a > b)  [] o = ">=" -> Bit(a >= b)

I == ir.blocks[blk][idx]

(* The next instruction exists and is of kind op. *)
At(op) == status = "run" /\ idx <= Len(ir.blocks[blk]) /\ I.op = op

(* A non-branching instruction setting temporary I.d to v. *)
Set(v) ==
    /\ temps' = [temps EXCEPT ![I.d] = v] /\ idx' = idx + 1
    /\ UNCHANGED <<prog, ir, blk, prev, mem, steps, status, outputs, aggs>>

(* A branch to block t. *)
Goto(t) ==
    /\ steps < MaxSteps
    /\ blk' = t /\ idx' = 1 /\ prev' = blk /\ steps' = steps + 1
    /\ UNCHANGED <<prog, ir, temps, mem, status, outputs, aggs>>

ExecConst == At("const") /\ Set(I.n)
ExecLoad  == At("load") /\ ~IsAggregate(ir.slots[I.x]) /\ Set(mem[<<I.x, 0>>])
ExecGep   == At("gep") /\ Set(temps[I.i])
ExecFieldGep == At("fieldgep") /\ Set(I.o)
ExecBin   == At("bin") /\ (I.o \in {"/", "%"} => temps[I.b] # 0)
             /\ Set(BinOp(I.o, temps[I.a], temps[I.b]))
ExecNe0   == At("ne0") /\ Set(Bit(temps[I.a] # 0))
ExecPhi   == At("phi") /\ prev \in {I.b1, I.b2}
             /\ Set(IF prev = I.b1 THEN temps[I.v1] ELSE temps[I.v2])
(* A load of a whole array or struct slot reads each of its cells. *)
ExecLoadAggregate ==
    /\ At("load") /\ IsAggregate(ir.slots[I.x])
    /\ aggs' = [aggs EXCEPT ![I.d] = [k \in 1..Width(ir.slots[I.x]) |-> mem[<<I.x, k - 1>>]]]
    /\ idx' = idx + 1
    /\ UNCHANGED <<prog, ir, blk, prev, temps, mem, steps, status, outputs>>
ExecStore ==
    /\ At("store")
    /\ mem' = IF IsAggregate(ir.slots[I.x])
              THEN [c \in DOMAIN mem |-> IF c[1] = I.x THEN aggs[I.v][c[2] + 1] ELSE mem[c]]
              ELSE [mem EXCEPT ![<<I.x, 0>>] = temps[I.v]]
    /\ idx' = idx + 1
    /\ UNCHANGED <<prog, ir, blk, prev, temps, steps, status, outputs, aggs>>
ExecInsertValue ==
    /\ At("insertvalue")
    /\ aggs' = [aggs EXCEPT ![I.d] = (IF I.a = 0 THEN <<>> ELSE aggs[I.a]) \o <<temps[I.v]>>]
    /\ idx' = idx + 1
    /\ UNCHANGED <<prog, ir, blk, prev, temps, mem, steps, status, outputs>>

(* The row as the store lays it out in the emit stack: each element at   *)
(* the next offset aligned to its type (8 for i64, 1 for i1), an i64 in   *)
(* its 8 little-endian bytes, an i1 in one byte; the padding is never     *)
(* written.                                                                *)
AlignTo(off, t) == IF t = "i64" THEN ((off + 7) \div 8) * 8 ELSE off
FieldBytes(t, v) == IF t = "i64" THEN Int64LE(v) ELSE <<v>>

RECURSIVE StructBytes(_, _, _)
StructBytes(tys, vals, acc) ==
    IF tys = <<>> THEN acc
    ELSE StructBytes(Tail(tys), Tail(vals),
                     acc \o [k \in 1..(AlignTo(Len(acc), Head(tys)) - Len(acc)) |-> UNINIT]
                         \o FieldBytes(Head(tys), Head(vals)))

(* __emit_func appends the first size bytes of the emit stack. *)
ExecEmit ==
    /\ At("emit")
    /\ outputs' = Append(outputs, SubSeq(StructBytes(I.tys, IF I.v = 0 THEN <<>> ELSE aggs[I.v],
                                                      <<>>), 1, I.size))
    /\ idx' = idx + 1
    /\ UNCHANGED <<prog, ir, blk, prev, temps, mem, steps, status, aggs>>

(* A load or store through a GEP: inside the array it reads or writes   *)
(* the element; outside it the behaviour is undefined.                  *)
InBounds(p, x) == temps[p] \in 0..Width(ir.slots[x]) - 1
ExecLoadPtr ==
    /\ At("loadptr") /\ InBounds(I.p, I.x) /\ Set(mem[<<I.x, temps[I.p]>>])
ExecStorePtr ==
    /\ At("storeptr") /\ InBounds(I.p, I.x)
    /\ mem' = [mem EXCEPT ![<<I.x, temps[I.p]>>] = temps[I.v]] /\ idx' = idx + 1
    /\ UNCHANGED <<prog, ir, blk, prev, temps, steps, status, outputs, aggs>>

ExecBr     == At("br") /\ Goto(I.t)
ExecCondBr == At("condbr") /\ Goto(IF temps[I.c] # 0 THEN I.t ELSE I.f)
ExecRet    ==
    /\ At("ret") /\ status' = "returned"
    /\ UNCHANGED <<prog, ir, blk, idx, prev, temps, mem, steps, outputs, aggs>>

Next ==
    \/ ExecConst \/ ExecLoad \/ ExecBin \/ ExecNe0 \/ ExecPhi \/ ExecStore
    \/ ExecInsertValue \/ ExecEmit \/ ExecLoadAggregate \/ ExecGep \/ ExecFieldGep
    \/ ExecLoadPtr \/ ExecStorePtr
    \/ ExecBr \/ ExecCondBr \/ ExecRet

(* The generated function runs on the calling thread to its end; nothing  *)
(* else can take its steps.                                                *)
Spec == Init /\ [][Next]_vars /\ WF_vars(Next)

-----------------------------------------------------------------------------
(* The reference semantics.  env maps the variables set so far to their   *)
(* values; an unset one reads as "undef".  A statement's result has the    *)
(* new env and its flow: "normal", "break", "continue" or "fuel" when a    *)
(* loop ran more than MaxSteps iterations.  The rows emitted so far are    *)
(* kept in env under Emitted, a name no program uses; a row literal's     *)
(* elements are evaluated once each, left to right, and an emitted row is  *)
(* its values as int64 bytes.  An array literal is the sequence of its    *)
(* elements' values, evaluated once each; an element reference and an     *)
(* assignment to one evaluate the index, then (for the assignment) the     *)
(* value, and read or replace element index + 1.  A Let with a declared   *)
(* tuple type records its attributes under TypeKey(x); a member reads or   *)
(* replaces the value of the first attribute of its name.                  *)
Emitted == "__outputs"

RECURSIVE Eval(_, _), EvalRow(_, _, _), EvalRowNext(_, _, _)
Element(a, i) == IF i + 1 \in DOMAIN a THEN a[i + 1] ELSE "undef"
Replace(env, x, i, v) ==
    (x :> IF i + 1 \in DOMAIN env[x] THEN [env[x] EXCEPT ![i + 1] = v] ELSE env[x]) @@ env

EvalRow(es, env, vals) ==
    IF es = <<>> THEN [env |-> env, v |-> vals] ELSE EvalRowNext(Tail(es), Eval(Head(es), env), vals)

EvalRowNext(es, r, vals) == EvalRow(es, r.env, Append(vals, r.v))

Eval(e, env) ==
    CASE e.k = "num"    -> [env |-> env, v |-> e.n]
      [] e.k = "var"    -> [env |-> env, v |-> IF e.x \in DOMAIN env THEN env[e.x] ELSE "undef"]
      [] e.k = "assign" -> LET r == Eval(e.e, env)
                           IN  [env |-> (e.x :> r.v) @@ r.env, v |-> r.v]
      [] e.k \in {"row", "array"} -> EvalRow(e.es, env, <<>>)
      [] e.k = "index"  -> LET i == Eval(e.i, env)
                           IN  [env |-> i.env, v |-> Element(i.env[e.e.x], i.v)]
      [] e.k = "member" ->
           [env |-> env, v |-> Element(env[e.e.x], FirstNamed(env[TypeKey(e.e.x)], e.name) - 1)]
      [] e.k = "assignto" /\ e.t.k = "member" ->
           LET r == Eval(e.e, env)
           IN  [env |-> Replace(r.env, e.t.e.x, FirstNamed(r.env[TypeKey(e.t.e.x)], e.t.name) - 1, r.v),
                v |-> r.v]
      [] e.k = "assignto" ->
           LET i == Eval(e.t.i, env)  r == Eval(e.e, i.env)
           IN  [env |-> Replace(r.env, e.t.e.x, i.v, r.v), v |-> r.v]
      [] e.k = "bin" /\ e.op \in {"&&", "||"} ->
           LET l == Eval(e.l, env) IN
           IF (l.v # 0) = (e.op = "||") THEN [env |-> l.env, v |-> Bit(l.v # 0)]
           ELSE LET r == Eval(e.r, l.env) IN [env |-> r.env, v |-> Bit(r.v # 0)]
      [] OTHER ->
           LET l == Eval(e.l, env)  r == Eval(e.r, l.env)
           IN  [env |-> r.env, v |-> BinOp(e.op, l.v, r.v)]

Res(env, flow) == [env |-> env, flow |-> flow]

RECURSIVE Exec(_, _), ExecSeq(_, _), Loop(_, _, _)
Exec(s, env) ==
    CASE s.k = "let" /\ "type" \in DOMAIN s ->
           LET r == Eval(s.e, env) IN Res((s.x :> r.v) @@ (TypeKey(s.x) :> s.type.attrs) @@ r.env, "normal")
      [] s.k = "let"  -> LET r == Eval(s.e, env) IN Res((s.x :> r.v) @@ r.env, "normal")
      [] s.k = "expr" -> Res(Eval(s.e, env).env, "normal")
      [] s.k = "emit" -> LET r == Eval(s.e, env)
                         IN  Res((Emitted :> Append(r.env[Emitted], RowBytes(r.v))) @@ r.env,
                                 "normal")
      [] s.k = "jump" -> Res(env, s.t)
      [] s.k = "if"   -> LET c == Eval(s.c, env)
                         IN  ExecSeq(IF c.v # 0 THEN s.t ELSE s.f, c.env)
      [] s.k = "for"  -> Loop(s, ExecSeq(s.init, env).env, MaxSteps)

ExecSeq(ss, env) ==
    IF ss = <<>> THEN Res(env, "normal")
    ELSE LET r == Exec(Head(ss), env)
         IN  IF r.flow = "normal" THEN ExecSeq(Tail(ss), r.env) ELSE r

(* A for loop with fuel iterations left: the condition (true when absent), *)
(* the body, then the step unless the body broke out.                       *)
Loop(s, env, fuel) ==
    LET c == IF s.c = None THEN [env |-> env, v |-> 1] ELSE Eval(s.c, env) IN
    IF c.v = 0 THEN Res(c.env, "normal")
    ELSE IF fuel = 0 THEN Res(c.env, "fuel")
    ELSE LET b == ExecSeq(s.body, c.env) IN
         CASE b.flow = "break" -> Res(b.env, "normal")
           [] b.flow = "fuel"  -> b
           [] OTHER -> Loop(s, IF s.step = None THEN b.env ELSE Eval(s.step, b.env).env, fuel - 1)

Ref == ExecSeq(prog, Emitted :> <<>>)

-----------------------------------------------------------------------------
(* Every block an instruction names is a block of the function and every *)
(* temporary it reads is one the function defines; control is always at  *)
(* an instruction of a block, or just past the last one.                  *)
TypeOK ==
    /\ \A ins \in Instructions(ir) : /\ Targets(ins) \subseteq DOMAIN ir.blocks
                                   /\ Operands(ins) \subseteq DOMAIN ir.tys
    /\ status \in {"run", "returned", "crashed", "rejected"}
    /\ blk \in DOMAIN ir.blocks /\ idx \in 1..Len(ir.blocks[blk]) + 1
    /\ prev \in 0..Len(ir.blocks) /\ steps \in 0..MaxSteps
    /\ DOMAIN temps = 1..Len(ir.tys) /\ DOMAIN aggs = 1..Len(ir.tys) /\ DOMAIN mem = Cells
    /\ outputs \in Seq(Seq(0..255 \cup {UNINIT}))

(* Compiler::compile hands LLVM a function it accepts: every block If,    *)
(* For, Jump and get_conditional_value create ends in exactly one         *)
(* terminator, every CondBr tests an i1, and every store of Let and        *)
(* Assign writes a value of its slot's type, and every insertvalue of a   *)
(* RowLiteral a value of the type RowLiteral::get_type gave its field.     *)
WellFormedCFG == ir.analyzed /\ ~ir.crash => WellFormed(ir)

(* When the compiled function returns, every variable the program set     *)
(* holds what the specification's semantics gives it and outputs_ holds   *)
(* exactly the rows it emits, in order: the branches If and For lower to, *)
(* and the blocks && and || skip, take exactly the effects of the source  *)
(* program, and Emit::codegen passes __emit_func each row's bytes.         *)
RunsAsSpecified ==
    status = "returned" =>
        LET R == Ref IN
        /\ R.flow = "normal"
        /\ \A c \in DOMAIN mem :
              c[1] \in DOMAIN R.env =>
                  mem[c] = IF IsAggregate(ir.slots[c[1]]) THEN R.env[c[1]][c[2] + 1] ELSE R.env[c[1]]
        /\ outputs = R.env[Emitted]

(* No load or store of a compiled program goes outside its stack slot:   *)
(* the array type ArrayLiteral::get_type gives a Let's alloca holds every *)
(* element ArrayLiteral::get_value inserts and every index the program    *)
(* reaches, and the GEP of ArrayReference::get_ref points into the slot   *)
(* it names.  ArrayReference emits no bounds check, so a miscounted       *)
(* length is an out-of-bounds access nothing else reports.                *)
NoUndefinedBehaviour ==
    (At("loadptr") \/ At("storeptr")) => InBounds(I.p, I.x)

(* The compiled function of a program that finishes reaches its ret: no   *)
(* block without a terminator, no branch to the wrong block looping for   *)
(* ever.                                                                   *)
Returns == <>(status # "run")

(* analyze accepts exactly the programs the specification's type rules   *)
(* accept: Let, ExprStatement, If, For and the operators of              *)
(* BinaryExpression against section 4.3.                                 *)
TypedAsSpecified == ir.analyzed = SpecTyped(prog)
=============================================================================
