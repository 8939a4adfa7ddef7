--------------------------- MODULE StorageCodegen ---------------------------
(***************************************************************************)
(* The storage statements of a program (define, insert, scan, emit,       *)
(* transaction) and what Compiler::compile makes of them: the allocation  *)
(* pass over Block::each_statement, then the lowering of each statement   *)
(* to a flat sequence of instructions, each one a basic-block step the    *)
(* generated function executes (a backend call, a branch, an emit).       *)
(* Branch targets are absolute instruction indices.                        *)
(***************************************************************************)
EXTENDS Integers, Sequences, SequencesExt, KeyLayout

CONSTANT Attrs   \* table name -> the attributes its define declares

(* An AST statement; every kind uses the same fields. *)
Stmt(kind, t, row, site, rn, body) ==
    [kind |-> kind, table |-> t, row |-> row, site |-> site, rowname |-> rn,
     body |-> body]

Define(t)              == Stmt("define", t, <<>>, 0, "", <<>>)
Insert(t, row)         == Stmt("insert", t, row, 0, "", <<>>)
Emit(rn)               == Stmt("emit", <<>>, <<>>, 0, rn, <<>>)
Transaction(body)      == Stmt("txn", <<>>, <<>>, 0, "", body)
Scan(site, t, rn, body) == Stmt("scan", t, <<>>, site, rn, body)

(* Block::each_statement: each statement, then the statements nested in   *)
(* it (a transaction's and a scan's block), in pre-order.                  *)
RECURSIVE PreOrder(_)
PreOrder(stmts) ==
    IF stmts = <<>> THEN <<>>
    ELSE <<Head(stmts)>> \o PreOrder(Head(stmts).body) \o PreOrder(Tail(stmts))

Fail(acc, o) == [acc EXCEPT !.outcome = o]

SchemaOf(t) == IF t \in DOMAIN Attrs THEN Attrs[t] ELSE <<>>

(* Define::alloca_stack: the schema enters local_schema_table_ (and the    *)
(* catalog) at compile time.                                               *)
DefineAlloca(acc, s) == [acc EXCEPT !.defined = @ \cup {s.table}]

(* Insert::alloca_stack: throws for an undefined table or a variable-length *)
(* key or value region.                                                    *)
InsertAlloca(acc, s) ==
    IF s.table \notin acc.defined
       \/ ~FixedKeyLength(SchemaOf(s.table)) \/ ~FixedValueLength(SchemaOf(s.table))
    THEN Fail(acc, "compile_error") ELSE acc

(* Scan::alloca_stack: dereferences the schema without a null check, throws *)
(* for a variable-length region or a non-integer column, and binds the row *)
(* name in variable_table_ to this scan's row slot.                        *)
ScanAlloca(acc, s) ==
    LET a == SchemaOf(s.table) IN
    IF s.table \notin acc.defined THEN Fail(acc, "crash")
    ELSE IF ~FixedKeyLength(a) \/ ~FixedValueLength(a)
            \/ \E i \in 1..Len(a) : a[i].type # "INTEGER"
         THEN Fail(acc, "compile_error")
    ELSE [acc EXCEPT !.bind = (s.rowname :> s.site) @@ @]

(* Emit::alloca_stack: VariableReference::get_type throws for a name that   *)
(* variable_table_ does not hold.                                           *)
EmitAlloca(acc, s) ==
    IF s.rowname \notin DOMAIN acc.bind THEN Fail(acc, "compile_error") ELSE acc

(* One alloca_stack call of the pass in Compiler::compile.  acc.defined is *)
(* local_schema_table_, acc.bind the row-variable slots of                 *)
(* variable_table_ (row name -> scan site), acc.outcome "ok" until a call  *)
(* throws ("compile_error") or dereferences a missing schema ("crash").    *)
AllocaStack(acc, s) ==
    IF acc.outcome # "ok" THEN acc
    ELSE CASE s.kind = "define" -> DefineAlloca(acc, s)
           [] s.kind = "insert" -> InsertAlloca(acc, s)
           [] s.kind = "scan"   -> ScanAlloca(acc, s)
           [] s.kind = "emit"   -> EmitAlloca(acc, s)
           [] OTHER             -> acc

Allocate(prog) ==
    FoldLeft(AllocaStack, [defined |-> {}, bind |-> <<>>, outcome |-> "ok"],
             PreOrder(prog))

(* An instruction; env.site/env.table name the scan an emit sits in, and *)
(* depth counts the transaction blocks around it.                         *)
Instr(op, s, target, depth) ==
    [op |-> op, table |-> s.table, row |-> s.row, site |-> s.site,
     var |-> s.rowname, target |-> target, depth |-> depth]

(* The lexically enclosing scans: row name -> [site, table]. *)
Lex(env, rn) == IF rn \in DOMAIN env THEN env[rn] ELSE [site |-> 0, table |-> <<>>]

(* The blocks of Scan::codegen around the code of its body, starting at b: *)
(*   check:  is_valid ? begin : fin                                        *)
(*   begin:  copy key, copy value, load the row; body; next; br check      *)
(*   fin:    destroy the cursor.                                           *)
ScanCode(s, b, body, d) ==
    <<Instr("open", s, 0, d), Instr("check", s, b + 5 + Len(body), d),
      Instr("fetch", s, 0, d)>>
    \o body \o
    <<Instr("next", s, 0, d), Instr("jump", s, b + 1, d),
      Instr("destroy", s, 0, d)>>

RECURSIVE GenSeq(_, _, _, _), GenStmt(_, _, _, _)

(* Block::codegen: the statements one after another. *)
GenSeq(stmts, base, env, d) ==
    IF stmts = <<>> THEN <<>>
    ELSE LET c == GenStmt(Head(stmts), base, env, d)
         IN  c \o GenSeq(Tail(stmts), base + Len(c), env, d)

(* Define::codegen emits nothing; Insert::codegen ends in one backend     *)
(* insert; Emit::codegen in one call of __emit_func; Transaction::codegen *)
(* brackets its block with begin_xct and precommit_xct; Scan::codegen     *)
(* binds its row name for the body and wraps it in ScanCode.               *)
GenStmt(s, b, env, d) ==
    CASE s.kind = "define" -> <<>>
      [] s.kind = "insert" -> <<Instr("insert", s, 0, d)>>
      [] s.kind = "emit"   ->
            LET e == Lex(env, s.rowname)
            IN  <<[Instr("emit", s, 0, d) EXCEPT !.site = e.site, !.table = e.table]>>
      [] s.kind = "txn"    ->
            <<Instr("begin", s, 0, d)>>
              \o GenSeq(s.body, b + 1, env, d + 1)
              \o <<Instr("precommit", s, 0, d)>>
      [] s.kind = "scan"   ->
            ScanCode(s, b,
                     GenSeq(s.body, b + 3,
                            (s.rowname :> [site |-> s.site, table |-> s.table]) @@ env, d),
                     d)

Codegen(prog) == GenSeq(prog, 1, <<>>, 0)
=============================================================================
