----------------------------- MODULE StorageExec -----------------------------
(***************************************************************************)
(* A program compiled by Compiler::compile and run by compile_and_exec    *)
(* against the FOEDUS masstree storage "db" through the extern functions  *)
(* of engine/foedus_interface.cpp.  The generated function runs on one     *)
(* thread from its first instruction to its `ret true`; each action is one *)
(* instruction of the code StorageCodegen lowers the program to.          *)
(*                                                                         *)
(* The storage engine itself is outside the repository: what a masstree   *)
(* insert, a cursor and a transaction do is modelled from its interface    *)
(* (the backend contract): an insert needs a running transaction and a     *)
(* key not yet present, a cursor over [from, to) visits the stored keys of *)
(* that range in byte order, and a transaction sees its own writes.        *)
(***************************************************************************)
EXTENDS Integers, Sequences, SequencesExt, FiniteSets, KeyLayout, StorageCodegen

CONSTANTS Programs,    \* the programs compile_and_exec may be given
          Sites,       \* the scan sites those programs use
          MaxOutputs   \* bound on the rows one run emits

VARIABLES
    prog,      \* the AST being compiled
    phase,     \* "compile", "run", "done", "compile_error" or "crash"
    code,      \* the generated instructions
    bind,      \* variable_table_: row name -> scan site whose tuple_stack_ it is
    pc,        \* the next instruction
    store,     \* the masstree storage: key bytes -> value bytes
    xct,       \* a transaction is running on the thread's context
    cursor,    \* site -> the cursor's range and current key (<<>>: not valid)
    kbuf,      \* site -> the scan's key_stack_ bytes
    vbuf,      \* site -> the scan's value_stack_ bytes
    slot,      \* site -> the scan's tuple_stack_ (the row variable) bytes
    outputs,   \* CompilerContext::outputs_: [table of the emitting scan, row bytes]
    failures,  \* backend calls that returned an error
    inserted,  \* history: the [table, row] inserts the backend accepted
    snap,      \* history: site -> the rows inserted into its table when it opened
    fetched,   \* history: site -> the rows it loaded since it opened
    scanLog    \* history: one record per finished scan

vars == <<prog, phase, code, bind, pc, store, xct, cursor, kbuf, vbuf, slot,
          outputs, failures, inserted, snap, fetched, scanLog>>
hist == <<inserted, snap, fetched, scanLog>>

NoCursor == [from |-> <<>>, to |-> <<>>, key |-> <<>>]

(* The smallest stored key of [from, to) after `after` (<<>> for none). *)
NextKey(from, to, after) ==
    LET S == {k \in DOMAIN store : InRange(k, from, to)
                                   /\ (after = <<>> \/ KeyLess(after, k))}
    IN  IF S = {} THEN <<>> ELSE CHOOSE k \in S : \A j \in S : k = j \/ KeyLess(k, j)

RowsOf(t) == {r.row : r \in {x \in inserted : x.table = t}}

Init ==
    /\ prog \in Programs
    /\ phase = "compile"
    /\ code = <<>>
    /\ bind = <<>>
    /\ pc = 1
    /\ store = <<>>
    /\ xct = FALSE
    /\ cursor = [s \in Sites |-> NoCursor]
    /\ kbuf = [s \in Sites |-> <<>>]
    /\ vbuf = [s \in Sites |-> <<>>]
    /\ slot = [s \in Sites |-> <<>>]
    /\ outputs = <<>>
    /\ failures = 0
    /\ inserted = {}
    /\ snap = [s \in Sites |-> {}]
    /\ fetched = [s \in Sites |-> <<>>]
    /\ scanLog = <<>>

(* Compiler::compile: the alloca pass, then codegen.  Each scan site gets *)
(* its key, value and row stack slots, never written before the scan     *)
(* loads a row into them.                                                 *)
Compile ==
    LET r     == Allocate(prog)
        scans == {s \in ToSet(PreOrder(prog)) : s.kind = "scan"}
        at(i) == CHOOSE s \in scans : s.site = i
    IN
    /\ phase = "compile"
    /\ IF r.outcome = "ok"
       THEN /\ phase' = "run"
            /\ code' = Codegen(prog)
            /\ bind' = r.bind
            /\ kbuf' = [i \in Sites |-> IF \E s \in scans : s.site = i
                          THEN Fresh(GetFixedKeyLength(at(i).table, Attrs[at(i).table]))
                          ELSE <<>>]
            /\ vbuf' = [i \in Sites |-> IF \E s \in scans : s.site = i
                          THEN Fresh(GetFixedValueLength(Attrs[at(i).table]))
                          ELSE <<>>]
            /\ slot' = [i \in Sites |-> IF \E s \in scans : s.site = i
                          THEN Fresh(8 * Len(Attrs[at(i).table]))
                          ELSE <<>>]
       ELSE /\ phase' = r.outcome
            /\ UNCHANGED <<code, bind, kbuf, vbuf, slot>>
    /\ UNCHANGED <<prog, pc, store, xct, cursor, outputs, failures, hist>>

At(op) == phase = "run" /\ pc <= Len(code) /\ code[pc].op = op
I == code[pc]
Step == pc' = pc + 1

(* Fault variant of BeginXct: the begin reports an error and no          *)
(* transaction starts.                                                    *)
BeginXctRefused ==
    /\ At("begin") /\ Step
    /\ failures' = failures + 1
    /\ UNCHANGED <<prog, phase, code, bind, store, xct, cursor, kbuf, vbuf,
                   slot, outputs, hist>>

(* begin_xct: FOEDUS refuses a second begin on a running transaction; the *)
(* generated code drops the returned bool.                                *)
BeginXct ==
    /\ At("begin") /\ Step
    /\ IF xct THEN failures' = failures + 1 /\ UNCHANGED xct
              ELSE xct' = TRUE /\ UNCHANGED failures
    /\ UNCHANGED <<prog, phase, code, bind, store, cursor, kbuf, vbuf, slot,
                   outputs, hist>>

(* precommit_xct: with no transaction running precommit fails; the code   *)
(* prints the error code and carries on.                                  *)
PrecommitXct ==
    /\ At("precommit") /\ Step
    /\ IF xct THEN xct' = FALSE /\ UNCHANGED failures
              ELSE failures' = failures + 1 /\ UNCHANGED xct
    /\ UNCHANGED <<prog, phase, code, bind, store, cursor, kbuf, vbuf, slot,
                   outputs, hist>>

(* Fault variant of InsertRow: a backend put that overwrites the value of *)
(* a key already stored.                                                   *)
InsertRowOverwrite ==
    LET t == I.table
        k == InsertKey(t, Attrs[t], RowBytes(I.row), Len(I.row))
        v == InsertValue(Attrs[t], RowBytes(I.row), Len(I.row))
    IN
    /\ At("insert") /\ Step /\ xct
    /\ store' = [x \in DOMAIN store \cup {k} |-> IF x = k THEN v ELSE store[x]]
    /\ inserted' = inserted \cup {[table |-> t, row |-> I.row]}
    /\ UNCHANGED <<prog, phase, code, bind, xct, cursor, kbuf, vbuf, slot,
                   outputs, failures, snap, fetched, scanLog>>

(* Insert::codegen stores the row into its tuple_stack_, copies the       *)
(* prefix and each element's span into the key and value stacks, and      *)
(* calls foedus_insert with key_idx and value_idx bytes; the bool it      *)
(* returns is dropped.                                                    *)
InsertRow ==
    LET t  == I.table
        a  == Attrs[t]
        bf == RowBytes(I.row)
        k  == InsertKey(t, a, bf, Len(I.row))
        v  == InsertValue(a, bf, Len(I.row))
        ok == xct /\ k \notin DOMAIN store
    IN
    /\ At("insert") /\ Step
    /\ IF ok
       THEN /\ store' = [x \in DOMAIN store \cup {k} |-> IF x = k THEN v ELSE store[x]]
            /\ inserted' = inserted \cup {[table |-> t, row |-> I.row]}
            /\ UNCHANGED failures
       ELSE /\ failures' = failures + 1
            /\ UNCHANGED <<store, inserted>>
    /\ UNCHANGED <<prog, phase, code, bind, xct, cursor, kbuf, vbuf, slot,
                   outputs, snap, fetched, scanLog>>

(* foedus_generate_cursor over [prefix, PrefixEnd(prefix)); an open       *)
(* without a transaction is printed and the cursor returned anyway, not   *)
(* valid.                                                                  *)
OpenCursor ==
    LET from == GetKeyPrefix(I.table)
        to   == PrefixEnd(from)
    IN
    /\ At("open") /\ Step
    /\ cursor' = [cursor EXCEPT ![I.site] =
                    [from |-> from, to |-> to,
                     key |-> IF xct THEN NextKey(from, to, <<>>) ELSE <<>>]]
    /\ failures' = IF xct THEN failures ELSE failures + 1
    /\ snap' = [snap EXCEPT ![I.site] =
                  {RowBytes(r) : r \in RowsOf(I.table)}]
    /\ fetched' = [fetched EXCEPT ![I.site] = <<>>]
    /\ UNCHANGED <<prog, phase, code, bind, store, xct, kbuf, vbuf, slot,
                   outputs, inserted, scanLog>>

(* fullscan_check: foedus_cursor_is_valid, then the conditional branch. *)
CheckCursor ==
    /\ At("check")
    /\ pc' = IF cursor[I.site].key # <<>> THEN pc + 1 ELSE I.target
    /\ UNCHANGED <<prog, phase, code, bind, store, xct, cursor, kbuf, vbuf,
                   slot, outputs, failures, hist>>

(* fullscan_begin up to the body: copy_combined_key into key_stack_, the  *)
(* payload into value_stack_, then the 8-byte loads stored as the row.    *)
Fetch ==
    LET i  == I.site
        k  == cursor[i].key
        kb == CopyInto(kbuf[i], k)
        vb == CopyInto(vbuf[i], store[k])
        rw == ScanRow(I.table, Attrs[I.table], kb, vb)
    IN
    /\ At("fetch") /\ Step
    /\ kbuf' = [kbuf EXCEPT ![i] = kb]
    /\ vbuf' = [vbuf EXCEPT ![i] = vb]
    /\ slot' = [slot EXCEPT ![i] = rw]
    /\ fetched' = [fetched EXCEPT ![i] = Append(@, rw)]
    /\ UNCHANGED <<prog, phase, code, bind, store, xct, cursor, outputs,
                   failures, inserted, snap, scanLog>>

(* Emit::codegen loads the row variable, which the name resolves to      *)
(* through variable_table_, and __emit_func appends its bytes to          *)
(* outputs_.                                                               *)
EmitRow ==
    /\ At("emit") /\ Step
    /\ Len(outputs) < MaxOutputs
    /\ outputs' = Append(outputs, [table |-> I.table, row |-> slot[bind[I.var]]])
    /\ UNCHANGED <<prog, phase, code, bind, store, xct, cursor, kbuf, vbuf,
                   slot, failures, hist>>

(* Fault variant of CursorNext: the cursor is not advanced. *)
CursorNextStuck ==
    /\ At("next") /\ Step
    /\ UNCHANGED <<prog, phase, code, bind, store, xct, cursor, kbuf, vbuf,
                   slot, outputs, failures, hist>>

(* foedus_cursor_next *)
CursorNext ==
    LET c == cursor[I.site]
    IN
    /\ At("next") /\ Step
    /\ cursor' = [cursor EXCEPT ![I.site].key = NextKey(c.from, c.to, c.key)]
    /\ UNCHANGED <<prog, phase, code, bind, store, xct, kbuf, vbuf, slot,
                   outputs, failures, hist>>

(* The unconditional branch back to fullscan_check. *)
Jump ==
    /\ At("jump")
    /\ pc' = I.target
    /\ UNCHANGED <<prog, phase, code, bind, store, xct, cursor, kbuf, vbuf,
                   slot, outputs, failures, hist>>

(* fullscan_fin: foedus_cursor_destroy. *)
DestroyCursor ==
    /\ At("destroy") /\ Step
    /\ cursor' = [cursor EXCEPT ![I.site] = NoCursor]
    /\ scanLog' = Append(scanLog, [table |-> I.table, snap |-> snap[I.site],
                                   fetched |-> fetched[I.site]])
    /\ UNCHANGED <<prog, phase, code, bind, store, xct, kbuf, vbuf, slot,
                   outputs, failures, inserted, snap, fetched>>

(* The final `ret true`: the function returns success whatever happened. *)
Return ==
    /\ phase = "run" /\ pc = Len(code) + 1
    /\ phase' = "done"
    /\ UNCHANGED <<prog, code, bind, pc, store, xct, cursor, kbuf, vbuf, slot,
                   outputs, failures, hist>>

Next ==
    \/ Compile
    \/ BeginXct \/ PrecommitXct \/ InsertRow
    \/ OpenCursor \/ CheckCursor \/ Fetch \/ EmitRow \/ CursorNext \/ Jump
    \/ DestroyCursor
    \/ Return

(* compile_and_exec calls the generated function synchronously on one   *)
(* thread, so every enabled step is eventually taken.                    *)
Spec == Init /\ [][Next]_vars /\ WF_vars(Next)

-----------------------------------------------------------------------------
Stopped == phase \in {"done", "compile_error", "crash"}

TypeOK ==
    /\ phase \in {"compile", "run", "done", "compile_error", "crash"}
    /\ pc \in 1..(Len(code) + 1)
    /\ xct \in BOOLEAN
    /\ failures \in Nat
    /\ \A s \in Sites : cursor[s].key = <<>> \/ cursor[s].key \in DOMAIN store
    /\ \A k \in DOMAIN store : ToSet(k) \cup ToSet(store[k]) \subseteq 0..255

(* Scan soundness: every row a scan of table t emits (Scan::codegen's     *)
(* loop body, Emit::codegen) is the bytes of a row that an insert into t *)
(* stored.  It takes the key prefix, the cursor range, the Insert copy   *)
(* loop, the Scan column reads and the row variable binding to agree.    *)
ScanSound ==
    \A n \in 1..Len(outputs) :
        outputs[n].row \in {RowBytes(r) : r \in RowsOf(outputs[n].table)}

(* Scan exactness: a scan that ran to its fin block loaded each row that  *)
(* was in its table when the cursor opened exactly once, and nothing else. *)
ScanExact ==
    \A n \in 1..Len(scanLog) :
        /\ ToSet(scanLog[n].fetched) = scanLog[n].snap
        /\ Len(scanLog[n].fetched) = Cardinality(scanLog[n].snap)

(* Transaction bracketing: every insert and cursor open written inside a *)
(* transaction block runs while a transaction is active.                  *)
TxnBracket ==
    (phase = "run" /\ pc <= Len(code) /\ code[pc].op \in {"insert", "open"}
       /\ code[pc].depth > 0) => xct

(* No silent failure: a run whose function returned true had no backend   *)
(* call fail (the spec: a failed insert or transaction is a BackendError  *)
(* propagated to the driver's caller, never swallowed).                   *)
NoSilentFailure == phase = "done" => failures = 0

(* The buffers hold what the cursor copies: whenever a scan's cursor is   *)
(* on a record, copy_combined_key and the payload memcpy of its next fetch *)
(* write no more bytes than Scan::alloca_stack allocated for key_stack_    *)
(* (get_fixed_key_length) and value_stack_ (get_fixed_value_length).  It  *)
(* takes the key and value lengths Insert::codegen gives every stored row  *)
(* and the cursor range to agree with the scanned table's buffer sizes.    *)
KeyFitsBuffer ==
    \A s \in Sites : cursor[s].key # <<>> =>
        /\ Len(cursor[s].key) <= Len(kbuf[s])
        /\ Len(store[cursor[s].key]) <= Len(vbuf[s])

(* Every compiled program stops: each scan loop reaches its fin block.    *)
Termination == <>Stopped
=============================================================================
