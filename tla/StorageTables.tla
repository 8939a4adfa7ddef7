---------------------------- MODULE StorageTables ----------------------------
(***************************************************************************)
(* The refinement of TableStore by StorageExec: the compiled program and  *)
(* the masstree store behave as tables of rows.                           *)
(*                                                                         *)
(*   contents  the rows Scan::codegen would rebuild from each stored key   *)
(*             in the table's cursor range [prefix, PrefixEnd(prefix))     *)
(*             and its value;                                              *)
(*   pending   before compilation the program's inserts in statement       *)
(*             order, while running the insert instructions from pc on;    *)
(*   out       CompilerContext::outputs_;                                  *)
(*   stopped   the run has ended.                                          *)
(*                                                                         *)
(* Rows are compared as the bytes of their int64 columns.  The mapping of  *)
(* pending counts an insert instruction once, so it is meant for programs  *)
(* with no insert inside a scan body.                                      *)
(***************************************************************************)
EXTENDS StorageExec

(* The row of table t that Scan::codegen rebuilds from stored key k. *)
StoredRow(t, k) ==
    ScanRow(t, Attrs[t],
            CopyInto(Fresh(GetFixedKeyLength(t, Attrs[t])), k),
            CopyInto(Fresh(GetFixedValueLength(Attrs[t])), store[k]))

TableRows(t) ==
    LET from == GetKeyPrefix(t)
    IN  {StoredRow(t, k) : k \in {x \in DOMAIN store : InRange(x, from, PrefixEnd(from))}}

(* Two rows of t agree on every column the schema marks as key. *)
RowKeyEq(t, r, s) ==
    \A i \in ToSet(KeyIdx(Attrs[t], Len(Attrs[t]))) :
        SubSeq(r, 8 * i - 7, 8 * i) = SubSeq(s, 8 * i - 7, 8 * i)

AsRequest(x) == [table |-> x.table, row |-> RowBytes(x.row)]

PendingInserts ==
    CASE phase = "compile" ->
            LET ins == SelectSeq(PreOrder(prog), LAMBDA s : s.kind = "insert")
            IN  [n \in 1..Len(ins) |-> AsRequest(ins[n])]
      [] phase = "run" ->
            LET ins == SelectSeq(SubSeq(code, pc, Len(code)), LAMBDA c : c.op = "insert")
            IN  [n \in 1..Len(ins) |-> AsRequest(ins[n])]
      [] OTHER -> <<>>

TS == INSTANCE TableStore WITH
        Tables   <- DOMAIN Attrs,
        SameKey  <- RowKeyEq,
        contents <- [t \in DOMAIN Attrs |-> TableRows(t)],
        pending  <- PendingInserts,
        out      <- outputs,
        stopped  <- Stopped

(* Refinement: every behaviour of the compiled program against the store *)
(* is a behaviour of TableStore.  It takes InsertRow's key and value      *)
(* layout, the backend's duplicate-key refusal, the cursor range and the  *)
(* Scan column reads to agree: an insert adds exactly its own row to      *)
(* exactly its own table or is refused because the key is taken, no      *)
(* stored row is ever changed or lost, and an emit yields a row stored in *)
(* the scanned table.                                                     *)
TableSpec == TS!Spec
=============================================================================
