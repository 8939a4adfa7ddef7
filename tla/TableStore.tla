----------------------------- MODULE TableStore -----------------------------
(***************************************************************************)
(* What a reir program promises about its tables, whatever the key layout *)
(* and the generated code: a table is a set of rows; the program's inserts *)
(* take effect one at a time in program order, each adding its row unless *)
(* a row with the same key is already in the table (then the insert is    *)
(* refused and the table unchanged); an emit of a scan yields a row that  *)
(* is in the scanned table at that moment.  A run may stop at any point,  *)
(* abandoning the statements not yet run, and eventually stops.           *)
(*                                                                         *)
(* StorageTables shows StorageExec, which stores rows as masstree keys and *)
(* values, to implement this specification.                               *)
(***************************************************************************)
EXTENDS Naturals, Sequences

CONSTANTS Tables,        \* the defined tables
          SameKey(_, _, _) \* SameKey(t, r, s): rows r and s of t agree on the key

VARIABLES
    contents,  \* table -> the set of its rows
    pending,   \* the inserts still to run, in program order: [table, row]
    out,       \* the emitted rows, in order: [table, row]
    stopped    \* the run has ended

avars == <<contents, pending, out, stopped>>

Init ==
    /\ contents = [t \in Tables |-> {}]
    /\ pending \in Seq([table : Tables, row : Seq(Nat)])
    /\ out = <<>>
    /\ stopped = FALSE

KeyTaken(t, r) == \E s \in contents[t] : SameKey(t, r, s)

(* The next insert adds its row. *)
Insert ==
    LET h == Head(pending)
    IN  /\ ~stopped /\ pending # <<>>
        /\ ~KeyTaken(h.table, h.row)
        /\ contents' = [contents EXCEPT ![h.table] = @ \cup {h.row}]
        /\ pending' = Tail(pending)
        /\ UNCHANGED <<out, stopped>>

(* The next insert is refused: its key is taken. *)
Refuse ==
    LET h == Head(pending)
    IN  /\ ~stopped /\ pending # <<>>
        /\ KeyTaken(h.table, h.row)
        /\ pending' = Tail(pending)
        /\ UNCHANGED <<contents, out, stopped>>

(* A scan of t emits one of t's rows. *)
Emit(t, r) ==
    /\ ~stopped
    /\ r \in contents[t]
    /\ out' = Append(out, [table |-> t, row |-> r])
    /\ UNCHANGED <<contents, pending, stopped>>

Stop ==
    /\ ~stopped
    /\ stopped' = TRUE
    /\ pending' = <<>>
    /\ UNCHANGED <<contents, out>>

Next ==
    \/ Insert \/ Refuse
    \/ \E t \in Tables : \E r \in contents[t] : Emit(t, r)
    \/ Stop

Spec == Init /\ [][Next]_avars /\ WF_avars(Stop)
=============================================================================
