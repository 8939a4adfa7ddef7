----------------------------- MODULE MC_Storage -----------------------------
(***************************************************************************)
(* Model values for StorageExec.  Table names are their bytes: "t" and    *)
(* "u" (no name is a prefix of another), "ta" (has "t" as a prefix).       *)
(* Table t is define<{int:a key, int:b}>, the layout of the insert/scan    *)
(* tests of compiler_test.cpp; u puts its key second.                       *)
(***************************************************************************)
EXTENDS StorageTables

T  == <<116>>
U  == <<117>>
TA == <<116, 97>>

IntAttr(prop) == Attribute("INTEGER", 0, prop)

MC_Attrs ==
    (T :> <<IntAttr(2), IntAttr(0)>>) @@ (U :> <<IntAttr(0), IntAttr(2)>>)
      @@ (TA :> <<IntAttr(2), IntAttr(0)>>)

Rows == {<<1, 2>>, <<2, 1>>, <<1, 1>>}

(* Two inserts into t or u, then a scan of each table, in one transaction; *)
(* the scans sequential or u's nested in t's body.                         *)
InsertsOf(ts) == {Insert(t, r) : t \in ts, r \in Rows}

Sequential(ins) ==
    << Define(T), Define(U),
       Transaction(ins \o << Scan(1, T, "r", <<Emit("r")>>),
                             Scan(2, U, "s", <<Emit("s")>>) >>) >>

Nested(ins) ==
    << Define(T), Define(U),
       Transaction(ins \o << Scan(1, T, "r",
                                  <<Emit("r"), Scan(2, U, "s", <<Emit("s")>>)>>) >>) >>

(* Programs the allocation pass rejects: an insert before its define, and *)
(* a scan of a table never defined.                                        *)
Rejected ==
    { << Insert(T, <<1, 2>>), Define(T) >>,
      << Transaction(<< Scan(1, U, "s", <<Emit("s")>>) >>) >> }

PassPrograms ==
    {Sequential(<<i, j>>) : i, j \in InsertsOf({T, U})}
      \cup {Nested(<<i, j>>) : i, j \in InsertsOf({T, U})}
      \cup Rejected

(* A scan of t while ta holds a row: the ta key lies in t's cursor range. *)
OverlapPrograms ==
    { << Define(T), Define(TA),
         Transaction(<< Insert(TA, r), Insert(T, <<1, 2>>),
                        Scan(1, T, "r", <<Emit("r")>>) >>) >> : r \in Rows }

(* Two sequential scans that both name their row "r". *)
SameNamePrograms ==
    { << Define(T), Define(U),
         Transaction(<< Insert(T, r), Insert(U, r),
                        Scan(1, T, "r", <<Emit("r")>>),
                        Scan(2, U, "r", <<Emit("r")>>) >>) >> : r \in Rows }

(* The same row inserted twice: the second insert's key already exists. *)
DuplicatePrograms ==
    { << Define(T), Transaction(<< Insert(T, r), Insert(T, r) >>) >> : r \in Rows }

MC_Sites == {1, 2}
=============================================================================
