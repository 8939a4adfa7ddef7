------------------------------ MODULE MC_Codec ------------------------------
(***************************************************************************)
(* Schemas and tuples for CodecExec.  The table is named "t".  Integer    *)
(* cells take 0, 1 and -1 (all-zero, low byte only, and all high bytes    *)
(* set); the property masks are NONE (0), NULLABLE (1), KEY (2) and        *)
(* NULLABLE|KEY (3).                                                       *)
(***************************************************************************)
EXTENDS CodecExec

T == <<116>>

IntAttr(prop) == Attribute("INTEGER", 0, prop)
StrAttr       == Attribute("STRING", 0, 0)

(* Column names "a" and "bc". *)
Cols == <<<<97>>, <<98, 99>>>>

(* The redefinition of the table swaps NONE and KEY in every attribute. *)
Redefined(attrs) == [i \in DOMAIN attrs |-> [attrs[i] EXCEPT !.prop = 2 - @]]

Input(attrs, tuple) ==
    [name |-> T, cols |-> SubSeq(Cols, 1, Len(attrs)), attrs |-> attrs,
     alt |-> Redefined(attrs), tuple |-> tuple]

(* The cells a caller may pass for attribute a: the three ints, and a     *)
(* null where the attribute is not nullable (Attribute::encode throws).   *)
IntCells(a) ==
    {Present(v) : v \in {0, 1, -1}} \cup (IF a.prop = 1 THEN {} ELSE {Null})

(* The tuples of attributes A whose cells are all such cells. *)
TuplesOf(A) ==
    {x \in [1..Len(A) -> {Present(v) : v \in {0, 1, -1}} \cup {Null}] :
        \A i \in 1..Len(A) : x[i] \in IntCells(A[i])}

(* One or two integer attributes, each NONE, NULLABLE or KEY. *)
PassInputs ==
    UNION { {Input(A, tt) : tt \in TuplesOf(A)}
           : A \in {<<IntAttr(p)>> : p \in {0, 1, 2}}
                   \cup {<<IntAttr(p), IntAttr(q)>> : p, q \in {0, 1, 2}} }

(* A string cell "ab". *)
StringInputs == {Input(<<StrAttr>>, <<Present(<<97, 98>>)>>)}

(* A null cell of a NULLABLE attribute. *)
NullInputs == {Input(<<IntAttr(1)>>, <<Null>>)}

=============================================================================
