------------------------------ MODULE Catalog ------------------------------
(***************************************************************************)
(* The catalog's text format: Schema::serialize, Attribute::serialize and  *)
(* AttrType::serialize write a schema as                                   *)
(*     name ':' ( '(' attr ' ' '(' type ' ' param ')' ' ' prop ')' )*       *)
(* with the numbers in decimal, and the deserialize methods read it back   *)
(* through istreambuf_iterators over one stringstream, each scanning for  *)
(* its delimiter and handing the text before it to std::stoll.             *)
(*                                                                         *)
(* A schema is [name, cols, attrs]: the table name's bytes, the attribute *)
(* names' bytes, and the KeyLayout Attribute records.  Text is a sequence *)
(* of bytes.                                                               *)
(***************************************************************************)
EXTENDS Integers, Sequences, KeyLayout

Space   == 32
LParen  == 40
RParen  == 41

(* The AttrType::Type enumerators in declaration order. *)
TypeOrdinal == [INTEGER |-> 0, DOUBLE |-> 1, STRING |-> 2, DATE |-> 3]
OrdinalType == [n \in 0..3 |-> CHOOSE t \in AttrTypes : TypeOrdinal[t] = n]

(* operator<< of an unsigned integer: its decimal digits. *)
RECURSIVE Decimal(_)
Decimal(n) == IF n < 10 THEN <<48 + n>> ELSE Decimal(n \div 10) \o <<48 + (n % 10)>>

SerializeAttrType(a) ==
    <<LParen>> \o Decimal(TypeOrdinal[a.type]) \o <<Space>> \o Decimal(a.param) \o <<RParen>>

(* Fault variant of SerializeAttr: no space between the name and the type. *)
SerializeAttrNoSep(col, a) ==
    <<LParen>> \o col \o SerializeAttrType(a) \o <<Space>> \o Decimal(a.prop) \o <<RParen>>

SerializeAttr(col, a) ==
    <<LParen>> \o col \o <<Space>> \o SerializeAttrType(a) \o <<Space>>
      \o Decimal(a.prop) \o <<RParen>>

RECURSIVE SerializeAttrs(_, _)
SerializeAttrs(cols, attrs) ==
    IF attrs = <<>> THEN <<>>
    ELSE SerializeAttr(Head(cols), Head(attrs)) \o SerializeAttrs(Tail(cols), Tail(attrs))

SerializeSchema(s) == s.name \o <<Colon>> \o SerializeAttrs(s.cols, s.attrs)

(* The position of the first c at or after p, where a deserialize loop    *)
(* `while (deref it != c) ++it` stops; Len(t) + 1 if there is none (the    *)
(* loop would then read end-of-stream forever; no serialized schema       *)
(* reaches that).                                                          *)
RECURSIVE SeekChar(_, _, _)
SeekChar(t, p, c) == IF p > Len(t) \/ t[p] = c THEN p ELSE SeekChar(t, p + 1, c)

(* std::stoll: leading spaces skipped, then the decimal digits up to the  *)
(* first other byte; with no digit it throws (-1 here: every value the    *)
(* format writes is unsigned).                                             *)
IsDigit(b) == b \in 48..57

RECURSIVE DigitsValue(_, _)
DigitsValue(t, acc) ==
    IF t = <<>> \/ ~IsDigit(Head(t)) THEN acc
    ELSE DigitsValue(Tail(t), 10 * acc + Head(t) - 48)

RECURSIVE StoLL(_)
StoLL(t) ==
    IF t # <<>> /\ Head(t) = Space THEN StoLL(Tail(t))
    ELSE IF t = <<>> \/ ~IsDigit(Head(t)) THEN -1
    ELSE DigitsValue(t, 0)

Text(t, from, to) == SubSeq(t, from, to - 1)

(* AttrType::deserialize from position p: skip to '(', the type up to   *)
(* ' ', the param up to ')', and past it.                                *)
AttrTypeFields(t, t0, t1, t2) ==
    [ord |-> StoLL(Text(t, t0 + 1, t1)), param |-> StoLL(Text(t, t1 + 1, t2)),
     next |-> t2 + 1]

AttrTypeFrom(t, t0, t1) == AttrTypeFields(t, t0, t1, SeekChar(t, t1 + 1, RParen))

AttrTypeOpen(t, t0) == AttrTypeFrom(t, t0, SeekChar(t, t0 + 1, Space))

DeserializeAttrType(t, p) == AttrTypeOpen(t, SeekChar(t, p, LParen))

(* Attribute::deserialize from position p: skip to '(', the name up to  *)
(* ' ', the type, then the property up to ')' (stoll skips the space     *)
(* before it), and past it.                                               *)
AttrFields(t, col, ty, p2) ==
    [col  |-> col,
     attr |-> Attribute(IF ty.ord \in 0..3 THEN OrdinalType[ty.ord] ELSE ty.ord,
                        ty.param, StoLL(Text(t, ty.next, p2))),
     ok   |-> ty.ord >= 0 /\ ty.param >= 0 /\ StoLL(Text(t, ty.next, p2)) >= 0
              /\ p2 <= Len(t),
     next |-> p2 + 1]

AttrFrom(t, q0, q1, ty) == AttrFields(t, Text(t, q0 + 1, q1), ty, SeekChar(t, ty.next, RParen))

AttrAt(t, q0, q1) == AttrFrom(t, q0, q1, DeserializeAttrType(t, q1 + 1))

AttrOpen(t, q0) == AttrAt(t, q0, SeekChar(t, q0 + 1, Space))

DeserializeAttr(t, p) == AttrOpen(t, SeekChar(t, p, LParen))

(* Schema::deserialize's loop: stop at the end of the text, else read one *)
(* attribute.  A stoll that throws ends the deserialization.              *)
RECURSIVE DeserializeAttrs(_, _, _), AttrsStep(_, _, _)
AttrsAfter(t, r, acc) ==
    [ok    |-> acc.ok /\ r.ok,
     cols  |-> Append(acc.cols, r.col),
     attrs |-> Append(acc.attrs, r.attr)]

DeserializeAttrs(t, p, acc) ==
    IF p > Len(t) \/ ~acc.ok THEN acc
    ELSE AttrsStep(t, DeserializeAttr(t, p), acc)

AttrsStep(t, r, acc) == DeserializeAttrs(t, r.next, AttrsAfter(t, r, acc))

SchemaFrom(t, n, r) == [ok |-> r.ok /\ n <= Len(t), name |-> Text(t, 1, n),
                        cols |-> r.cols, attrs |-> r.attrs]

DeserializeSchema(t) ==
    SchemaFrom(t, SeekChar(t, 1, Colon),
               DeserializeAttrs(t, SeekChar(t, 1, Colon) + 1,
                                [ok |-> TRUE, cols |-> <<>>, attrs |-> <<>>]))
=============================================================================
