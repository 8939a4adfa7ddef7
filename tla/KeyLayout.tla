----------------------------- MODULE KeyLayout -----------------------------
(***************************************************************************)
(* Byte layout of rows in the key-value store, as the code generator lays *)
(* it out: the attribute size rules of db/attr_type.hpp and               *)
(* db/attribute.hpp, the key/value split of db/schema.hpp, the memcpy     *)
(* loop of Insert::codegen and the column reads of Scan::codegen.         *)
(*                                                                         *)
(* A byte is an integer in 0..255.  A byte the program never wrote (an    *)
(* alloca'd stack slot, or memory past the end of one) is UNINIT: the      *)
(* build may hold any value there, and UNINIT stands for "some byte that  *)
(* need not equal the intended one".                                      *)
(***************************************************************************)
EXTENDS Integers, Sequences, SequencesExt

UNINIT == -1

Colon == 58   \* the ':' that ends a key prefix

(* An attribute: AttrType's type_ and param_, Attribute's property_ mask  *)
(* (NULLABLE = 1, KEY = 2, UNIQUE = 4).                                   *)
AttrTypes == {"INTEGER", "DOUBLE", "STRING", "DATE"}

Attribute(t, p, prop) == [type |-> t, param |-> p, prop |-> prop]

(* AttrType::fixed_length *)
AttrFixedLength(a) == a.type # "STRING" \/ a.param # 0

(* AttrType::default_size *)
TypeDefaultSize(a) == IF a.type = "STRING" THEN a.param ELSE 8

(* Attribute::is_key: property_ & KEY *)
IsKey(a) == (a.prop \div 2) % 2 = 1

(* Attribute::default_size: one presence byte more when property_ & NULLABLE *)
DefaultSize(a) == IF a.prop % 2 = 1 THEN TypeDefaultSize(a) + 1
                                     ELSE TypeDefaultSize(a)

(* The positions 1..n of attrs, in order, whose attribute is (not) a key. *)
KeyIdx(attrs, n)   == SelectSeq([i \in 1..n |-> i], LAMBDA i : IsKey(attrs[i]))
ValueIdx(attrs, n) == SelectSeq([i \in 1..n |-> i], LAMBDA i : ~IsKey(attrs[i]))

SizeOf(attrs, idx) == FoldLeft(LAMBDA acc, i : acc + DefaultSize(attrs[i]), 0, idx)

(* Schema::fixed_key_length and Schema::fixed_value_length *)
FixedKeyLength(attrs) ==
    \A i \in 1..Len(attrs) : IsKey(attrs[i]) => AttrFixedLength(attrs[i])
FixedValueLength(attrs) ==
    \A i \in 1..Len(attrs) : ~IsKey(attrs[i]) => AttrFixedLength(attrs[i])

(* Schema::get_key_prefix: the table name followed by ':' *)
GetKeyPrefix(name) == name \o <<Colon>>

(* Fault variant of GetFixedKeyLength: the prefix left out of the count. *)
GetFixedKeyLengthNoPrefix(name, attrs) ==
    SizeOf(attrs, KeyIdx(attrs, Len(attrs))) + 1

(* Schema::get_fixed_key_length, including its trailing "+ 1" *)
GetFixedKeyLength(name, attrs) ==
    Len(name) + 1 + SizeOf(attrs, KeyIdx(attrs, Len(attrs))) + 1

(* Schema::get_fixed_value_length *)
GetFixedValueLength(attrs) == SizeOf(attrs, ValueIdx(attrs, Len(attrs)))

(* Fault variant of PrefixEnd: the increment of the last name byte left  *)
(* out, so the range ends where it begins.                                *)
PrefixEndUnbumped(prefix) == [prefix EXCEPT ![Len(prefix) - 1] = @]

(* The end of the scan range: Scan::alloca_stack increments the char at    *)
(* size() - 2 of the prefix, the last byte of the table name; a char wraps *)
(* at 8 bits.                                                              *)
PrefixEnd(prefix) ==
    [prefix EXCEPT ![Len(prefix) - 1] = (@ + 1) % 256]

(* An int64 as it sits in memory on the x86-64 target: 8 bytes, least     *)
(* significant first, two's complement (% and \div floor, so a negative   *)
(* value yields 255 in its high bytes).                                   *)
RECURSIVE LE(_, _)
LE(v, n) == IF n = 0 THEN <<>> ELSE <<v % 256>> \o LE(v \div 256, n - 1)

Int64LE(v) == LE(v, 8)

(* The bytes of a row literal of int64 fields: an LLVM struct of i64s has *)
(* no padding.                                                             *)
RowBytes(row) == FlattenSeq([i \in 1..Len(row) |-> Int64LE(row[i])])

(* len bytes of buf starting after offset off; a byte past the end of the *)
(* buffer was never written by this buffer's owner.                       *)
Span(buf, off, len) ==
    [k \in 1..len |-> IF off + k <= Len(buf) THEN buf[off + k] ELSE UNINIT]

(* A fresh stack buffer of n bytes. *)
Fresh(n) == [k \in 1..n |-> UNINIT]

(* memcpy of data over the start of buf (the bytes past Len(data) keep     *)
(* what they held).                                                        *)
CopyInto(buf, data) ==
    [k \in 1..Len(buf) |-> IF k <= Len(data) THEN data[k] ELSE buf[k]]

(* Fault variant of TupleOffset: the element's own size counted too. *)
TupleOffsetPastElement(attrs, i) == SizeOf(attrs, [j \in 1..i |-> j])

(* The offset in the row buffer of element i: Insert::codegen advances   *)
(* offset by schema->get_tuple_length(i), the attribute's default_size,  *)
(* whatever the size of the row's own element is.                        *)
TupleOffset(attrs, i) == SizeOf(attrs, [j \in 1..(i - 1) |-> j])

InsertCell(attrs, buff, i) == Span(buff, TupleOffset(attrs, i), DefaultSize(attrs[i]))

(* The key and value that Insert::codegen passes to the backend for a row *)
(* of n elements whose bytes are buff: the prefix, then each key element's *)
(* span in row order; each non-key element's span in row order.           *)
InsertKey(name, attrs, buff, n) ==
    GetKeyPrefix(name) \o
      FlattenSeq([j \in 1..Len(KeyIdx(attrs, n)) |->
                    InsertCell(attrs, buff, KeyIdx(attrs, n)[j])])

InsertValue(attrs, buff, n) ==
    FlattenSeq([j \in 1..Len(ValueIdx(attrs, n)) |->
                  InsertCell(attrs, buff, ValueIdx(attrs, n)[j])])

(* Fault variant of ScanColumn: key_offset starting at 0, not after the  *)
(* prefix.                                                                *)
ScanColumnAtZero(name, attrs, kbuf, vbuf, i) ==
    IF IsKey(attrs[i])
    THEN Span(kbuf, 8 * Len(KeyIdx(attrs, i - 1)), 8)
    ELSE Span(vbuf, 8 * Len(ValueIdx(attrs, i - 1)), 8)

(* The row Scan::codegen rebuilds from its key and value buffers: for each *)
(* column in schema order, 8 bytes read from the key buffer at an offset  *)
(* that starts after the prefix, or from the value buffer at an offset    *)
(* that starts at 0; each offset advances by 8 per column it served.       *)
ScanColumn(name, attrs, kbuf, vbuf, i) ==
    IF IsKey(attrs[i])
    THEN Span(kbuf, Len(name) + 1 + 8 * Len(KeyIdx(attrs, i - 1)), 8)
    ELSE Span(vbuf, 8 * Len(ValueIdx(attrs, i - 1)), 8)

ScanRow(name, attrs, kbuf, vbuf) ==
    FlattenSeq([i \in 1..Len(attrs) |-> ScanColumn(name, attrs, kbuf, vbuf, i)])

(* masstree orders keys as byte strings: lexicographically, a proper     *)
(* prefix first.                                                          *)
RECURSIVE KeyLess(_, _)
KeyLess(a, b) ==
    IF a = <<>> THEN b # <<>>
    ELSE IF b = <<>> THEN FALSE
    ELSE IF Head(a) # Head(b) THEN Head(a) < Head(b)
    ELSE KeyLess(Tail(a), Tail(b))

(* A cursor opened over [from, to) covers k. *)
InRange(k, from, to) == ~KeyLess(k, from) /\ KeyLess(k, to)
=============================================================================
