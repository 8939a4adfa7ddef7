----------------------------- MODULE TupleCodec -----------------------------
(***************************************************************************)
(* The binary tuple codec of db/: AttrType, Attribute and Schema encode   *)
(* and decode, and the encoded_length each caller uses to size the buffer *)
(* before encoding into it.                                                *)
(*                                                                         *)
(* A cell is a MaybeValue [exists, val].  An INTEGER cell's val is the     *)
(* int64; a STRING cell's val is its bytes.  A decoded cell's val is the   *)
(* bytes the decoder produced (8 bytes for an int64), so it is compared    *)
(* with Norm of the original cell.  A buffer is a sequence of bytes in     *)
(* which UNINIT marks a byte nobody wrote.                                 *)
(*                                                                         *)
(* Only INTEGER and STRING are modelled: every other type throws in        *)
(* AttrType's encode, decode and encoded_length.                           *)
(***************************************************************************)
EXTENDS Integers, Sequences, SequencesExt, KeyLayout

Null       == [exists |-> FALSE, val |-> <<>>]
Present(v) == [exists |-> TRUE, val |-> v]

(* What encoded_length returns when it throws. *)
Throw == -1

(* A decoded string whose 8-byte length field is unwritten or larger than *)
(* the buffer: the decoder reads (or allocates) past the buffer.           *)
Garbage == <<UNINIT>>

(* Attribute's test for a nullable cell: property_ == NULLABLE, so an      *)
(* attribute that is NULLABLE and also KEY or UNIQUE is not one.           *)
Nullable(a) == a.prop = 1

(* AttrType::encoded_length: 8 for an int; the string's length alone for a *)
(* string.                                                                 *)
TypeEncodedLength(a, v) == IF a.type = "INTEGER" THEN 8 ELSE Len(v)

(* AttrType::encode: the bytes written from buffer[0]: the int64, or the   *)
(* size_t length and then the string's bytes.                              *)
TypeEncode(a, v) == IF a.type = "INTEGER" THEN Int64LE(v) ELSE LE(Len(v), 8) \o v

(* The value of a little-endian unsigned field. *)
RECURSIVE FromLE(_)
FromLE(bs) == IF bs = <<>> THEN 0 ELSE Head(bs) + 256 * FromLE(Tail(bs))

(* A size_t field all of whose bytes were written and whose value fits in *)
(* the two low bytes (the only lengths a buffer of this model can hold).   *)
SmallField(bs) ==
    /\ \A k \in DOMAIN bs : bs[k] # UNINIT
    /\ \A k \in 3..Len(bs) : bs[k] = 0

(* Fault variant of TypeDecode: an int64 read as 7 bytes. *)
TypeDecodeShort(a, buf, off) == Span(buf, off, 7)

(* AttrType::decode from buffer[off]: 8 bytes for an int; for a string,    *)
(* the length field, then that many bytes.                                 *)
TypeDecode(a, buf, off) ==
    IF a.type = "INTEGER" THEN Span(buf, off, 8)
    ELSE LET lf == Span(buf, off, 8)
         IN  IF SmallField(lf) /\ FromLE(lf) <= Len(buf)
             THEN Span(buf, off + 8, FromLE(lf))
             ELSE Garbage

(* Fault variant of AttrEncodedLength: the presence byte not counted. *)
AttrEncodedLengthNoPresence(a, mv) ==
    IF mv.exists THEN TypeEncodedLength(a, mv.val)
    ELSE IF Nullable(a) THEN 1 ELSE Throw

(* Attribute::encoded_length; Throw for a null in a non-nullable cell. *)
AttrEncodedLength(a, mv) ==
    CASE ~mv.exists /\ Nullable(a) -> 1
      [] ~mv.exists                -> Throw
      [] Nullable(a)               -> 1 + TypeEncodedLength(a, mv.val)
      [] OTHER                     -> TypeEncodedLength(a, mv.val)

(* The result of an encode: ok is FALSE when it throws, bytes what it     *)
(* writes from buffer[0] on.                                               *)
Enc(ok, bytes) == [ok |-> ok, bytes |-> bytes]

(* Fault variant of AttrEncode: a present nullable cell written without    *)
(* its presence byte.                                                      *)
AttrEncodeNoPresence(a, mv) ==
    IF mv.exists THEN Enc(TRUE, TypeEncode(a, mv.val))
    ELSE Enc(Nullable(a), <<>>)

(* Attribute::encode: a nullable cell writes the presence byte 1 and the   *)
(* value when present, and nothing at all when null; a non-nullable cell   *)
(* writes its value, or throws when null.                                  *)
AttrEncode(a, mv) ==
    IF Nullable(a)
    THEN Enc(TRUE, IF mv.exists THEN <<1>> \o TypeEncode(a, mv.val) ELSE <<>>)
    ELSE IF mv.exists THEN Enc(TRUE, TypeEncode(a, mv.val)) ELSE Enc(FALSE, <<>>)

(* The byte read from buffer[off]; g is what an unwritten byte holds in   *)
(* this run, as far as a test against 0 can tell (0 or not).               *)
ReadByte(buf, off, g) == LET b == Span(buf, off, 1)[1] IN IF b = UNINIT THEN g ELSE b

(* Fault variant of AttrDecode: a present nullable value read from        *)
(* buffer[0], over its presence byte.                                      *)
AttrDecodeOverPresence(a, buf, off, g) ==
    IF Nullable(a) /\ ReadByte(buf, off, g) = 0 THEN Null
    ELSE Present(TypeDecode(a, buf, off))

(* Attribute::decode from buffer[off]: a nullable cell is null when its    *)
(* first byte is 0, else its value follows that byte.                      *)
AttrDecode(a, buf, off, g) ==
    IF Nullable(a)
    THEN IF ReadByte(buf, off, g) = 0 THEN Null
         ELSE Present(TypeDecode(a, buf, off + 1))
    ELSE Present(TypeDecode(a, buf, off))

(* buf with bytes written from offset off on; a byte past the end of buf  *)
(* lands outside it and is not kept.                                       *)
WriteAt(buf, off, bytes) ==
    [k \in 1..Len(buf) |-> IF off < k /\ k <= off + Len(bytes)
                           THEN bytes[k - off] ELSE buf[k]]

(* The sum of encoded_length over the cells at positions idx, as          *)
(* Schema::encoded_length, key_length and value_length add it up; Throw    *)
(* when one of them throws.                                                *)
CellsLength(attrs, tuple, idx) ==
    FoldLeft(LAMBDA acc, i :
                 IF acc = Throw \/ AttrEncodedLength(attrs[i], tuple[i]) = Throw
                 THEN Throw ELSE acc + AttrEncodedLength(attrs[i], tuple[i]),
             0, idx)

AllIdx(attrs) == [i \in 1..Len(attrs) |-> i]

(* The loops of Schema::encode, encode_key and encode_value: each cell at *)
(* positions idx encoded at the running offset, which then advances by    *)
(* the cell's encoded_length.  ok turns FALSE at the first cell that      *)
(* throws; over records a write past the end of the buffer.  (encode      *)
(* calls encode before encoded_length and the other two the reverse; both *)
(* throw on the same cells, so the order changes nothing here.)           *)
EncodeCells(attrs, tuple, idx, start, buf) ==
    FoldLeft(LAMBDA acc, i :
                 LET e == AttrEncode(attrs[i], tuple[i]) IN
                 IF ~acc.ok THEN acc
                 ELSE [buf  |-> IF e.ok THEN WriteAt(acc.buf, acc.off, e.bytes) ELSE acc.buf,
                       off  |-> acc.off + AttrEncodedLength(attrs[i], tuple[i]),
                       ok   |-> e.ok,
                       over |-> acc.over \/ (e.ok /\ acc.off + Len(e.bytes) > Len(acc.buf))],
             [buf |-> buf, off |-> start, ok |-> TRUE, over |-> FALSE], idx)

(* Schema::encode and Schema::encode_key: the name and ':' from           *)
(* buffer[0], then the cells of idx.                                       *)
EncodePrefixed(name, attrs, tuple, idx, buf) ==
    EncodeCells(attrs, tuple, idx, Len(name) + 1, WriteAt(buf, 0, GetKeyPrefix(name)))

(* Schema::decode: each cell decoded at the running offset, which starts  *)
(* at 0 and advances by the encoded_length of the decoded cell.  g[i] is   *)
(* the unwritten-byte choice for cell i.                                   *)
SchemaDecode(attrs, buf, g) ==
    FoldLeft(LAMBDA acc, i :
                 LET mv == AttrDecode(attrs[i], buf, acc.off, g[i])
                 IN  [off |-> acc.off + AttrEncodedLength(attrs[i], mv),
                      out |-> Append(acc.out, mv)],
             [off |-> 0, out |-> <<>>], AllIdx(attrs)).out
=============================================================================
