----------------------------- MODULE CodecExec -----------------------------
(***************************************************************************)
(* The codec's operations as calls on one tuple of one schema, in any      *)
(* order a caller may make them: Schema::encode into a buffer of           *)
(* Schema::encoded_length bytes and Schema::decode of that buffer;         *)
(* encode_key and encode_value into buffers of key_length and              *)
(* value_length bytes; Attribute::encode of one cell into a buffer of its  *)
(* encoded_length and Attribute::decode of it.  Each buffer is freshly     *)
(* allocated, so its bytes start UNINIT.                                   *)
(*                                                                         *)
(* The reference the properties compare with is the wire format of the    *)
(* specification (section 6): <name>':'<cell>*, each cell                  *)
(* [presence byte]? (int64 | size_t length + raw bytes), with the presence *)
(* byte (0 null, 1 present) exactly when the attribute is nullable.        *)
(***************************************************************************)
EXTENDS Integers, Sequences, SequencesExt, TupleCodec, Catalog

CONSTANT Inputs   \* a set of [name, cols, attrs, alt, tuple]: a schema, a tuple of it,
                  \* and the attributes of a second definition of the same name

VARIABLES
    in,        \* the schema and tuple of this run
    buf,       \* Schema::encode's buffer
    enc,       \* "none", "done" or "error" (encode threw)
    decoded,   \* what Schema::decode produced
    dec,       \* "none" or "done"
    kbuf,      \* encode_key's buffer
    vbuf,      \* encode_value's buffer
    kv,        \* "none", "done" or "error"
    cbuf,      \* cell i -> Attribute::encode's buffer for it
    cenc,      \* cell i -> "none", "done", "error" or "decoded"
    cdec,      \* cell i -> what Attribute::decode produced
    overrun,   \* some encode wrote past the end of its buffer
    catalog,   \* the leveldb store: table name -> serialized schema
    tables,    \* MetaData::tables_: table name -> schema
    got,       \* the outcome of the last get_schema
    latest     \* history: the schema of the last create_table (NoSchema: none yet)

codec == <<in, buf, enc, decoded, dec, kbuf, vbuf, kv, cbuf, cenc, cdec, overrun>>
meta  == <<catalog, tables, got, latest>>
vars  == <<codec, meta>>

InSchema == [name |-> in.name, cols |-> in.cols, attrs |-> in.attrs]

NoSchema == [ok |-> FALSE, name |-> <<>>, cols |-> <<>>, attrs |-> <<>>]

(* The two definitions create_table may be called with for the name. *)
Definitions == {InSchema, [InSchema EXCEPT !.attrs = in.alt]}

Cells == 1..Len(in.attrs)

Init ==
    /\ in \in Inputs
    /\ buf = <<>> /\ enc = "none"
    /\ decoded = <<>> /\ dec = "none"
    /\ kbuf = <<>> /\ vbuf = <<>> /\ kv = "none"
    /\ cbuf = [i \in Cells |-> <<>>]
    /\ cenc = [i \in Cells |-> "none"]
    /\ cdec = [i \in Cells |-> Null]
    /\ overrun = FALSE
    /\ catalog = <<>> /\ tables = <<>>
    /\ got = [found |-> FALSE, schema |-> NoSchema, expect |-> NoSchema]
    /\ latest = NoSchema

(* Schema::encoded_length, then Schema::encode into a buffer of that size; *)
(* encoded_length throws before any buffer exists.                          *)
EncodeTuple ==
    LET n == CellsLength(in.attrs, in.tuple, AllIdx(in.attrs))
        r == EncodePrefixed(in.name, in.attrs, in.tuple, AllIdx(in.attrs),
                            Fresh(Len(in.name) + 1 + n))
    IN  /\ enc = "none"
        /\ IF n = Throw
           THEN enc' = "error" /\ UNCHANGED <<buf, overrun>>
           ELSE /\ buf' = r.buf
                /\ enc' = IF r.ok THEN "done" ELSE "error"
                /\ overrun' = (overrun \/ r.over)
        /\ UNCHANGED <<in, decoded, dec, kbuf, vbuf, kv, cbuf, cenc, cdec, meta>>

(* Schema::decode of the encoded buffer. *)
DecodeTuple ==
    /\ enc = "done" /\ dec = "none"
    /\ \E g \in [Cells -> {0, 1}] : decoded' = SchemaDecode(in.attrs, buf, g)
    /\ dec' = "done"
    /\ UNCHANGED <<in, buf, enc, kbuf, vbuf, kv, cbuf, cenc, cdec, overrun, meta>>

(* key_length and value_length, then encode_key and encode_value into     *)
(* buffers of those sizes.                                                 *)
EncodeKeyValue ==
    LET n  == Len(in.attrs)
        kl == CellsLength(in.attrs, in.tuple, KeyIdx(in.attrs, n))
        vl == CellsLength(in.attrs, in.tuple, ValueIdx(in.attrs, n))
        kr == EncodePrefixed(in.name, in.attrs, in.tuple, KeyIdx(in.attrs, n),
                             Fresh(Len(in.name) + 1 + kl))
        vr == EncodeCells(in.attrs, in.tuple, ValueIdx(in.attrs, n), 0, Fresh(vl))
    IN  /\ kv = "none"
        /\ IF kl = Throw \/ vl = Throw
           THEN kv' = "error" /\ UNCHANGED <<kbuf, vbuf, overrun>>
           ELSE /\ kbuf' = kr.buf /\ vbuf' = vr.buf
                /\ kv' = IF kr.ok /\ vr.ok THEN "done" ELSE "error"
                /\ overrun' = (overrun \/ kr.over \/ vr.over)
        /\ UNCHANGED <<in, buf, enc, decoded, dec, cbuf, cenc, cdec, meta>>

(* Attribute::encoded_length of cell i, then Attribute::encode into a      *)
(* buffer of that size.                                                    *)
EncodeCell(i) ==
    LET a == in.attrs[i]
        n == AttrEncodedLength(a, in.tuple[i])
        r == EncodeCells(in.attrs, in.tuple, <<i>>, 0, Fresh(n))
    IN  /\ cenc[i] = "none"
        /\ IF n = Throw
           THEN cenc' = [cenc EXCEPT ![i] = "error"] /\ UNCHANGED <<cbuf, overrun>>
           ELSE /\ cbuf' = [cbuf EXCEPT ![i] = r.buf]
                /\ cenc' = [cenc EXCEPT ![i] = IF r.ok THEN "done" ELSE "error"]
                /\ overrun' = (overrun \/ r.over)
        /\ UNCHANGED <<in, buf, enc, decoded, dec, kbuf, vbuf, kv, cdec, meta>>

(* Attribute::decode of cell i's buffer. *)
DecodeCell(i) ==
    /\ cenc[i] = "done"
    /\ \E g \in {0, 1} :
          cdec' = [cdec EXCEPT ![i] = AttrDecode(in.attrs[i], cbuf[i], 0, g)]
    /\ cenc' = [cenc EXCEPT ![i] = "decoded"]
    /\ UNCHANGED <<in, buf, enc, decoded, dec, kbuf, vbuf, kv, cbuf, overrun, meta>>

(* Fault variant of CreateTable: the catalog write made with the same     *)
(* insert-if-absent as tables_, so a redefinition leaves the first schema. *)
CreateTableFirstWins(s) ==
    /\ tables' = IF s.name \in DOMAIN tables THEN tables ELSE tables @@ (s.name :> s)
    /\ catalog' = catalog @@ (s.name :> SerializeSchema(s))
    /\ latest' = [ok |-> TRUE] @@ s
    /\ UNCHANGED <<codec, got>>

(* MetaData::create_table of schema s: tables_.insert, which keeps an     *)
(* entry already under the name, then a leveldb Put of the serialized     *)
(* schema, which replaces one.                                            *)
CreateTable(s) ==
    /\ tables' = IF s.name \in DOMAIN tables THEN tables ELSE tables @@ (s.name :> s)
    /\ catalog' = (s.name :> SerializeSchema(s)) @@ catalog
    /\ latest' = [ok |-> TRUE] @@ s
    /\ UNCHANGED <<codec, got>>

(* MetaData::get_schema: a leveldb Get, deserialized; NotFound throws. *)
GetSchema ==
    /\ got' = IF in.name \in DOMAIN catalog
              THEN [found |-> TRUE, schema |-> DeserializeSchema(catalog[in.name]),
                    expect |-> latest]
              ELSE [found |-> FALSE, schema |-> NoSchema, expect |-> latest]
    /\ UNCHANGED <<codec, catalog, tables, latest>>

(* The process ends and a new MetaData opens the same leveldb directory  *)
(* (create_if_missing, no error_if_exists): tables_ starts empty, the     *)
(* store keeps what was put.                                              *)
Restart ==
    /\ tables' = <<>>
    /\ UNCHANGED <<codec, catalog, got, latest>>

Next ==
    \/ \E s \in Definitions : CreateTable(s)
    \/ GetSchema \/ Restart
    \/ EncodeTuple \/ DecodeTuple \/ EncodeKeyValue
    \/ \E i \in Cells : EncodeCell(i) \/ DecodeCell(i)

Spec == Init /\ [][Next]_vars

-----------------------------------------------------------------------------
(* The reference encoding of the specification's wire format. *)
SpecNullable(a) == a.prop % 2 = 1

SpecValue(a, v) == IF a.type = "INTEGER" THEN Int64LE(v) ELSE LE(Len(v), 8) \o v

SpecCell(a, mv) ==
    (IF SpecNullable(a) THEN <<IF mv.exists THEN 1 ELSE 0>> ELSE <<>>)
      \o (IF mv.exists THEN SpecValue(a, mv.val) ELSE <<>>)

SpecCells(attrs, tuple, idx) ==
    FlattenSeq([j \in 1..Len(idx) |-> SpecCell(attrs[idx[j]], tuple[idx[j]])])

(* A cell as a decoder that round-trips would give it back. *)
Norm(a, mv) ==
    IF ~mv.exists THEN Null
    ELSE Present(IF a.type = "INTEGER" THEN Int64LE(mv.val) ELSE mv.val)

Byte == 0..255

IntWidth(a, mv) == (mv.exists /\ a.type = "INTEGER") => Len(mv.val) = 8

(* Every buffer holds bytes or UNINIT, and every int64 a decoder returns   *)
(* is 8 bytes wide.                                                        *)
TypeOK ==
    /\ enc \in {"none", "done", "error"} /\ dec \in {"none", "done"}
    /\ kv \in {"none", "done", "error"}
    /\ \A i \in Cells : cenc[i] \in {"none", "done", "error", "decoded"}
    /\ \A b \in {buf, kbuf, vbuf} \cup {cbuf[i] : i \in Cells} :
          ToSet(b) \subseteq Byte \cup {UNINIT}
    /\ \A i \in Cells : /\ IntWidth(in.attrs[i], cdec[i])
                       /\ dec = "done" => IntWidth(in.attrs[i], decoded[i])
    /\ \A n \in DOMAIN catalog : ToSet(catalog[n]) \subseteq Byte
    /\ got.found \in BOOLEAN /\ latest.ok \in BOOLEAN

(* Catalog round trip: a get_schema after a create_table of the table,   *)
(* in this process or an earlier one, finds a schema and gives back       *)
(* exactly the one the LAST create_table of the name defined, even when   *)
(* tables_ still holds an earlier definition: Schema::serialize,          *)
(* Attribute::serialize and AttrType::serialize against the deserialize   *)
(* scanners and std::stoll, the Put that replaces, across a restart that  *)
(* empties tables_.                                                        *)
CatalogRoundTrip ==
    got.expect.ok => got.found /\ got.schema = got.expect

(* No encode writes past the end of the buffer its caller sized with      *)
(* encoded_length, key_length or value_length (Schema::encode,             *)
(* encode_key, encode_value and Attribute::encode against the length      *)
(* functions).                                                             *)
EncodeWithinBuffer == ~overrun

(* Every buffer an encode finished holds exactly the specification's       *)
(* bytes: Schema::encode the whole tuple, encode_key the prefix and key    *)
(* cells, encode_value the value cells, Attribute::encode its cell.        *)
WireFormat ==
    LET A == in.attrs  T == in.tuple  n == Len(A) IN
    /\ enc = "done" => buf = GetKeyPrefix(in.name) \o SpecCells(A, T, AllIdx(A))
    /\ kv = "done" => /\ kbuf = GetKeyPrefix(in.name) \o SpecCells(A, T, KeyIdx(A, n))
                      /\ vbuf = SpecCells(A, T, ValueIdx(A, n))
    /\ \A i \in Cells : cenc[i] \in {"done", "decoded"} => cbuf[i] = SpecCell(A[i], T[i])

(* Attribute::decode gives back the cell Attribute::encode was given,     *)
(* whatever the unwritten bytes of the buffer hold.                        *)
AttrRoundTrip ==
    \A i \in Cells : cenc[i] = "decoded" => cdec[i] = Norm(in.attrs[i], in.tuple[i])

=============================================================================
