------------------------------- MODULE AmqpSer -------------------------------
(***************************************************************************)
(* serde_amqp's two serializers: ser.rs writes the bytes, size_ser.rs      *)
(* counts them without writing.  pos is IsArrayElement: "no" outside an    *)
(* array, "first" or "other" for its elements.  A serializer that is       *)
(* copied for an element, a key or a field starts with pos = "no".         *)
(***************************************************************************)
EXTENDS AmqpWire, SequencesExt

\* Error::too_long
TooLong == << [w |-> 0, c |-> "too_long", n |-> 0, s |-> ""] >>
Encoded(ts) == \A i \in DOMAIN ts : ts[i].c # "too_long"

\* Inside an array only the first element carries the code.
Prefix(pos, c) == IF pos = "other" THEN <<>> ELSE Code(c)

\* Serializer::serialize_bool
SerializeBool(v, pos) ==
    IF pos = "no" THEN Code(IF v = 1 THEN "BooleanTrue" ELSE "BooleanFalse")
    ELSE Prefix(pos, "Boolean") \o Num(1, v)

\* serialize_i8, i16, i32 and i64; a Timestamp is an i64 that is never compact.
SerializeSigned(t, v, pos) ==
    IF pos = "no" /\ t \in {"int", "long"} /\ v \in -128 .. 127
    THEN Code(IF t = "int" THEN "SmallInt" ELSE "SmallLong") \o Num(1, v)
    ELSE Prefix(pos, FullCode[t]) \o Num(EncodingCodes[FullCode[t]], v)

\* serialize_u8, u16, u32 and u64
SerializeUnsigned(t, v, pos) ==
    IF pos = "no" /\ t \in {"uint", "ulong"} /\ v \in 0 .. 255
    THEN IF v = 0 THEN Code(IF t = "uint" THEN "Uint0" ELSE "Ulong0")
         ELSE Code(IF t = "uint" THEN "SmallUint" ELSE "SmallUlong") \o Num(1, v)
    ELSE Prefix(pos, FullCode[t]) \o Num(EncodingCodes[FullCode[t]], v)

\* serialize_f32, f64 and char
SerializeReal(t, v, pos) ==
    Prefix(pos, FullCode[t]) \o Num(EncodingCodes[FullCode[t]], v)

\* The compact form for a length that does not fit in its byte.
SizedPayloadTooCompact(c8, c32, d) ==
    IF d.n <= U8Max + 1 THEN Code(c8) \o Num(1, d.n) \o Raw(d) ELSE Code(c32) \o Num(4, d.n) \o Raw(d)

\* A length and its payload, compact up to 254 bytes.
SizedPayload(c8, c32, d) ==
    IF d.n < U8Max THEN Code(c8) \o Num(1, d.n) \o Raw(d)
    ELSE IF d.n <= U32MaxMinus4 THEN Code(c32) \o Num(4, d.n) \o Raw(d)
    ELSE TooLong

\* serialize_str, for strings and for symbols.  In an array the width of a string
\* counts characters, that of a symbol bytes.
SerializeStr(d, pos) ==
    IF pos = "no"
    THEN IF d.t = "symbol" THEN SizedPayload("Sym8", "Sym32", d)
         ELSE SizedPayload("Str8", "Str32", d)
    ELSE Prefix(pos, FullCode[d.t])
         \o Num(4, IF d.t = "symbol" THEN d.n ELSE d.chars) \o Raw(d)

\* serialize_bytes of a binary.
SerializeBinary(d, pos) ==
    IF pos = "no" THEN SizedPayload("Vbin8", "Vbin32", d)
    ELSE Prefix(pos, "Vbin32") \o Num(4, d.n) \o Raw(d)

\* serialize_bytes of a decimal or a uuid: the bytes behind their code.
SerializeOpaque(t, v, pos) ==
    Prefix(pos, FullCode[t]) \o Num(EncodingCodes[FullCode[t]], v)

\* serialize_unit, serialize_none
SerializeUnit == Code("Null")

SizeAndCount(c, w, size, count) == c \o Num(w, size) \o Num(w, count)

\* write_list: the empty list is one byte wherever it stands.
WriteList(count, buf, pos) ==
    LET len == ByteLen(buf)
    IN IF len = 0 THEN Code("List0")
       ELSE IF len < U8Max THEN SizeAndCount(Prefix(pos, "List8"), 1, len + 1, count) \o buf
       ELSE IF len <= U32MaxMinus4
            THEN SizeAndCount(Prefix(pos, "List32"), 4, len + 4, count) \o buf
       ELSE TooLong

\* write_map; count is twice the number of entries.
WriteMap(count, buf, pos) ==
    LET len == ByteLen(buf)
    IN IF len < U8Max THEN SizeAndCount(Prefix(pos, "Map8"), 1, len + 1, count) \o buf
       ELSE IF len <= U32MaxMinus4
            THEN SizeAndCount(Prefix(pos, "Map32"), 4, len + 4, count) \o buf
       ELSE TooLong

\* write_array; buf starts with the code of the elements.
WriteArray(count, buf, pos) ==
    LET len == ByteLen(buf)
    IN IF len < U8Max THEN SizeAndCount(Prefix(pos, "Array8"), 1, len + 1, count) \o buf
       ELSE IF len <= U32MaxMinus4
            THEN SizeAndCount(Prefix(pos, "Array32"), 4, len + 4, count) \o buf
       ELSE TooLong

RECURSIVE Serialize(_, _)

\* A buffer filled by one serializer per element.
BufferAt(es, pos) == FlattenSeq([i \in DOMAIN es |-> Serialize(es[i], pos)])
Buffer(es) == BufferAt(es, "no")
ArrayBuffer(es) ==
    FlattenSeq([i \in DOMAIN es |-> Serialize(es[i], IF i = 1 THEN "first" ELSE "other")])

\* SeqSerializer
SerializeSeq(d, pos) ==
    CASE d.t = "list" -> WriteList(Len(d.es), Buffer(d.es), pos)
      [] d.t = "array" -> WriteArray(Len(d.es), ArrayBuffer(d.es), pos)
      [] d.t = "transparent" -> Buffer(d.es)

\* MapSerializer::serialize_entry: one serializer for a key and its value.  What a Timestamp or
\* an Array key has set in it is still set for the value: an i64 is written as a timestamp, a
\* list as an array.  (A string or binary behind a Timestamp key is unreachable!() and panics.)
RECURSIVE Inherited(_, _)
Inherited(key, d) ==
    CASE key.t = "timestamp" /\ d.t = "long" -> [d EXCEPT !.t = "timestamp"]
      [] key.t = "array" /\ d.t = "list" -> [d EXCEPT !.t = "array"]
      [] d.t = "composite" /\ d.enc = "basic" -> [d EXCEPT !.es[1] = Inherited(key, @)]
      [] OTHER -> d
SerializeMap(d, pos) ==
    LET Written(i) == IF i % 2 = 0 THEN Inherited(d.es[i - 1], d.es[i]) ELSE d.es[i]
    IN WriteMap(Len(d.es), Buffer([i \in DOMAIN d.es |-> Written(i)]), pos)

\* serialize_newtype_variant with the name DESCRIPTOR
SerializeDescriptor(code, pos) == Code("DescribedType") \o Serialize(code, pos)

\* StructSerializer
SerializeStruct(d, pos) ==
    SerializeDescriptor(d.code, pos) \o
      CASE d.enc = "list" -> WriteList(Len(d.es), Buffer(d.es), pos)
        [] d.enc = "map" -> WriteMap(Len(d.es), Buffer(d.es), pos)
        [] d.enc = "basic" -> Serialize(d.es[1], pos)

\* TupleSerializer
SerializeTuple(d, pos) == WriteList(Len(d.es), Buffer(d.es), pos)

\* TupleStructSerializer, without a descriptor and with one.  The list is written as one that
\* is not in an array; the position goes to the descriptor and to fields that are no list's.
SerializeTupleStruct(d, pos) ==
    CASE d.enc = "none" -> WriteList(Len(d.es), BufferAt(d.es, pos), "no")
      [] d.enc = "list" ->
           SerializeDescriptor(d.code, pos) \o WriteList(Len(d.es), Buffer(d.es), "no")
      [] d.enc = "basic" -> SerializeDescriptor(d.code, pos) \o BufferAt(d.es, pos)

\* serialize_unit_variant, serialize_newtype_variant and VariantSerializer
SerializeVariant(d, pos) ==
    LET index == SerializeUnsigned("uint", d.idx, "no")
    IN CASE d.enc = "unit" -> SerializeUnsigned("uint", d.idx, pos)
         [] d.enc = "newtype" -> WriteMap(2, index \o Buffer(d.es), pos)
         [] d.enc = "tuple" ->
              WriteMap(2, index \o WriteList(Len(d.es), Buffer(d.es), pos), pos)

\* to_vec, with the name serialize_newtype_struct is called with as d.t
Serialize(d, pos) ==
    CASE d.t = "null" -> SerializeUnit
      [] d.t = "bool" -> SerializeBool(d.v, pos)
      [] d.t \in {"byte", "short", "int", "long", "timestamp"} -> SerializeSigned(d.t, d.v, pos)
      [] d.t \in {"ubyte", "ushort", "uint", "ulong"} -> SerializeUnsigned(d.t, d.v, pos)
      [] d.t \in {"float", "double", "char"} -> SerializeReal(d.t, d.v, pos)
      [] d.t \in {"string", "symbol"} -> SerializeStr(d, pos)
      [] d.t = "binary" -> SerializeBinary(d, pos)
      [] d.t \in {"dec32", "dec64", "dec128", "uuid"} -> SerializeOpaque(d.t, d.v, pos)
      [] d.t \in {"list", "array", "transparent"} -> SerializeSeq(d, pos)
      [] d.t = "map" -> SerializeMap(d, pos)
      [] d.t = "composite" -> SerializeStruct(d, pos)
      [] d.t = "tuple" -> SerializeTuple(d, pos)
      [] d.t = "tuplestruct" -> SerializeTupleStruct(d, pos)
      [] d.t = "variant" -> SerializeVariant(d, pos)

ToVec(d) == Serialize(d, "no")

-----------------------------------------------------------------------------
(***************************************************************************)
(* SizeSerializer.  -1 stands for Error::too_long.                         *)
(***************************************************************************)
\* serialize_bool .. serialize_char
FixedSize(t, v, pos) ==
    LET full == EncodingCodes[FullCode[t]] + (IF pos = "other" THEN 0 ELSE 1)
    IN IF pos # "no" THEN full
       ELSE CASE t = "bool" -> 1
              [] t \in {"int", "long"} /\ v \in -128 .. 127 -> 2
              [] t \in {"uint", "ulong"} /\ v = 0 -> 1
              [] t \in {"uint", "ulong"} /\ v \in 1 .. 255 -> 2
              [] OTHER -> full

\* The boundary of the compact form is one off.
PayloadSizeOffByOne(n, pos) ==
    CASE pos = "first" -> 5 + n
      [] pos = "other" -> 4 + n
      [] pos = "no" -> IF n <= U8Max THEN 2 + n ELSE 5 + n

\* serialize_str and serialize_bytes
PayloadSize(n, pos) ==
    CASE pos = "first" -> 5 + n
      [] pos = "other" -> 4 + n
      [] pos = "no" /\ n < U8Max -> 2 + n
      [] pos = "no" /\ n >= U8Max /\ n <= U32MaxMinus4 -> 5 + n
      [] OTHER -> -1

\* map_size and array_size
CompoundSize(len, pos) ==
    IF len < 0 \/ len > U32MaxMinus4 THEN -1
    ELSE len + (IF len < U8Max THEN 2 ELSE 8) + (IF pos = "other" THEN 0 ELSE 1)

\* list_size
ListSize(len, pos) == IF len = 0 THEN 1 ELSE CompoundSize(len, pos)

RECURSIVE SizeOf(_, _)
Total(sizes) ==
    IF \E i \in DOMAIN sizes : sizes[i] < 0 THEN -1
    ELSE MapThenSumSet(LAMBDA i : sizes[i], DOMAIN sizes)
BufferSizeAt(es, pos) == Total([i \in DOMAIN es |-> SizeOf(es[i], pos)])
BufferSize(es) == BufferSizeAt(es, "no")

\* SeqSerializer of size_ser.rs
SeqSize(d, pos) ==
    CASE d.t = "list" -> ListSize(BufferSize(d.es), pos)
      [] d.t = "array" ->
           CompoundSize(Total([i \in DOMAIN d.es |->
                                 SizeOf(d.es[i], IF i = 1 THEN "first" ELSE "other")]), pos)
      [] d.t = "transparent" -> BufferSize(d.es)

\* StructSerializer of size_ser.rs: the descriptor is counted among the fields before
\* the header is.
StructSize(d, pos) ==
    LET descriptor == 1 + SizeOf(d.code, pos)
        cumulated == Total(<<descriptor, BufferSize(d.es)>>)
    IN CASE d.enc = "list" -> ListSize(cumulated, pos)
         [] d.enc = "map" -> CompoundSize(cumulated, pos)
         [] d.enc = "basic" -> cumulated

\* TupleStructSerializer of size_ser.rs
TupleStructSize(d, pos) ==
    LET descriptor == 1 + SizeOf(d.code, "no")
    IN CASE d.enc = "none" -> ListSize(BufferSizeAt(d.es, pos), pos)
         [] d.enc = "list" -> ListSize(Total(<<descriptor, BufferSizeAt(d.es, pos)>>), pos)
         [] d.enc = "basic" -> Total(<<descriptor, BufferSize(d.es)>>)

\* VariantSerializer of size_ser.rs
VariantSize(d, pos) ==
    LET index == FixedSize("uint", d.idx, "no")
    IN CASE d.enc = "unit" -> FixedSize("uint", d.idx, pos)
         [] d.enc = "newtype" -> CompoundSize(Total(<<index, BufferSize(d.es)>>), pos)
         [] d.enc = "tuple" ->
              CompoundSize(Total(<<index, ListSize(BufferSize(d.es), pos)>>), pos)

\* serialized_size
SizeOf(d, pos) ==
    CASE d.t = "null" -> 1
      [] d.t \in FixedTypes \cup {"bool"} -> FixedSize(d.t, d.v, pos)
      [] d.t \in {"binary", "string", "symbol"} -> PayloadSize(d.n, pos)
      [] d.t \in {"list", "array", "transparent"} -> SeqSize(d, pos)
      [] d.t = "map" -> CompoundSize(BufferSize(d.es), pos)
      [] d.t = "composite" -> StructSize(d, pos)
      [] d.t = "tuple" -> ListSize(BufferSize(d.es), pos)
      [] d.t = "tuplestruct" -> TupleStructSize(d, pos)
      [] d.t = "variant" -> VariantSize(d, pos)

SerializedSize(d) == SizeOf(d, "no")
=============================================================================
