------------------------------- MODULE AmqpDe -------------------------------
(***************************************************************************)
(* serde_amqp's deserializer, de.rs: bytes to data.  An operator takes the *)
(* input ts and elem, the element code of the array being read, which      *)
(* replaces the format code of its elements; it returns what is left of    *)
(* both.  Deserializer::elem_format_code is one field for all depths, so   *)
(* whoever resets it resets it for the arrays around it too.               *)
(*                                                                         *)
(* A Rust type T is a record with the kind k of its Deserialize:           *)
(*   value      Value: whatever the format codes say                       *)
(*   scalar     a primitive type t                                         *)
(*   choice     a restricted type: the values of a primitive type t it allows   *)
(*   alt        an enum over primitive types, told apart by format code    *)
(*   condition  ErrorCondition, a symbol                                   *)
(*   option, seq, map, multiple (Array<T>), variant (a Rust enum)          *)
(*   tuple      a tuple or undescribed tuple struct (as), with its parts   *)
(*   composite  a derived struct with its code, enc and fields, and the    *)
(*              keys of its fields where enc is "map"                      *)
(*   oneof      an enum over composite types, told apart by descriptor     *)
(***************************************************************************)
EXTENDS AmqpWire

CodesOf(t) == {c \in DOMAIN EncodingCodes : ValueType[c] = t}

\* A number of the width its code announces, read by next or read_const_bytes.
ParseNumber(t, c, ts, elem) ==
    LET w == EncodingCodes[c]
    IN IF ~NextNum(ts, w) THEN Err(ts)
       ELSE Ok([t |-> t, v |-> IF c \in {"SmallInt", "SmallLong", "Byte"}
                              THEN Signed8(ts[1].n) ELSE ts[1].n], Tail(ts), elem)

\* parse_bool
ParseBool(c, ts, elem) ==
    IF c # "Boolean" THEN Ok([t |-> "bool", v |-> IF c = "BooleanTrue" THEN 1 ELSE 0], ts, elem)
    ELSE LET r == ParseNumber("bool", c, ts, elem)
         IN IF r.ok /\ r.v.v \notin {0, 1} THEN Err(ts) ELSE r

\* parse_i8, parse_i16, parse_i32, parse_i64
ParseSigned(t, c, ts, elem) == ParseNumber(t, c, ts, elem)

\* parse_u8, parse_u16, parse_u32, parse_u64
ParseUnsigned(t, c, ts, elem) ==
    IF c \in {"Uint0", "Ulong0"} THEN Ok([t |-> t, v |-> 0], ts, elem)
    ELSE ParseNumber(t, c, ts, elem)

\* parse_f32, parse_f64, parse_char
ParseReal(t, c, ts, elem) == ParseNumber(t, c, ts, elem)

\* parse_decimal, parse_uuid, parse_timestamp
ParseOpaque(t, c, ts, elem) == ParseNumber(t, c, ts, elem)

\* parse_unit
ParseUnit(ts, elem) == Ok([t |-> "null"], ts, elem)

\* A length and as many bytes.
ParsePayload(t, c, ts, elem) ==
    IF NextNum(ts, EncodingCodes[c]) /\ Readable(Tail(ts), ts[1].n, "raw")
    THEN Ok([t |-> t, n |-> ts[2].w, chars |-> ts[2].n, s |-> ts[2].s],
            SubSeq(ts, 3, Len(ts)), elem)
    ELSE Err(ts)

\* read_small_string, read_string, parse_string and parse_symbol
ParseText(t, c, ts, elem) == ParsePayload(t, c, ts, elem)

\* parse_binary
ParseBinary(c, ts, elem) == ParsePayload("binary", c, ts, elem)

\* deserialize_bool .. deserialize_bytes: what a type takes from the input; every
\* other format code is an InvalidFormatCode.
ParseScalar(t, ts0, elem) ==
    IF ~HasCode(ts0, elem) \/ PeekCode(ts0, elem) \notin CodesOf(t) THEN Err(ts0)
    ELSE LET c == PeekCode(ts0, elem)
             ts == AfterCode(ts0, elem)
         IN CASE t = "null" -> ParseUnit(ts, elem)
              [] t = "bool" -> ParseBool(c, ts, elem)
              [] t \in {"byte", "short", "int", "long"} -> ParseSigned(t, c, ts, elem)
              [] t \in {"ubyte", "ushort", "uint", "ulong"} -> ParseUnsigned(t, c, ts, elem)
              [] t \in {"float", "double", "char"} -> ParseReal(t, c, ts, elem)
              [] t \in {"dec32", "dec64", "dec128", "uuid", "timestamp"} ->
                   ParseOpaque(t, c, ts, elem)
              [] t \in {"string", "symbol"} -> ParseText(t, c, ts, elem)
              [] t = "binary" -> ParseBinary(c, ts, elem)

\* A size and a count of the width of the format code: [ok, size, count, ts].
CompoundHeader(c, ts) ==
    LET w == EncodingCodes[c]
    IN IF w = 0 THEN [ok |-> TRUE, size |-> 0, count |-> 0, ts |-> ts]
       ELSE IF NextNum(ts, w) /\ NextNum(Tail(ts), w)
            THEN [ok |-> TRUE, size |-> ts[1].n, count |-> ts[2].n, ts |-> SubSeq(ts, 3, Len(ts))]
            ELSE [ok |-> FALSE, size |-> 0, count |-> 0, ts |-> ts]

RECURSIVE ParseAs(_, _, _), ParseElements(_, _, _)

AnyValue == [k |-> "value"]
Repeat(T, count) == [i \in 1 .. count |-> T]

\* ListAccess and MapAccess: data of the types Ts one after the other.
Prepend(v, rest) == IF rest.ok THEN [rest EXCEPT !.v = <<v>> \o @] ELSE rest
ParseRest(Ts, first) ==
    IF first.ok THEN Prepend(first.v, ParseElements(Tail(Ts), first.ts, first.elem)) ELSE first
ParseElements(Ts, ts, elem) ==
    IF Ts = <<>> THEN Ok(<<>>, ts, elem) ELSE ParseRest(Ts, ParseAs(Head(Ts), ts, elem))

\* ArrayAccess: the elements may not reach beyond the size of the array, and the
\* last one leaves no element code behind.
ParseArrayElements(T, size, count, ts, c) ==
    LET r == ParseElements(Repeat(T, count), ts, c)
    IN IF ~r.ok \/ ByteLen(ts) - ByteLen(r.ts) > size THEN Err(ts)
       ELSE [r EXCEPT !.elem = ""]

Elements(t, r) == IF r.ok THEN [r EXCEPT !.v = [t |-> t, es |-> @]] ELSE r

\* deserialize_seq
ParseSeq(T, ts0, elem) ==
    LET c == PeekCode(ts0, elem)
        h == CompoundHeader(c, AfterCode(ts0, elem))
        offset == IF c = "Array8" THEN 2 ELSE 5
    IN CASE ~h.ok -> Err(ts0)
         [] h.ok /\ c = "List0" -> Elements("list", Ok(<<>>, h.ts, elem))
         [] h.ok /\ c \in {"List8", "List32"} ->
              IF c = "List32" /\ h.count > MaxArrayCount THEN Err(ts0)
              ELSE Elements("list", ParseElements(Repeat(T, h.count), h.ts, ""))
         [] h.ok /\ c \in {"Array8", "Array32"} ->
              IF h.count > MaxArrayCount \/ h.count > h.size THEN Err(ts0)
              ELSE IF h.count = 0 THEN Elements("array", Ok(<<>>, h.ts, ""))
              ELSE IF ~HasCode(h.ts, "") THEN Err(ts0)
              ELSE Elements("array", ParseArrayElements(T, h.size - offset, h.count,
                                                         Tail(h.ts), h.ts[1].c))

\* deserialize_map; an element code stays set while the entries are read.
ParseMap(K, V, ts0, elem) ==
    LET c == PeekCode(ts0, elem)
        h == CompoundHeader(c, AfterCode(ts0, elem))
    IN IF c \notin {"Map8", "Map32"} \/ ~h.ok \/ (c = "Map32" /\ h.count > MaxArrayCount)
       THEN Err(ts0)
       ELSE Elements("map", ParseElements([i \in 1 .. h.count |-> IF i % 2 = 1 THEN K ELSE V],
                                          h.ts, elem))

\* deserialize_tuple: a list of as many elements.
ParseTuple(T, ts0, elem) ==
    LET c == PeekCode(ts0, elem)
        h == CompoundHeader(c, AfterCode(ts0, elem))
        r == ParseElements(T.parts, h.ts, "")
    IN IF ValueType[c] # "list" \/ ~h.ok \/ h.count # Len(T.parts) THEN Err(ts0)
       ELSE IF ~r.ok THEN Err(ts0)
       ELSE [r EXCEPT !.v = [t |-> T.as, enc |-> "none", es |-> @]]

\* deserialize_enum and deserialize_identifier for Descriptor: 0x00 and a symbol or
\* a ulong.
ParseDescriptor(ts, elem) ==
    IF ts = <<>> \/ ts[1].c # "DescribedType" \/ ~HasCode(Tail(ts), elem) THEN Err(ts)
    ELSE LET t == ValueType[PeekCode(Tail(ts), elem)]
         IN IF t \in {"symbol", "ulong"} THEN ParseScalar(t, Tail(ts), elem) ELSE Err(ts)

\* parse_described_identifier: the same without taking it from the input.
PeekDescriptor(ts) ==
    IF Len(ts) < 2 \/ ts[2].c \notin {"Sym8", "Sym32", "Ulong0", "SmallUlong", "Ulong"}
    THEN Err(ts) ELSE ParseDescriptor(ts, "")

\* Described::deserialize: descriptor and value.
ParseDescribed(T, ts, elem) ==
    LET d == ParseDescriptor(ts, elem)
        v == IF d.ok THEN ParseAs(T, d.ts, d.elem) ELSE Err(ts)
    IN IF ~v.ok THEN Err(ts)
       ELSE [v EXCEPT !.v = [t |-> "composite", enc |-> "basic", code |-> d.v, es |-> <<@>>]]

\* deserialize_any and Value::deserialize
ParseValue(ts, elem) ==
    LET t == ValueType[PeekCode(ts, elem)]
    IN CASE t \in {"list", "array"} -> ParseSeq(AnyValue, ts, elem)
         [] t = "map" -> ParseMap(AnyValue, AnyValue, ts, elem)
         [] t = "described" -> ParseDescribed(AnyValue, ts, elem)
         [] OTHER -> ParseScalar(t, ts, elem)

\* deserialize_enum for a Rust enum and VariantAccess: a bare index, or a list or
\* map of the index and the content.
ParseVariant(T, ts0) ==
    LET t == ValueType[ts0[1].c]
        h == CompoundHeader(ts0[1].c, Tail(ts0))
        start == IF t = "uint" THEN ts0 ELSE h.ts
        index == ParseScalar("uint", start, "")
        content == IF ~index.ok THEN Err(ts0)
                   ELSE IF T.enc = "tuple" THEN ParseTuple(T, index.ts, "")
                   ELSE ParseAs(AnyValue, index.ts, "")
        Variant(es) == [t |-> "variant", enc |-> T.enc, idx |-> index.v.v, es |-> es]
    IN IF t \notin {"uint", "list", "map"} \/ ts0[1].c = "List0" THEN Err(ts0)
       ELSE IF ~(t # "uint" => h.ok /\ h.count = 2) \/ ~index.ok THEN Err(ts0)
       ELSE IF index.v.v >= T.count THEN Err(ts0)
       ELSE IF T.enc = "unit" THEN Ok(Variant(<<>>), index.ts, "")
       ELSE IF ~content.ok THEN Err(ts0)
       ELSE Ok(Variant(IF T.enc = "tuple" THEN content.v.es ELSE <<content.v>>),
               content.ts, "")

\* Array::deserialize: a value that is not an array is an array of one.
ParseMultiple(T, ts, elem) ==
    IF ValueType[PeekCode(ts, elem)] = "array" THEN ParseSeq(T, ts, elem)
    ELSE LET v == ParseAs(T, ts, elem)
         IN IF v.ok THEN [v EXCEPT !.v = [t |-> "array", es |-> <<@>>]] ELSE v

\* deserialize_option
ParseOption(T, ts, elem) ==
    IF PeekCode(ts, elem) = "Null" THEN ParseScalar("null", ts, elem) ELSE ParseAs(T, ts, elem)

\* The types of the elements a derived visit_seq asks for: Option<T> where the
\* field is optional or has a default.
ElementType(f) == IF f.kind = "mandatory" THEN f.of ELSE [k |-> "option", of |-> f.of]

\* unwrap_or_none!, unwrap_or_default! and the filter on `multiple` fields.
Unwrap(f, v) ==
    CASE f.kind = "default" /\ v.t = "null" -> f.def
      [] f.kind = "multiple" /\ v.t = "array" /\ v.es = <<>> -> [t |-> "null"]
      [] OTHER -> v

\* expand_deserialize_struct, DescribedAccess: the descriptor must be the type's,
\* the header says how many fields are present, and no more are read than the type
\* has.
ParseComposite(T, ts0, elem) ==
    LET d == ParseDescriptor(ts0, elem)
        c == PeekCode(d.ts, d.elem)
        h == CompoundHeader(c, AfterCode(d.ts, d.elem))
        present == IF T.enc = "basic" THEN 1 ELSE Min({h.count, Len(T.fields)})
        Ts == [i \in 1 .. present |-> ElementType(T.fields[i])]
        r == ParseElements(Ts, IF T.enc = "basic" THEN d.ts ELSE h.ts, d.elem)
        absent == present + 1 .. Len(T.fields)
    IN IF ~d.ok \/ (d.v # T.code /\ d.v # T.name) THEN Err(ts0)
       ELSE IF T.enc = "list" /\ (~HasCode(d.ts, d.elem) \/ ValueType[c] # "list" \/ ~h.ok)
            THEN Err(ts0)
       ELSE IF ~r.ok \/ \E i \in absent : T.fields[i].kind = "mandatory" THEN Err(ts0)
       ELSE [r EXCEPT !.v = [t |-> "composite", enc |-> T.enc, code |-> T.code,
                             es |-> [i \in DOMAIN T.fields |->
                                       Unwrap(T.fields[i], IF i <= present THEN @[i]
                                                           ELSE [t |-> "null"])]]]

RECURSIVE ParseEntries(_, _, _, _)

\* visit_map of a derived struct: keys in any order, each a field and none twice.
ParseEntries(T, es, count, ts) ==
    IF count = 0 THEN Ok(es, ts, "")
    ELSE LET key == ParseScalar("string", ts, "")
             field == {i \in DOMAIN T.keys : key.ok /\ T.keys[i] = key.v}
             i == CHOOSE x \in field : TRUE
             v == ParseAs(T.fields[i].of, key.ts, "")
         IN IF field = {} THEN Err(ts)
            ELSE IF es[i].t # "null" \/ ~v.ok THEN Err(ts)
            ELSE ParseEntries(T, [es EXCEPT ![i] = v.v], count - 1, v.ts)

\* DescribedAccess::map
ParseMapComposite(T, ts0) ==
    LET d == ParseDescriptor(ts0, "")
        h == CompoundHeader(d.ts[1].c, Tail(d.ts))
        r == ParseEntries(T, Repeat([t |-> "null"], Len(T.fields)), h.count \div 2, h.ts)
    IN IF ~d.ok \/ (d.v # T.code /\ d.v # T.name) \/ ~HasCode(d.ts, "") THEN Err(ts0)
       ELSE IF ValueType[d.ts[1].c] # "map" \/ ~h.ok THEN Err(ts0)
       ELSE IF ~r.ok THEN Err(ts0)
       ELSE IF \E i \in DOMAIN T.fields : T.fields[i].kind = "mandatory" /\ r.v[i].t = "null"
            THEN Err(ts0)
       ELSE [r EXCEPT !.v = [t |-> "composite", enc |-> "map", code |-> T.code,
                             es |-> [i \in DOMAIN T.fields |-> Unwrap(T.fields[i], @[i])]]]

\* The enums over composite types: the descriptor picks the one that is read.
ParseOneOf(T, ts, elem) ==
    LET d == PeekDescriptor(ts)
        variants == {V \in T.variants : d.v \in {V.code, V.name}}
    IN IF ~d.ok \/ variants = {} THEN Err(ts) ELSE ParseAs(CHOOSE V \in variants : TRUE, ts, elem)

\* ErrorCondition::deserialize: the first enum that knows the symbol.
ParseCondition(T, ts, elem) ==
    LET r == ParseScalar("symbol", ts, elem)
        known == {i \in DOMAIN T.classes : r.v.s \in T.classes[i].names}
    IN IF ~r.ok THEN r
       ELSE [r EXCEPT !.v = [t |-> "condition", n |-> @.n, chars |-> @.chars, s |-> @.s,
                             class |-> IF known = {} THEN "custom" ELSE T.classes[Min(known)].class]]

\* T::deserialize
ParseAs(T, ts, elem) ==
    IF ~HasCode(ts, elem) THEN Err(ts)
    ELSE CASE T.k = "value" -> ParseValue(ts, elem)
           [] T.k = "scalar" -> ParseScalar(T.t, ts, elem)
           [] T.k = "choice" -> LET r == ParseScalar(T.t, ts, elem)
                                IN IF r.ok /\ r.v \in T.values THEN r ELSE Err(ts)
           [] T.k = "alt" -> LET t == ValueType[PeekCode(ts, elem)]
                             IN IF t \in T.types THEN ParseScalar(t, ts, elem) ELSE Err(ts)
           [] T.k = "condition" -> ParseCondition(T, ts, elem)
           [] T.k = "option" -> ParseOption(T.of, ts, elem)
           [] T.k = "seq" -> IF ValueType[PeekCode(ts, elem)] \in {"list", "array"}
                             THEN ParseSeq(T.of, ts, elem) ELSE Err(ts)
           [] T.k = "multiple" -> ParseMultiple(T.of, ts, elem)
           [] T.k = "map" -> ParseMap(T.key, T.of, ts, elem)
           [] T.k = "variant" -> ParseVariant(T, ts)
           [] T.k = "tuple" -> ParseTuple(T, ts, elem)
           [] T.k = "composite" -> IF T.enc = "map" THEN ParseMapComposite(T, ts)
                                   ELSE ParseComposite(T, ts, elem)
           [] T.k = "oneof" -> ParseOneOf(T, ts, elem)

\* TransparentVecAccess: as many data as follow with the type of the first.
SameKind(a, b) ==
    IF a[1].c = "DescribedType" \/ b[1].c = "DescribedType"
    THEN a[1].c = b[1].c /\ PeekDescriptor(a).v = PeekDescriptor(b).v
    ELSE ValueType[a[1].c] = ValueType[b[1].c]

RECURSIVE ParseTransparentVec(_, _, _)
ParseFollowing(T, v, first) ==
    IF v.ok THEN Prepend(v.v, ParseTransparentVec(T, v.ts, first)) ELSE v
ParseTransparentVec(T, ts, first) ==
    IF ts = <<>> \/ ~HasCode(ts, "") \/ ~SameKind(ts, first) THEN Ok(<<>>, ts, "")
    ELSE ParseFollowing(T, ParseAs(T, ts, ""), first)

\* from_reader and from_slice: the datum at the front of the input.
FromReader(T, ts) == ParseAs(T, ts, "")
=============================================================================
