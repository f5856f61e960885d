------------------------------ MODULE AmqpWire ------------------------------
(***************************************************************************)
(* The AMQP 1.0 type system of serde_amqp: data, format codes and bytes.   *)
(*                                                                         *)
(* Datum.  A record with a type t and                                      *)
(*   v          the number of a fixed-width type (a bit pattern when it is *)
(*              a decimal, a uuid, a float);                               *)
(*   n, chars,  bytes, characters and content of a binary, string or       *)
(*   s          symbol;                                                    *)
(*   es         the elements of a list or array, the keys and values of a  *)
(*              map in turn, the fields of a composite type;               *)
(*   code, enc  descriptor and encoding of a composite type;               *)
(*   idx        the index of a variant of a Rust enum.                     *)
(*                                                                         *)
(* Bytes.  A sequence of tokens, each the bytes one write_all() puts down: *)
(* w bytes, c the format code they are, "num" a number n, "raw" a payload  *)
(* s of n characters.  Lengths are the real ones, payloads are not built.  *)
(***************************************************************************)
EXTENDS Integers, Sequences, FiniteSetsExt

CONSTANTS U32Max, MaxArrayCount

ASSUME U32Assumption == U32Max \in Nat /\ U32Max > 512
ASSUME ArrayCountAssumption == MaxArrayCount \in Nat

\* The thresholds between the one-byte and the four-byte encodings.
U8Max == 255
U32MaxMinus4 == U32Max - 4

\* The format codes with the width that follows them: the payload of a fixed
\* type, the size field of the others.
EncodingCodes ==
    [Null |-> 0, Boolean |-> 1, BooleanTrue |-> 0, BooleanFalse |-> 0,
     Ubyte |-> 1, Ushort |-> 2, Uint |-> 4, SmallUint |-> 1, Uint0 |-> 0,
     Ulong |-> 8, SmallUlong |-> 1, Ulong0 |-> 0, Byte |-> 1, Short |-> 2,
     Int |-> 4, SmallInt |-> 1, Long |-> 8, SmallLong |-> 1, Float |-> 4,
     Double |-> 8, Decimal32 |-> 4, Decimal64 |-> 8, Decimal128 |-> 16,
     Char |-> 4, Timestamp |-> 8, Uuid |-> 16, Vbin8 |-> 1, Vbin32 |-> 4,
     Str8 |-> 1, Str32 |-> 4, Sym8 |-> 1, Sym32 |-> 4, List0 |-> 0,
     List8 |-> 1, List32 |-> 4, Map8 |-> 1, Map32 |-> 4, Array8 |-> 1,
     Array32 |-> 4, DescribedType |-> 0]

\* TryFrom<EncodingCodes> for Category: whether the width is that of the
\* payload or that of a field with the number of bytes behind it.
Sized == {"Vbin8", "Vbin32", "Str8", "Str32", "Sym8", "Sym32", "List8", "List32",
          "Map8", "Map32", "Array8", "Array32"}

\* From<EncodingCodes> for ValueType
ValueType ==
    [c \in DOMAIN EncodingCodes |->
       CASE c \in {"Boolean", "BooleanTrue", "BooleanFalse"} -> "bool"
         [] c \in {"Uint", "SmallUint", "Uint0"} -> "uint"
         [] c \in {"Ulong", "SmallUlong", "Ulong0"} -> "ulong"
         [] c \in {"Int", "SmallInt"} -> "int"
         [] c \in {"Long", "SmallLong"} -> "long"
         [] c \in {"Vbin8", "Vbin32"} -> "binary"
         [] c \in {"Str8", "Str32"} -> "string"
         [] c \in {"Sym8", "Sym32"} -> "symbol"
         [] c \in {"List0", "List8", "List32"} -> "list"
         [] c \in {"Map8", "Map32"} -> "map"
         [] c \in {"Array8", "Array32"} -> "array"
         [] c = "DescribedType" -> "described"
         [] c = "Null" -> "null"       [] c = "Ubyte" -> "ubyte"
         [] c = "Ushort" -> "ushort"   [] c = "Byte" -> "byte"
         [] c = "Short" -> "short"     [] c = "Float" -> "float"
         [] c = "Double" -> "double"   [] c = "Decimal32" -> "dec32"
         [] c = "Decimal64" -> "dec64" [] c = "Decimal128" -> "dec128"
         [] c = "Char" -> "char"       [] c = "Timestamp" -> "timestamp"
         [] c = "Uuid" -> "uuid"]

\* Value::format_code and the codes of the full-width encodings: the one code a
\* fixed-width type has besides its compact forms.
FullCode ==
    [null |-> "Null", bool |-> "Boolean", ubyte |-> "Ubyte", ushort |-> "Ushort",
     uint |-> "Uint", ulong |-> "Ulong", byte |-> "Byte", short |-> "Short",
     int |-> "Int", long |-> "Long", float |-> "Float", double |-> "Double",
     dec32 |-> "Decimal32", dec64 |-> "Decimal64", dec128 |-> "Decimal128",
     char |-> "Char", timestamp |-> "Timestamp", uuid |-> "Uuid",
     binary |-> "Vbin32", string |-> "Str32", symbol |-> "Sym32"]

FixedTypes == DOMAIN FullCode \ {"null", "bool", "binary", "string", "symbol"}

Code(c) == << [w |-> 1, c |-> c, n |-> 0, s |-> ""] >>
Raw(d) == << [w |-> d.n, c |-> "raw", n |-> d.chars, s |-> d.s] >>

\* `as u8`, `as i8` and to_be_bytes(): a number keeps what its width can hold.
\* Every number of the model fits in two bytes and more.
Num(w, v) == << [w |-> w, c |-> "num", n |-> IF w = 1 THEN v % 256 ELSE v, s |-> ""] >>
Signed8(n) == IF n > 127 THEN n - 256 ELSE n

RECURSIVE ByteLen(_)
ByteLen(ts) == IF ts = <<>> THEN 0 ELSE ts[1].w + ByteLen(Tail(ts))

-----------------------------------------------------------------------------
(***************************************************************************)
(* Reading.  A result is [ok, v, ts, elem]: the datum, the input left, and *)
(* the element code of the array being read ("" outside one).              *)
(***************************************************************************)
Ok(v, ts, elem) == [ok |-> TRUE, v |-> v, ts |-> ts, elem |-> elem]
Err(ts) == [ok |-> FALSE, v |-> [t |-> "error"], ts |-> ts, elem |-> ""]

\* Read::next, read_const_bytes, read_bytes: w bytes that were written as such.
Readable(ts, w, c) == ts # <<>> /\ ts[1].w = w /\ ts[1].c = c
NextNum(ts, w) == Readable(ts, w, "num")

\* get_elem_code_or_peek_byte and get_elem_code_or_read_format_code
IsCode(tok) == tok.c \in DOMAIN EncodingCodes
HasCode(ts, elem) == elem # "" \/ (ts # <<>> /\ IsCode(ts[1]))
PeekCode(ts, elem) == IF elem # "" THEN elem ELSE ts[1].c
AfterCode(ts, elem) == IF elem # "" THEN ts ELSE Tail(ts)

\* read_primitive_bytes_or_else: how many bytes a LazyValue takes from the input,
\* -1 when it gives up.
PrimitiveExtent(ts) ==
    IF ~HasCode(ts, "") \/ ts[1].c = "DescribedType" THEN -1
    ELSE LET w == EncodingCodes[ts[1].c]
         IN IF ts[1].c \notin Sized THEN 1 + w
            ELSE IF Len(ts) > 1 /\ ts[2].w = w THEN 1 + w + ts[2].n ELSE -1

\* The input behind its first k bytes.
RECURSIVE SkipBytes(_, _)
SkipBytes(ts, k) ==
    IF ts = <<>> THEN ts ELSE IF k < ts[1].w THEN ts ELSE SkipBytes(Tail(ts), k - ts[1].w)

\* read_described_bytes and LazyValue::from_reader
LazyExtent(ts) ==
    IF ~HasCode(ts, "") THEN -1
    ELSE IF ts[1].c # "DescribedType" THEN PrimitiveExtent(ts)
    ELSE LET descriptor == PrimitiveExtent(Tail(ts))
             value == IF descriptor < 0 THEN -1
                      ELSE PrimitiveExtent(SkipBytes(Tail(ts), descriptor))
         IN IF value < 0 THEN -1 ELSE 1 + descriptor + value
=============================================================================
