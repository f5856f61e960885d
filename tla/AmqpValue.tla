------------------------------ MODULE AmqpValue ------------------------------
(***************************************************************************)
(* What stands between a Rust type and the serializers: the code that      *)
(* #[derive(SerializeComposite)] generates (serde_amqp_derive), and the    *)
(* second pair of serializers of serde_amqp, to_value and from_value,      *)
(* which go to and from a Value in memory rather than to bytes.            *)
(***************************************************************************)
EXTENDS AmqpSer, AmqpDe

Null == [t |-> "null"]

\* Every null is left out, not only the trailing ones.
DropAllNulls(es) == SelectSeq(es, LAMBDA e : e # Null)

\* macro_rules buffer_if_none and buffer_if_eq_default: nulls are held back until a
\* field that is not null follows, so the trailing ones are never written.
DropTrailingNulls(es) ==
    SubSeq(es, 1, Max({0} \cup {i \in DOMAIN es : es[i] # Null}))

RECURSIVE Lower(_, _)

\* macro_rules buffer_if_eq_default: a default is not written.
Buffered(f, v) ==
    IF v = Null \/ (f.kind = "default" /\ v = f.def) THEN Null ELSE Lower(f.of, v)

\* macro_rules serialize_if_some and serialize_if_neq_default: a map holds the entries
\* that are not null.
Entries(T, es) ==
    FlattenSeq([i \in DOMAIN es |-> IF es[i] = Null THEN <<>> ELSE <<T.keys[i], es[i]>>])

\* expand_serialize_struct, expand_serialize_tuple_struct, expand_serialize_unit_struct:
\* the fields as the serializer gets them.
LowerComposite(T, d) ==
    LET es == [i \in DOMAIN T.fields |-> Buffered(T.fields[i], d.es[i])]
    IN [d EXCEPT !.es = CASE T.enc = "basic" -> es
                          [] T.enc = "list" -> DropTrailingNulls(es)
                          [] T.enc = "map" -> Entries(T, es)]

\* T::serialize for a value of type T.
Lower(T, d) ==
    CASE d = Null -> Null
      [] d # Null /\ T.k = "composite" -> LowerComposite(T, d)
      [] d # Null /\ T.k = "oneof" -> Lower(CHOOSE V \in T.variants : V.code = d.code, d)
      [] d # Null /\ T.k = "option" -> Lower(T.of, d)
      [] d # Null /\ T.k \in {"seq", "multiple"} ->
           [d EXCEPT !.es = [i \in DOMAIN @ |-> Lower(T.of, @[i])]]
      [] d # Null /\ T.k = "map" ->
           [d EXCEPT !.es = [i \in DOMAIN @ |-> Lower(IF i % 2 = 1 THEN T.key ELSE T.of, @[i])]]
      [] d # Null /\ T.k = "condition" -> [t |-> "symbol", n |-> d.n, chars |-> d.chars, s |-> d.s]
      [] OTHER -> d

-----------------------------------------------------------------------------
(***************************************************************************)
(* to_value                                                                *)
(***************************************************************************)
RECURSIVE ToValue(_)

ToValues(es) == [i \in DOMAIN es |-> ToValue(es[i])]
Described(code, v) == [t |-> "composite", enc |-> "basic", code |-> code, es |-> <<v>>]
ListOf(es) == [t |-> "list", es |-> es]

\* SeqSerializer of value/ser.rs
SeqToValue(d) == [t |-> d.t, es |-> ToValues(d.es)]

\* The descriptor is lost.
StructWithoutDescriptor(d) == ListOf(ToValues(d.es))

\* StructSerializer of value/ser.rs
StructToValue(d) ==
    Described(d.code, CASE d.enc = "list" -> ListOf(ToValues(d.es))
                        [] d.enc = "map" -> [t |-> "map", es |-> ToValues(d.es)]
                        [] d.enc = "basic" -> ToValue(d.es[1]))

\* TupleSerializer and TupleStructSerializer of value/ser.rs
TupleStructToValue(d) ==
    CASE d.enc = "none" -> ListOf(ToValues(d.es))
      [] d.enc = "list" -> Described(d.code, ListOf(ToValues(d.es)))
      [] d.enc = "basic" -> Described(d.code, ToValue(d.es[1]))

\* serialize_unit_variant, serialize_newtype_variant and VariantSerializer of
\* value/ser.rs: a list of the index and the content.
VariantToValue(d) ==
    LET index == [t |-> "uint", v |-> d.idx]
    IN CASE d.enc = "unit" -> index
         [] d.enc = "newtype" -> ListOf(<<index, ToValue(d.es[1])>>)
         [] d.enc = "tuple" -> ListOf(<<index, ListOf(ToValues(d.es))>>)

\* to_value
ToValue(d) ==
    CASE d.t \in {"list", "array", "map"} -> SeqToValue(d)
      [] d.t = "composite" -> StructToValue(d)
      [] d.t \in {"tuple", "tuplestruct"} -> TupleStructToValue(d)
      [] d.t = "variant" -> VariantToValue(d)
      [] OTHER -> d

-----------------------------------------------------------------------------
(***************************************************************************)
(* from_value.  NoValue stands for Error::InvalidValue.                    *)
(***************************************************************************)
NoValue == [t |-> "error"]

RECURSIVE FromValue(_, _)

FromValues(T, d) ==
    LET es == [i \in DOMAIN d.es |-> FromValue(T, d.es[i])]
    IN IF \E i \in DOMAIN es : es[i] = NoValue THEN NoValue ELSE [d EXCEPT !.es = es]

\* deserialize_bool .. deserialize_bytes of value/de.rs: a type takes only its own
\* variant of Value.
ScalarFromValue(t, v) == IF v.t = t THEN v ELSE NoValue

\* ValueVisitor::visit_*: as Value, what the visitor is shown decides the variant, and
\* a Symbol shows a string, a Timestamp an i64, a Decimal or Uuid its bytes.
VisitValue(v) ==
    CASE v.t = "symbol" -> [v EXCEPT !.t = "string"]
      [] v.t = "timestamp" -> [v EXCEPT !.t = "long"]
      [] v.t \in {"dec32", "dec64", "dec128", "uuid"} ->
           LET w == EncodingCodes[FullCode[v.t]]
           IN [t |-> "binary", n |-> w, chars |-> w, s |-> ""]
      [] v.t \in {"composite", "list", "array"} -> NoValue
      [] v.t = "map" -> FromValues(AnyValue, v)
      [] OTHER -> v

\* deserialize_enum and VariantAccess of value/de.rs
VariantFromValue(T, v) ==
    LET index == IF v.t = "list" /\ v.es # <<>> THEN v.es[1] ELSE v
        Variant(es) == [t |-> "variant", enc |-> T.enc, idx |-> index.v, es |-> es]
    IN IF index.t # "uint" THEN NoValue
       ELSE IF index.v >= T.count THEN NoValue
       ELSE IF T.enc = "unit" THEN Variant(<<>>)
       ELSE IF v.t # "list" THEN NoValue
       ELSE IF Len(v.es) < 2 THEN NoValue
       ELSE IF T.enc = "newtype" THEN Variant(<<v.es[2]>>)
       ELSE IF v.es[2].t # "list" THEN NoValue
       ELSE IF Len(v.es[2].es) < Len(T.parts) THEN NoValue
       ELSE Variant(SubSeq(v.es[2].es, 1, Len(T.parts)))

\* deserialize_option, _seq, _map, _struct of value/de.rs: a composite type is asked
\* for as a list, which a described value is not.
FromValue(T, v) ==
    CASE T.k = "value" -> VisitValue(v)
      [] T.k = "scalar" -> ScalarFromValue(T.t, v)
      [] T.k = "option" -> IF v = Null THEN v ELSE FromValue(T.of, v)
      [] T.k = "seq" -> IF v.t = "list" THEN FromValues(T.of, v) ELSE NoValue
      [] T.k = "multiple" -> IF v.t = "array" THEN FromValues(T.of, v) ELSE NoValue
      [] T.k = "map" -> IF v.t # "map" THEN NoValue
                        ELSE IF \E i \in DOMAIN v.es :
                                  FromValue(IF i % 2 = 1 THEN T.key ELSE T.of, v.es[i]) = NoValue
                             THEN NoValue ELSE v
      [] T.k = "variant" -> VariantFromValue(T, v)
      [] OTHER -> NoValue
=============================================================================
