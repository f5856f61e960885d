------------------------------- MODULE MCCodec -------------------------------
(***************************************************************************)
(* The values of the model-checking runs: for every type its boundary      *)
(* values, and for every composite type the value without an optional      *)
(* field, with all of them, and with each one alone in each of its values. *)
(***************************************************************************)
EXTENDS Codec

Payload(t, n, chars) == [t |-> t, n |-> n, chars |-> chars, s |-> "x"]
Key == Text("symbol", "key")
Seq2(t, a, b) == [t |-> t, es |-> <<a, b>>]
DescribedSample == [t |-> "composite", enc |-> "basic", code |-> Number("ulong", 300),
                    es |-> <<Seq2("list", Number("uint", 1), Null)>>]

ScalarSamples(t) ==
    CASE t = "null" -> {Null}
      [] t = "bool" -> {Number(t, 0), Number(t, 1)}
      [] t \in {"byte", "int", "long"} -> {Number(t, -128), Number(t, 127)}
             \cup (IF t = "byte" THEN {} ELSE {Number(t, -129), Number(t, 128)})
      [] t \in {"uint", "ulong"} -> {Number(t, v) : v \in {0, 1, 255, 256, U32Max}}
      [] t \in {"binary", "string", "symbol"} ->
             {Payload(t, n, n) : n \in {0, 254, 255}} \cup {Payload("string", 256, 100) : x \in {t} \cap {"string"}}
      [] OTHER -> {Number(t, 9)}

ValueSamples ==
    UNION {ScalarSamples(t) : t \in {"null", "bool", "uint", "string"}}
    \cup {Seq2("list", Number("int", 300), Null), Seq2("map", Key, Number("uint", 0)),
          Seq2("array", Number("uint", 0), Number("uint", 300)),
          Seq2("array", Payload("symbol", 255, 255), Payload("symbol", 3, 3)),
          Seq2("array", Number("bool", 0), Number("bool", 1)),
          [t |-> "list", es |-> <<>>], [t |-> "array", es |-> <<>>], [t |-> "map", es |-> <<>>],
          Seq2("list", Payload("binary", 250, 250), Number("ulong", 400)), DescribedSample,
          Seq2("list", Seq2("map", Key, Seq2("array", Number("long", 3), Number("long", -3))),
                       DescribedSample)}

RECURSIVE Samples(_)

\* A value that is not null, of every type.
RECURSIVE One(_)
One(T) ==
    CASE T.k = "value" -> Number("bool", 1)
      [] T.k = "scalar" -> CHOOSE d \in ScalarSamples(T.t) : d # Null
      [] T.k = "choice" -> CHOOSE d \in T.values : TRUE
      [] T.k = "alt" -> CHOOSE d \in ScalarSamples(CHOOSE t \in T.types \ {"null"} : TRUE) : TRUE
      [] T.k = "condition" -> [t |-> "condition", n |-> NameLen, chars |-> NameLen, s |-> "x",
                               class |-> "custom"]
      [] T.k = "option" -> One(T.of)
      [] T.k = "seq" -> Seq2("list", One(T.of), One(T.of))
      [] T.k = "multiple" -> Seq2("array", One(T.of), One(T.of))
      [] T.k = "map" -> Seq2("map", One(T.key), One(T.of))
      [] T.k = "tuple" -> [t |-> T.as, enc |-> "none", es |-> [i \in DOMAIN T.parts |-> One(T.parts[i])]]
      [] T.k = "variant" -> [t |-> "variant", enc |-> T.enc, idx |-> T.count - 1, es |-> <<>>]
      [] T.k = "composite" -> [t |-> "composite", enc |-> T.enc, code |-> T.code,
                               es |-> [i \in DOMAIN T.fields |-> One(T.fields[i].of)]]
      [] T.k = "oneof" -> One(CHOOSE V \in T.variants : TRUE)

Absent(f) == IF f.kind = "mandatory" THEN One(f.of) ELSE IF f.kind = "default" THEN f.def ELSE Null
Make(T, es) == [t |-> "composite", enc |-> T.enc, code |-> T.code, es |-> es]
Bare(T) == Make(T, [i \in DOMAIN T.fields |-> Absent(T.fields[i])])

\* A composite type inside another one: without and with its optional fields.
RECURSIVE FieldSamples(_)
FieldSamples(T) ==
    CASE T.k = "composite" -> {Bare(T), One(T)}
      [] T.k = "oneof" -> UNION {FieldSamples(V) : V \in T.variants}
      [] T.k = "option" -> FieldSamples(T.of)
      [] OTHER -> Samples(T)
CompositeSamples(T) ==
    {Bare(T), One(T)}
    \cup {Make(T, [Bare(T).es EXCEPT ![x[1]] = x[2]]) :
            x \in UNION {{i} \X FieldSamples(T.fields[i].of) : i \in DOMAIN T.fields}}

Samples(T) ==
    CASE T.k = "value" -> ValueSamples
      [] T.k = "scalar" -> ScalarSamples(T.t)
      [] T.k = "choice" -> T.values
      [] T.k = "alt" -> UNION {{One(Scalar(t))} : t \in T.types \ {"null"}}
      [] T.k = "condition" ->
           {[t |-> "condition", n |-> NameLen, chars |-> NameLen, s |-> s, class |-> T.classes[i].class] :
               <<i, s>> \in UNION {{j} \X {CHOOSE s \in T.classes[j].names : TRUE} : j \in DOMAIN T.classes}}
           \cup {[t |-> "condition", n |-> NameLen, chars |-> NameLen, s |-> "x", class |-> "custom"]}
      [] T.k = "option" -> Samples(T.of)
      [] T.k = "seq" -> {[t |-> "list", es |-> <<>>], Seq2("list", One(T.of), One(T.of))}
      [] T.k = "multiple" -> {Seq2("array", One(T.of), One(T.of)), [t |-> "array", es |-> <<One(T.of)>>]}
      [] T.k = "map" -> {Seq2("map", k, One(T.of)) : k \in Samples(T.key)}
                        \cup {Seq2("map", One(T.key), v) : v \in Samples(T.of)}
      [] T.k = "variant" -> {[t |-> "variant", enc |-> T.enc, idx |-> i,
                             es |-> CASE T.enc = "unit" -> <<>>
                                      [] T.enc = "newtype" -> <<Number("uint", 7)>>
                                      [] T.enc = "tuple" -> <<Key, Null>>] : i \in 0 .. T.count - 1}
      [] T.k = "tuple" -> {One(T)}
      [] T.k = "composite" -> CompositeSamples(T)
      [] T.k = "oneof" -> UNION {Samples(V) : V \in T.variants}

\* A struct with encoding = "map", as the derive macros' own tests have them.
MapStruct ==
    [k |-> "composite", name |-> Text("symbol", "test:map"), code |-> Number("ulong", 19), enc |-> "map",
     fields |-> <<Mandatory(Scalar("bool")), Optional(Scalar("int")), Default(Uint, Number("uint", 4)),
                  Multiple(Symbol)>>,
     keys |-> [i \in 1 .. 4 |-> Text("string", <<"is", "fuel", "size", "tags">>[i])]]

MCTypes ==
    [t \in DOMAIN FullCode |-> Scalar(t)] @@
    [Value |-> AnyValue, Seq |-> [k |-> "seq", of |-> Uint],
     Array |-> [k |-> "multiple", of |-> Scalar("string")],
     Tuple |-> [k |-> "tuple", as |-> "tuple", parts |-> <<Uint, Scalar("string")>>],
     TupleStruct |-> [k |-> "tuple", as |-> "tuplestruct", parts |-> <<Scalar("ulong"), Binary>>],
     MapStruct |-> MapStruct, Map |-> MapOf(Scalar("string"), Scalar("int")), Option |-> [k |-> "option", of |-> Uint],
     UnitVariant |-> [k |-> "variant", enc |-> "unit", count |-> 2],
     NewtypeVariant |-> [k |-> "variant", enc |-> "newtype", count |-> 2],
     TupleVariant |-> [k |-> "variant", enc |-> "tuple", count |-> 2, as |-> "tuple", parts |-> <<AnyValue, AnyValue>>]] @@
    [Error |-> Error, Coordinator |-> Coordinator, Declare |-> Declare, Discharge |-> Discharge,
     Declared |-> Declared, Received |-> Received, Accepted |-> Accepted, Rejected |-> Rejected,
     Released |-> Released, Modified |-> Modified, TransactionalState |-> TransactionalState,
     LifetimePolicy |-> LifetimePolicy, Source |-> Source, Target |-> Target] @@
    [Open |-> Open, Begin |-> Begin, Attach |-> Attach, Flow |-> Flow, Transfer |-> Transfer,
     Disposition |-> Disposition, Detach |-> Detach, End |-> End, Close |-> Close,
     SaslMechanisms |-> SaslMechanisms, SaslInit |-> SaslInit, SaslChallenge |-> SaslChallenge,
     SaslResponse |-> SaslResponse, SaslOutcome |-> SaslOutcome] @@
    [Performative |-> Performative, DeliveryState |-> DeliveryState, SaslFrame |-> SaslFrame,
     Properties |-> Properties, Header |-> Header, Footer |-> Footer,
     ApplicationProperties |-> ApplicationProperties,
     LegacyAmqpHeadersBinding |-> LegacyAmqpHeadersBinding, NoLocalFilter |-> NoLocalFilter,
     Xquery |-> Xquery]
Enums == {"Performative", "DeliveryState", "SaslFrame"}
Composites == {ty \in DOMAIN MCTypes : MCTypes[ty].k = "composite"}

Item(ty, d) == [ty |-> ty, d |-> d, named |-> FALSE]
Named(ty) == [ty |-> ty, d |-> One(MCTypes[ty]), named |-> TRUE]

\* The message sections with a body of each kind.
Body(b, es) == [t |-> "body", b |-> b, es |-> es]
Sequences == Body("sequence", <<Seq2("list", Null, Key), [t |-> "list", es |-> <<>>]>>)
Bodies == {Body("data", <<Payload("binary", 3, 3), Payload("binary", 255, 255)>>), Sequences,
           Body("value", <<DescribedSample>>), Body("data", <<>>), Body("empty", <<>>)}
Message(present, body) ==
    Item("Message", [t |-> "message",
                     es |-> [i \in 1 .. 7 |-> CASE i = 6 -> body
                                                [] i # 6 /\ i \in present -> One(SectionTypes[i])
                                                [] OTHER -> Null]])

\* Values at the limits: the longest payload there is, one that is too long to be
\* written, and more elements than the reader accepts.
AtLimits ==
    {Item("Value", Payload("string", U32MaxMinus4, 9)), Item("Value", Payload("binary", U32Max - 3, 9)),
     Item("Value", [t |-> "array", es |-> Repeat(Number("uint", 1), MaxArrayCount)]),
     Item("Value", [t |-> "array", es |-> Repeat(Number("uint", 1), MaxArrayCount + 1)]),
     Item("Value", [t |-> "list", es |-> Repeat(Payload("symbol", 60, 60), MaxArrayCount + 1)]),
     Item("Value", [t |-> "map", es |-> Repeat(Payload("symbol", 60, 60), MaxArrayCount + 2)]),
     Item("Value", [t |-> "list", es |-> Repeat(Number("uint", 1), MaxArrayCount + 1)])}

MCCorpus ==
    AtLimits \cup
    UNION {{Item(ty, d) : d \in Samples(MCTypes[ty])} : ty \in DOMAIN MCTypes \ Enums}
    \cup UNION {{Item(ty, One(V)) : V \in MCTypes[ty].variants} : ty \in Enums}
    \cup {Named(ty) : ty \in Composites}
    \cup {Message(p, b) : p \in {{}, {1, 3}, {4, 7}, {2, 5}, 1 .. 7}, b \in Bodies}
MCFollowers == {Item("uint", Number("uint", 0)), Item("Accepted", One(Accepted)), Message({4, 7}, Sequences)}
=============================================================================
