----------------------------- MODULE AmqpMessage -----------------------------
(***************************************************************************)
(* Message<Body<Value>>: sections one after the other, told apart by their *)
(* descriptors, up to the end of the payload of a delivery.                *)
(*                                                                         *)
(* A message is [t |-> "message", es]: its seven fields in the order they  *)
(* are written, null where a section is absent.  The body is               *)
(* [t |-> "body", b, es] with b one of data, sequence, value and empty.    *)
(***************************************************************************)
EXTENDS AmqpTypes

SectionTypes ==
    <<Header, DeliveryAnnotations, MessageAnnotations, Properties, ApplicationProperties,
      [k |-> "body"], Footer>>
BodyField == 6
BodyTypes == [data |-> Data, sequence |-> AmqpSequence, value |-> AmqpValueSection]

Section(T, v) == [t |-> "composite", enc |-> T.enc, code |-> T.code, es |-> <<v>>]

\* Body::serialize: a batch of data or sequence sections is written without a header of
\* its own, an empty body as a null value.
SerializeBody(body) ==
    CASE body.b = "empty" -> ToVec(Section(AmqpValueSection, Null))
      [] body.b # "empty" ->
           LET T == BodyTypes[body.b]
           IN FlattenSeq([i \in DOMAIN body.es |-> ToVec(Lower(T, Section(T, body.es[i])))])

\* Message::serialize
SerializeMessage(m) ==
    FlattenSeq([i \in DOMAIN SectionTypes |->
        CASE i = BodyField -> SerializeBody(m.es[i])
          [] i # BodyField /\ m.es[i] = Null -> <<>>
          [] i # BodyField /\ m.es[i] # Null -> ToVec(Lower(SectionTypes[i], m.es[i]))])

\* FieldVisitor: the sections a descriptor may announce, and their fields.
Sections ==
    {[field |-> i, b |-> "none", T |-> SectionTypes[i]] : i \in DOMAIN SectionTypes \ {BodyField}}
    \cup {[field |-> BodyField, b |-> b, T |-> BodyTypes[b]] : b \in DOMAIN BodyTypes}
FieldOf(code) == {S \in Sections : code \in {S.T.code, S.T.name}}

\* Body::deserialize: a batch takes all the sections that follow with its descriptor.
AsBody(b, r) ==
    IF r.ok THEN [r EXCEPT !.v = [t |-> "body", b |-> b, es |-> [i \in DOMAIN @ |-> @[i].es[1]]]] ELSE r
ParseValueBody(r) == IF r.ok THEN [r EXCEPT !.v = [t |-> "body", b |-> "value", es |-> @.es]] ELSE r
ParseBody(S, ts) ==
    IF S.b = "value" THEN ParseValueBody(ParseAs(S.T, ts, ""))
    ELSE AsBody(S.b, ParseTransparentVec(S.T, ts, ts))

\* FromEmptyBody for Body
NoSections == [i \in DOMAIN SectionTypes |->
                 IF i = BodyField THEN [t |-> "body", b |-> "empty", es |-> <<>>] ELSE Null]

ParseSection(S, ts) == IF S.field # BodyField THEN ParseAs(S.T, ts, "") ELSE ParseBody(S, ts)

RECURSIVE ParseSections(_, _, _)

\* Visitor::visit_seq: at most seven sections, in whatever order they come; a second
\* one of a kind replaces the first.
ParseSections(es, count, ts) ==
    LET announced == FieldOf(PeekDescriptor(ts).v)
    IN IF count = Len(SectionTypes) \/ ts = <<>> THEN Ok([t |-> "message", es |-> es], ts, "")
       ELSE IF announced = {} THEN Err(ts)
       ELSE CHOOSE message \in
              {IF p.r.ok THEN ParseSections([es EXCEPT ![p.field] = p.r.v], count + 1, p.r.ts) ELSE p.r :
                 p \in {[field |-> S.field, r |-> ParseSection(S, ts)] : S \in announced}} : TRUE

\* Message::deserialize
ParseMessage(ts) == ParseSections(NoSections, 0, ts)

\* What a message reads as: an empty body was written as a null value, a batch without
\* a section not at all.
ReadBack(m) ==
    [m EXCEPT !.es[BodyField] =
        CASE @.b = "empty" -> [t |-> "body", b |-> "value", es |-> <<Null>>]
          [] @.b # "empty" /\ @.es = <<>> -> NoSections[BodyField]
          [] OTHER -> @]
=============================================================================
