-------------------------------- MODULE Codec --------------------------------
(***************************************************************************)
(* A byte stream between a writer and a reader that both use serde_amqp.   *)
(* The writer appends to_vec() of typed values one after the other, as the *)
(* frame encoder appends the payload to a transfer; the reader takes them  *)
(* off as the type they were written as, as a Value, or as a LazyValue.    *)
(* Nothing but the encodings themselves separates one value from the next. *)
(* An item is [ty, d, named]: a value of a type, and whether its descriptor *)
(* is written as a symbol, as other implementations may.                   *)
(***************************************************************************)
EXTENDS AmqpMessage

CONSTANTS
    Types,     \* the types by name
    Corpus,    \* what may be written first
    Followers  \* and behind it

VARIABLES
    sent,     \* the values written, in order
    stream,   \* the bytes written and not read
    got,      \* what has been read, in order: [how, ok, v]
    refused   \* the writer's to_vec failed

vars == <<sent, stream, got, refused>>

Init == sent = <<>> /\ stream = <<>> /\ got = <<>> /\ refused = FALSE

IsMessage(item) == item.ty = "Message"
Lowered(item) ==
    LET d == Lower(Types[item.ty], item.d)
    IN IF item.named THEN [d EXCEPT !.code = Types[item.ty].name] ELSE d

\* to_vec(&value)
Encode(item) == IF IsMessage(item) THEN SerializeMessage(item.d) ELSE ToVec(Lowered(item))

Write(item) ==
    LET bytes == Encode(item)
    IN /\ Len(sent) < 2 /\ got = <<>> /\ ~refused
       /\ \A i \in DOMAIN sent : ~IsMessage(sent[i])
       /\ refused' = ~Encoded(bytes)
       /\ IF Encoded(bytes) THEN sent' = Append(sent, item) /\ stream' = stream \o bytes
          ELSE UNCHANGED <<sent, stream>>
       /\ UNCHANGED got

Take(how, r) ==
    /\ got' = Append(got, [how |-> how, ok |-> r.ok, v |-> r.v])
    /\ stream' = IF r.ok THEN r.ts ELSE <<>>
    /\ UNCHANGED <<sent, refused>>

Due == sent[Len(got) + 1]
Waiting == Len(got) < Len(sent) /\ \A i \in DOMAIN got : got[i].ok

\* from_reader::<T>
ReadTyped == Waiting /\ ~IsMessage(Due) /\ Take("typed", FromReader(Types[Due.ty], stream))

\* decode_message_from_reader
ReadMessage == Waiting /\ IsMessage(Due) /\ Take("typed", ParseMessage(stream))

\* from_reader::<Value>
ReadValue == Waiting /\ ~IsMessage(Due) /\ Take("value", FromReader(AnyValue, stream))

\* LazyValue::from_reader
ReadLazy ==
    LET extent == LazyExtent(stream)
    IN /\ Waiting /\ ~IsMessage(Due)
       /\ Take("lazy", IF extent < 0 THEN Err(stream)
                       ELSE Ok([t |-> "lazy", n |-> extent], SkipBytes(stream, extent), ""))

Next ==
    \/ \E item \in IF sent = <<>> THEN Corpus ELSE Followers : Write(item)
    \/ ReadTyped
    \/ ReadMessage
    \/ ReadValue
    \/ ReadLazy

Spec == Init /\ [][Next]_vars

-----------------------------------------------------------------------------
(***************************************************************************)
(* Properties                                                              *)
(***************************************************************************)
\* What deserialize_seq and deserialize_map refuse: more elements than MAX_ARRAY_COUNT in an
\* array, or in a list or a map with a four-byte header.  The fields of a composite type, a
\* tuple or a variant, and the sections of a message, are not counted there; but as a Value
\* they are lists and maps like any other.
Counted(how) == {"list", "map", "array"} \cup (IF how = "value" THEN {"composite", "tuple", "tuplestruct", "variant"} ELSE {})
RECURSIVE Overlong(_, _)
Overlong(d, how) ==
    "es" \in DOMAIN d /\
        \/ d.t \in Counted(how) /\ Len(d.es) > MaxArrayCount /\ (d.t = "array" \/ ByteLen(Buffer(d.es)) >= U8Max)
        \/ \E i \in DOMAIN d.es : Overlong(d.es[i], how)

\* A Rust enum is a map on the wire and a list for to_value: as a Value it does not
\* compare.
IsVariant(item) == item.d.t = "variant" /\ item.d.enc # "unit"

\* What the reader should see.
Expected(how, item) ==
    CASE how = "typed" -> IF IsMessage(item) THEN ReadBack(item.d) ELSE item.d
      [] how = "value" -> ToValue(Lowered(item))
      [] how = "lazy" -> [t |-> "lazy", n |-> ByteLen(Encode(item))]

\* A value read back, as its type, as a Value or as raw bytes, is the value that was
\* written: no default, trailing null, compact encoding, symbolic descriptor or message
\* section changes it (serde_amqp ser.rs and de.rs, the derive macros, to_value).
ReadsWhatWasWritten ==
    \A i \in DOMAIN got :
        ~got[i].ok \/ (got[i].how = "value" /\ IsVariant(sent[i]))
        \/ got[i].v = Expected(got[i].how, sent[i])

\* However the values in front were read, the reader stands at the first byte of the next
\* one: it leaves exactly the bytes of what is still unread.  It fails only on a list, map or
\* array of more elements than de.rs accepts, never on a performative, a message section or
\* any other composite type, and never when it takes the bytes as they are.
StaysAligned ==
    IF \E i \in DOMAIN got : ~got[i].ok
    THEN LET item == sent[Len(got)]
         IN /\ Last(got).how # "lazy"
            /\ Overlong(IF IsMessage(item) THEN item.d ELSE Lowered(item), Last(got).how)
    ELSE stream = FlattenSeq([i \in 1 .. Len(sent) - Len(got) |-> Encode(sent[Len(got) + i])])

\* serialized_size never promises less than to_vec writes, so that the sender that cuts
\* transfers and unsettled maps by it (link/sender_link.rs, link/mod.rs) keeps to the frame size.
SizeCovers ==
    \A i \in DOMAIN sent :
        ~IsMessage(sent[i]) => SerializedSize(Lowered(sent[i])) >= ByteLen(Encode(sent[i]))

\* A Value made in memory by to_value is written as the value itself is, and from_value
\* takes it back as the type it came from: composite types excepted, which from_value
\* does not know.
ThroughValue ==
    \A i \in DOMAIN sent :
        (~IsMessage(sent[i]) /\ ~IsVariant(sent[i])) =>
            LET d == Lowered(sent[i])
                back == FromValue(Types[sent[i].ty], ToValue(d))
            IN /\ ToVec(ToValue(d)) = ToVec(d)
               /\ Types[sent[i].ty].k \in {"scalar", "option", "seq", "multiple", "map"} => back = d
=============================================================================
