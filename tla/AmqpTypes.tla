------------------------------ MODULE AmqpTypes ------------------------------
(***************************************************************************)
(* The types of fe2o3-amqp-types and fe2o3-amqp-ext: what their Serialize  *)
(* and Deserialize implementations, derived or written by hand, put on the *)
(* wire and accept from it.                                                *)
(***************************************************************************)
EXTENDS AmqpValue

\* Names are shorter than 255 bytes; NameLen stands for their length.
NameLen == 20
Text(t, s) == [t |-> t, n |-> NameLen, chars |-> NameLen, s |-> s]
Symbols(names) == {Text("symbol", s) : s \in names}
Number(t, v) == [t |-> t, v |-> v]

Scalar(t) == [k |-> "scalar", t |-> t]
Choice(t, values) == [k |-> "choice", t |-> t, values |-> values]
Numbers(t, range) == Choice(t, {Number(t, v) : v \in range})
OneOf(variants) == [k |-> "oneof", variants |-> variants]
MapOf(K, V) == [k |-> "map", key |-> K, of |-> V]

\* #[amqp_contract(name, code, encoding)] and the attributes of the fields
Composite(name, code, enc, fields) ==
    [k |-> "composite", name |-> Text("symbol", name), code |-> Number("ulong", code),
     enc |-> enc, fields |-> fields]
Mandatory(T) == [of |-> T, kind |-> "mandatory"]
Optional(T) == [of |-> T, kind |-> "option"]
Default(T, v) == [of |-> T, kind |-> "default", def |-> v]
Multiple(T) == [of |-> [k |-> "multiple", of |-> T], kind |-> "multiple"]
Basic(name, code, T) == Composite(name, code, "basic", <<Mandatory(T)>>)
Unit(name, code) == Composite(name, code, "list", <<>>)

False == Number("bool", 0)
Flag == Default(Scalar("bool"), False)
Uint == Scalar("uint")
Symbol == Scalar("symbol")
Binary == Scalar("binary")
Fields == MapOf(Symbol, AnyValue)

-----------------------------------------------------------------------------
\* Restricted types
Role == Numbers("bool", {0, 1})
SenderSettleMode == Numbers("ubyte", 0 .. 2)
ReceiverSettleMode == Numbers("ubyte", 0 .. 1)
Handle == Default(Uint, Number("uint", U32Max))
MaxFrameSize == Default(Uint, Number("uint", U32Max))
ChannelMax == Default(Scalar("ushort"), Number("ushort", 65535))
Priority == Default(Scalar("ubyte"), Number("ubyte", 4))
SaslCode == Numbers("ubyte", 0 .. 4)
DistributionMode == Choice("symbol", Symbols({"move", "copy"}))
TxnCapability ==
    Choice("symbol", Symbols({"amqp:local-transactions", "amqp:distributed-transactions",
                              "amqp:promotable-transactions", "amqp:multi-txns-per-ssn",
                              "amqp:multi-ssns-per-txn"}))
TerminusDurability ==
    Default([k |-> "variant", enc |-> "unit", count |-> 3],
            [t |-> "variant", enc |-> "unit", idx |-> 0, es |-> <<>>])
TerminusExpiryPolicy ==
    Default(Choice("symbol", Symbols({"link-detach", "session-end", "connection-close", "never"})),
            Text("symbol", "session-end"))
MessageId == [k |-> "alt", types |-> {"ulong", "uuid", "binary", "string"}]
OwnedKey == [k |-> "alt", types |-> {"symbol", "ulong"}]
Annotations == MapOf(OwnedKey, AnyValue)
SimpleValue == [k |-> "alt", types |-> FixedTypes \cup {"null", "bool", "binary", "string", "symbol"}]

\* The conditions of an error.  ErrorCondition::deserialize tries the enums in this
\* order and keeps a symbol none of them knows as a custom one.
AmqpError == {"amqp:internal-error", "amqp:not-found", "amqp:unauthorized-access",
    "amqp:decode-error", "amqp:resource-limit-exceeded", "amqp:not-allowed",
    "amqp:invalid-field", "amqp:not-implemented", "amqp:resource-locked",
    "amqp:precondition-failed", "amqp:resource-deleted", "amqp:illegal-state",
    "amqp:frame-size-too-small"}
ConnectionError == {"amqp:connection:forced", "amqp:connection:framing-error",
    "amqp:connection:redirect"}
SessionError == {"amqp:session:window-violation", "amqp:session:errant-link",
    "amqp:session:handle-in-use", "amqp:session:unattached-handle"}
LinkError == {"amqp:link:detach-forced", "amqp:link:transfer-limit-exceeded",
    "amqp:link:message-size-exceeded", "amqp:link:redirect", "amqp:link:stolen"}
TransactionError == {"amqp:transaction:unknown-id", "amqp:transaction:rollback",
    "amqp:transaction:timeout"}
ErrorCondition ==
    [k |-> "condition",
     classes |-> <<[class |-> "amqp", names |-> AmqpError],
              [class |-> "connection", names |-> ConnectionError],
              [class |-> "session", names |-> SessionError],
              [class |-> "link", names |-> LinkError],
              [class |-> "transaction", names |-> TransactionError]>>]
Error == Composite("amqp:error:list", 29, "list",
    <<Mandatory(ErrorCondition), Optional(Scalar("string")), Optional(Fields)>>)

-----------------------------------------------------------------------------
\* Transactions
TransactionId == Binary
Coordinator == Composite("amqp:coordinator:list", 48, "list", <<Multiple(TxnCapability)>>)
Declare == Composite("amqp:declare:list", 49, "list", <<Optional(TransactionId)>>)
Discharge == Composite("amqp:discharge:list", 50, "list",
    <<Mandatory(TransactionId), Optional(Scalar("bool"))>>)
Declared == Composite("amqp:declared:list", 51, "list", <<Mandatory(TransactionId)>>)

\* Delivery states and outcomes
Received == Composite("amqp:received:list", 35, "list",
    <<Mandatory(Uint), Mandatory(Scalar("ulong"))>>)
Accepted == Unit("amqp:accepted:list", 36)
Rejected == Composite("amqp:rejected:list", 37, "list", <<Optional(Error)>>)
Released == Unit("amqp:released:list", 38)
Modified == Composite("amqp:modified:list", 39, "list",
    <<Optional(Scalar("bool")), Optional(Scalar("bool")), Optional(Fields)>>)
Outcome == OneOf({Accepted, Rejected, Released, Modified, Declared})
TransactionalState == Composite("amqp:transactional-state:list", 52, "list",
    <<Mandatory(TransactionId), Optional(Outcome)>>)
DeliveryState == OneOf({Received, Accepted, Rejected, Released, Modified, Declared,
                        TransactionalState})

\* Lifetime policies
DeleteOnClose == Unit("amqp:delete-on-close:list", 43)
DeleteOnNoLinks == Unit("amqp:delete-on-no-links:list", 44)
DeleteOnNoMessages == Unit("amqp:delete-on-no-messages:list", 45)
DeleteOnNoLinksOrMessages == Unit("amqp:delete-on-no-links-or-messages:list", 46)
LifetimePolicy == OneOf({DeleteOnClose, DeleteOnNoLinks, DeleteOnNoMessages,
                         DeleteOnNoLinksOrMessages})

\* Termini
Source == Composite("amqp:source:list", 40, "list",
    <<Optional(Scalar("string")), TerminusDurability, TerminusExpiryPolicy,
      Default(Uint, Number("uint", 0)), Flag, Optional(Fields), Optional(DistributionMode),
      Optional(Fields), Optional(Outcome), Multiple(Symbol), Multiple(Symbol)>>)
Target == Composite("amqp:target:list", 41, "list",
    <<Optional(Scalar("string")), TerminusDurability, TerminusExpiryPolicy,
      Default(Uint, Number("uint", 0)), Flag, Optional(Fields), Multiple(Symbol)>>)
TargetArchetype == OneOf({Target, Coordinator})

-----------------------------------------------------------------------------
\* Performatives
Open == Composite("amqp:open:list", 16, "list",
    <<Mandatory(Scalar("string")), Optional(Scalar("string")), MaxFrameSize, ChannelMax,
      Optional(Uint), Multiple(Symbol), Multiple(Symbol), Multiple(Symbol), Multiple(Symbol),
      Optional(Fields)>>)
Begin == Composite("amqp:begin:list", 17, "list",
    <<Optional(Scalar("ushort")), Mandatory(Uint), Mandatory(Uint), Mandatory(Uint), Handle,
      Multiple(Symbol), Multiple(Symbol), Optional(Fields)>>)
Attach == Composite("amqp:attach:list", 18, "list",
    <<Mandatory(Scalar("string")), Mandatory(Uint), Mandatory(Role),
      Default(SenderSettleMode, Number("ubyte", 2)),
      Default(ReceiverSettleMode, Number("ubyte", 0)),
      Optional(Source), Optional(TargetArchetype),
      Optional(MapOf(Binary, [k |-> "option", of |-> DeliveryState])), Flag,
      Optional(Uint), Optional(Scalar("ulong")), Multiple(Symbol), Multiple(Symbol),
      Optional(Fields)>>)
Flow == Composite("amqp:flow:list", 19, "list",
    <<Optional(Uint), Mandatory(Uint), Mandatory(Uint), Mandatory(Uint), Optional(Uint),
      Optional(Uint), Optional(Uint), Optional(Uint), Flag, Flag, Optional(Fields)>>)
Transfer == Composite("amqp:transfer:list", 20, "list",
    <<Mandatory(Uint), Optional(Uint), Optional(Binary), Optional(Uint),
      Optional(Scalar("bool")), Flag, Optional(ReceiverSettleMode), Optional(DeliveryState),
      Flag, Flag, Flag>>)
Disposition == Composite("amqp:disposition:list", 21, "list",
    <<Mandatory(Role), Mandatory(Uint), Optional(Uint), Flag, Optional(DeliveryState), Flag>>)
Detach == Composite("amqp:detach:list", 22, "list", <<Mandatory(Uint), Flag, Optional(Error)>>)
End == Composite("amqp:end:list", 23, "list", <<Optional(Error)>>)
Close == Composite("amqp:close:list", 24, "list", <<Optional(Error)>>)
Performative == OneOf({Open, Begin, Attach, Flow, Transfer, Disposition, Detach, End, Close})

\* SASL frames.  SaslMechanisms is written by hand: its array is mandatory.
SaslMechanisms == Composite("amqp:sasl-mechanisms:list", 64, "list",
    <<Mandatory([k |-> "multiple", of |-> Symbol])>>)
SaslInit == Composite("amqp:sasl-init:list", 65, "list",
    <<Mandatory(Symbol), Optional(Binary), Optional(Scalar("string"))>>)
SaslChallenge == Composite("amqp:sasl-challenge:list", 66, "list", <<Mandatory(Binary)>>)
SaslResponse == Composite("amqp:sasl-response:list", 67, "list", <<Mandatory(Binary)>>)
SaslOutcome == Composite("amqp:sasl-outcome:list", 68, "list",
    <<Mandatory(SaslCode), Optional(Binary)>>)
SaslFrame == OneOf({SaslMechanisms, SaslInit, SaslChallenge, SaslResponse, SaslOutcome})

-----------------------------------------------------------------------------
\* Message sections
Header == Composite("amqp:header:list", 112, "list",
    <<Flag, Priority, Optional(Uint), Flag, Default(Uint, Number("uint", 0))>>)
DeliveryAnnotations == Basic("amqp:delivery-annotations:map", 113, Annotations)
MessageAnnotations == Basic("amqp:message-annotations:map", 114, Annotations)
Properties == Composite("amqp:properties:list", 115, "list",
    <<Optional(MessageId), Optional(Binary), Optional(Scalar("string")),
      Optional(Scalar("string")), Optional(Scalar("string")), Optional(MessageId),
      Optional(Symbol), Optional(Symbol), Optional(Scalar("timestamp")),
      Optional(Scalar("timestamp")), Optional(Scalar("string")), Optional(Uint),
      Optional(Scalar("string"))>>)
ApplicationProperties ==
    Basic("amqp:application-properties:map", 116, MapOf(Scalar("string"), SimpleValue))
Data == Basic("amqp:data:binary", 117, Binary)
AmqpSequence == Basic("amqp:amqp-sequence:list", 118, [k |-> "seq", of |-> AnyValue])
AmqpValueSection == Basic("amqp:amqp-value:*", 119, AnyValue)
Footer == Basic("amqp:footer:map", 120, Annotations)

\* Filters of fe2o3-amqp-ext: (domain-id << 32) | descriptor-id, with a shift that
\* TLC's integers can hold.
FilterCode(i) == 18060 * 65536 + i
LegacyAmqpDirectBinding == Basic("apache.org:legacy-amqp-direct-binding:string", FilterCode(0), Scalar("string"))
LegacyAmqpTopicBinding == Basic("apache.org:legacy-amqp-topic-binding:string", FilterCode(1), Scalar("string"))
LegacyAmqpHeadersBinding == Basic("apache.org:legacy-amqp-headers-binding:map", FilterCode(2),
    MapOf(Scalar("string"), SimpleValue))
NoLocalFilter == Basic("apache.org:no-local-filter:list", FilterCode(3), [k |-> "seq", of |-> AnyValue])
SelectorFilter == Basic("apache.org:selector-filter:string", FilterCode(4), Scalar("string"))
Xquery == Basic("apache.org:xquery-filter:string", FilterCode(5), Scalar("string"))
=============================================================================
