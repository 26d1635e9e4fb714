---------------------------- MODULE PubSubClient ----------------------------
(***************************************************************************)
(* The Pub/Sub client (internal/client/pubsub.go): the transport-neutral   *)
(* topic and subscription, their conversion to and from the messages on    *)
(* the wire, and the endpoint (Google Cloud or the emulator) as the client *)
(* meets it.  The endpoint's half is external to the repository and is     *)
(* modelled from how the code and its comments use it.                     *)
(*                                                                         *)
(* The live resources of a project are one partial function from resource  *)
(* keys to messages.  The fields of a message carry the names an update    *)
(* mask uses, so that a mask is a set of field names.                      *)
(***************************************************************************)
EXTENDS Config

-----------------------------------------------------------------------------
(* Keys and messages on the wire (pubsubpb.Topic, pubsubpb.Subscription).  *)
(* A duration that is absent on the wire reads as 0; a oneof that is not   *)
(* set is the empty set.                                                   *)

TopicKey(name) == <<"topic", name>>
SubKey(name)   == <<"sub", name>>

TopicKeys == {TopicKey(n) : n \in ResourceNames}
SubKeys   == {SubKey(n) : n \in ResourceNames}

TopicProto == [labels : LabelMaps, message_retention_duration : Nat]

\* The two wrappers are alternatives of one oneof; no_wrapper carries its
\* write_metadata.
PushConfigProto ==
    {pc \in [push_endpoint : Texts, attributes : LabelMaps,
             oidc_token : Opt(PushOIDCToken),
             pubsub_wrapper : BOOLEAN, no_wrapper : Opt(BOOLEAN)] :
        pc.pubsub_wrapper => pc.no_wrapper = {}}

DeadLetterProto == [dead_letter_topic : Texts, max_delivery_attempts : Int]

RetryProto == [minimum_backoff : Nat, maximum_backoff : Nat]

SubscriptionProto ==
    [topic : Texts, filter : Texts, enable_message_ordering : BOOLEAN,
     ack_deadline_seconds : Nat, message_retention_duration : Nat,
     retain_acked_messages : BOOLEAN, enable_exactly_once_delivery : BOOLEAN,
     expiration_policy : Opt(Nat),    \* the TTL; 0 is "never expires"
     labels : LabelMaps,
     push_config : Opt(PushConfigProto),
     dead_letter_policy : Opt(DeadLetterProto),
     retry_policy : Opt(RetryProto)]

\* The paths an update mask can name, and the ones fixed at creation.
TopicPaths == {"labels", "message_retention_duration"}

SubscriptionPaths ==
    {"ack_deadline_seconds", "message_retention_duration",
     "retain_acked_messages", "enable_exactly_once_delivery",
     "expiration_policy", "labels", "push_config", "dead_letter_policy",
     "retry_policy"}

ImmutablePaths == {"topic", "filter", "enable_message_ordering"}

-----------------------------------------------------------------------------
(* The transport-neutral forms (client.Topic, client.Subscription).  The   *)
(* resource's own name is in its key.                                      *)

ClientTopic == [Labels : LabelMaps, MessageRetention : Int]

PushConfig ==
    [Endpoint : Texts, Attributes : LabelMaps, OIDCToken : Opt(PushOIDCToken),
     Wrapper : Texts,    \* "" is WrapperUnset
     WriteMetadata : BOOLEAN]

DeadLetterPolicy == [Topic : Texts, MaxDeliveryAttempts : Int]

RetryPolicy == [MinimumBackoff : Int, MaximumBackoff : Int]

ClientSubscription ==
    [Topic : Texts, Filter : Texts, Labels : LabelMaps,
     EnableMessageOrdering : Opt(BOOLEAN), RetainAckedMessages : Opt(BOOLEAN),
     EnableExactlyOnceDelivery : Opt(BOOLEAN),
     AckDeadline : Int, MessageRetention : Int,
     ExpirationSet : BOOLEAN, ExpirationTTL : Int,
     Push : Opt(PushConfig), DeadLetter : Opt(DeadLetterPolicy),
     Retry : Opt(RetryPolicy)]

-----------------------------------------------------------------------------
(* Conversions. *)

DerefBool(b) == TRUE \in b

\* durationpb.New under the code's guard: only positive durations are sent.
Positive(d) == IF d > 0 THEN d ELSE 0

toProtoTopic(t) ==
    [labels |-> t.Labels,
     message_retention_duration |-> Positive(t.MessageRetention)]

fromProtoTopic(t) ==
    [Labels |-> t.labels, MessageRetention |-> t.message_retention_duration]

toProtoPushConfig(p) ==
    [push_endpoint  |-> p.Endpoint,
     attributes     |-> p.Attributes,
     oidc_token     |-> p.OIDCToken,
     pubsub_wrapper |-> p.Wrapper = "pubsub",
     no_wrapper     |-> IF p.Wrapper = "none" THEN {p.WriteMetadata} ELSE {}]

fromProtoPushConfig(pc) ==
    [Endpoint      |-> pc.push_endpoint,
     Attributes    |-> pc.attributes,
     OIDCToken     |-> pc.oidc_token,
     Wrapper       |-> IF pc.no_wrapper # {} THEN "none"
                       ELSE IF pc.pubsub_wrapper THEN "pubsub" ELSE "",
     WriteMetadata |-> DerefBool(pc.no_wrapper)]

toProtoSubscription(s) ==
    [topic   |-> s.Topic,
     filter  |-> s.Filter,
     labels  |-> s.Labels,
     enable_message_ordering      |-> DerefBool(s.EnableMessageOrdering),
     retain_acked_messages        |-> DerefBool(s.RetainAckedMessages),
     enable_exactly_once_delivery |-> DerefBool(s.EnableExactlyOnceDelivery),
     ack_deadline_seconds       |-> Positive(s.AckDeadline) \div Second,
     message_retention_duration |-> Positive(s.MessageRetention),
     expiration_policy  |-> IF s.ExpirationSet
                            THEN {Positive(s.ExpirationTTL)} ELSE {},
     push_config        |-> {toProtoPushConfig(p) : p \in s.Push},
     dead_letter_policy |->
        {[dead_letter_topic     |-> d.Topic,
          max_delivery_attempts |-> d.MaxDeliveryAttempts] : d \in s.DeadLetter},
     retry_policy       |->
        {[minimum_backoff |-> Positive(r.MinimumBackoff),
          maximum_backoff |-> Positive(r.MaximumBackoff)] : r \in s.Retry}]

fromProtoSubscription(s) ==
    [Topic  |-> s.topic,
     Filter |-> s.filter,
     Labels |-> s.labels,
     EnableMessageOrdering     |-> {s.enable_message_ordering},
     RetainAckedMessages       |-> {s.retain_acked_messages},
     EnableExactlyOnceDelivery |-> {s.enable_exactly_once_delivery},
     AckDeadline      |-> s.ack_deadline_seconds * Second,
     MessageRetention |-> s.message_retention_duration,
     ExpirationSet    |-> s.expiration_policy # {},
     ExpirationTTL    |-> ParseDuration(s.expiration_policy),
     Push       |-> {fromProtoPushConfig(pc) : pc \in s.push_config},
     DeadLetter |-> {[Topic |-> d.dead_letter_topic,
                      MaxDeliveryAttempts |-> d.max_delivery_attempts] :
                        d \in s.dead_letter_policy},
     Retry      |-> {[MinimumBackoff |-> r.minimum_backoff,
                      MaximumBackoff |-> r.maximum_backoff] :
                        r \in s.retry_policy}]

-----------------------------------------------------------------------------
(* The endpoint.  A reply is "ok", "exists" (AlreadyExists), "unsupported" *)
(* (the refusals for which IsUnsupportedField holds), or "error" (any      *)
(* other error).  Only an "ok" has an effect.                              *)

\* The topics a subscription message names: it is not created without them.
DeadLetterTopics(s) ==
    {TopicKey(d.dead_letter_topic) : d \in s.dead_letter_policy}

NamedTopics(s) == {TopicKey(s.topic)} \cup DeadLetterTopics(s)

\* A subscription as the endpoint will answer it: the default wrapper, which
\* not every endpoint echoes, may be missing from what is read back.
Unwrapped(pc) == [pc EXCEPT !.pubsub_wrapper = FALSE]

Answered(echoes, s) ==
    IF echoes THEN s
    ELSE [s EXCEPT !.push_config = {Unwrapped(pc) : pc \in @}]

Put(live, key, message) ==
    [k \in DOMAIN live \cup {key} |-> IF k = key THEN message ELSE live[k]]

CreateReply(live, key, request) ==
    IF key \in DOMAIN live THEN "exists"
    ELSE IF key \in SubKeys /\ ~(NamedTopics(request) \subseteq DOMAIN live)
         THEN "error"
         ELSE "ok"

\* The whole mask is checked before the resource is touched.
UpdateReply(live, refused, key, request, mask) ==
    IF mask \cap refused # {} THEN "unsupported"
    ELSE IF \/ key \notin DOMAIN live
            \/ mask \cap ImmutablePaths # {}
            \/ /\ "dead_letter_policy" \in mask
               /\ ~(DeadLetterTopics(request) \subseteq DOMAIN live)
         THEN "error"
         ELSE "ok"

\* Every field the mask names is replaced whole, the others are left alone.
ApplyMask(stored, request, mask) ==
    [f \in DOMAIN stored |-> IF f \in mask THEN request[f] ELSE stored[f]]

UpdateEffect(live, key, request, mask) ==
    Put(live, key, ApplyMask(live[key], request, mask))
=============================================================================
