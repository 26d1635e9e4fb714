----------------------------- MODULE PubSubDiff -----------------------------
(***************************************************************************)
(* What a run decides about one resource, without any call: the wanted     *)
(* form built from the config, the update mask its comparison with the     *)
(* live form yields, and the request an update sends                       *)
(* (internal/provisioner/topics.go and subscriptions.go).                  *)
(***************************************************************************)
EXTENDS PubSubClient

-----------------------------------------------------------------------------
(* From the config to the transport-neutral form. *)

buildTopic(t) ==
    [Labels |-> t.labels, MessageRetention |-> ParseDuration(t.message_retention)]

\* The endpoint alone decides whether there is a push config.
buildPushConfig(s) ==
    IF s.push_endpoint = "" THEN {}
    ELSE {[Endpoint      |-> s.push_endpoint,
           Attributes    |-> s.push_attributes,
           OIDCToken     |-> s.push_oidc_token,
           Wrapper       |-> s.push_wrapper,
           WriteMetadata |-> s.push_write_metadata]}

buildSubscription(topicName, s) ==
    [Topic  |-> topicName,
     Filter |-> s.filter,
     Labels |-> s.labels,
     EnableMessageOrdering     |-> s.enable_message_ordering,
     RetainAckedMessages       |-> s.retain_acked_messages,
     EnableExactlyOnceDelivery |-> s.enable_exactly_once_delivery,
     AckDeadline      |-> ParseDuration(s.ack_deadline),
     MessageRetention |-> ParseDuration(s.message_retention),
     ExpirationSet    |-> s.expiration_ttl # {},
     ExpirationTTL    |-> IF s.expiration_ttl = {ExpirationNever} THEN 0
                          ELSE ParseDuration(s.expiration_ttl),
     Push       |-> buildPushConfig(s),
     DeadLetter |-> {[Topic |-> d.topic,
                      MaxDeliveryAttempts |-> d.max_delivery_attempts] :
                        d \in s.dead_letter},
     Retry      |-> {[MinimumBackoff |-> ParseDuration(r.minimum_backoff),
                      MaximumBackoff |-> ParseDuration(r.maximum_backoff)] :
                        r \in s.retry}]

-----------------------------------------------------------------------------
(* Labels.  A Go map yields "" for a key it does not hold. *)

Lookup(labels, k) == IF k \in DOMAIN labels THEN labels[k] ELSE ""

labelsSubset(want, got) == \A k \in DOMAIN want : Lookup(got, k) = want[k]

\* Mutant: what was read is not carried across.
mergeLabels_DropsCurrent(current, configured) == configured

mergeLabels(current, configured) ==
    [k \in DOMAIN current \cup DOMAIN configured |->
        IF k \in DOMAIN configured THEN configured[k] ELSE current[k]]

-----------------------------------------------------------------------------
(* Comparison of the live form with the wanted one.  A mask is the list of *)
(* paths in the order the code appends them.                               *)

When(condition, path) == IF condition THEN <<path>> ELSE <<>>

diffTopic(current, desired) ==
    When(/\ desired.MessageRetention > 0
         /\ current.MessageRetention # desired.MessageRetention,
         "message_retention_duration")
    \o When(~labelsSubset(desired.Labels, current.Labels), "labels")

\* Mutant: an omitted key is read as an explicit false.
boolDrift_NilIsFalse(current, desired) == DerefBool(current) # DerefBool(desired)

boolDrift(current, desired) == \E b \in desired : DerefBool(current) # b

immutableDrift(current, desired) ==
    {f \in ImmutablePaths :
        \/ /\ f = "filter"
           /\ desired.Filter # "" /\ desired.Filter # current.Filter
        \/ /\ f = "enable_message_ordering"
           /\ boolDrift(current.EnableMessageOrdering,
                        desired.EnableMessageOrdering)
        \/ f = "topic" /\ desired.Topic # current.Topic}

oidcEqual(current, desired) == desired = {} \/ current = desired

\* Mutant: what the endpoint does not echo counts as drift.
effectiveWrapper_AsRead(w) == w

effectiveWrapper(w) == IF w = "" THEN "pubsub" ELSE w

\* current and desired are the optional push configs, desired is present.
pushConfigEqual(current, desired) ==
    \E c \in current : \E d \in desired :
        /\ d.Endpoint # "" => c.Endpoint = d.Endpoint
        /\ labelsSubset(d.Attributes, c.Attributes)
        /\ oidcEqual(c.OIDCToken, d.OIDCToken)
        /\ d.Wrapper # "" => effectiveWrapper(c.Wrapper) = d.Wrapper
        /\ d.Wrapper = "none" => c.WriteMetadata = d.WriteMetadata

\* The settings with plain values, then the ones that are messages or maps.
diffScalars(current, desired) ==
    When(/\ desired.AckDeadline > 0
         /\ current.AckDeadline # desired.AckDeadline, "ack_deadline_seconds")
    \o When(/\ desired.MessageRetention > 0
            /\ current.MessageRetention # desired.MessageRetention,
            "message_retention_duration")
    \o When(boolDrift(current.RetainAckedMessages, desired.RetainAckedMessages),
            "retain_acked_messages")
    \o When(boolDrift(current.EnableExactlyOnceDelivery,
                      desired.EnableExactlyOnceDelivery),
            "enable_exactly_once_delivery")

diffMessages(current, desired) ==
    When(/\ desired.ExpirationSet
            /\ \/ ~current.ExpirationSet
               \/ current.ExpirationTTL # desired.ExpirationTTL,
            "expiration_policy")
    \o When(~labelsSubset(desired.Labels, current.Labels), "labels")
    \o When(desired.Push # {} /\ ~pushConfigEqual(current.Push, desired.Push),
            "push_config")
    \o When(desired.DeadLetter # {} /\ current.DeadLetter # desired.DeadLetter,
            "dead_letter_policy")
    \o When(desired.Retry # {} /\ current.Retry # desired.Retry, "retry_policy")

diffSubscription(current, desired) ==
    diffScalars(current, desired) \o diffMessages(current, desired)

-----------------------------------------------------------------------------
(* The request of an update: a mask replaces a label map and a push config *)
(* whole, so the labels and the push attributes read are carried across.   *)

mergeTopic(current, desired) ==
    [desired EXCEPT !.Labels = mergeLabels(current.Labels, desired.Labels)]

mergePush(current, desired) ==
    {[d EXCEPT !.Attributes =
        IF current = {} THEN d.Attributes
        ELSE mergeLabels(The(current).Attributes, d.Attributes)] : d \in desired}

mergeSubscription(current, desired) ==
    [desired EXCEPT !.Labels = mergeLabels(current.Labels, desired.Labels),
                    !.Push   = mergePush(current.Push, desired.Push)]
=============================================================================
