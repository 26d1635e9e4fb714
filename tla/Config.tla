------------------------------- MODULE Config -------------------------------
(***************************************************************************)
(* The Pub/Sub part of the YAML configuration (internal/config/config.go): *)
(* its record types, the duration parser and the validation every file     *)
(* passes before a run sees it.                                            *)
(*                                                                         *)
(* Data.  A text is an element of Texts; ResourceNames are the texts that  *)
(* match resourceNamePattern and do not start with "goog".  Texts with a   *)
(* null byte and durations that do not parse are left out: validation      *)
(* rejects them before any other code looks at them.                       *)
(* A duration is a number of ticks of half a second, the coarsest unit in  *)
(* which a duration can fail to be a whole number of seconds.              *)
(***************************************************************************)
EXTENDS Common

CONSTANTS
    LabelKeys,      \* the texts used as keys of labels and push attributes
    ResourceNames   \* the texts Pub/Sub accepts as a resource name

ASSUME TextsAssumption ==
    /\ LabelKeys \subseteq Texts
    /\ ResourceNames \subseteq Texts \ {""}

-----------------------------------------------------------------------------
(* Values. *)

LabelMaps == UNION {[K -> Texts] : K \in SUBSET LabelKeys}

NoLabels == [k \in {} |-> ""]

Second == 2
Minute == 60 * Second
Day    == 24 * 60 * Minute

ExpirationNever == -1    \* the literal "never"; no other negative ticks occur

ParseDuration(value) == IF value = {} THEN 0 ELSE The(value)

-----------------------------------------------------------------------------
(* The configuration file. *)

PushOIDCToken == [service_account_email : Texts, audience : Texts]

DeadLetter == [topic : Texts, max_delivery_attempts : Int]

Retry == [minimum_backoff : Opt(Int), maximum_backoff : Opt(Int)]

Subscription ==
    [name : Texts, strategy : Texts,
     ack_deadline : Opt(Int), message_retention : Opt(Int),
     retain_acked_messages : Opt(BOOLEAN),
     enable_message_ordering : Opt(BOOLEAN),
     enable_exactly_once_delivery : Opt(BOOLEAN),
     filter : Texts, expiration_ttl : Opt(Int), labels : LabelMaps,
     push_endpoint : Texts, push_attributes : LabelMaps,
     push_oidc_token : Opt(PushOIDCToken), push_wrapper : Texts,
     push_write_metadata : BOOLEAN,
     dead_letter : Opt(DeadLetter), retry : Opt(Retry)]

Topic ==
    [name : Texts, strategy : Texts, labels : LabelMaps,
     message_retention : Opt(Int), subscriptions : Seq(Subscription)]

ConfigFile == [strategy : Texts, topics : Seq(Topic)]

-----------------------------------------------------------------------------
(* Validation, as the condition under which validate returns nil. *)

minAckDeadline      == 10 * Second
maxAckDeadline      == 600 * Second
minMessageRetention == 10 * Minute
maxMessageRetention == 31 * Day
maxRetryBackoff     == 600 * Second
minExpirationTTL    == Day
maxExpirationTTL    == 365 * Day

validateDurationRange(value, lo, hi) ==
    \A d \in value : d >= 0 /\ lo <= d /\ d <= hi

\* Mutant: fractions of a second pass.
validateAckDeadline_Fractions(value) ==
    validateDurationRange(value, minAckDeadline, maxAckDeadline)

validateAckDeadline(value) ==
    /\ validateDurationRange(value, minAckDeadline, maxAckDeadline)
    /\ \A d \in value : d % Second = 0

validPushWrappers == {"", "pubsub", "none"}

validatePush(s) ==
    /\ s.push_wrapper \in validPushWrappers
    /\ s.push_wrapper # "" => s.push_endpoint # ""
    /\ s.push_write_metadata => s.push_wrapper = "none"
    /\ \A t \in s.push_oidc_token :
          s.push_endpoint # "" /\ t.service_account_email # ""

validateDeadLetter(dead_letter) ==
    \A d \in dead_letter :
        /\ d.topic # ""
        /\ d.max_delivery_attempts # 0 => d.max_delivery_attempts \in 5..100

validateRetry(retry) ==
    \A r \in retry :
        LET min == ParseDuration(r.minimum_backoff)
            max == ParseDuration(r.maximum_backoff)
        IN  /\ validateDurationRange(r.minimum_backoff, 0, maxRetryBackoff)
            /\ validateDurationRange(r.maximum_backoff, 0, maxRetryBackoff)
            /\ min > 0 /\ max > 0 => min <= max

validateSubscription(s) ==
    /\ s.strategy \in validStrategies
    /\ s.name \in ResourceNames
    /\ validateAckDeadline(s.ack_deadline)
    /\ validateDurationRange(s.message_retention,
                             minMessageRetention, maxMessageRetention)
    /\ s.expiration_ttl # {ExpirationNever} =>
          validateDurationRange(s.expiration_ttl,
                                minExpirationTTL, maxExpirationTTL)
    /\ DOMAIN s.push_attributes # {} => s.push_endpoint # ""
    /\ validatePush(s)
    /\ validateDeadLetter(s.dead_letter)
    /\ validateRetry(s.retry)

\* Subscription names are unique per project, across the topics of the file.
UniqueSubscriptionNames(topics) ==
    \A i, k \in DOMAIN topics :
        \A j \in DOMAIN topics[i].subscriptions,
           l \in DOMAIN topics[k].subscriptions :
            topics[i].subscriptions[j].name = topics[k].subscriptions[l].name
                => i = k /\ j = l

\* Mutant: dead letter topics need not be declared.
validateDeadLetterTargets_Any(topics) == TRUE

validateDeadLetterTargets(topics) ==
    \A i \in DOMAIN topics :
        \A j \in DOMAIN topics[i].subscriptions :
            \A d \in topics[i].subscriptions[j].dead_letter :
                \E k \in DOMAIN topics : topics[k].name = d.topic

validateTopics(topics) ==
    /\ \A i \in DOMAIN topics :
          /\ topics[i].strategy \in validStrategies
          /\ topics[i].name \in ResourceNames
          /\ validateDurationRange(topics[i].message_retention,
                                   minMessageRetention, maxMessageRetention)
          /\ \A j \in DOMAIN topics[i].subscriptions :
                validateSubscription(topics[i].subscriptions[j])
    /\ \A i, k \in DOMAIN topics : topics[i].name = topics[k].name => i = k
    /\ UniqueSubscriptionNames(topics)
    /\ validateDeadLetterTargets(topics)

validate(c) ==
    /\ c.strategy \in validStrategies
    /\ validateTopics(c.topics)
=============================================================================
