----------------------- MODULE PubSubProperties_proofs -----------------------
(***************************************************************************)
(* What a run of the Pub/Sub section does to the resources of a project,   *)
(* for every number of provisioners, every config files validation         *)
(* accepts, every endpoint and every initial project: its warnings are     *)
(* precise, it leaves alone what its file does not declare, its success    *)
(* means that everything declared is live, running it again sends nothing  *)
(* new, and with all that it implements Reconciler.                        *)
(*                                                                         *)
(* The argument speaks of the drift of a message: the paths that the       *)
(* code's comparison would put in a mask or report as immutable.  Every    *)
(* write of a run of the same file makes drift smaller and never larger,   *)
(* and what a run leaves behind it has warned about.                       *)
(***************************************************************************)
EXTENDS PubSubSection_proofs

-----------------------------------------------------------------------------
(* The places of a config file: its topics (j = 0) and their subscriptions. *)

Slots(c, i) == 0..Len(c.topics[i].subscriptions)

KeyAt(c, i, j) ==
    IF j = 0 THEN TopicKey(c.topics[i].name)
             ELSE SubKey(c.topics[i].subscriptions[j].name)

StrategyAt(c, i, j) ==
    EffectiveStrategy(IF j = 0 THEN c.topics[i].strategy
                               ELSE c.topics[i].subscriptions[j].strategy,
                      c.strategy)

RefusedAt(j) == IF j = 0 THEN endpoint.topic ELSE endpoint.sub

\* The paths of a mask.
Paths(mask) == {mask[i] : i \in DOMAIN mask}

\* What of message m the code would update or report for a topic t of the file,
\* and for a subscription s of its topic n.
TopicDrift(t, m) == Paths(diffTopic(fromProtoTopic(m), buildTopic(t)))

SubDrift(n, s, m) ==
    Paths(diffSubscription(fromProtoSubscription(m), buildSubscription(n, s)))
    \cup immutableDrift(fromProtoSubscription(m), buildSubscription(n, s))

DriftAt(c, i, j, m) ==
    IF j = 0 THEN TopicDrift(c.topics[i], m)
             ELSE SubDrift(c.topics[i].name, c.topics[i].subscriptions[j], m)

-----------------------------------------------------------------------------
(* The invariants. *)

\* The place a run stands at, and the ones it has dealt with.
Sub(p) == IF AtTopic(p) THEN 0 ELSE run[p].si

Seen(p, i, j) ==
    IF j = 0 THEN AtTopic(p) => i < run[p].ti
    ELSE ~AtTopic(p) /\ (i < run[p].ti \/ (i = run[p].ti /\ j < run[p].si))

\* A run warns only of immutable fields and of what the endpoint refuses.
Precise(p) ==
    \A w \in run[p].warned :
        w[2] \in ImmutablePaths
            \cup (IF w[1] \in TopicKeys THEN endpoint.topic ELSE endpoint.sub)

\* An update is under strategy update and for fields that the file declares.
Entitled(p) ==
    run[p].pc \in {"batch", "split"} =>
        /\ Strategy(p) = "update"
        /\ \A f \in Paths(run[p].todo) : MayUpdate(p, f)

Under(p) == run[p].pc \in Running \cup {"ok"} /\ ~dryRun[p]

\* What a run has dealt with is there, unless somebody deleted a resource.
Attached(p) ==
    /\ run[p].pc = "ok" => ~AtTopic(p) /\ run[p].ti > Len(topics(p))
    /\ Under(p) /\ "deleted" \notin run[p].history =>
          \A i \in DOMAIN cfg[p].topics : \A j \in Slots(cfg[p], i) :
              Seen(p, i, j) => KeyAt(cfg[p], i, j) \in DOMAIN live

\* What drifts at place i, j, of the resources that p may update.
Drifting(p, i, j) ==
    IF StrategyAt(cfg[p], i, j) = "update"
    THEN DriftAt(cfg[p], i, j, live[KeyAt(cfg[p], i, j)]) ELSE {}

Warned(p, k) == {w[2] : w \in {w \in run[p].warned : w[1] = k}}

\* Among runs of one file, a run that nobody disturbed has warned of all that
\* still drifts at the places behind it, and of all that drifts where it
\* stands except what it is about to send.  A resource that appeared since the
\* run looked for it was created by another run: it does not drift.
Kept(p) ==
    SameConfig(p) /\ Under(p) /\ run[p].history \subseteq {"repeat"} =>
        \A i \in DOMAIN cfg[p].topics : \A j \in Slots(cfg[p], i) :
            LET k == KeyAt(cfg[p], i, j)
                here == i = run[p].ti /\ j = Sub(p)
            IN  /\ Seen(p, i, j) => Drifting(p, i, j) \subseteq Warned(p, k)
                /\ here /\ run[p].pc = "create" /\ k \in DOMAIN live =>
                      Drifting(p, i, j) = {}
                /\ here /\ run[p].pc \in {"batch", "split"} =>
                      Drifting(p, i, j) \subseteq
                          Warned(p, k) \cup Paths(run[p].todo)

\* Once a run of the common file has succeeded, everything is there, and all
\* that drifts is what can not be updated here.
Rests(p) ==
    SameConfig(p) =>
        /\ settled =>
              \A i \in DOMAIN cfg[p].topics : \A j \in Slots(cfg[p], i) :
                  /\ KeyAt(cfg[p], i, j) \in DOMAIN live
                  /\ Drifting(p, i, j) \subseteq ImmutablePaths \cup RefusedAt(j)
        /\ run[p].history = {"repeat"} =>
              /\ settled
              /\ run[p].pc # "create"
              /\ run[p].pc \in {"batch", "split"} =>
                    Paths(run[p].todo) \subseteq Refused(p)

\* What holds of one run beyond RunInv, and the inductive invariant.
EffectInv(p) ==
    Precise(p) /\ Entitled(p) /\ Attached(p) /\ Kept(p) /\ Rests(p)

FullInv == SectionInv /\ \A p \in Provisioners : EffectInv(p)

-----------------------------------------------------------------------------
(* Masks as sets of paths. *)

\* A condition puts its path in the mask or not.
LEMMA PathsOfWhen ==
    ASSUME NEW c \in BOOLEAN, NEW f
    PROVE  \A x : x \in Paths(When(c, f)) <=> c /\ x = f
<1>1. CASE c
  <2>1. DOMAIN <<f>> = {1} /\ <<f>>[1] = f
    OBVIOUS
  <2>2. When(c, f) = <<f>>
    BY <1>1 DEF When
  <2> QED
    BY <1>1, <2>1, <2>2 DEF Paths
<1>2. CASE ~c
  <2>1. When(c, f) = <<>> /\ DOMAIN <<>> = {}
    BY <1>2 DEF When
  <2> QED
    BY <1>2, <2>1 DEF Paths
<1> QED
  BY <1>1, <1>2

\* The paths of two masks one after the other.
LEMMA PathsOfConcat ==
    ASSUME NEW S, NEW a \in Seq(S), NEW b \in Seq(S)
    PROVE  \A x : x \in Paths(a \o b) <=> x \in Paths(a) \/ x \in Paths(b)
<1>1. /\ Len(a) \in Nat /\ Len(b) \in Nat
      /\ DOMAIN a = 1..Len(a) /\ DOMAIN b = 1..Len(b)
      /\ DOMAIN (a \o b) = 1..(Len(a) + Len(b))
  OBVIOUS
<1>2. \A i \in 1..(Len(a) + Len(b)) :
         (a \o b)[i] = IF i <= Len(a) THEN a[i] ELSE b[i - Len(a)]
  OBVIOUS
<1> SUFFICES ASSUME NEW x
             PROVE  x \in Paths(a \o b) <=> x \in Paths(a) \/ x \in Paths(b)
  OBVIOUS
<1>3. ASSUME x \in Paths(a \o b) PROVE x \in Paths(a) \/ x \in Paths(b)
  <2>1. PICK i \in 1..(Len(a) + Len(b)) : x = (a \o b)[i]
    BY <1>1, <1>3 DEF Paths
  <2>2. CASE i <= Len(a)
    BY <1>1, <1>2, <2>1, <2>2 DEF Paths
  <2>3. CASE i > Len(a)
    <3>1. i - Len(a) \in 1..Len(b) /\ x = b[i - Len(a)]
      BY <1>1, <1>2, <2>1, <2>3
    <3> QED
      BY <1>1, <3>1 DEF Paths
  <2> QED
    BY <1>1, <2>2, <2>3
<1>4. ASSUME x \in Paths(a) PROVE x \in Paths(a \o b)
  <2>1. PICK i \in 1..Len(a) : x = a[i]
    BY <1>1, <1>4 DEF Paths
  <2>2. i \in 1..(Len(a) + Len(b)) /\ (a \o b)[i] = x
    BY <1>1, <1>2, <2>1
  <2> QED
    BY <1>1, <2>2 DEF Paths
<1>5. ASSUME x \in Paths(b) PROVE x \in Paths(a \o b)
  <2>1. PICK i \in 1..Len(b) : x = b[i]
    BY <1>1, <1>5 DEF Paths
  <2>2. i + Len(a) \in 1..(Len(a) + Len(b)) /\ (a \o b)[i + Len(a)] = x
    BY <1>1, <1>2, <2>1
  <2> QED
    BY <1>1, <2>2 DEF Paths
<1> QED
  BY <1>3, <1>4, <1>5

\* The first path of a mask and the rest of it.
LEMMA PathsOfTail ==
    ASSUME NEW S, NEW a \in Seq(S), a # <<>>
    PROVE  /\ Head(a) \in Paths(a)
           /\ Paths(a) \subseteq {Head(a)} \cup Paths(Tail(a))
           /\ Paths(Tail(a)) \subseteq Paths(a)
           /\ Len(a) = 1 => Paths(a) = {Head(a)}
<1>1. /\ Len(a) \in Nat \ {0} /\ DOMAIN a = 1..Len(a)
      /\ Tail(a) \in Seq(S) /\ Len(Tail(a)) = Len(a) - 1
      /\ Head(a) = a[1]
      /\ \A i \in 1..(Len(a) - 1) : Tail(a)[i] = a[i + 1]
  OBVIOUS
<1>2. DOMAIN Tail(a) = 1..(Len(a) - 1)
  BY <1>1
<1>3. Head(a) \in Paths(a)
  BY <1>1 DEF Paths
<1>4. ASSUME NEW x \in Paths(a) PROVE x = Head(a) \/ x \in Paths(Tail(a))
  <2>1. PICK i \in 1..Len(a) : x = a[i]
    BY <1>1, <1>4 DEF Paths
  <2>2. CASE i # 1
    <3>1. i - 1 \in 1..(Len(a) - 1) /\ x = Tail(a)[i - 1]
      BY <1>1, <2>1, <2>2
    <3> QED
      BY <1>2, <3>1 DEF Paths
  <2> QED
    BY <1>1, <2>1, <2>2
<1>5. ASSUME NEW x \in Paths(Tail(a)) PROVE x \in Paths(a)
  <2>1. PICK i \in 1..(Len(a) - 1) : x = Tail(a)[i]
    BY <1>2, <1>5 DEF Paths
  <2>2. i + 1 \in 1..Len(a) /\ x = a[i + 1]
    BY <1>1, <2>1
  <2> QED
    BY <1>1, <2>2 DEF Paths
<1>6. Len(a) = 1 => Paths(a) = {Head(a)}
  BY <1>1 DEF Paths
<1> QED
  BY <1>3, <1>4, <1>5, <1>6

-----------------------------------------------------------------------------
(* The drift of a message, field by field. *)

\* Whether diffTopic puts path f in its mask.
TopicField(f, c, d) ==
    \/ /\ f = "message_retention_duration"
       /\ d.MessageRetention > 0 /\ c.MessageRetention # d.MessageRetention
    \/ f = "labels" /\ ~labelsSubset(d.Labels, c.Labels)

\* Whether diffScalars, diffMessages and immutableDrift name field f.
ScalarField(f, c, d) ==
    \/ /\ f = "ack_deadline_seconds"
       /\ d.AckDeadline > 0 /\ c.AckDeadline # d.AckDeadline
    \/ /\ f = "message_retention_duration"
       /\ d.MessageRetention > 0 /\ c.MessageRetention # d.MessageRetention
    \/ /\ f = "retain_acked_messages"
       /\ boolDrift(c.RetainAckedMessages, d.RetainAckedMessages)
    \/ /\ f = "enable_exactly_once_delivery"
       /\ boolDrift(c.EnableExactlyOnceDelivery, d.EnableExactlyOnceDelivery)

MessageField(f, c, d) ==
    \/ /\ f = "expiration_policy" /\ d.ExpirationSet
       /\ ~c.ExpirationSet \/ c.ExpirationTTL # d.ExpirationTTL
    \/ f = "labels" /\ ~labelsSubset(d.Labels, c.Labels)
    \/ f = "push_config" /\ d.Push # {} /\ ~pushConfigEqual(c.Push, d.Push)
    \/ f = "dead_letter_policy" /\ d.DeadLetter # {} /\ c.DeadLetter # d.DeadLetter
    \/ f = "retry_policy" /\ d.Retry # {} /\ c.Retry # d.Retry

\* The mask of diffTopic has the paths that differ.
LEMMA DiffTopicPaths ==
    ASSUME NEW c, NEW d
    PROVE  \A f : f \in Paths(diffTopic(c, d)) <=> TopicField(f, c, d)
<1> DEFINE A == /\ d.MessageRetention > 0
                /\ c.MessageRetention # d.MessageRetention
           B == ~labelsSubset(d.Labels, c.Labels)
           a == When(A, "message_retention_duration")
           b == When(B, "labels")
<1>1. a \in Seq(TopicPaths) /\ b \in Seq(TopicPaths)
  BY WhenType DEF TopicPaths
<1>2. A \in BOOLEAN /\ B \in BOOLEAN
  BY DEF labelsSubset
<1>3. diffTopic(c, d) = a \o b
  BY DEF diffTopic
<1>4. /\ \A f : f \in Paths(a) <=> A /\ f = "message_retention_duration"
      /\ \A f : f \in Paths(b) <=> B /\ f = "labels"
  <2> HIDE DEF A, B
  <2> QED
    BY <1>2, PathsOfWhen
<1>5. \A f : f \in Paths(a \o b) <=> f \in Paths(a) \/ f \in Paths(b)
  <2> HIDE DEF a, b
  <2> QED
    BY <1>1, PathsOfConcat
<1> HIDE DEF a, b
<1> QED
  BY <1>3, <1>4, <1>5 DEF TopicField

\* So has the mask of diffScalars.
LEMMA DiffScalarsPaths ==
    ASSUME NEW c, NEW d
    PROVE  /\ diffScalars(c, d) \in Seq(SubscriptionPaths)
           /\ \A f : f \in Paths(diffScalars(c, d)) <=> ScalarField(f, c, d)
<1> DEFINE A1 == d.AckDeadline > 0 /\ c.AckDeadline # d.AckDeadline
           A2 == d.MessageRetention > 0 /\ c.MessageRetention # d.MessageRetention
           A3 == boolDrift(c.RetainAckedMessages, d.RetainAckedMessages)
           A4 == boolDrift(c.EnableExactlyOnceDelivery, d.EnableExactlyOnceDelivery)
           w1 == When(A1, "ack_deadline_seconds")
           w2 == When(A2, "message_retention_duration")
           w3 == When(A3, "retain_acked_messages")
           w4 == When(A4, "enable_exactly_once_delivery")
<1>1. /\ w1 \in Seq(SubscriptionPaths) /\ w2 \in Seq(SubscriptionPaths)
      /\ w3 \in Seq(SubscriptionPaths) /\ w4 \in Seq(SubscriptionPaths)
  BY WhenType DEF SubscriptionPaths
<1>2. A1 \in BOOLEAN /\ A2 \in BOOLEAN /\ A3 \in BOOLEAN /\ A4 \in BOOLEAN
  BY DEF boolDrift
<1>3. diffScalars(c, d) = w1 \o w2 \o w3 \o w4
  BY DEF diffScalars
<1>4. /\ \A f : f \in Paths(w1) <=> A1 /\ f = "ack_deadline_seconds"
      /\ \A f : f \in Paths(w2) <=> A2 /\ f = "message_retention_duration"
      /\ \A f : f \in Paths(w3) <=> A3 /\ f = "retain_acked_messages"
      /\ \A f : f \in Paths(w4) <=> A4 /\ f = "enable_exactly_once_delivery"
  <2> HIDE DEF A1, A2, A3, A4
  <2> QED
    BY <1>2, PathsOfWhen
<1> DEFINE v2 == w1 \o w2
           v3 == v2 \o w3
           v4 == v3 \o w4
<1> HIDE DEF A1, A2, A3, A4, w1, w2, w3, w4
<1>5. /\ v2 \in Seq(SubscriptionPaths)
      /\ \A f : f \in Paths(v2) <=> f \in Paths(w1) \/ f \in Paths(w2)
  BY <1>1, ConcatType, PathsOfConcat
<1>6. /\ v3 \in Seq(SubscriptionPaths)
      /\ \A f : f \in Paths(v3) <=> f \in Paths(v2) \/ f \in Paths(w3)
  <2> HIDE DEF v2
  <2> QED
    BY <1>1, <1>5, ConcatType, PathsOfConcat
<1>7. /\ v4 \in Seq(SubscriptionPaths)
      /\ \A f : f \in Paths(v4) <=> f \in Paths(v3) \/ f \in Paths(w4)
  <2> HIDE DEF v3
  <2> QED
    BY <1>1, <1>6, ConcatType, PathsOfConcat
<1> HIDE DEF v2, v3, v4
<1>8. \A f : ScalarField(f, c, d) <=>
             \/ A1 /\ f = "ack_deadline_seconds"
             \/ A2 /\ f = "message_retention_duration"
             \/ A3 /\ f = "retain_acked_messages"
             \/ A4 /\ f = "enable_exactly_once_delivery"
  BY DEF ScalarField, A1, A2, A3, A4
<1>9. diffScalars(c, d) = v4
  BY <1>3 DEF v2, v3, v4
<1> QED
  BY <1>4, <1>5, <1>6, <1>7, <1>8, <1>9

\* And the mask of diffMessages.
LEMMA DiffMessagesPaths ==
    ASSUME NEW c, NEW d
    PROVE  /\ diffMessages(c, d) \in Seq(SubscriptionPaths)
           /\ \A f : f \in Paths(diffMessages(c, d)) <=> MessageField(f, c, d)
<1> DEFINE A1 == /\ d.ExpirationSet
                 /\ \/ ~c.ExpirationSet
                    \/ c.ExpirationTTL # d.ExpirationTTL
           A2 == ~labelsSubset(d.Labels, c.Labels)
           A3 == d.Push # {} /\ ~pushConfigEqual(c.Push, d.Push)
           A4 == d.DeadLetter # {} /\ c.DeadLetter # d.DeadLetter
           A5 == d.Retry # {} /\ c.Retry # d.Retry
           w1 == When(A1, "expiration_policy")
           w2 == When(A2, "labels")
           w3 == When(A3, "push_config")
           w4 == When(A4, "dead_letter_policy")
           w5 == When(A5, "retry_policy")
<1>1. /\ w1 \in Seq(SubscriptionPaths) /\ w2 \in Seq(SubscriptionPaths)
      /\ w3 \in Seq(SubscriptionPaths) /\ w4 \in Seq(SubscriptionPaths)
      /\ w5 \in Seq(SubscriptionPaths)
  BY WhenType DEF SubscriptionPaths
<1>2. /\ A1 \in BOOLEAN /\ A2 \in BOOLEAN /\ A3 \in BOOLEAN /\ A4 \in BOOLEAN
      /\ A5 \in BOOLEAN
  BY DEF labelsSubset, pushConfigEqual
<1>3. diffMessages(c, d) = w1 \o w2 \o w3 \o w4 \o w5
  BY DEF diffMessages
<1>4. /\ \A f : f \in Paths(w1) <=> A1 /\ f = "expiration_policy"
      /\ \A f : f \in Paths(w2) <=> A2 /\ f = "labels"
      /\ \A f : f \in Paths(w3) <=> A3 /\ f = "push_config"
      /\ \A f : f \in Paths(w4) <=> A4 /\ f = "dead_letter_policy"
      /\ \A f : f \in Paths(w5) <=> A5 /\ f = "retry_policy"
  <2> HIDE DEF A1, A2, A3, A4, A5
  <2> QED
    BY <1>2, PathsOfWhen
<1> DEFINE v2 == w1 \o w2
           v3 == v2 \o w3
           v4 == v3 \o w4
           v5 == v4 \o w5
<1> HIDE DEF A1, A2, A3, A4, A5, w1, w2, w3, w4, w5
<1>5. /\ v2 \in Seq(SubscriptionPaths)
      /\ \A f : f \in Paths(v2) <=> f \in Paths(w1) \/ f \in Paths(w2)
  BY <1>1, ConcatType, PathsOfConcat
<1>6. /\ v3 \in Seq(SubscriptionPaths)
      /\ \A f : f \in Paths(v3) <=> f \in Paths(v2) \/ f \in Paths(w3)
  <2> HIDE DEF v2
  <2> QED
    BY <1>1, <1>5, ConcatType, PathsOfConcat
<1>7. /\ v4 \in Seq(SubscriptionPaths)
      /\ \A f : f \in Paths(v4) <=> f \in Paths(v3) \/ f \in Paths(w4)
  <2> HIDE DEF v3
  <2> QED
    BY <1>1, <1>6, ConcatType, PathsOfConcat
<1>8. /\ v5 \in Seq(SubscriptionPaths)
      /\ \A f : f \in Paths(v5) <=> f \in Paths(v4) \/ f \in Paths(w5)
  <2> HIDE DEF v4
  <2> QED
    BY <1>1, <1>7, ConcatType, PathsOfConcat
<1> HIDE DEF v2, v3, v4, v5
<1>9. \A f : MessageField(f, c, d) <=>
             \/ A1 /\ f = "expiration_policy"
             \/ A2 /\ f = "labels"
             \/ A3 /\ f = "push_config"
             \/ A4 /\ f = "dead_letter_policy"
             \/ A5 /\ f = "retry_policy"
  BY DEF MessageField, A1, A2, A3, A4, A5
<1>10. diffMessages(c, d) = v5
  BY <1>3 DEF v2, v3, v4, v5
<1> QED
  BY <1>4, <1>5, <1>6, <1>7, <1>8, <1>9, <1>10

\* The mask of diffSubscription has the paths of both.
LEMMA DiffSubscriptionPaths ==
    ASSUME NEW c, NEW d
    PROVE  \A f : f \in Paths(diffSubscription(c, d)) <=>
                      ScalarField(f, c, d) \/ MessageField(f, c, d)
<1>1. \A f : f \in Paths(diffScalars(c, d) \o diffMessages(c, d)) <=>
                 f \in Paths(diffScalars(c, d)) \/ f \in Paths(diffMessages(c, d))
  BY DiffScalarsPaths, DiffMessagesPaths, PathsOfConcat
<1> QED
  BY <1>1, DiffScalarsPaths, DiffMessagesPaths DEF diffSubscription

-----------------------------------------------------------------------------
(* What the drift of a message depends on, and what a write leaves of it. *)

\* The drift of a topic: only paths that can be updated, and field by field.
LEMMA TopicDriftFields ==
    ASSUME NEW t, NEW m
    PROVE  /\ TopicDrift(t, m) \subseteq TopicPaths
           /\ \A f : f \in TopicDrift(t, m) <=>
                         TopicField(f, fromProtoTopic(m), buildTopic(t))
BY DiffTopicPaths DEF TopicDrift, TopicField, TopicPaths

\* The drift of a subscription: what can be updated and what can not.
LEMMA SubDriftFields ==
    ASSUME NEW n, NEW s, NEW m
    PROVE  LET c == fromProtoSubscription(m)
               d == buildSubscription(n, s)
           IN  /\ SubDrift(n, s, m) \subseteq SubscriptionPaths \cup ImmutablePaths
               /\ \A f : f \in SubDrift(n, s, m) <=>
                      \/ ScalarField(f, c, d) \/ MessageField(f, c, d)
                      \/ f \in immutableDrift(c, d)
<1> DEFINE c == fromProtoSubscription(m)
           d == buildSubscription(n, s)
<1>1. immutableDrift(c, d) \subseteq ImmutablePaths
  BY DEF immutableDrift
<1>2. \A f : ScalarField(f, c, d) \/ MessageField(f, c, d) => f \in SubscriptionPaths
  BY DEF ScalarField, MessageField, SubscriptionPaths
<1>3. \A f : f \in Paths(diffSubscription(c, d)) <=>
                 ScalarField(f, c, d) \/ MessageField(f, c, d)
  BY DiffSubscriptionPaths
<1> HIDE DEF c, d
<1>4. SubDrift(n, s, m) = Paths(diffSubscription(c, d)) \cup immutableDrift(c, d)
  BY DEF SubDrift, c, d
<1>5. /\ SubDrift(n, s, m) \subseteq SubscriptionPaths \cup ImmutablePaths
      /\ \A f : f \in SubDrift(n, s, m) <=>
             \/ ScalarField(f, c, d) \/ MessageField(f, c, d)
             \/ f \in immutableDrift(c, d)
  BY <1>1, <1>2, <1>3, <1>4
<1> QED
  BY <1>5 DEF c, d

\* Whether a field of a topic drifts depends on that field alone.
LEMMA TopicDriftLocal ==
    ASSUME NEW t, NEW m, NEW x, NEW f \in TopicPaths, m[f] = x[f],
           f \in TopicDrift(t, x)
    PROVE  f \in TopicDrift(t, m)
<1>1. f = "labels" => m.labels = x.labels
  OBVIOUS
<1>2. f = "message_retention_duration" =>
        m.message_retention_duration = x.message_retention_duration
  OBVIOUS
<1> QED
  BY <1>1, <1>2, TopicDriftFields DEF TopicField, fromProtoTopic

\* So it is for a field of a subscription.
LEMMA SubDriftLocal ==
    ASSUME NEW n, NEW s, NEW m, NEW x,
           NEW f \in SubscriptionPaths \cup ImmutablePaths, m[f] = x[f],
           f \in SubDrift(n, s, x)
    PROVE  f \in SubDrift(n, s, m)
<1> DEFINE c == fromProtoSubscription(x)
           e == fromProtoSubscription(m)
           d == buildSubscription(n, s)
<1>1. CASE ScalarField(f, c, d)
  <2>1. /\ f = "ack_deadline_seconds" => e.AckDeadline = c.AckDeadline
        /\ f = "message_retention_duration" => e.MessageRetention = c.MessageRetention
        /\ f = "retain_acked_messages" => e.RetainAckedMessages = c.RetainAckedMessages
        /\ f = "enable_exactly_once_delivery" =>
              e.EnableExactlyOnceDelivery = c.EnableExactlyOnceDelivery
    BY DEF fromProtoSubscription
  <2> HIDE DEF c, d, e
  <2>2. ScalarField(f, e, d)
    BY <1>1, <2>1 DEF ScalarField
  <2> QED
    BY <2>2, SubDriftFields DEF d, e
<1>2. CASE MessageField(f, c, d)
  <2>1. /\ f = "expiration_policy" => /\ e.ExpirationSet = c.ExpirationSet
                                      /\ e.ExpirationTTL = c.ExpirationTTL
        /\ f = "labels" => e.Labels = c.Labels
        /\ f = "push_config" => e.Push = c.Push
        /\ f = "dead_letter_policy" => e.DeadLetter = c.DeadLetter
        /\ f = "retry_policy" => e.Retry = c.Retry
    BY DEF fromProtoSubscription
  <2> HIDE DEF c, d, e
  <2>2. MessageField(f, e, d)
    BY <1>2, <2>1 DEF MessageField
  <2> QED
    BY <2>2, SubDriftFields DEF d, e
<1>3. CASE f \in immutableDrift(c, d)
  <2>1. /\ f = "topic" => e.Topic = c.Topic
        /\ f = "filter" => e.Filter = c.Filter
        /\ f = "enable_message_ordering" =>
              e.EnableMessageOrdering = c.EnableMessageOrdering
    BY DEF fromProtoSubscription
  <2> HIDE DEF c, d, e
  <2>2. f \in immutableDrift(e, d)
    BY <1>3, <2>1 DEF immutableDrift
  <2> QED
    BY <2>2, SubDriftFields DEF d, e
<1> QED
  BY <1>1, <1>2, <1>3, SubDriftFields

\* The value of an optional duration.
LEMMA ParseDurationOf ==
    ASSUME NEW o \in Opt(Int)
    PROVE  /\ o = {} => ParseDuration(o) = 0
           /\ \A d \in o : ParseDuration(o) = d
           /\ ParseDuration(o) \in Int
<1>1. \A x, y \in o : x = y
  BY DEF Opt
<1>2. o # {} => The(o) \in o
  BY TheIn
<1>3. o \subseteq Int
  BY DEF Opt
<1>4. CASE o = {}
  BY <1>4 DEF ParseDuration
<1>5. CASE o # {}
  BY <1>1, <1>2, <1>3, <1>5 DEF ParseDuration
<1> QED
  BY <1>4, <1>5

\* Labels that were merged into are a superset of the configured ones.
LEMMA MergedLabels ==
    ASSUME NEW a, NEW b
    PROVE  labelsSubset(b, mergeLabels(a, b)) /\ labelsSubset(b, b)
BY DEF labelsSubset, mergeLabels, Lookup

\* A topic as this run creates or updates it does not drift.
LEMMA TopicWritten ==
    ASSUME NEW t \in Topic, NEW c,
           validateDurationRange(t.message_retention,
                                 minMessageRetention, maxMessageRetention)
    PROVE  /\ TopicDrift(t, toProtoTopic(buildTopic(t))) = {}
           /\ TopicDrift(t, toProtoTopic(mergeTopic(c, buildTopic(t)))) = {}
<1> DEFINE d == buildTopic(t)
<1>1. /\ d.Labels = t.labels /\ d.MessageRetention = ParseDuration(t.message_retention)
      /\ d = [Labels |-> d.Labels, MessageRetention |-> d.MessageRetention]
  BY DEF buildTopic
<1>2. d.MessageRetention \in Int
  BY <1>1, ParseDurationOf DEF Topic
<1>3. ASSUME NEW x, x.MessageRetention = d.MessageRetention,
             labelsSubset(d.Labels, x.Labels)
      PROVE  TopicDrift(t, toProtoTopic(x)) = {}
  <2>1. /\ fromProtoTopic(toProtoTopic(x)).Labels = x.Labels
        /\ fromProtoTopic(toProtoTopic(x)).MessageRetention
             = Positive(d.MessageRetention)
    BY <1>3 DEF fromProtoTopic, toProtoTopic
  <2>2. d.MessageRetention > 0 => Positive(d.MessageRetention) = d.MessageRetention
    BY DEF Positive
  <2> HIDE DEF d
  <2>3. \A f : ~TopicField(f, fromProtoTopic(toProtoTopic(x)), d)
    BY <1>3, <2>1, <2>2 DEF TopicField
  <2> QED
    BY <2>3, TopicDriftFields DEF d
<1>4. /\ mergeTopic(c, d).MessageRetention = d.MessageRetention
      /\ mergeTopic(c, d).Labels = mergeLabels(c.Labels, d.Labels)
  BY <1>1 DEF mergeTopic
<1>5. TopicDrift(t, toProtoTopic(d)) = {}
  BY <1>3, MergedLabels
<1>6. TopicDrift(t, toProtoTopic(mergeTopic(c, d))) = {}
  BY <1>3, <1>4, MergedLabels
<1> QED
  BY <1>5, <1>6

\* The value of a pointer to a Boolean.
LEMMA DerefOfOne ==
    ASSUME NEW b \in BOOLEAN
    PROVE  DerefBool({b}) = b
<1>1. DerefBool({TRUE}) = TRUE
  BY DEF DerefBool
<1>2. FALSE # TRUE
  OBVIOUS
<1>3. ~DerefBool({FALSE})
  BY <1>2 DEF DerefBool
<1>4. DerefBool({FALSE}) \in BOOLEAN
  BY DEF DerefBool
<1>5. DerefBool({FALSE}) = FALSE
  BY <1>3, <1>4
<1>6. b = TRUE \/ b = FALSE
  OBVIOUS
<1>7. CASE b = TRUE
  BY <1>1, <1>7, Zenon
<1>8. CASE b = FALSE
  BY <1>5, <1>8, Zenon
<1> QED
  BY <1>6, <1>7, <1>8

\* What is known of the durations of a valid subscription.
LEMMA ValidDurations ==
    ASSUME NEW n \in Texts, NEW s \in Subscription, validateSubscription(s)
    PROVE  LET d == buildSubscription(n, s)
           IN  /\ d.AckDeadline \in Nat /\ d.AckDeadline % Second = 0
               /\ d.MessageRetention \in Nat /\ d.ExpirationTTL \in Nat
               /\ \A r \in d.Retry : r.MinimumBackoff \in Nat /\ r.MaximumBackoff \in Nat
<1> DEFINE d == buildSubscription(n, s)
<1>1. /\ s.ack_deadline \in Opt(Int) /\ s.message_retention \in Opt(Int)
      /\ s.expiration_ttl \in Opt(Int) /\ s.retry \in Opt(Retry)
  BY DEF Subscription
<1>2. ASSUME NEW o \in Opt(Int), NEW lo \in Nat, NEW hi,
             validateDurationRange(o, lo, hi)
      PROVE  ParseDuration(o) \in Nat
  <2>1. CASE o = {}
    BY <2>1, ParseDurationOf
  <2>2. CASE o # {}
    <3>1. PICK x \in o : TRUE
      BY <2>2
    <3>2. x >= 0 /\ ParseDuration(o) = x /\ ParseDuration(o) \in Int
      BY <1>2, <3>1, ParseDurationOf DEF validateDurationRange
    <3> QED
      BY <3>2
  <2> QED
    BY <2>1, <2>2
<1>3. /\ validateDurationRange(s.ack_deadline, minAckDeadline, maxAckDeadline)
      /\ \A x \in s.ack_deadline : x % Second = 0
      /\ validateDurationRange(s.message_retention,
                               minMessageRetention, maxMessageRetention)
      /\ s.expiration_ttl # {ExpirationNever} =>
            validateDurationRange(s.expiration_ttl, minExpirationTTL, maxExpirationTTL)
      /\ \A r \in s.retry :
            /\ validateDurationRange(r.minimum_backoff, 0, maxRetryBackoff)
            /\ validateDurationRange(r.maximum_backoff, 0, maxRetryBackoff)
  BY DEF validateSubscription, validateAckDeadline, validateRetry
<1>4. minAckDeadline \in Nat /\ minMessageRetention \in Nat /\ minExpirationTTL \in Nat
  BY DEF minAckDeadline, minMessageRetention, minExpirationTTL, Day, Minute, Second
<1>5. d.AckDeadline = ParseDuration(s.ack_deadline) /\ d.AckDeadline \in Nat
  BY <1>1, <1>2, <1>3, <1>4 DEF buildSubscription
<1>6. d.AckDeadline % Second = 0
  <2>1. CASE s.ack_deadline = {}
    BY <1>1, <1>5, <2>1, ParseDurationOf DEF Second
  <2>2. CASE s.ack_deadline # {}
    <3>1. PICK x \in s.ack_deadline : TRUE
      BY <2>2
    <3>2. ParseDuration(s.ack_deadline) = x
      BY <1>1, <3>1, ParseDurationOf
    <3> QED
      BY <1>3, <1>5, <3>1, <3>2
  <2> QED
    BY <2>1, <2>2
<1>7. d.MessageRetention \in Nat
  BY <1>1, <1>2, <1>3, <1>4 DEF buildSubscription
<1>8. d.ExpirationTTL \in Nat
  <2>1. d.ExpirationTTL = IF s.expiration_ttl = {ExpirationNever} THEN 0
                          ELSE ParseDuration(s.expiration_ttl)
    BY DEF buildSubscription
  <2> QED
    BY <1>1, <1>2, <1>3, <1>4, <2>1
<1>9. ASSUME NEW r \in d.Retry
      PROVE  r.MinimumBackoff \in Nat /\ r.MaximumBackoff \in Nat
  <2>1. PICK x \in s.retry : r = [MinimumBackoff |-> ParseDuration(x.minimum_backoff),
                                  MaximumBackoff |-> ParseDuration(x.maximum_backoff)]
    BY <1>9 DEF buildSubscription
  <2>2. x.minimum_backoff \in Opt(Int) /\ x.maximum_backoff \in Opt(Int)
    BY <1>1, <2>1 DEF Opt, Retry
  <2> QED
    BY <1>2, <1>3, <2>1, <2>2
<1> QED
  BY <1>5, <1>6, <1>7, <1>8, <1>9

\* A subscription x that differs from the wanted one only by labels and push
\* attributes merged into it has no path to update once it is stored.
LEMMA ScalarsWritten ==
    ASSUME NEW n \in Texts, NEW s \in Subscription, validateSubscription(s), NEW x,
           x.AckDeadline = buildSubscription(n, s).AckDeadline,
           x.MessageRetention = buildSubscription(n, s).MessageRetention,
           x.RetainAckedMessages = buildSubscription(n, s).RetainAckedMessages,
           x.EnableExactlyOnceDelivery = buildSubscription(n, s).EnableExactlyOnceDelivery,
           NEW f
    PROVE  ~ScalarField(f, fromProtoSubscription(toProtoSubscription(x)),
                        buildSubscription(n, s))
<1> DEFINE d == buildSubscription(n, s)
           c == fromProtoSubscription(toProtoSubscription(x))
<1>1. /\ c.AckDeadline = (Positive(d.AckDeadline) \div Second) * Second
      /\ c.MessageRetention = Positive(d.MessageRetention)
      /\ c.RetainAckedMessages = {DerefBool(d.RetainAckedMessages)}
      /\ c.EnableExactlyOnceDelivery = {DerefBool(d.EnableExactlyOnceDelivery)}
  BY DEF fromProtoSubscription, toProtoSubscription
<1>2. /\ d.AckDeadline \in Nat /\ d.AckDeadline % Second = 0 /\ d.MessageRetention \in Nat
  BY ValidDurations
<1>3. d.RetainAckedMessages \in Opt(BOOLEAN) /\ d.EnableExactlyOnceDelivery \in Opt(BOOLEAN)
  BY BuildSubscriptionType DEF ClientSubscription
<1> HIDE DEF c, d
<1>4. c.AckDeadline = d.AckDeadline /\ c.MessageRetention = d.MessageRetention
  BY <1>1, <1>2 DEF Positive, Second
<1>5. ASSUME NEW o \in Opt(BOOLEAN) PROVE ~boolDrift({DerefBool(o)}, o)
  <2>1. \A b \in o : b \in BOOLEAN /\ o = {b}
    BY DEF Opt
  <2>2. \A b \in o : DerefBool(o) = b
    BY <2>1, DerefOfOne
  <2>3. \A b \in o : DerefBool({DerefBool(o)}) = b
    BY <2>1, <2>2
  <2> QED
    BY <2>3 DEF boolDrift
<1>6. ~ScalarField(f, c, d)
  BY <1>1, <1>3, <1>4, <1>5 DEF ScalarField
<1> QED
  BY <1>6 DEF c, d

\* What a push config becomes on the wire and back.
LEMMA PushWritten ==
    ASSUME NEW d \in PushConfig, d.Wrapper \in validPushWrappers, NEW a,
           labelsSubset(d.Attributes, a)
    PROVE  LET e == [d EXCEPT !.Attributes = a]
           IN  pushConfigEqual({fromProtoPushConfig(toProtoPushConfig(e))}, {d})
<1> DEFINE e == [d EXCEPT !.Attributes = a]
           c == fromProtoPushConfig(toProtoPushConfig(e))
<1>1. /\ e.Endpoint = d.Endpoint /\ e.Attributes = a /\ e.OIDCToken = d.OIDCToken
      /\ e.Wrapper = d.Wrapper /\ e.WriteMetadata = d.WriteMetadata
  BY DEF PushConfig
<1>2. /\ c.Endpoint = d.Endpoint /\ c.Attributes = a /\ c.OIDCToken = d.OIDCToken
  BY <1>1 DEF fromProtoPushConfig, toProtoPushConfig
<1>3. d.WriteMetadata \in BOOLEAN
  BY DEF PushConfig
<1>4. d.Wrapper = "none" => c.Wrapper = "none" /\ c.WriteMetadata = d.WriteMetadata
  <2> SUFFICES ASSUME d.Wrapper = "none"
               PROVE  c.Wrapper = "none" /\ c.WriteMetadata = d.WriteMetadata
    OBVIOUS
  <2>1. toProtoPushConfig(e).no_wrapper = {d.WriteMetadata}
    BY <1>1 DEF toProtoPushConfig
  <2>2. c.Wrapper = "none" /\ c.WriteMetadata = DerefBool({d.WriteMetadata})
    BY <2>1 DEF fromProtoPushConfig
  <2> QED
    BY <1>3, <2>2, DerefOfOne
<1>5. d.Wrapper = "pubsub" => c.Wrapper = "pubsub"
  BY <1>1 DEF fromProtoPushConfig, toProtoPushConfig
<1> HIDE DEF c, e
<1>6. pushConfigEqual({c}, {d})
  BY <1>2, <1>4, <1>5
     DEF pushConfigEqual, oidcEqual, effectiveWrapper, validPushWrappers
<1> QED
  BY <1>6 DEF c, e

\* The messages and maps of such a subscription, once stored.
LEMMA MessagesWritten ==
    ASSUME NEW n \in Texts, NEW s \in Subscription, validateSubscription(s), NEW x,
           x.ExpirationSet = buildSubscription(n, s).ExpirationSet,
           x.ExpirationTTL = buildSubscription(n, s).ExpirationTTL,
           x.DeadLetter = buildSubscription(n, s).DeadLetter,
           x.Retry = buildSubscription(n, s).Retry,
           labelsSubset(s.labels, x.Labels),
           \A d \in buildSubscription(n, s).Push :
               \E a : /\ labelsSubset(d.Attributes, a)
                      /\ x.Push = {[d EXCEPT !.Attributes = a]},
           NEW f
    PROVE  ~MessageField(f, fromProtoSubscription(toProtoSubscription(x)),
                         buildSubscription(n, s))
<1> DEFINE d == buildSubscription(n, s)
           m == toProtoSubscription(x)
           c == fromProtoSubscription(m)
<1>1. d \in ClientSubscription
  BY BuildSubscriptionType
<1>2. /\ d.ExpirationTTL \in Nat
      /\ \A r \in d.Retry : r.MinimumBackoff \in Nat /\ r.MaximumBackoff \in Nat
  BY ValidDurations
<1>3. d.ExpirationSet => c.ExpirationSet /\ c.ExpirationTTL = d.ExpirationTTL
  <2> SUFFICES ASSUME d.ExpirationSet
               PROVE  c.ExpirationSet /\ c.ExpirationTTL = d.ExpirationTTL
    OBVIOUS
  <2>1. m.expiration_policy = {Positive(d.ExpirationTTL)}
    BY DEF toProtoSubscription
  <2>2. Positive(d.ExpirationTTL) = d.ExpirationTTL
    BY <1>2 DEF Positive
  <2>3. m.expiration_policy = {d.ExpirationTTL}
    BY <2>1, <2>2
  <2>4. {d.ExpirationTTL} \in Opt(Int)
    BY <1>2 DEF Opt
  <2>5. ParseDuration({d.ExpirationTTL}) = d.ExpirationTTL
    BY <2>4, ParseDurationOf
  <2> HIDE DEF m, d
  <2>6. c.ExpirationSet = (m.expiration_policy # {})
        /\ c.ExpirationTTL = ParseDuration(m.expiration_policy)
    BY DEF fromProtoSubscription
  <2> QED
    BY <2>3, <2>5, <2>6
<1>4. labelsSubset(d.Labels, c.Labels)
  BY DEF buildSubscription, fromProtoSubscription, toProtoSubscription
<1>5. d.Push # {} => pushConfigEqual(c.Push, d.Push)
  <2> SUFFICES ASSUME d.Push # {} PROVE pushConfigEqual(c.Push, d.Push)
    OBVIOUS
  <2>1. PICK e \in d.Push : TRUE
    OBVIOUS
  <2>2. /\ d.Push = {e} /\ e.Wrapper = s.push_wrapper
    <3>1. d.Push = buildPushConfig(s)
      BY DEF buildSubscription
    <3> HIDE DEF d
    <3>2. \A z \in buildPushConfig(s) :
             buildPushConfig(s) = {z} /\ z.Wrapper = s.push_wrapper
      <4> DEFINE y == [Endpoint      |-> s.push_endpoint,
                       Attributes    |-> s.push_attributes,
                       OIDCToken     |-> s.push_oidc_token,
                       Wrapper       |-> s.push_wrapper,
                       WriteMetadata |-> s.push_write_metadata]
      <4>1. y.Wrapper = s.push_wrapper
        OBVIOUS
      <4>2. buildPushConfig(s) = {} \/ buildPushConfig(s) = {y}
        BY DEF buildPushConfig
      <4> HIDE DEF y
      <4> QED
        BY <4>1, <4>2
    <3> QED
      BY <2>1, <3>1, <3>2
  <2>3. e \in PushConfig
    BY <1>1, <2>1 DEF ClientSubscription, Opt
  <2>4. e.Wrapper \in validPushWrappers
    BY <2>2 DEF validateSubscription, validatePush
  <2>5. PICK a : /\ labelsSubset(e.Attributes, a)
                 /\ x.Push = {[e EXCEPT !.Attributes = a]}
    BY <2>1
  <2> DEFINE y == [e EXCEPT !.Attributes = a]
  <2>6. pushConfigEqual({fromProtoPushConfig(toProtoPushConfig(y))}, {e})
    BY <2>3, <2>4, <2>5, PushWritten
  <2>7. x.Push = {y}
    BY <2>5
  <2> HIDE DEF y
  <2>8. m.push_config = {toProtoPushConfig(y)}
    BY <2>7 DEF toProtoSubscription
  <2>9. c.Push = {fromProtoPushConfig(toProtoPushConfig(y))}
    <3> HIDE DEF m
    <3> QED
      BY <2>8 DEF fromProtoSubscription
  <2> QED
    BY <2>2, <2>6, <2>9
<1>6. c.DeadLetter = d.DeadLetter
  <2>1. d.DeadLetter \subseteq DeadLetterPolicy
    BY <1>1 DEF ClientSubscription, Opt
  <2>2. m.dead_letter_policy =
           {[dead_letter_topic |-> z.Topic,
             max_delivery_attempts |-> z.MaxDeliveryAttempts] : z \in d.DeadLetter}
    BY DEF toProtoSubscription
  <2> HIDE DEF m, d
  <2>3. c.DeadLetter = {[Topic |-> z.dead_letter_topic,
                         MaxDeliveryAttempts |-> z.max_delivery_attempts] :
                           z \in m.dead_letter_policy}
    BY DEF fromProtoSubscription
  <2> HIDE DEF c
  <2> DEFINE wire(z) == [dead_letter_topic |-> z.Topic,
                         max_delivery_attempts |-> z.MaxDeliveryAttempts]
             back(z) == [Topic |-> z.dead_letter_topic,
                         MaxDeliveryAttempts |-> z.max_delivery_attempts]
  <2>4. \A z \in d.DeadLetter : back(wire(z)) = z
    BY <2>1 DEF DeadLetterPolicy
  <2>5. m.dead_letter_policy = {wire(z) : z \in d.DeadLetter}
        /\ c.DeadLetter = {back(z) : z \in m.dead_letter_policy}
    BY <2>2, <2>3
  <2> HIDE DEF wire, back
  <2> QED
    BY <2>4, <2>5
<1>7. c.Retry = d.Retry
  <2>1. d.Retry \subseteq RetryPolicy
    BY <1>1 DEF ClientSubscription, Opt
  <2>2. m.retry_policy =
           {[minimum_backoff |-> Positive(z.MinimumBackoff),
             maximum_backoff |-> Positive(z.MaximumBackoff)] : z \in d.Retry}
    BY DEF toProtoSubscription
  <2> HIDE DEF m, d
  <2>3. c.Retry = {[MinimumBackoff |-> z.minimum_backoff,
                    MaximumBackoff |-> z.maximum_backoff] : z \in m.retry_policy}
    BY DEF fromProtoSubscription
  <2> HIDE DEF c
  <2> DEFINE wire(z) == [minimum_backoff |-> Positive(z.MinimumBackoff),
                         maximum_backoff |-> Positive(z.MaximumBackoff)]
             back(z) == [MinimumBackoff |-> z.minimum_backoff,
                         MaximumBackoff |-> z.maximum_backoff]
  <2>4. \A z \in d.Retry : back(wire(z)) = z
    BY <1>2, <2>1 DEF RetryPolicy, Positive
  <2>5. m.retry_policy = {wire(z) : z \in d.Retry}
        /\ c.Retry = {back(z) : z \in m.retry_policy}
    BY <2>2, <2>3
  <2> HIDE DEF wire, back
  <2> QED
    BY <2>4, <2>5
<1> HIDE DEF c, d, m
<1>8. ~MessageField(f, c, d)
  BY <1>3, <1>4, <1>5, <1>6, <1>7 DEF MessageField
<1> QED
  BY <1>8 DEF c, d, m

\* A subscription as a run creates it does not drift, and as a run updates it,
\* has at most immutable drift.
LEMMA SubWritten ==
    ASSUME NEW n \in Texts, NEW s \in Subscription, validateSubscription(s), NEW c
    PROVE  LET d == buildSubscription(n, s)
           IN  /\ SubDrift(n, s, toProtoSubscription(d)) = {}
               /\ SubDrift(n, s, toProtoSubscription(mergeSubscription(c, d)))
                     \cap SubscriptionPaths = {}
<1> DEFINE d == buildSubscription(n, s)
           e == mergeSubscription(c, d)
<1>1. d \in ClientSubscription
  BY BuildSubscriptionType
<1>2. /\ e.AckDeadline = d.AckDeadline
      /\ e.MessageRetention = d.MessageRetention
      /\ e.RetainAckedMessages = d.RetainAckedMessages
      /\ e.EnableExactlyOnceDelivery = d.EnableExactlyOnceDelivery
      /\ e.ExpirationSet = d.ExpirationSet /\ e.ExpirationTTL = d.ExpirationTTL
      /\ e.DeadLetter = d.DeadLetter /\ e.Retry = d.Retry
      /\ e.Labels = mergeLabels(c.Labels, d.Labels)
      /\ e.Push = mergePush(c.Push, d.Push)
  BY <1>1 DEF mergeSubscription, ClientSubscription
<1>3. d.Labels = s.labels /\ (\A y \in d.Push : d.Push = {y} /\ y \in PushConfig)
  <2>1. d.Labels = s.labels /\ d.Push \in Opt(PushConfig)
    BY <1>1 DEF buildSubscription, ClientSubscription
  <2> QED
    BY <2>1 DEF Opt
<1>4. ASSUME NEW y \in d.Push
      PROVE  /\ \E a : /\ labelsSubset(y.Attributes, a)
                       /\ d.Push = {[y EXCEPT !.Attributes = a]}
             /\ \E a : /\ labelsSubset(y.Attributes, a)
                       /\ e.Push = {[y EXCEPT !.Attributes = a]}
  <2>1. d.Push = {y} /\ y = [y EXCEPT !.Attributes = y.Attributes]
    BY <1>3, <1>4 DEF PushConfig
  <2> DEFINE a == IF c.Push = {} THEN y.Attributes
                  ELSE mergeLabels(The(c.Push).Attributes, y.Attributes)
  <2>2. e.Push = {[y EXCEPT !.Attributes = a]}
    BY <1>2, <2>1 DEF mergePush
  <2>3. labelsSubset(y.Attributes, a) /\ labelsSubset(y.Attributes, y.Attributes)
    BY MergedLabels
  <2> HIDE DEF a, d, e
  <2> QED
    BY <2>1, <2>2, <2>3
<1>5. labelsSubset(s.labels, d.Labels) /\ labelsSubset(s.labels, e.Labels)
  BY <1>2, <1>3, MergedLabels
<1>6. \A f : /\ ~ScalarField(f, fromProtoSubscription(toProtoSubscription(d)), d)
             /\ ~ScalarField(f, fromProtoSubscription(toProtoSubscription(e)), d)
  <2> HIDE DEF e
  <2> QED
    BY <1>2, ScalarsWritten
<1>7. \A f : ~MessageField(f, fromProtoSubscription(toProtoSubscription(d)), d)
  BY <1>4, <1>5, MessagesWritten
<1>8. \A f : ~MessageField(f, fromProtoSubscription(toProtoSubscription(e)), d)
  <2> HIDE DEF e
  <2> QED
    BY <1>2, <1>4, <1>5, MessagesWritten
<1>9. immutableDrift(fromProtoSubscription(toProtoSubscription(d)), d) = {}
  <2> DEFINE b == fromProtoSubscription(toProtoSubscription(d))
  <2>1. /\ b.Topic = d.Topic /\ b.Filter = d.Filter
        /\ b.EnableMessageOrdering = {DerefBool(d.EnableMessageOrdering)}
    BY DEF fromProtoSubscription, toProtoSubscription
  <2>2. d.EnableMessageOrdering \in Opt(BOOLEAN)
    BY <1>1 DEF ClientSubscription
  <2>3. \A o \in d.EnableMessageOrdering : o \in BOOLEAN /\ d.EnableMessageOrdering = {o}
    BY <2>2 DEF Opt
  <2> HIDE DEF b, d
  <2>4. \A o \in d.EnableMessageOrdering : DerefBool(d.EnableMessageOrdering) = o
    BY <2>3, DerefOfOne
  <2>5. \A o \in d.EnableMessageOrdering : DerefBool(b.EnableMessageOrdering) = o
    BY <2>1, <2>3, <2>4
  <2>6. ~boolDrift(b.EnableMessageOrdering, d.EnableMessageOrdering)
    BY <2>5 DEF boolDrift
  <2>7. immutableDrift(b, d) = {}
    BY <2>1, <2>6 DEF immutableDrift
  <2> QED
    BY <2>7 DEF b, d
<1>10. immutableDrift(fromProtoSubscription(toProtoSubscription(e)), d)
          \cap SubscriptionPaths = {}
  BY DEF immutableDrift, ImmutablePaths, SubscriptionPaths
<1>11. SubDrift(n, s, toProtoSubscription(d)) = {}
  BY <1>6, <1>7, <1>9, SubDriftFields
<1>12. SubDrift(n, s, toProtoSubscription(e)) \cap SubscriptionPaths = {}
  <2> HIDE DEF e
  <2> QED
    BY <1>6, <1>8, <1>10, SubDriftFields
<1> QED
  BY <1>11, <1>12

\* A wrapper that is not echoed reads as the default (effectiveWrapper), so the
\* comparison still accepts the push config.
LEMMA UnwrappedEqual ==
    ASSUME NEW y, NEW D,
           pushConfigEqual({fromProtoPushConfig(toProtoPushConfig(y))}, D)
    PROVE  pushConfigEqual({fromProtoPushConfig(Unwrapped(toProtoPushConfig(y)))}, D)
<1> DEFINE pc == toProtoPushConfig(y)
           a  == fromProtoPushConfig(pc)
           b  == fromProtoPushConfig(Unwrapped(pc))
<1>1. /\ Unwrapped(pc).push_endpoint = pc.push_endpoint
      /\ Unwrapped(pc).attributes = pc.attributes
      /\ Unwrapped(pc).oidc_token = pc.oidc_token
      /\ Unwrapped(pc).no_wrapper = pc.no_wrapper
      /\ Unwrapped(pc).pubsub_wrapper = FALSE
  BY DEF Unwrapped, toProtoPushConfig
<1> HIDE DEF pc
<1>2. /\ b.Endpoint = a.Endpoint /\ b.Attributes = a.Attributes
      /\ b.OIDCToken = a.OIDCToken /\ b.WriteMetadata = a.WriteMetadata
      /\ effectiveWrapper(b.Wrapper) = effectiveWrapper(a.Wrapper)
  BY <1>1 DEF fromProtoPushConfig, effectiveWrapper
<1> HIDE DEF a, b
<1>3. pushConfigEqual({a}, D)
  BY DEF a, pc
<1>4. pushConfigEqual({b}, D)
  <2>1. PICK z \in D :
           /\ z.Endpoint # "" => a.Endpoint = z.Endpoint
           /\ labelsSubset(z.Attributes, a.Attributes)
           /\ oidcEqual(a.OIDCToken, z.OIDCToken)
           /\ z.Wrapper # "" => effectiveWrapper(a.Wrapper) = z.Wrapper
           /\ z.Wrapper = "none" => a.WriteMetadata = z.WriteMetadata
    BY <1>3, Zenon DEF pushConfigEqual
  <2>2. /\ z.Endpoint # "" => b.Endpoint = z.Endpoint
        /\ labelsSubset(z.Attributes, b.Attributes)
        /\ oidcEqual(b.OIDCToken, z.OIDCToken)
        /\ z.Wrapper # "" => effectiveWrapper(b.Wrapper) = z.Wrapper
        /\ z.Wrapper = "none" => b.WriteMetadata = z.WriteMetadata
    BY <1>2, <2>1, Zenon
  <2> QED
    BY <2>2, Zenon DEF pushConfigEqual
<1> QED
  BY <1>4 DEF b, pc

\* So what the endpoint answers drifts no more than what it was given.
LEMMA AnsweredDrift ==
    ASSUME NEW n, NEW s, NEW e, NEW x, x.Push = {} \/ \E y : x.Push = {y}
    PROVE  SubDrift(n, s, Answered(e, toProtoSubscription(x)))
              \subseteq SubDrift(n, s, toProtoSubscription(x))
<1> DEFINE m == toProtoSubscription(x)
           k == Answered(e, m)
           d == buildSubscription(n, s)
           F == SubscriptionPaths \cup ImmutablePaths
<1>1. \A f \in F \ {"push_config"} : k[f] = m[f]
  BY DEF Answered, toProtoSubscription, SubscriptionPaths, ImmutablePaths
<1>2. k.push_config = IF e THEN m.push_config
                      ELSE {Unwrapped(pc) : pc \in m.push_config}
  BY DEF Answered, toProtoSubscription
<1>3. m.push_config = {toProtoPushConfig(y) : y \in x.Push}
  BY DEF toProtoSubscription
<1> HIDE DEF m, k, d
<1>4. ASSUME pushConfigEqual(fromProtoSubscription(m).Push, d.Push)
      PROVE  pushConfigEqual(fromProtoSubscription(k).Push, d.Push)
  <2>1. /\ fromProtoSubscription(m).Push =
              {fromProtoPushConfig(pc) : pc \in m.push_config}
        /\ fromProtoSubscription(k).Push =
              {fromProtoPushConfig(pc) : pc \in k.push_config}
    BY DEF fromProtoSubscription
  <2>2. PICK y : x.Push = {y}
    BY <1>3, <1>4, <2>1 DEF pushConfigEqual
  <2>3. m.push_config = {toProtoPushConfig(y)}
    BY <1>3, <2>2
  <2>4. fromProtoSubscription(m).Push = {fromProtoPushConfig(toProtoPushConfig(y))}
    BY <2>1, <2>3
  <2>5. pushConfigEqual({fromProtoPushConfig(Unwrapped(toProtoPushConfig(y)))}, d.Push)
    BY <1>4, <2>4, UnwrappedEqual
  <2>6. CASE e
    BY <1>2, <1>4, <2>1, <2>6
  <2>7. CASE ~e
    <3>1. k.push_config = {Unwrapped(toProtoPushConfig(y))}
      BY <1>2, <2>3, <2>7
    <3>2. fromProtoSubscription(k).Push
             = {fromProtoPushConfig(Unwrapped(toProtoPushConfig(y)))}
      BY <2>1, <3>1
    <3> QED
      BY <2>5, <3>2
  <2> QED
    BY <2>6, <2>7
<1>5. ASSUME NEW f \in SubDrift(n, s, k) PROVE f \in SubDrift(n, s, m)
  <2>1. f \in F
    BY <1>5, SubDriftFields
  <2>2. CASE f # "push_config"
    BY <1>1, <1>5, <2>1, <2>2, SubDriftLocal
  <2>3. CASE f = "push_config"
    <3> DEFINE b == fromProtoSubscription(k)
    <3>0. ~ScalarField(f, b, d) /\ f \notin immutableDrift(b, d)
      BY <2>3 DEF ScalarField, immutableDrift, ImmutablePaths
    <3>1. MessageField(f, b, d)
      BY <1>5, <3>0, SubDriftFields DEF d
    <3>2. MessageField(f, fromProtoSubscription(m), d)
      BY <1>4, <2>3, <3>1 DEF MessageField
    <3> QED
      BY <3>2, SubDriftFields DEF d
  <2> QED
    BY <2>2, <2>3
<1> QED
  BY <1>5 DEF m, k

\* What a run builds, and merges what it read into, has one push config at most.
LEMMA OnePush ==
    ASSUME NEW n \in Texts, NEW s \in Subscription, NEW c
    PROVE  LET d == buildSubscription(n, s)
               e == mergeSubscription(c, d)
           IN  /\ d.Push = {} \/ \E y : d.Push = {y}
               /\ e.Push = {} \/ \E y : e.Push = {y}
<1> DEFINE d == buildSubscription(n, s)
<1>1. d \in ClientSubscription
  BY BuildSubscriptionType
<1>2. d.Push = {} \/ \E y : d.Push = {y}
  BY <1>1 DEF ClientSubscription, Opt
<1>3. mergeSubscription(c, d).Push = mergePush(c.Push, d.Push)
  BY <1>1 DEF mergeSubscription, ClientSubscription
<1> HIDE DEF d
<1>4. mergePush(c.Push, d.Push) = {} \/ \E y : mergePush(c.Push, d.Push) = {y}
  <2>1. CASE d.Push = {}
    BY <2>1 DEF mergePush
  <2>2. ASSUME NEW y, d.Push = {y} PROVE \E z : mergePush(c.Push, d.Push) = {z}
    <3> DEFINE a == IF c.Push = {} THEN y.Attributes
                    ELSE mergeLabels(The(c.Push).Attributes, y.Attributes)
    <3>1. mergePush(c.Push, d.Push) = {[y EXCEPT !.Attributes = a]}
      BY <2>2 DEF mergePush
    <3> HIDE DEF a
    <3> QED
      BY <3>1
  <2> QED
    BY <1>2, <2>1, <2>2
<1> QED
  BY <1>2, <1>3, <1>4 DEF d

\* An update leaves less drift: none of the paths it names, no new one.
LEMMA TopicMasked ==
    ASSUME NEW t \in Topic, NEW c, NEW mask, NEW m \in TopicProto,
           validateDurationRange(t.message_retention,
                                 minMessageRetention, maxMessageRetention)
    PROVE  LET r == toProtoTopic(mergeTopic(c, buildTopic(t)))
           IN  TopicDrift(t, ApplyMask(m, r, mask)) \subseteq TopicDrift(t, m) \ mask
<1> DEFINE r == toProtoTopic(mergeTopic(c, buildTopic(t)))
           x == ApplyMask(m, r, mask)
<1>1. TopicDrift(t, r) = {}
  BY TopicWritten
<1>2. \A f \in TopicPaths : x[f] = IF f \in mask THEN r[f] ELSE m[f]
  <2> HIDE DEF r
  <2> QED
    BY DEF TopicProto, TopicPaths, ApplyMask
<1> HIDE DEF r, x
<1>3. ASSUME NEW f \in TopicDrift(t, x) PROVE f \in TopicDrift(t, m) /\ f \notin mask
  <2>1. f \in TopicPaths
    BY <1>3, TopicDriftFields
  <2>2. CASE f \in mask
    BY <1>1, <1>2, <1>3, <2>1, <2>2, TopicDriftLocal
  <2>3. CASE f \notin mask
    BY <1>2, <1>3, <2>1, <2>3, TopicDriftLocal
  <2> QED
    BY <2>2, <2>3
<1>4. TopicDrift(t, x) \subseteq TopicDrift(t, m) \ mask
  BY <1>3
<1> QED
  BY <1>4 DEF r, x

\* So does an update of a subscription.
LEMMA SubMasked ==
    ASSUME NEW n \in Texts, NEW s \in Subscription, validateSubscription(s),
           NEW c, NEW mask \in SUBSET SubscriptionPaths, NEW m \in SubscriptionProto,
           NEW echoes
    PROVE  LET r == Answered(echoes, toProtoSubscription(
                       mergeSubscription(c, buildSubscription(n, s))))
           IN  SubDrift(n, s, ApplyMask(m, r, mask)) \subseteq SubDrift(n, s, m) \ mask
<1> DEFINE e == mergeSubscription(c, buildSubscription(n, s))
           r == Answered(echoes, toProtoSubscription(e))
           x == ApplyMask(m, r, mask)
           F == SubscriptionPaths \cup ImmutablePaths
<1>1. SubDrift(n, s, r) \cap SubscriptionPaths = {}
  <2>1. SubDrift(n, s, toProtoSubscription(e)) \cap SubscriptionPaths = {}
    BY SubWritten
  <2>2. e.Push = {} \/ \E y : e.Push = {y}
    BY OnePush
  <2> HIDE DEF e
  <2>3. SubDrift(n, s, r) \subseteq SubDrift(n, s, toProtoSubscription(e))
    BY <2>2, AnsweredDrift
  <2> QED
    BY <2>1, <2>3
<1>2. \A f \in F : x[f] = IF f \in mask THEN r[f] ELSE m[f]
  <2> HIDE DEF r
  <2>1. DOMAIN m = F
    BY DEF SubscriptionProto, SubscriptionPaths, ImmutablePaths
  <2> QED
    BY <2>1 DEF ApplyMask
<1> HIDE DEF r, x
<1>3. ASSUME NEW f \in SubDrift(n, s, x) PROVE f \in SubDrift(n, s, m) /\ f \notin mask
  <2>1. f \in F
    BY <1>3, SubDriftFields
  <2> HIDE DEF F
  <2>2. CASE f \in mask
    <3>1. r[f] = x[f]
      BY <1>2, <2>1, <2>2
    <3>2. f \in SubDrift(n, s, r)
      BY <1>3, <2>1, <3>1, SubDriftLocal DEF F
    <3> QED
      BY <1>1, <2>2, <3>2
  <2>3. CASE f \notin mask
    <3>1. m[f] = x[f]
      BY <1>2, <2>1, <2>3
    <3> QED
      BY <1>3, <2>1, <2>3, <3>1, SubDriftLocal DEF F
  <2> QED
    BY <2>2, <2>3
<1>4. SubDrift(n, s, x) \subseteq SubDrift(n, s, m) \ mask
  BY <1>3
<1> QED
  BY <1>4 DEF r, x

\* Only a field that the file declares is ever in a mask.
LEMMA TopicMaskDeclared ==
    ASSUME NEW t \in Topic, NEW m, NEW f \in Paths(diffTopic(m, buildTopic(t)))
    PROVE  TopicDeclares(t)[f]
<1>1. TopicField(f, m, buildTopic(t))
  BY DiffTopicPaths
<1>2. CASE f = "labels"
  <2>1. ~labelsSubset(t.labels, m.Labels)
    BY <1>1, <1>2 DEF TopicField, buildTopic
  <2>2. DOMAIN t.labels # {}
    BY <2>1 DEF labelsSubset
  <2> QED
    BY <1>2, <2>2 DEF TopicDeclares
<1>3. CASE f = "message_retention_duration"
  <2>1. ParseDuration(t.message_retention) > 0
    BY <1>1, <1>3 DEF TopicField, buildTopic
  <2>2. t.message_retention # {}
    BY <2>1 DEF ParseDuration
  <2> QED
    BY <1>3, <2>2 DEF TopicDeclares
<1> QED
  BY <1>1, <1>2, <1>3 DEF TopicField

\* So it is for subscriptions.
LEMMA SubMaskDeclared ==
    ASSUME NEW n, NEW s \in Subscription, NEW m,
           NEW f \in Paths(diffSubscription(m, buildSubscription(n, s)))
    PROVE  SubscriptionDeclares(s)[f]
<1> DEFINE d == buildSubscription(n, s)
           D == SubscriptionDeclares(s)
<1>1. ScalarField(f, m, d) \/ MessageField(f, m, d)
  BY DiffSubscriptionPaths
<1>2. /\ s.ack_deadline = {} => d.AckDeadline = 0
      /\ s.message_retention = {} => d.MessageRetention = 0
      /\ s.retain_acked_messages = d.RetainAckedMessages
      /\ s.enable_exactly_once_delivery = d.EnableExactlyOnceDelivery
      /\ s.expiration_ttl = {} => ~d.ExpirationSet
      /\ s.labels = d.Labels
      /\ s.push_endpoint = "" => d.Push = {}
      /\ s.dead_letter = {} => d.DeadLetter = {}
      /\ s.retry = {} => d.Retry = {}
  BY DEF buildSubscription, buildPushConfig, ParseDuration
<1>3. /\ D.ack_deadline_seconds = (s.ack_deadline # {})
      /\ D.message_retention_duration = (s.message_retention # {})
      /\ D.retain_acked_messages = (s.retain_acked_messages # {})
      /\ D.enable_exactly_once_delivery = (s.enable_exactly_once_delivery # {})
      /\ D.expiration_policy = (s.expiration_ttl # {})
      /\ D.labels = (DOMAIN s.labels # {})
      /\ D.push_config = (s.push_endpoint # "")
      /\ D.dead_letter_policy = (s.dead_letter # {})
      /\ D.retry_policy = (s.retry # {})
  BY DEF SubscriptionDeclares
<1> HIDE DEF d, D
<1>4. CASE ScalarField(f, m, d)
  <2>1. CASE f = "ack_deadline_seconds"
    <3>1. d.AckDeadline > 0
      BY <1>4, <2>1 DEF ScalarField
    <3>2. s.ack_deadline # {}
      <4>1. s.ack_deadline = {} => d.AckDeadline = 0
        BY <1>2
      <4>2. d.AckDeadline # 0
        BY <3>1
      <4> QED
        BY <4>1, <4>2
    <3> QED
      BY <1>3, <2>1, <3>2 DEF D
  <2>2. CASE f = "message_retention_duration"
    <3>1. d.MessageRetention > 0
      BY <1>4, <2>2 DEF ScalarField
    <3>2. s.message_retention # {}
      <4>1. s.message_retention = {} => d.MessageRetention = 0
        BY <1>2
      <4>2. d.MessageRetention # 0
        BY <3>1
      <4> QED
        BY <4>1, <4>2
    <3> QED
      BY <1>3, <2>2, <3>2 DEF D
  <2>3. CASE f = "retain_acked_messages"
    BY <1>2, <1>3, <1>4, <2>3 DEF ScalarField, boolDrift, D
  <2>4. CASE f = "enable_exactly_once_delivery"
    BY <1>2, <1>3, <1>4, <2>4 DEF ScalarField, boolDrift, D
  <2> QED
    BY <1>4, <2>1, <2>2, <2>3, <2>4 DEF ScalarField
<1>5. CASE MessageField(f, m, d)
  <2>1. CASE f = "expiration_policy"
    BY <1>2, <1>3, <1>5, <2>1 DEF MessageField, D
  <2>2. CASE f = "labels"
    BY <1>2, <1>3, <1>5, <2>2 DEF MessageField, labelsSubset, D
  <2>3. CASE f = "push_config"
    BY <1>2, <1>3, <1>5, <2>3 DEF MessageField, D
  <2>4. CASE f = "dead_letter_policy"
    BY <1>2, <1>3, <1>5, <2>4 DEF MessageField, D
  <2>5. CASE f = "retry_policy"
    BY <1>2, <1>3, <1>5, <2>5 DEF MessageField, D
  <2> QED
    BY <1>5, <2>1, <2>2, <2>3, <2>4, <2>5 DEF MessageField
<1> QED
  BY <1>1, <1>4, <1>5

-----------------------------------------------------------------------------
(* The places of a valid file. *)

\* What a valid file holds at a place.
LEMMA PlaceTypes ==
    ASSUME NEW c \in ConfigFile, validate(c),
           NEW i \in DOMAIN c.topics, NEW j \in Slots(c, i)
    PROVE  /\ c.topics[i] \in Topic /\ c.topics[i].name \in ResourceNames
           /\ validateDurationRange(c.topics[i].message_retention,
                                    minMessageRetention, maxMessageRetention)
           /\ j \in Nat
           /\ j # 0 => /\ j \in DOMAIN c.topics[i].subscriptions
                       /\ c.topics[i].subscriptions[j] \in Subscription
                       /\ validateSubscription(c.topics[i].subscriptions[j])
           /\ KeyAt(c, i, j) \in (IF j = 0 THEN TopicKeys ELSE SubKeys)
           /\ StrategyAt(c, i, j) \in {"create", "update"}
<1>1. c.topics \in Seq(Topic) /\ c.topics[i] \in Topic
  BY DEF ConfigFile
<1>2. c.strategy \in validStrategies /\ validateTopics(c.topics)
  BY DEF validate
<1>3. /\ c.topics[i].strategy \in validStrategies
      /\ c.topics[i].name \in ResourceNames
      /\ validateDurationRange(c.topics[i].message_retention,
                               minMessageRetention, maxMessageRetention)
      /\ \A l \in DOMAIN c.topics[i].subscriptions :
            validateSubscription(c.topics[i].subscriptions[l])
  BY <1>2 DEF validateTopics
<1> DEFINE subs == c.topics[i].subscriptions
<1>4. subs \in Seq(Subscription)
  BY <1>1 DEF Topic
<1>5. j \in Nat /\ (j # 0 => j \in DOMAIN subs)
  BY <1>4 DEF Slots
<1>6. j # 0 => subs[j] \in Subscription /\ validateSubscription(subs[j])
  BY <1>3, <1>4, <1>5
<1>7. j # 0 => subs[j].strategy \in validStrategies /\ subs[j].name \in ResourceNames
  BY <1>6 DEF validateSubscription
<1> HIDE DEF subs
<1>8. KeyAt(c, i, j) \in (IF j = 0 THEN TopicKeys ELSE SubKeys)
  BY <1>3, <1>7 DEF KeyAt, TopicKeys, SubKeys, subs
<1>9. StrategyAt(c, i, j) \in {"create", "update"}
  BY <1>2, <1>3, <1>7 DEF StrategyAt, EffectiveStrategy, validStrategies, subs
<1> QED
  BY <1>1, <1>3, <1>5, <1>6, <1>8, <1>9 DEF subs

\* No two places of a valid file have the same key.
LEMMA KeyIsUnique ==
    ASSUME NEW c \in ConfigFile, validate(c),
           NEW i \in DOMAIN c.topics, NEW j \in Slots(c, i),
           NEW k \in DOMAIN c.topics, NEW l \in Slots(c, k),
           KeyAt(c, i, j) = KeyAt(c, k, l)
    PROVE  i = k /\ j = l
<1>1. validateTopics(c.topics)
  BY DEF validate
<1>2. j = 0 <=> l = 0
  BY PlaceTypes, KeysDiffer
<1>3. CASE j = 0
  <2>1. c.topics[i].name = c.topics[k].name
    BY <1>2, <1>3 DEF KeyAt, TopicKey
  <2> QED
    BY <1>1, <1>2, <1>3, <2>1 DEF validateTopics
<1>4. CASE j # 0
  <2>1. c.topics[i].subscriptions[j].name = c.topics[k].subscriptions[l].name
    BY <1>2, <1>4 DEF KeyAt, SubKey
  <2>2. j \in DOMAIN c.topics[i].subscriptions /\ l \in DOMAIN c.topics[k].subscriptions
    BY <1>2, <1>4, PlaceTypes
  <2> QED
    BY <1>1, <2>1, <2>2 DEF validateTopics, UniqueSubscriptionNames
<1> QED
  BY <1>3, <1>4

\* Where a run stands is a place of its file.
LEMMA StandsAt ==
    ASSUME SectionInv, NEW p \in Provisioners, Standing(p)
    PROVE  /\ cfg[p] \in ConfigFile /\ validate(cfg[p])
           /\ run[p].ti \in DOMAIN cfg[p].topics
           /\ Sub(p) \in Slots(cfg[p], run[p].ti)
           /\ Sub(p) = 0 <=> AtTopic(p)
           /\ Key(p) = KeyAt(cfg[p], run[p].ti, Sub(p))
           /\ Strategy(p) = StrategyAt(cfg[p], run[p].ti, Sub(p))
           /\ Refused(p) = RefusedAt(Sub(p))
<1>1. cfg[p] \in ConfigFile /\ validate(cfg[p]) /\ run[p] \in RunState
  BY Given DEF TypeOK
<1>2. run[p].ti \in DOMAIN cfg[p].topics /\ run[p].si \in Nat /\ run[p].si # 0
  BY <1>1 DEF Standing, topics, RunState
<1>3. Sub(p) = 0 <=> AtTopic(p)
  BY <1>2 DEF Sub
<1>4. Sub(p) \in Slots(cfg[p], run[p].ti)
  <2>1. cfg[p].topics[run[p].ti] \in Topic
    BY <1>1, <1>2 DEF ConfigFile
  <2>2. cfg[p].topics[run[p].ti].subscriptions \in Seq(Subscription)
    BY <2>1 DEF Topic
  <2>3. ~AtTopic(p) => run[p].si \in DOMAIN cfg[p].topics[run[p].ti].subscriptions
    BY DEF Standing, TopicAt, topics
  <2> QED
    BY <2>2, <2>3 DEF Slots, Sub
<1>5. Key(p) = KeyAt(cfg[p], run[p].ti, Sub(p))
  BY <1>3 DEF Key, KeyAt, TopicAt, SubAt, topics, Sub
<1>6. Strategy(p) = StrategyAt(cfg[p], run[p].ti, Sub(p))
  BY <1>3 DEF Strategy, StrategyAt, TopicAt, SubAt, topics, Sub
<1>7. Refused(p) = RefusedAt(Sub(p))
  BY <1>3 DEF Refused, RefusedAt
<1> QED
  BY <1>1, <1>2, <1>3, <1>4, <1>5, <1>6, <1>7

\* What a run would compute as drift where it stands.
LEMMA DriftHere ==
    ASSUME SectionInv, NEW p \in Provisioners, Standing(p), NEW m
    PROVE  DriftAt(cfg[p], run[p].ti, Sub(p), m) =
             IF AtTopic(p)
             THEN Paths(diffTopic(fromProtoTopic(m), DesiredTopic(p)))
             ELSE Paths(diffSubscription(fromProtoSubscription(m), DesiredSub(p)))
                  \cup immutableDrift(fromProtoSubscription(m), DesiredSub(p))
BY StandsAt DEF DriftAt, TopicDrift, SubDrift, DesiredTopic, DesiredSub, TopicAt, SubAt,
                topics, Sub

-----------------------------------------------------------------------------
(* What a run writes. *)

Creates(p) ==
    /\ run[p].pc = "create" /\ Key(p) \notin DOMAIN live
    /\ live' = Put(live, Key(p), CreateRequest(p))

Modifies(p) ==
    /\ run[p].pc \in {"batch", "split"} /\ Reply(p) = "ok"
    /\ live' = UpdateEffect(live, Key(p), UpdateRequest(p), Mask(p))

\* A run that sends something stands at a place and is no dry run.
LEMMA Sender ==
    ASSUME SectionInv, NEW p \in Provisioners, run[p].pc \in {"create", "batch", "split"}
    PROVE  Standing(p) /\ ~dryRun[p]
BY Given DEF RunInv, Positioned, Standing

\* A resource as it is created does not drift.
LEMMA CreatedDrift ==
    ASSUME SectionInv, NEW p \in Provisioners, Standing(p)
    PROVE  DriftAt(cfg[p], run[p].ti, Sub(p), CreateRequest(p)) = {}
<1> DEFINE i == run[p].ti
           c == cfg[p]
<1>1. /\ c.topics[i] \in Topic /\ c.topics[i].name \in Texts
      /\ validateDurationRange(c.topics[i].message_retention,
                               minMessageRetention, maxMessageRetention)
      /\ ~AtTopic(p) => /\ c.topics[i].subscriptions[run[p].si] \in Subscription
                        /\ validateSubscription(c.topics[i].subscriptions[run[p].si])
  BY StandsAt, PlaceTypes, TextsAssumption DEF Sub
<1>2. CASE AtTopic(p)
  <2>1. CreateRequest(p) = toProtoTopic(buildTopic(c.topics[i]))
    BY <1>2 DEF CreateRequest, DesiredTopic, TopicAt, topics
  <2> QED
    BY <1>1, <1>2, <2>1, StandsAt, TopicWritten DEF DriftAt
<1>3. CASE ~AtTopic(p)
  <2> DEFINE n == c.topics[i].name
             s == c.topics[i].subscriptions[run[p].si]
             d == buildSubscription(n, s)
  <2>1. CreateRequest(p) = Answered(endpoint.echoes, toProtoSubscription(d))
    BY <1>3 DEF CreateRequest, DesiredSub, TopicAt, SubAt, topics
  <2>2. SubDrift(n, s, CreateRequest(p)) = {}
    <3>1. SubDrift(n, s, toProtoSubscription(d)) = {}
      BY <1>1, <1>3, SubWritten
    <3>2. d.Push = {} \/ \E y : d.Push = {y}
      BY <1>1, <1>3, OnePush
    <3> HIDE DEF d, n, s
    <3>3. SubDrift(n, s, CreateRequest(p)) \subseteq SubDrift(n, s, toProtoSubscription(d))
      BY <2>1, <3>2, AnsweredDrift
    <3> QED
      BY <3>1, <3>3
  <2>3. DriftAt(c, i, Sub(p), CreateRequest(p)) = SubDrift(n, s, CreateRequest(p))
    BY <1>3, StandsAt DEF DriftAt, Sub
  <2> QED
    BY <2>2, <2>3
<1> QED
  BY <1>2, <1>3

\* A resource as an update leaves it drifts less.
LEMMA UpdatedDrift ==
    ASSUME SectionInv, NEW p \in Provisioners, run[p].pc \in {"batch", "split"},
           Key(p) \in DOMAIN live
    PROVE  DriftAt(cfg[p], run[p].ti, Sub(p),
                   ApplyMask(live[Key(p)], UpdateRequest(p), Mask(p)))
             \subseteq DriftAt(cfg[p], run[p].ti, Sub(p), live[Key(p)]) \ Mask(p)
<1> DEFINE i == run[p].ti
           c == cfg[p]
           m == live[Key(p)]
           x == ApplyMask(m, UpdateRequest(p), Mask(p))
<1>1. Standing(p)
  BY Sender
<1>2. /\ c.topics[i] \in Topic /\ c.topics[i].name \in Texts
      /\ validateDurationRange(c.topics[i].message_retention,
                               minMessageRetention, maxMessageRetention)
      /\ ~AtTopic(p) => /\ c.topics[i].subscriptions[run[p].si] \in Subscription
                        /\ validateSubscription(c.topics[i].subscriptions[run[p].si])
  BY <1>1, StandsAt, PlaceTypes, TextsAssumption DEF Sub
<1>3. m \in (IF AtTopic(p) THEN TopicProto ELSE SubscriptionProto)
  BY <1>1, Given, StandingRequest DEF IsProject
<1>4. CASE AtTopic(p)
  <2> DEFINE r == fromProtoTopic(The(run[p].current))
  <2>1. UpdateRequest(p) = toProtoTopic(mergeTopic(r, buildTopic(c.topics[i])))
    BY <1>4 DEF UpdateRequest, DesiredTopic, TopicAt, topics
  <2> HIDE DEF r
  <2>2. TopicDrift(c.topics[i], x) \subseteq TopicDrift(c.topics[i], m) \ Mask(p)
    BY <1>2, <1>3, <1>4, <2>1, TopicMasked
  <2> QED
    BY <1>1, <1>4, <2>2, StandsAt DEF DriftAt
<1>5. CASE ~AtTopic(p)
  <2> DEFINE n == c.topics[i].name
             s == c.topics[i].subscriptions[run[p].si]
             r == fromProtoSubscription(The(run[p].current))
  <2>1. UpdateRequest(p) = Answered(endpoint.echoes,
          toProtoSubscription(mergeSubscription(r, buildSubscription(n, s))))
    BY <1>5 DEF UpdateRequest, DesiredSub, TopicAt, SubAt, topics
  <2>2. Mask(p) \in SUBSET SubscriptionPaths
    BY <1>5, MaskPaths
  <2>3. SubDrift(n, s, x) \subseteq SubDrift(n, s, m) \ Mask(p)
    <3>1. /\ n \in Texts /\ s \in Subscription /\ validateSubscription(s)
          /\ m \in SubscriptionProto
      BY <1>2, <1>3, <1>5
    <3> HIDE DEF r, n, s, m
    <3> QED
      BY <2>1, <2>2, <3>1, SubMasked
  <2> HIDE DEF r, x, m
  <2>4. /\ DriftAt(c, i, Sub(p), x) = SubDrift(n, s, x)
        /\ DriftAt(c, i, Sub(p), m) = SubDrift(n, s, m)
    BY <1>1, <1>5, StandsAt DEF DriftAt, Sub
  <2>5. DriftAt(c, i, Sub(p), x) \subseteq DriftAt(c, i, Sub(p), m) \ Mask(p)
    BY <2>3, <2>4
  <2> QED
    BY <2>5 DEF x, m
<1> QED
  BY <1>4, <1>5

\* A write changes one resource of the file, adds no drift and deletes nothing.
LEMMA WriteShrinks ==
    ASSUME SectionInv, NEW p \in Provisioners, Creates(p) \/ Modifies(p)
    PROVE  /\ Standing(p) /\ ~dryRun[p]
           /\ DOMAIN live' = DOMAIN live \cup {Key(p)}
           /\ \A k \in DOMAIN live : k # Key(p) => live'[k] = live[k]
           /\ \A i \in DOMAIN cfg[p].topics : \A j \in Slots(cfg[p], i) :
                 LET k == KeyAt(cfg[p], i, j)
                 IN  /\ k \in DOMAIN live =>
                           DriftAt(cfg[p], i, j, live'[k])
                             \subseteq DriftAt(cfg[p], i, j, live[k])
                     /\ k \notin DOMAIN live /\ k \in DOMAIN live' =>
                           DriftAt(cfg[p], i, j, live'[k]) = {}
           /\ Modifies(p) =>
                 /\ Key(p) \in DOMAIN live
                 /\ DriftAt(cfg[p], run[p].ti, Sub(p), live'[Key(p)])
                      \subseteq DriftAt(cfg[p], run[p].ti, Sub(p), live[Key(p)]) \ Mask(p)
<1>1. Standing(p) /\ ~dryRun[p]
  BY Sender DEF Creates, Modifies
<1>2. DOMAIN live' = DOMAIN live \cup {Key(p)}
  BY DEF Creates, Modifies, UpdateEffect, Put
<1>3. \A k \in DOMAIN live : k # Key(p) => live'[k] = live[k]
  BY DEF Creates, Modifies, UpdateEffect, Put
<1>4. Creates(p) => live'[Key(p)] = CreateRequest(p) /\ Key(p) \notin DOMAIN live
  BY DEF Creates, Put
<1>5. Modifies(p) =>
         /\ Key(p) \in DOMAIN live
         /\ live'[Key(p)] = ApplyMask(live[Key(p)], UpdateRequest(p), Mask(p))
  BY DEF Modifies, UpdateEffect, Put, Reply, UpdateReply
<1>6. Modifies(p) =>
         DriftAt(cfg[p], run[p].ti, Sub(p), live'[Key(p)])
           \subseteq DriftAt(cfg[p], run[p].ti, Sub(p), live[Key(p)]) \ Mask(p)
  BY <1>5, UpdatedDrift DEF Modifies
<1>7. Creates(p) => DriftAt(cfg[p], run[p].ti, Sub(p), live'[Key(p)]) = {}
  BY <1>1, <1>4, CreatedDrift
<1>8. ASSUME NEW i \in DOMAIN cfg[p].topics, NEW j \in Slots(cfg[p], i)
      PROVE  LET k == KeyAt(cfg[p], i, j)
             IN  /\ k \in DOMAIN live =>
                       DriftAt(cfg[p], i, j, live'[k])
                         \subseteq DriftAt(cfg[p], i, j, live[k])
                 /\ k \notin DOMAIN live /\ k \in DOMAIN live' =>
                       DriftAt(cfg[p], i, j, live'[k]) = {}
  <2>1. CASE KeyAt(cfg[p], i, j) = Key(p)
    <3>1. i = run[p].ti /\ j = Sub(p)
      BY <1>1, <2>1, StandsAt, KeyIsUnique
    <3> QED
      BY <1>4, <1>5, <1>6, <1>7, <2>1, <3>1
  <2>2. CASE KeyAt(cfg[p], i, j) # Key(p)
    BY <1>2, <1>3, <2>2
  <2> QED
    BY <2>1, <2>2
<1> QED
  BY <1>1, <1>2, <1>3, <1>5, <1>6, <1>8

-----------------------------------------------------------------------------
(* The kinds of step a run p takes, r being its record afterwards. *)

StepOf(p) == ProvisionPubSub(p) \/ Rerun(p) \/ Interrupt(p) \/ LostReply(p)

\* What drifts where p stands, given that its strategy is update.
Open(p, m) ==
    IF Strategy(p) = "update" THEN DriftAt(cfg[p], run[p].ti, Sub(p), m) ELSE {}

\* New warnings are about the resource p stands at, and precise.
WarnsMore(p, r) ==
    /\ run[p].warned \subseteq r.warned
    /\ \A w \in r.warned \ run[p].warned :
          w[1] = Key(p) /\ w[2] \in ImmutablePaths \cup Refused(p)

\* The call for Mask(p) was answered: the paths are stored or reported.
Dealt(p, r) ==
    Modifies(p) \/ (live' = live /\ {Key(p)} \X Mask(p) \subseteq r.warned)

Enters(p, r) ==
    /\ run[p].pc \notin Running
    /\ r = Fresh("loop", IF settled THEN {"repeat"} ELSE {})
    /\ UNCHANGED <<live, settled>>

\* p is done with the resource it stands at.
Leaves(p, r) ==
    /\ run[p].pc \in Running /\ Standing(p) /\ settled' = settled
    /\ r.pc = "loop" /\ r.pass = run[p].pass /\ r.history = run[p].history
    /\ r.ti = (IF AtTopic(p) THEN run[p].ti + 1 ELSE run[p].ti)
    /\ r.si = (IF AtTopic(p) THEN run[p].si ELSE run[p].si + 1)
    /\ WarnsMore(p, r)
    /\ ~dryRun[p] =>
          /\ "deleted" \notin run[p].history => Key(p) \in DOMAIN live'
          /\ run[p].pc = "loop" =>
                live' = live /\ {Key(p)} \X Open(p, live[Key(p)]) \subseteq r.warned
          /\ run[p].pc = "create" =>
                Creates(p) \/ (live' = live /\ Key(p) \in DOMAIN live)
          /\ run[p].pc \in {"batch", "split"} =>
                Dealt(p, r) /\ Paths(run[p].todo) \subseteq Mask(p)

\* p has something to send, or something left to send, for that resource.
Stays(p, r) ==
    /\ run[p].pc \in Running /\ Standing(p) /\ ~dryRun[p] /\ settled' = settled
    /\ r.pc \in {"create", "batch", "split"}
    /\ r.pass = run[p].pass /\ r.ti = run[p].ti /\ r.si = run[p].si
    /\ r.history = run[p].history
    /\ WarnsMore(p, r)
    /\ r.pc = "create" =>
          run[p].pc = "loop" /\ live' = live /\ Key(p) \notin DOMAIN live
    /\ r.pc # "create" =>
          \/ /\ run[p].pc = "loop" /\ live' = live /\ Key(p) \in DOMAIN live
             /\ Strategy(p) = "update"
             /\ {Key(p)} \X Open(p, live[Key(p)])
                   \subseteq r.warned \cup ({Key(p)} \X Paths(r.todo))
             /\ \A f \in Paths(r.todo) : f \in Open(p, live[Key(p)]) /\ MayUpdate(p, f)
             /\ Paths(r.todo) \cap ImmutablePaths = {}
          \/ /\ run[p].pc \in {"batch", "split"}
             /\ Paths(r.todo) \subseteq Paths(run[p].todo)
             /\ \/ live' = live /\ Paths(run[p].todo) \subseteq Paths(r.todo)
                \/ Dealt(p, r) /\ Paths(run[p].todo) \subseteq Paths(r.todo) \cup Mask(p)

Fails(p, r) ==
    /\ run[p].pc \in Running /\ settled' = settled
    /\ r.pc = "failed" /\ r.warned = run[p].warned
    /\ run[p].history \subseteq r.history
    /\ r.history \cap {"interrupted", "deleted"} # {}

\* One of the loops ends.
Turns(p, r) ==
    /\ run[p].pc = "loop" /\ live' = live
    /\ r.warned = run[p].warned /\ r.history = run[p].history /\ r.pass = "subs"
    /\ \/ /\ AtTopic(p) /\ run[p].ti > Len(topics(p))
          /\ r.pc = "loop" /\ r.ti = 1 /\ r.si = 1 /\ settled' = settled
       \/ /\ ~AtTopic(p) /\ run[p].ti <= Len(topics(p))
          /\ run[p].si > Len(TopicAt(p).subscriptions)
          /\ r.pc = "loop" /\ r.ti = run[p].ti + 1 /\ r.si = 1 /\ settled' = settled
       \/ /\ ~AtTopic(p) /\ run[p].ti > Len(topics(p))
          /\ r.pc = "ok" /\ r.ti = run[p].ti /\ r.si = run[p].si
          /\ settled' = (settled \/ (~dryRun[p] /\ run[p].history \subseteq {"repeat"}))

KindOfStep(p, r) ==
    /\ Become(p, r) /\ UNCHANGED <<inputs, edits>>
    /\ live' = live \/ Creates(p) \/ Modifies(p)
    /\ Enters(p, r) \/ Leaves(p, r) \/ Stays(p, r) \/ Fails(p, r) \/ Turns(p, r)

\* The record of a run that goes on to the next resource.
LEMMA AdvanceFields ==
    ASSUME NEW q \in RunState, NEW w \in RunState, w = [q EXCEPT !.warned = w.warned]
    PROVE  LET r == Advance(w)
           IN  /\ r.pc = "loop" /\ r.pass = q.pass /\ r.history = q.history
               /\ r.ti = (IF q.pass = "topics" THEN q.ti + 1 ELSE q.ti)
               /\ r.si = (IF q.pass = "topics" THEN q.si ELSE q.si + 1)
               /\ r.warned = w.warned
<1>1. w.pass = q.pass /\ w.ti = q.ti /\ w.si = q.si /\ w.history = q.history
  BY DEF RunState
<1>2. q.pass = "subs" <=> q.pass # "topics"
  BY DEF RunState
<1> QED
  BY <1>1, <1>2 DEF Advance, RunState

\* A run that has nothing to add to its warnings.
LEMMA SameRecord ==
    ASSUME SectionInv, NEW p \in Provisioners
    PROVE  /\ run[p] \in RunState /\ run[p] = [run[p] EXCEPT !.warned = run[p].warned]
           /\ WarnsMore(p, run[p])
BY Given DEF RunState, WarnsMore

\* Warning about the resource a run stands at.
LEMMA WarnFields ==
    ASSUME SectionInv, NEW p \in Provisioners, Standing(p),
           NEW F \in SUBSET (TopicPaths \cup SubscriptionPaths \cup ImmutablePaths),
           F \subseteq ImmutablePaths \cup Refused(p)
    PROVE  LET w == Warn(run[p], Key(p), F)
           IN  /\ w \in RunState /\ w = [run[p] EXCEPT !.warned = w.warned]
               /\ WarnsMore(p, w)
               /\ {Key(p)} \X F \subseteq w.warned
<1> DEFINE w == Warn(run[p], Key(p), F)
<1>1. Key(p) \in TopicKeys \cup SubKeys
  BY Given, StandingRequest
<1>2. w \in RunState /\ w = [run[p] EXCEPT !.warned = w.warned]
  BY <1>1, Given, WarnType
<1>3. w.warned = run[p].warned \cup ({Key(p)} \X F)
  BY Given DEF Warn, RunState
<1> HIDE DEF w
<1>4. WarnsMore(p, w)
  BY <1>3 DEF WarnsMore
<1>5. {Key(p)} \X F \subseteq w.warned
  BY <1>3
<1>6. w \in RunState /\ w = [run[p] EXCEPT !.warned = w.warned] /\ WarnsMore(p, w)
  BY <1>2, <1>4
<1> QED
  BY <1>5, <1>6 DEF w

\* Starting is entering.
LEMMA EnterKind ==
    ASSUME SectionInv, NEW p \in Provisioners, Start(p) \/ Rerun(p)
    PROVE  \E r \in RunState : KindOfStep(p, r)
<1> DEFINE r == Fresh("loop", IF settled THEN {"repeat"} ELSE {})
<1>1. r \in RunState
  BY FreshType DEF Events
<1>2. /\ Become(p, r) /\ UNCHANGED <<inputs, edits, live, settled>>
      /\ run[p].pc \notin Running
  BY DEF Start, Rerun, Begin, bounds, Running
<1>3. Enters(p, r)
  BY <1>2 DEF Enters
<1> HIDE DEF r
<1> QED
  BY <1>1, <1>2, <1>3 DEF KindOfStep

\* A run that leaves its resource as it is.
LEMMA LeaveKind ==
    ASSUME SectionInv, NEW p \in Provisioners, run[p].pc = "loop", Standing(p),
           NEW w \in RunState, w = [run[p] EXCEPT !.warned = w.warned],
           WarnsMore(p, w), Become(p, Advance(w)),
           UNCHANGED <<live, inputs, settled, bounds>>,
           ~dryRun[p] => /\ Key(p) \in DOMAIN live
                         /\ {Key(p)} \X Open(p, live[Key(p)]) \subseteq w.warned
    PROVE  \E r \in RunState : KindOfStep(p, r)
<1> DEFINE r == Advance(w)
<1>1. /\ r \in RunState
      /\ r.pc = "loop" /\ r.pass = run[p].pass /\ r.history = run[p].history
      /\ r.ti = (IF AtTopic(p) THEN run[p].ti + 1 ELSE run[p].ti)
      /\ r.si = (IF AtTopic(p) THEN run[p].si ELSE run[p].si + 1)
      /\ r.warned = w.warned
  BY Given, GoOnTypes, AdvanceFields DEF AtTopic
<1> HIDE DEF r
<1>2. WarnsMore(p, r)
  BY <1>1 DEF WarnsMore
<1>3. Leaves(p, r)
  BY <1>1, <1>2 DEF Leaves, Running
<1> QED
  BY <1>1, <1>3 DEF KindOfStep, bounds, r

\* A run that goes on to create.
LEMMA CreatingKind ==
    ASSUME SectionInv, NEW p \in Provisioners, run[p].pc = "loop", Standing(p),
           ~dryRun[p], Key(p) \notin DOMAIN live, Become(p, Creating(run[p])),
           UNCHANGED <<live, inputs, settled, bounds>>
    PROVE  \E r \in RunState : KindOfStep(p, r)
<1> DEFINE r == Creating(run[p])
<1>1. r \in RunState
  BY Given, GoOnTypes
<1>2. /\ r.pc = "create" /\ r.pass = run[p].pass
      /\ r.ti = run[p].ti /\ r.si = run[p].si /\ r.history = run[p].history
      /\ r.warned = run[p].warned
  BY Given DEF Creating, RunState
<1> HIDE DEF r
<1>3. Stays(p, r)
  BY <1>2 DEF Stays, WarnsMore, Running
<1> QED
  BY <1>1, <1>3 DEF KindOfStep, bounds, r

\* A run that goes on to update.
LEMMA UpdatingKind ==
    ASSUME SectionInv, NEW p \in Provisioners, run[p].pc = "loop", Standing(p),
           ~dryRun[p], Key(p) \in DOMAIN live, Strategy(p) = "update",
           NEW w \in RunState, w = [run[p] EXCEPT !.warned = w.warned], WarnsMore(p, w),
           NEW mask \in Seq(IF AtTopic(p) THEN TopicPaths ELSE SubscriptionPaths),
           \A f \in Open(p, live[Key(p)]) : f \in Paths(mask) \/ <<Key(p), f>> \in w.warned,
           \A f \in Paths(mask) : f \in Open(p, live[Key(p)]) /\ MayUpdate(p, f),
           Become(p, Updating(w, live[Key(p)], mask)),
           UNCHANGED <<live, inputs, settled, bounds>>
    PROVE  \E r \in RunState : KindOfStep(p, r)
<1> DEFINE r == Updating(w, live[Key(p)], mask)
<1>1. live[Key(p)] \in (IF AtTopic(p) THEN TopicProto ELSE SubscriptionProto)
  BY Given, StandingRequest DEF IsProject
<1>2. mask \in Seq(TopicPaths \cup SubscriptionPaths)
  OBVIOUS
<1>3. r \in RunState
  BY <1>1, <1>2 DEF Updating, RunState, Running
<1>4. /\ r.pc = "batch" /\ r.todo = mask /\ r.warned = w.warned
      /\ r.pass = run[p].pass /\ r.ti = run[p].ti /\ r.si = run[p].si
      /\ r.history = run[p].history
  BY Given DEF Updating, RunState
<1>5. Paths(mask) \cap ImmutablePaths = {}
  BY DEF Paths, TopicPaths, SubscriptionPaths, ImmutablePaths
<1> HIDE DEF r
<1>6. WarnsMore(p, r)
  BY <1>4 DEF WarnsMore
<1>7. {Key(p)} \X Open(p, live[Key(p)]) \subseteq r.warned \cup ({Key(p)} \X Paths(r.todo))
  BY <1>4
<1>8. Stays(p, r)
  BY <1>4, <1>5, <1>6, <1>7 DEF Stays, Running
<1> QED
  BY <1>3, <1>8 DEF KindOfStep, bounds, r

\* A strategy that is not create is update.
LEMMA NotCreate ==
    ASSUME SectionInv, NEW p \in Provisioners, Standing(p)
    PROVE  Strategy(p) \in {"create", "update"}
BY StandsAt, PlaceTypes

\* ensureTopic leaves the topic, or goes on to create or to update it.
LEMMA EnsureTopicKind ==
    ASSUME SectionInv, NEW p \in Provisioners, ensureTopic(p)
    PROVE  \E r \in RunState : KindOfStep(p, r)
<1>1. /\ run[p].pc = "loop" /\ AtTopic(p)
      /\ UNCHANGED <<live, inputs, settled, bounds>>
  BY DEF ensureTopic
<1>2. Standing(p)
  BY StandsAtGet DEF ensureTopic
<1>3. /\ run[p] \in RunState /\ run[p] = [run[p] EXCEPT !.warned = run[p].warned]
      /\ WarnsMore(p, run[p])
  BY SameRecord
<1>4. CASE Key(p) \notin DOMAIN live
  <2>1. CASE dryRun[p]
    BY <1>1, <1>2, <1>3, <1>4, <2>1, LeaveKind DEF ensureTopic
  <2>2. CASE ~dryRun[p]
    BY <1>1, <1>2, <1>4, <2>2, CreatingKind DEF ensureTopic
  <2> QED
    BY <2>1, <2>2
<1>5. CASE Key(p) \in DOMAIN live
  <2> DEFINE diff == diffTopic(fromProtoTopic(live[Key(p)]), DesiredTopic(p))
             mask == IF Strategy(p) = "create" THEN <<>> ELSE diff
  <2>1. mask \in Seq(TopicPaths)
    BY DiffTopicType
  <2>2. Become(p, IF mask = <<>> \/ dryRun[p] THEN Advance(run[p])
                  ELSE Updating(run[p], live[Key(p)], mask))
    BY <1>5 DEF ensureTopic
  <2>3. Open(p, live[Key(p)]) = IF Strategy(p) = "update" THEN Paths(diff) ELSE {}
    BY <1>1, <1>2, DriftHere DEF Open
  <2>4. mask = <<>> => Paths(mask) = {}
    BY DEF Paths
  <2>5. Open(p, live[Key(p)]) = Paths(mask)
    <3>1. Paths(<<>>) = {}
      BY DEF Paths
    <3> HIDE DEF diff
    <3> QED
      BY <1>2, <2>3, <3>1, NotCreate
  <2>6. CASE mask = <<>> \/ dryRun[p]
    <3>1. ~dryRun[p] => {Key(p)} \X Open(p, live[Key(p)]) \subseteq run[p].warned
      BY <2>4, <2>5, <2>6
    <3> HIDE DEF mask
    <3> QED
      BY <1>1, <1>2, <1>3, <1>5, <2>2, <2>6, <3>1, LeaveKind
  <2>7. CASE ~(mask = <<>> \/ dryRun[p])
    <3>1. Strategy(p) = "update" /\ mask = diff
      BY <1>2, <2>7, NotCreate
    <3>2. TopicAt(p) \in Topic
      BY <1>2, Given, StandingTypes
    <3>3. \A f \in Paths(diff) : TopicDeclares(TopicAt(p))[f]
      BY <3>2, TopicMaskDeclared DEF DesiredTopic
    <3> HIDE DEF diff, mask
    <3>4. \A f \in Paths(mask) : MayUpdate(p, f)
      BY <1>1, <2>7, <3>1, <3>3 DEF MayUpdate
    <3> QED
      BY <1>1, <1>2, <1>3, <1>5, <2>1, <2>2, <2>5, <2>7, <3>1, <3>4, UpdatingKind
  <2> QED
    BY <2>6, <2>7
<1> QED
  BY <1>4, <1>5

\* ensureSubscription does so for a subscription, after reporting.
LEMMA EnsureSubscriptionKind ==
    ASSUME SectionInv, NEW p \in Provisioners, ensureSubscription(p)
    PROVE  \E r \in RunState : KindOfStep(p, r)
<1>1. /\ run[p].pc = "loop" /\ ~AtTopic(p)
      /\ UNCHANGED <<live, inputs, settled, bounds>>
  BY DEF ensureSubscription
<1>2. Standing(p)
  BY StandsAtGet DEF ensureSubscription
<1>3. /\ run[p] \in RunState /\ run[p] = [run[p] EXCEPT !.warned = run[p].warned]
      /\ WarnsMore(p, run[p])
  BY SameRecord
<1>4. CASE Key(p) \notin DOMAIN live
  <2>1. CASE dryRun[p]
    BY <1>1, <1>2, <1>3, <1>4, <2>1, LeaveKind DEF ensureSubscription
  <2>2. CASE ~dryRun[p]
    BY <1>1, <1>2, <1>4, <2>2, CreatingKind DEF ensureSubscription
  <2> QED
    BY <2>1, <2>2
<1>5. CASE Key(p) \in DOMAIN live /\ Strategy(p) = "create"
  <2>1. Become(p, Advance(run[p]))
    BY <1>5 DEF ensureSubscription
  <2>2. {Key(p)} \X Open(p, live[Key(p)]) \subseteq run[p].warned
    BY <1>5 DEF Open
  <2> QED
    BY <1>1, <1>2, <1>3, <1>5, <2>1, <2>2, LeaveKind
<1>6. CASE Key(p) \in DOMAIN live /\ Strategy(p) # "create"
  <2> DEFINE current == fromProtoSubscription(live[Key(p)])
             drift   == immutableDrift(current, DesiredSub(p))
             w       == Warn(run[p], Key(p), drift)
             mask    == diffSubscription(current, DesiredSub(p))
  <2>1. mask \in Seq(SubscriptionPaths)
    BY DiffSubscriptionType
  <2>2. drift \subseteq ImmutablePaths
    BY DEF immutableDrift
  <2>3. Open(p, live[Key(p)]) = Paths(mask) \cup drift /\ Strategy(p) = "update"
    BY <1>1, <1>2, <1>6, DriftHere, NotCreate DEF Open
  <2>4. SubAt(p) \in Subscription
    BY <1>1, <1>2, Given, StandingTypes
  <2>5. \A f \in Paths(mask) : SubscriptionDeclares(SubAt(p))[f]
    BY <2>4, SubMaskDeclared DEF DesiredSub
  <2>6. Become(p, IF mask = <<>> \/ dryRun[p] THEN Advance(w)
                  ELSE Updating(w, live[Key(p)], mask))
    BY <1>6 DEF ensureSubscription
  <2> HIDE DEF drift, mask
  <2>7. /\ w \in RunState /\ w = [run[p] EXCEPT !.warned = w.warned]
        /\ WarnsMore(p, w)
        /\ {Key(p)} \X drift \subseteq w.warned
    BY <1>2, <2>2, WarnFields
  <2> HIDE DEF w
  <2>8. CASE mask = <<>> \/ dryRun[p]
    <3>1. mask = <<>> => Paths(mask) = {}
      BY DEF Paths
    <3>2. ~dryRun[p] => {Key(p)} \X Open(p, live[Key(p)]) \subseteq w.warned
      BY <2>3, <2>7, <2>8, <3>1
    <3> QED
      BY <1>1, <1>2, <1>6, <2>6, <2>7, <2>8, <3>2, LeaveKind
  <2>9. CASE ~(mask = <<>> \/ dryRun[p])
    <3>1. \A f \in Paths(mask) : MayUpdate(p, f)
      BY <1>1, <2>3, <2>5, <2>9 DEF MayUpdate
    <3>2. \A f \in Open(p, live[Key(p)]) : f \in Paths(mask) \/ <<Key(p), f>> \in w.warned
      BY <2>3, <2>7
    <3>3. \A f \in Paths(mask) : f \in Open(p, live[Key(p)])
      BY <2>3
    <3> QED
      BY <1>1, <1>2, <1>6, <2>1, <2>3, <2>6, <2>7, <2>9, <3>1, <3>2, <3>3, UpdatingKind
  <2> QED
    BY <2>8, <2>9
<1> QED
  BY <1>4, <1>5, <1>6

\* A call that ends in an error, or an interrupt, fails the run.
LEMMA FailKind ==
    ASSUME SectionInv, NEW p \in Provisioners, run[p].pc \in Running,
           NEW r \in RunState, r.pc = "failed", r.warned = run[p].warned,
           run[p].history \subseteq r.history,
           r.history \cap {"interrupted", "deleted"} # {},
           Become(p, r), UNCHANGED <<inputs, settled, edits>>,
           live' = live \/ Creates(p) \/ Modifies(p)
    PROVE  KindOfStep(p, r)
BY DEF KindOfStep, Fails

\* create leaves the resource, or fails.
LEMMA CreateKind ==
    ASSUME SectionInv, NEW p \in Provisioners, create(p)
    PROVE  \E r \in RunState : KindOfStep(p, r)
<1>1. run[p].pc = "create" /\ UNCHANGED <<inputs, settled, bounds>>
  BY DEF create
<1>2. Standing(p) /\ run[p] \in RunState
  BY <1>1, Sender, Given
<1>3. CASE CreateCall(p) \in {"ok", "exists"}
  <2> DEFINE r == Advance(run[p])
  <2>1. /\ r \in RunState
        /\ r.pc = "loop" /\ r.pass = run[p].pass /\ r.history = run[p].history
        /\ r.ti = (IF AtTopic(p) THEN run[p].ti + 1 ELSE run[p].ti)
        /\ r.si = (IF AtTopic(p) THEN run[p].si ELSE run[p].si + 1)
        /\ r.warned = run[p].warned
    BY <1>2, SameRecord, GoOnTypes, AdvanceFields DEF AtTopic
  <2>2. Become(p, r)
    BY <1>3 DEF create
  <2> HIDE DEF r
  <2>3. Creates(p) \/ (live' = live /\ Key(p) \in DOMAIN live)
    BY <1>1, <1>3 DEF create, CreateCall, CreateReply, Creates
  <2>4. Key(p) \in DOMAIN live'
    BY <2>3 DEF Creates, Put
  <2>5. Leaves(p, r)
    BY <1>1, <1>2, <2>1, <2>3, <2>4 DEF Leaves, WarnsMore, Running
  <2> QED
    BY <1>1, <2>1, <2>2, <2>3, <2>5 DEF KindOfStep, bounds
<1>4. CASE CreateCall(p) = "error"
  <2>1. live' = live /\ Become(p, Fail(run[p]))
    BY <1>4 DEF create
  <2>2. /\ Fail(run[p]) \in RunState /\ Fail(run[p]).pc = "failed"
        /\ Fail(run[p]).history = run[p].history
    BY <1>2, FailFields
  <2>3. Fail(run[p]).warned = run[p].warned
    BY <1>2 DEF Fail, RunState
  <2>4. "deleted" \in run[p].history
    <3>1. Key(p) \in SubKeys /\ ~(NamedTopics(CreateRequest(p)) \subseteq DOMAIN live)
      BY <1>4 DEF CreateCall, CreateReply
    <3>2. ~AtTopic(p)
      BY <1>2, <3>1, Given, StandingRequest, KeysDiffer
    <3> QED
      BY <1>1, <3>1, <3>2, NamedTopicsExist
  <2>5. KindOfStep(p, Fail(run[p]))
    BY <1>1, <2>1, <2>2, <2>3, <2>4, FailKind DEF Running, bounds
  <2> QED
    BY <2>2, <2>5
<1> QED
  BY <1>3, <1>4 DEF create

\* The mask of a run that updates, its paths, and what a refusal says of it.
LEMMA MaskIs ==
    ASSUME SectionInv, NEW p \in Provisioners, run[p].pc \in {"batch", "split"}
    PROVE  /\ run[p].todo \in Seq(TopicPaths \cup SubscriptionPaths) /\ run[p].todo # <<>>
           /\ Mask(p) \in SUBSET (TopicPaths \cup SubscriptionPaths \cup ImmutablePaths)
           /\ Mask(p) \subseteq Paths(run[p].todo)
           /\ run[p].pc = "batch" => Mask(p) = Paths(run[p].todo)
           /\ run[p].pc = "split" => Mask(p) = {Head(run[p].todo)}
           /\ Len(run[p].todo) = 1 => Mask(p) = {Head(run[p].todo)}
           /\ Reply(p) = "unsupported" /\ Mask(p) = {Head(run[p].todo)}
                => Mask(p) \subseteq Refused(p)
           /\ Reply(p) \in {"ok", "error", "unsupported"}
<1>1. run[p].todo \in Seq(TopicPaths \cup SubscriptionPaths) /\ run[p].todo # <<>>
  BY Given DEF RunInv, Pending, RunState
<1>2. /\ Head(run[p].todo) \in Paths(run[p].todo)
      /\ Len(run[p].todo) = 1 => Paths(run[p].todo) = {Head(run[p].todo)}
  BY <1>1, PathsOfTail
<1>3. /\ run[p].pc = "batch" => Mask(p) = Paths(run[p].todo)
      /\ run[p].pc = "split" => Mask(p) = {Head(run[p].todo)}
  BY DEF Mask, Paths
<1>4. Mask(p) \in SUBSET (TopicPaths \cup SubscriptionPaths \cup ImmutablePaths)
  BY MaskPaths
<1>5. Reply(p) = "unsupported" => Mask(p) \cap Refused(p) # {}
  BY DEF Reply, UpdateReply
<1>6. Reply(p) \in {"ok", "error", "unsupported"}
  BY DEF Reply, UpdateReply
<1> QED
  BY <1>1, <1>2, <1>3, <1>4, <1>5, <1>6

\* A run that is done with its update.
LEMMA UpdatedKind ==
    ASSUME SectionInv, NEW p \in Provisioners, run[p].pc \in {"batch", "split"},
           NEW w \in RunState, w = [run[p] EXCEPT !.warned = w.warned], WarnsMore(p, w),
           Become(p, Advance(w)), UNCHANGED <<inputs, settled, bounds>>,
           Dealt(p, w), Paths(run[p].todo) \subseteq Mask(p)
    PROVE  \E r \in RunState : KindOfStep(p, r)
<1> DEFINE r == Advance(w)
<1>1. /\ r \in RunState
      /\ r.pc = "loop" /\ r.pass = run[p].pass /\ r.history = run[p].history
      /\ r.ti = (IF AtTopic(p) THEN run[p].ti + 1 ELSE run[p].ti)
      /\ r.si = (IF AtTopic(p) THEN run[p].si ELSE run[p].si + 1)
      /\ r.warned = w.warned
  BY Given, GoOnTypes, AdvanceFields DEF AtTopic
<1> HIDE DEF r
<1>2. WarnsMore(p, r) /\ Dealt(p, r)
  BY <1>1 DEF WarnsMore, Dealt
<1>3. "deleted" \notin run[p].history => Key(p) \in DOMAIN live'
  <2>1. "deleted" \notin run[p].history => Key(p) \in DOMAIN live
    BY Given DEF RunInv, Pending
  <2>2. Modifies(p) => Key(p) \in DOMAIN live'
    BY WriteShrinks
  <2> QED
    BY <2>1, <2>2 DEF Dealt
<1>4. Standing(p)
  BY Sender
<1>5. Leaves(p, r)
  BY <1>1, <1>2, <1>3, <1>4 DEF Leaves, Running
<1> QED
  BY <1>1, <1>2, <1>5 DEF KindOfStep, bounds, Dealt, r

\* A run that goes on with single paths.
LEMMA PathsLeftKind ==
    ASSUME SectionInv, NEW p \in Provisioners, run[p].pc \in {"batch", "split"},
           NEW r \in RunState, r.pc = "split",
           r.pass = run[p].pass, r.ti = run[p].ti, r.si = run[p].si,
           r.history = run[p].history, WarnsMore(p, r),
           Paths(r.todo) \subseteq Paths(run[p].todo),
           \/ live' = live /\ Paths(run[p].todo) \subseteq Paths(r.todo)
           \/ Dealt(p, r) /\ Paths(run[p].todo) \subseteq Paths(r.todo) \cup Mask(p),
           Become(p, r), UNCHANGED <<inputs, settled, bounds>>
    PROVE  KindOfStep(p, r)
<1>1. Standing(p) /\ ~dryRun[p]
  BY Sender
<1>2. Stays(p, r)
  BY <1>1 DEF Stays, Running
<1> QED
  BY <1>2 DEF KindOfStep, bounds, Dealt

\* An update that is answered with an error fails the run.
LEMMA UpdateErrorKind ==
    ASSUME SectionInv, NEW p \in Provisioners, run[p].pc \in {"batch", "split"},
           Reply(p) = "error", Become(p, Fail(run[p])),
           UNCHANGED <<live, inputs, settled, bounds>>
    PROVE  \E r \in RunState : KindOfStep(p, r)
<1>1. "deleted" \in run[p].history
  BY UpdateErrorMeansDeleted
<1>2. /\ Fail(run[p]) \in RunState /\ Fail(run[p]).pc = "failed"
      /\ Fail(run[p]).history = run[p].history
  BY Given, FailFields
<1>3. Fail(run[p]).warned = run[p].warned
  BY Given DEF Fail, RunState
<1>4. KindOfStep(p, Fail(run[p]))
  BY <1>1, <1>2, <1>3, FailKind DEF Running, bounds
<1> QED
  BY <1>2, <1>4

\* Reporting the refused path is precise when it was sent alone.
LEMMA ReportKind ==
    ASSUME SectionInv, NEW p \in Provisioners, run[p].pc \in {"batch", "split"},
           Reply(p) = "unsupported", Mask(p) = {Head(run[p].todo)}, live' = live
    PROVE  LET w == Warn(run[p], Key(p), Mask(p))
           IN  /\ w \in RunState /\ w = [run[p] EXCEPT !.warned = w.warned]
               /\ WarnsMore(p, w) /\ Dealt(p, w)
<1> DEFINE w == Warn(run[p], Key(p), Mask(p))
<1>1. /\ Mask(p) \in SUBSET (TopicPaths \cup SubscriptionPaths \cup ImmutablePaths)
      /\ Mask(p) \subseteq Refused(p) /\ Standing(p)
  BY MaskIs, Sender
<1>2. /\ w \in RunState /\ w = [run[p] EXCEPT !.warned = w.warned] /\ WarnsMore(p, w)
      /\ {Key(p)} \X Mask(p) \subseteq w.warned
  BY <1>1, WarnFields
<1> HIDE DEF w
<1>3. /\ w \in RunState /\ w = [run[p] EXCEPT !.warned = w.warned]
      /\ WarnsMore(p, w) /\ Dealt(p, w)
  BY <1>2 DEF Dealt
<1> QED
  BY <1>3 DEF w

\* The first call of applyPaths.
LEMMA ApplyBatchKind ==
    ASSUME SectionInv, NEW p \in Provisioners, applyBatch(p)
    PROVE  \E r \in RunState : KindOfStep(p, r)
<1>1. run[p].pc = "batch" /\ UNCHANGED <<inputs, settled, bounds>>
  BY DEF applyBatch
<1>2. /\ run[p] \in RunState /\ run[p] = [run[p] EXCEPT !.warned = run[p].warned]
      /\ WarnsMore(p, run[p])
  BY SameRecord
<1>3. Mask(p) = Paths(run[p].todo)
  BY <1>1, MaskIs
<1>4. CASE Reply(p) = "ok"
  <2>1. Modifies(p) /\ Become(p, Advance(run[p]))
    BY <1>1, <1>4 DEF applyBatch, Modifies
  <2> QED
    BY <1>1, <1>2, <1>3, <2>1, UpdatedKind DEF Dealt
<1>5. CASE Reply(p) = "error"
  BY <1>1, <1>5, UpdateErrorKind DEF applyBatch
<1>6. CASE Reply(p) = "unsupported"
  <2>1. CASE Len(run[p].todo) = 1
    <3> DEFINE w == Warn(run[p], Key(p), Mask(p))
    <3>1. Become(p, Advance(w)) /\ live' = live
      BY <1>6, <2>1 DEF applyBatch
    <3>2. /\ w \in RunState /\ w = [run[p] EXCEPT !.warned = w.warned]
          /\ WarnsMore(p, w) /\ Dealt(p, w)
      BY <1>1, <1>6, <2>1, <3>1, MaskIs, ReportKind
    <3> HIDE DEF w
    <3> QED
      BY <1>1, <1>3, <3>1, <3>2, UpdatedKind
  <2>2. CASE Len(run[p].todo) # 1
    <3> DEFINE w == [run[p] EXCEPT !.pc = "split"]
    <3>1. Become(p, w) /\ live' = live
      BY <1>6, <2>2 DEF applyBatch
    <3>2. /\ w \in RunState /\ w.pc = "split"
          /\ w.pass = run[p].pass /\ w.ti = run[p].ti /\ w.si = run[p].si
          /\ w.history = run[p].history /\ w.todo = run[p].todo
          /\ w.warned = run[p].warned
      BY <1>2 DEF RunState, Running
    <3> HIDE DEF w
    <3>3. WarnsMore(p, w)
      BY <1>2, <3>2 DEF WarnsMore
    <3>4. KindOfStep(p, w)
      BY <1>1, <3>1, <3>2, <3>3, PathsLeftKind
    <3> QED
      BY <3>2, <3>4
  <2> QED
    BY <2>1, <2>2
<1> QED
  BY <1>4, <1>5, <1>6 DEF applyBatch

\* The next path, or the next resource.
LEMMA NextPathKind ==
    ASSUME SectionInv, NEW p \in Provisioners, run[p].pc = "split",
           NEW w \in RunState, w = [run[p] EXCEPT !.warned = w.warned], WarnsMore(p, w),
           Become(p, NextPath(w)), UNCHANGED <<inputs, settled, bounds>>, Dealt(p, w)
    PROVE  \E r \in RunState : KindOfStep(p, r)
<1>1. /\ w.pc = "split" /\ w.pass = run[p].pass /\ w.ti = run[p].ti
      /\ w.si = run[p].si /\ w.history = run[p].history /\ w.todo = run[p].todo
  BY Given DEF RunState
<1>2. /\ run[p].todo \in Seq(TopicPaths \cup SubscriptionPaths) /\ run[p].todo # <<>>
      /\ Mask(p) = {Head(run[p].todo)}
  BY MaskIs
<1>3. CASE Len(w.todo) = 1
  <2>1. Paths(run[p].todo) \subseteq Mask(p)
    BY <1>1, <1>2, <1>3, PathsOfTail
  <2>2. Become(p, Advance(w))
    BY <1>3 DEF NextPath
  <2> QED
    BY <2>1, <2>2, UpdatedKind
<1>4. CASE Len(w.todo) # 1
  <2> DEFINE x == [w EXCEPT !.todo = Tail(w.todo)]
  <2>1. Tail(w.todo) \in Seq(TopicPaths \cup SubscriptionPaths)
    BY <1>1, <1>2, <1>4, TailType
  <2>2. /\ x \in RunState /\ x.pc = "split"
        /\ x.pass = run[p].pass /\ x.ti = run[p].ti /\ x.si = run[p].si
        /\ x.history = run[p].history /\ x.todo = Tail(w.todo) /\ x.warned = w.warned
    BY <1>1, <2>1 DEF RunState
  <2>3. Become(p, x)
    BY <1>4 DEF NextPath
  <2> HIDE DEF x
  <2>4. WarnsMore(p, x) /\ Dealt(p, x)
    BY <2>2 DEF WarnsMore, Dealt
  <2>5. /\ Paths(x.todo) \subseteq Paths(run[p].todo)
        /\ Paths(run[p].todo) \subseteq Paths(x.todo) \cup Mask(p)
    BY <1>1, <1>2, <2>2, PathsOfTail
  <2>6. KindOfStep(p, x)
    BY <2>2, <2>3, <2>4, <2>5, PathsLeftKind
  <2> QED
    BY <2>2, <2>6
<1> QED
  BY <1>3, <1>4

\* The calls for single paths.
LEMMA ApplyPathKind ==
    ASSUME SectionInv, NEW p \in Provisioners, applyPath(p)
    PROVE  \E r \in RunState : KindOfStep(p, r)
<1>1. run[p].pc = "split" /\ UNCHANGED <<inputs, settled, bounds>>
  BY DEF applyPath
<1>2. /\ run[p] \in RunState /\ run[p] = [run[p] EXCEPT !.warned = run[p].warned]
      /\ WarnsMore(p, run[p])
  BY SameRecord
<1>3. CASE Reply(p) = "ok"
  <2>1. Modifies(p) /\ Become(p, NextPath(run[p]))
    BY <1>1, <1>3 DEF applyPath, Modifies
  <2> QED
    BY <1>1, <1>2, <2>1, NextPathKind DEF Dealt
<1>4. CASE Reply(p) = "error"
  BY <1>1, <1>4, UpdateErrorKind DEF applyPath
<1>5. CASE Reply(p) = "unsupported"
  <2> DEFINE w == Warn(run[p], Key(p), Mask(p))
  <2>1. Become(p, NextPath(w)) /\ live' = live
    BY <1>5 DEF applyPath
  <2>2. /\ w \in RunState /\ w = [run[p] EXCEPT !.warned = w.warned]
        /\ WarnsMore(p, w) /\ Dealt(p, w)
    BY <1>1, <1>5, <2>1, MaskIs, ReportKind
  <2> HIDE DEF w
  <2> QED
    BY <1>1, <2>1, <2>2, NextPathKind
<1> QED
  BY <1>3, <1>4, <1>5 DEF applyPath

\* The ends of the loops.
LEMMA LoopKind ==
    ASSUME SectionInv, NEW p \in Provisioners,
           topicsDone(p) \/ subscriptionsDone(p) \/ sectionDone(p)
    PROVE  \E r \in RunState : KindOfStep(p, r)
<1>1. run[p] \in RunState /\ (AtTopic(p) \/ run[p].pass = "subs")
  BY Given DEF AtTopic, RunState
<1>2. CASE topicsDone(p)
  <2> DEFINE x == [run[p] EXCEPT !.pass = "subs", !.ti = 1, !.si = 1]
  <2>1. /\ x \in RunState /\ x.pc = run[p].pc /\ x.pass = "subs"
        /\ x.history = run[p].history
    BY <1>1, TurnTypes
  <2>2. x.ti = 1 /\ x.si = 1 /\ x.warned = run[p].warned
    BY <1>1 DEF RunState
  <2>3. Become(p, x)
    BY <1>2 DEF topicsDone
  <2> HIDE DEF x
  <2>4. Turns(p, x)
    BY <1>2, <2>1, <2>2 DEF topicsDone, Turns
  <2>5. KindOfStep(p, x)
    BY <1>2, <2>3, <2>4 DEF topicsDone, KindOfStep, bounds
  <2> QED
    BY <2>1, <2>5
<1>3. CASE subscriptionsDone(p)
  <2> DEFINE x == [run[p] EXCEPT !.ti = @ + 1, !.si = 1]
  <2>1. /\ x \in RunState /\ x.pc = run[p].pc /\ x.pass = run[p].pass
        /\ x.history = run[p].history
    BY <1>1, TurnTypes
  <2>2. x.ti = run[p].ti + 1 /\ x.si = 1 /\ x.warned = run[p].warned
    BY <1>1 DEF RunState
  <2>3. Become(p, x)
    BY <1>3 DEF subscriptionsDone
  <2> HIDE DEF x
  <2>4. Turns(p, x)
    BY <1>1, <1>3, <2>1, <2>2 DEF subscriptionsDone, Turns
  <2>5. KindOfStep(p, x)
    BY <1>3, <2>3, <2>4 DEF subscriptionsDone, KindOfStep, bounds
  <2> QED
    BY <2>1, <2>5
<1>4. CASE sectionDone(p)
  <2> DEFINE x == [run[p] EXCEPT !.pc = "ok"]
  <2>1. /\ x \in RunState /\ x.pc = "ok" /\ x.pass = run[p].pass
        /\ x.history = run[p].history
        /\ x.ti = run[p].ti /\ x.si = run[p].si /\ x.warned = run[p].warned
    BY <1>1 DEF RunState, Running
  <2>2. Become(p, x)
    BY <1>4 DEF sectionDone
  <2> HIDE DEF x
  <2>3. Turns(p, x)
    BY <1>1, <1>4, <2>1 DEF sectionDone, Turns
  <2>4. KindOfStep(p, x)
    BY <1>4, <2>2, <2>3 DEF sectionDone, KindOfStep, bounds
  <2> QED
    BY <2>1, <2>4
<1> QED
  BY <1>2, <1>3, <1>4

\* Interrupts and lost replies.
LEMMA InterruptKind ==
    ASSUME SectionInv, NEW p \in Provisioners, Interrupt(p) \/ LostReply(p)
    PROVE  \E r \in RunState : KindOfStep(p, r)
<1> DEFINE q == Fail(run[p])
           r == Note(q, "interrupted")
<1>1. q \in RunState /\ q.pc = "failed" /\ q.history = run[p].history
  BY Given, FailFields
<1>2. q.warned = run[p].warned
  BY Given DEF Fail, RunState
<1> HIDE DEF q
<1>3. r \in RunState
  BY <1>1, GoOnTypes DEF Events
<1>4. /\ r.pc = "failed" /\ r.warned = q.warned
      /\ r.history = q.history \cup {"interrupted"}
  BY <1>1 DEF Note, RunState
<1>5. Become(p, r) /\ UNCHANGED <<inputs, settled, edits>> /\ run[p].pc \in Running
  BY DEF Interrupt, LostReply, Running, q
<1>6. live' = live \/ Creates(p) \/ Modifies(p)
  BY DEF Interrupt, LostReply, Creates, Modifies, CreateCall, CreateReply
<1> HIDE DEF r
<1>7. /\ run[p].history \subseteq r.history
      /\ r.history \cap {"interrupted", "deleted"} # {}
  BY <1>1, <1>4
<1>8. KindOfStep(p, r)
  BY <1>2, <1>3, <1>4, <1>5, <1>6, <1>7, FailKind
<1> QED
  BY <1>3, <1>8

\* Every step of a run is of one of the kinds.
LEMMA RunStep ==
    ASSUME SectionInv, NEW p \in Provisioners, StepOf(p)
    PROVE  \E r \in RunState : KindOfStep(p, r)
BY EnterKind, EnsureTopicKind, EnsureSubscriptionKind, CreateKind, ApplyBatchKind,
   ApplyPathKind, LoopKind, InterruptKind DEF StepOf, ProvisionPubSub

-----------------------------------------------------------------------------
(* What a step of one run does to all of them. *)

\* A step of p: its own record and, by a write, the project; inputs stay.
LEMMA Frame ==
    ASSUME SectionInv, NEW p \in Provisioners, NEW r \in RunState, KindOfStep(p, r)
    PROVE  /\ cfg' = cfg /\ dryRun' = dryRun /\ endpoint' = endpoint
           /\ run'[p] = r
           /\ \A q \in Provisioners : q # p => run'[q] = run[q]
           /\ DOMAIN live \subseteq DOMAIN live'
           /\ settled => settled'
<1>1. cfg' = cfg /\ dryRun' = dryRun /\ endpoint' = endpoint
  BY DEF KindOfStep, inputs
<1>2. run'[p] = r /\ \A q \in Provisioners : q # p => run'[q] = run[q]
  BY Given DEF KindOfStep, Become
<1>3. DOMAIN live \subseteq DOMAIN live'
  <2>1. CASE live' = live
    BY <2>1
  <2>2. CASE Creates(p) \/ Modifies(p)
    BY <2>2, WriteShrinks
  <2> QED
    BY <2>1, <2>2 DEF KindOfStep
<1>4. settled => settled'
  BY DEF KindOfStep, Enters, Leaves, Stays, Fails, Turns
<1> QED
  BY <1>1, <1>2, <1>3, <1>4

\* Whatever step is taken, drift at the places of its file only gets smaller.
LEMMA StepShrinks ==
    ASSUME SectionInv, NEW p \in Provisioners, NEW r \in RunState, KindOfStep(p, r),
           NEW q \in Provisioners, cfg[q] = cfg[p],
           NEW i \in DOMAIN cfg[q].topics, NEW j \in Slots(cfg[q], i)
    PROVE  LET k == KeyAt(cfg[q], i, j)
           IN  /\ k \in DOMAIN live =>
                     Drifting(q, i, j)' \subseteq Drifting(q, i, j)
               /\ k \notin DOMAIN live /\ k \in DOMAIN live' =>
                     Drifting(q, i, j)' = {}
<1> DEFINE k == KeyAt(cfg[q], i, j)
<1>1. cfg' = cfg
  BY Frame
<1>2. /\ Drifting(q, i, j) = IF StrategyAt(cfg[q], i, j) = "update"
                             THEN DriftAt(cfg[q], i, j, live[k]) ELSE {}
      /\ Drifting(q, i, j)' = IF StrategyAt(cfg[q], i, j) = "update"
                              THEN DriftAt(cfg[q], i, j, live'[k]) ELSE {}
  BY <1>1 DEF Drifting
<1>3. /\ k \in DOMAIN live =>
            DriftAt(cfg[q], i, j, live'[k]) \subseteq DriftAt(cfg[q], i, j, live[k])
      /\ k \notin DOMAIN live /\ k \in DOMAIN live' =>
            DriftAt(cfg[q], i, j, live'[k]) = {}
  <2>1. CASE live' = live
    BY <2>1
  <2>2. CASE Creates(p) \/ Modifies(p)
    BY <2>2, WriteShrinks
  <2> QED
    BY <2>1, <2>2 DEF KindOfStep
<1> HIDE DEF k
<1>4. /\ k \in DOMAIN live => Drifting(q, i, j)' \subseteq Drifting(q, i, j)
      /\ k \notin DOMAIN live /\ k \in DOMAIN live' => Drifting(q, i, j)' = {}
  BY <1>2, <1>3
<1> QED
  BY <1>4 DEF k

\* A warning that is precise is about an immutable or a refused field.
LEMMA WarnedIsPrecise ==
    ASSUME SectionInv, NEW p \in Provisioners, Precise(p),
           NEW i \in DOMAIN cfg[p].topics, NEW j \in Slots(cfg[p], i)
    PROVE  Warned(p, KeyAt(cfg[p], i, j)) \subseteq ImmutablePaths \cup RefusedAt(j)
<1>1. cfg[p] \in ConfigFile /\ validate(cfg[p])
  BY Given DEF TypeOK
<1>2. KeyAt(cfg[p], i, j) \in TopicKeys <=> j = 0
  BY <1>1, PlaceTypes, KeysDiffer
<1> QED
  BY <1>2 DEF Precise, Warned, RefusedAt

\* When the project is settled, everything of the common file is there and
\* only what can not be updated drifts.
LEMMA StaysSettled ==
    ASSUME FullInv, NEW p \in Provisioners, NEW r \in RunState, KindOfStep(p, r),
           settled', NEW q \in Provisioners, SameConfig(q),
           NEW i \in DOMAIN cfg[q].topics, NEW j \in Slots(cfg[q], i)
    PROVE  /\ KeyAt(cfg[q], i, j) \in DOMAIN live'
           /\ Drifting(q, i, j)' \subseteq ImmutablePaths \cup RefusedAt(j)
<1> DEFINE k == KeyAt(cfg[q], i, j)
<1>1. SectionInv /\ EffectInv(p) /\ EffectInv(q) /\ cfg[q] = cfg[p]
  BY DEF FullInv, SameConfig
<1>2. k \in DOMAIN live /\ Drifting(q, i, j) \subseteq ImmutablePaths \cup RefusedAt(j)
  <2>1. CASE settled
    BY <1>1, <2>1 DEF EffectInv, Rests
  <2>2. CASE ~settled
    <3>1. /\ run[p].pc = "loop" /\ ~AtTopic(p) /\ run[p].ti > Len(topics(p))
          /\ ~dryRun[p] /\ run[p].history \subseteq {"repeat"}
      BY <2>2 DEF KindOfStep, Enters, Leaves, Stays, Fails, Turns
    <3>2. Under(p) /\ "deleted" \notin run[p].history
      BY <3>1 DEF Under, Running
    <3>3. Seen(p, i, j)
      <4>1. i \in 1..Len(topics(p)) /\ Len(topics(p)) \in Nat /\ run[p].ti \in Nat
        BY <1>1, Given DEF topics, RunState
      <4>2. i < run[p].ti
        BY <3>1, <4>1
      <4> QED
        BY <3>1, <4>2 DEF Seen
    <3>4. k \in DOMAIN live
      BY <1>1, <3>2, <3>3 DEF EffectInv, Attached
    <3>5. SameConfig(p)
      BY <1>1 DEF SameConfig
    <3>6. Drifting(p, i, j) \subseteq Warned(p, k)
      BY <1>1, <3>1, <3>2, <3>3, <3>5 DEF EffectInv, Kept
    <3>7. Warned(p, k) \subseteq ImmutablePaths \cup RefusedAt(j)
      BY <1>1, WarnedIsPrecise DEF EffectInv
    <3>8. Drifting(q, i, j) = Drifting(p, i, j)
      BY <1>1 DEF Drifting
    <3> QED
      BY <3>4, <3>6, <3>7, <3>8
  <2> QED
    BY <2>1, <2>2
<1>3. k \in DOMAIN live'
  BY <1>1, <1>2, Frame
<1>4. Drifting(q, i, j)' \subseteq Drifting(q, i, j)
  BY <1>1, <1>2, StepShrinks
<1> QED
  BY <1>2, <1>3, <1>4

\* A step of p leaves what another run q relies on.
LEMMA OtherRun ==
    ASSUME FullInv, NEW p \in Provisioners, NEW r \in RunState, KindOfStep(p, r),
           NEW q \in Provisioners, q # p
    PROVE  EffectInv(q)'
<1>1. SectionInv /\ EffectInv(q)
  BY DEF FullInv
<1>2. /\ cfg' = cfg /\ dryRun' = dryRun /\ endpoint' = endpoint /\ run'[q] = run[q]
      /\ DOMAIN live \subseteq DOMAIN live' /\ (settled => settled')
  BY <1>1, Frame
<1>3. Precise(q)'
  BY <1>1, <1>2 DEF EffectInv, Precise
<1>4. /\ AtTopic(q)' = AtTopic(q) /\ Sub(q)' = Sub(q) /\ SameConfig(q)' = SameConfig(q)
      /\ Under(q)' = Under(q) /\ topics(q)' = topics(q) /\ Refused(q)' = Refused(q)
      /\ Strategy(q)' = Strategy(q)
  BY <1>2 DEF AtTopic, Sub, SameConfig, Under, topics, Refused, Strategy, TopicAt, SubAt
<1>5. Entitled(q)'
  <2>1. \A f : MayUpdate(q, f)' = MayUpdate(q, f)
    BY <1>2 DEF MayUpdate, Strategy, AtTopic, TopicAt, SubAt, topics
  <2> QED
    BY <1>1, <1>2, <1>4, <2>1 DEF EffectInv, Entitled
<1>6. \A i, j : Seen(q, i, j)' = Seen(q, i, j)
  BY <1>2, <1>4 DEF Seen
<1>7. Attached(q)'
  BY <1>1, <1>2, <1>4, <1>6 DEF EffectInv, Attached
<1>8. Kept(q)'
  <2> SUFFICES ASSUME SameConfig(q), Under(q), run[q].history \subseteq {"repeat"},
                      NEW i \in DOMAIN cfg[q].topics, NEW j \in Slots(cfg[q], i)
               PROVE  LET k == KeyAt(cfg[q], i, j)
                          here == i = run[q].ti /\ j = Sub(q)
                      IN  /\ Seen(q, i, j) => Drifting(q, i, j)' \subseteq Warned(q, k)
                          /\ here /\ run[q].pc = "create" /\ k \in DOMAIN live' =>
                                Drifting(q, i, j)' = {}
                          /\ here /\ run[q].pc \in {"batch", "split"} =>
                                Drifting(q, i, j)' \subseteq
                                    Warned(q, k) \cup Paths(run[q].todo)
    <3>1. \A k : Warned(q, k)' = Warned(q, k)
      BY <1>2 DEF Warned
    <3> QED
      BY <1>2, <1>4, <1>6, <3>1 DEF Kept
  <2> DEFINE k == KeyAt(cfg[q], i, j)
             here == i = run[q].ti /\ j = Sub(q)
  <2>1. /\ Seen(q, i, j) => Drifting(q, i, j) \subseteq Warned(q, k)
        /\ here /\ run[q].pc = "create" /\ k \in DOMAIN live => Drifting(q, i, j) = {}
        /\ here /\ run[q].pc \in {"batch", "split"} =>
              Drifting(q, i, j) \subseteq Warned(q, k) \cup Paths(run[q].todo)
    BY <1>1 DEF EffectInv, Kept
  <2>2. /\ k \in DOMAIN live => Drifting(q, i, j)' \subseteq Drifting(q, i, j)
        /\ k \notin DOMAIN live /\ k \in DOMAIN live' => Drifting(q, i, j)' = {}
    <3>1. cfg[q] = cfg[p]
      BY DEF SameConfig
    <3> QED
      BY <1>1, <3>1, StepShrinks
  <2>3. Seen(q, i, j) => k \in DOMAIN live
    BY <1>1 DEF EffectInv, Attached
  <2>4. here /\ run[q].pc \in {"batch", "split"} => k \in DOMAIN live
    <3>1. run[q].pc \in {"batch", "split"} =>
             Standing(q) /\ Key(q) \in DOMAIN live
      BY <1>1, Sender, Given DEF RunInv, Pending
    <3> QED
      BY <1>1, <3>1, StandsAt
  <2> HIDE DEF k, here
  <2>5. Seen(q, i, j) => Drifting(q, i, j)' \subseteq Warned(q, k)
    BY <2>1, <2>2, <2>3
  <2>6. here /\ run[q].pc = "create" /\ k \in DOMAIN live' => Drifting(q, i, j)' = {}
    BY <2>1, <2>2
  <2>7. here /\ run[q].pc \in {"batch", "split"} =>
           Drifting(q, i, j)' \subseteq Warned(q, k) \cup Paths(run[q].todo)
    BY <2>1, <2>2, <2>4
  <2> QED
    BY <2>5, <2>6, <2>7 DEF k, here
<1>9. Rests(q)'
  <2> SUFFICES ASSUME SameConfig(q)
               PROVE  /\ settled' =>
                            \A i \in DOMAIN cfg[q].topics : \A j \in Slots(cfg[q], i) :
                                /\ KeyAt(cfg[q], i, j) \in DOMAIN live'
                                /\ Drifting(q, i, j)' \subseteq ImmutablePaths \cup RefusedAt(j)
                      /\ run[q].history = {"repeat"} =>
                            /\ settled'
                            /\ run[q].pc # "create"
                            /\ run[q].pc \in {"batch", "split"} =>
                                  Paths(run[q].todo) \subseteq Refused(q)
    BY <1>2, <1>4 DEF Rests, RefusedAt
  <2>1. ASSUME settled', NEW i \in DOMAIN cfg[q].topics, NEW j \in Slots(cfg[q], i)
        PROVE  /\ KeyAt(cfg[q], i, j) \in DOMAIN live'
               /\ Drifting(q, i, j)' \subseteq ImmutablePaths \cup RefusedAt(j)
    BY <2>1, StaysSettled
  <2>2. run[q].history = {"repeat"} =>
           /\ settled'
           /\ run[q].pc # "create"
           /\ run[q].pc \in {"batch", "split"} =>
                 Paths(run[q].todo) \subseteq Refused(q)
    BY <1>1, <1>2 DEF EffectInv, Rests
  <2> QED
    BY <2>1, <2>2
<1> QED
  BY <1>3, <1>5, <1>7, <1>8, <1>9 DEF EffectInv

\* The fields of the record of a run that enters the section.
LEMMA FreshFields ==
    ASSUME NEW h
    PROVE  LET r == Fresh("loop", h)
           IN  /\ r.pc = "loop" /\ r.pass = "topics" /\ r.ti = 1 /\ r.si = 1
               /\ r.warned = {} /\ r.history = h
BY DEF Fresh

\* A place that p has dealt with after a step it had dealt with before, or it
\* is the one it leaves.
LEMMA SeenGrows ==
    ASSUME SectionInv, NEW p \in Provisioners, NEW r \in RunState, KindOfStep(p, r),
           NEW i \in DOMAIN cfg[p].topics, NEW j \in Slots(cfg[p], i),
           Seen(p, i, j)', Under(p)'
    PROVE  /\ Under(p) /\ ~Enters(p, r) /\ ~Fails(p, r)
           /\ Seen(p, i, j) \/ (Leaves(p, r) /\ i = run[p].ti /\ j = Sub(p))
<1>1. run'[p] = r /\ cfg' = cfg /\ dryRun' = dryRun
  BY Frame
<1>2. /\ i \in Nat /\ i >= 1 /\ i <= Len(topics(p)) /\ j \in Nat
      /\ Len(topics(p)) \in Nat /\ run[p].ti \in Nat /\ run[p].si \in Nat
      /\ run[p].si >= 1
  BY Given, PlaceTypes DEF topics, RunState, TypeOK
<1>3. /\ j = 0 => (r.pass = "topics" => i < r.ti)
      /\ j # 0 => r.pass # "topics" /\ (i < r.ti \/ (i = r.ti /\ j < r.si))
      /\ r.pc \in Running \cup {"ok"} /\ ~dryRun[p]
  BY <1>1 DEF Seen, Under, AtTopic
<1>4. ~Enters(p, r)
  BY <1>2, <1>3, FreshFields DEF Enters
<1>5. ~Fails(p, r)
  BY <1>3 DEF Fails, Running
<1>6. CASE Leaves(p, r)
  <2>1. run[p].pc \in Running
    BY <1>6 DEF Leaves
  <2>2. /\ r.pass = run[p].pass
        /\ r.ti = (IF AtTopic(p) THEN run[p].ti + 1 ELSE run[p].ti)
        /\ r.si = (IF AtTopic(p) THEN run[p].si ELSE run[p].si + 1)
    BY <1>6 DEF Leaves
  <2>3. Seen(p, i, j) \/ (i = run[p].ti /\ j = Sub(p))
    BY <1>2, <1>3, <2>2 DEF Seen, Sub, AtTopic
  <2> QED
    BY <1>3, <1>4, <1>5, <1>6, <2>1, <2>3 DEF Under
<1>7. CASE Stays(p, r)
  <2>1. run[p].pc \in Running /\ r.pass = run[p].pass /\ r.ti = run[p].ti /\ r.si = run[p].si
    BY <1>7 DEF Stays
  <2>2. Seen(p, i, j)
    BY <1>3, <2>1 DEF Seen, AtTopic
  <2> QED
    BY <1>3, <1>4, <1>5, <2>1, <2>2 DEF Under
<1>8. CASE Turns(p, r)
  <2>1. run[p].pc \in Running
    BY <1>8 DEF Turns, Running
  <2>2. j <= Len(cfg[p].topics[i].subscriptions)
    BY Given, PlaceTypes DEF Slots
  <2>3. /\ Len(cfg[p].topics[i].subscriptions) \in Nat
        /\ i = run[p].ti => cfg[p].topics[i].subscriptions = TopicAt(p).subscriptions
    <3>1. cfg[p].topics[i] \in Topic
      BY Given, PlaceTypes DEF TypeOK
    <3>2. cfg[p].topics[i].subscriptions \in Seq(Subscription)
      BY <3>1 DEF Topic
    <3> QED
      BY <3>2 DEF TopicAt, topics
  <2>4. Seen(p, i, j)
    BY <1>2, <1>3, <1>8, <2>2, <2>3 DEF Turns, Seen, AtTopic
  <2> QED
    BY <1>3, <1>4, <1>5, <2>1, <2>4 DEF Under
<1> QED
  BY <1>4, <1>5, <1>6, <1>7, <1>8 DEF KindOfStep

\* A step of p warns precisely.
LEMMA OwnPrecise ==
    ASSUME SectionInv, NEW p \in Provisioners, NEW r \in RunState, KindOfStep(p, r),
           Precise(p)
    PROVE  Precise(p)'
<1>1. run'[p] = r /\ endpoint' = endpoint
  BY Frame
<1> SUFFICES ASSUME NEW w \in r.warned
             PROVE  w[2] \in ImmutablePaths
                       \cup (IF w[1] \in TopicKeys THEN endpoint.topic ELSE endpoint.sub)
  BY <1>1 DEF Precise
<1>2. CASE w \in run[p].warned
  BY <1>2 DEF Precise
<1>3. CASE w \notin run[p].warned
  <2>1. ~Enters(p, r) /\ ~Fails(p, r) /\ ~Turns(p, r)
    BY <1>3, FreshFields DEF Enters, Fails, Turns
  <2>2. Standing(p) /\ WarnsMore(p, r)
    BY <2>1 DEF KindOfStep, Leaves, Stays
  <2>3. w[1] = Key(p) /\ w[2] \in ImmutablePaths \cup Refused(p)
    BY <1>3, <2>2 DEF WarnsMore
  <2>4. Key(p) \in TopicKeys <=> AtTopic(p)
    BY <2>2, Given, StandingRequest, KeysDiffer
  <2> QED
    BY <2>3, <2>4 DEF Refused
<1> QED
  BY <1>2, <1>3

\* A step of p takes up only updates it is entitled to.
LEMMA OwnEntitled ==
    ASSUME SectionInv, NEW p \in Provisioners, NEW r \in RunState, KindOfStep(p, r),
           Entitled(p)
    PROVE  Entitled(p)'
<1>1. run'[p] = r /\ cfg' = cfg /\ dryRun' = dryRun
  BY Frame
<1> SUFFICES ASSUME r.pc \in {"batch", "split"}
             PROVE  /\ Strategy(p)' = "update"
                    /\ \A f \in Paths(r.todo) : MayUpdate(p, f)'
  BY <1>1 DEF Entitled
<1>2. Stays(p, r)
  BY FreshFields DEF KindOfStep, Enters, Leaves, Fails, Turns
<1>3. r.pass = run[p].pass /\ r.ti = run[p].ti /\ r.si = run[p].si
  BY <1>2 DEF Stays
<1>4. Strategy(p)' = Strategy(p) /\ \A f : MayUpdate(p, f)' = MayUpdate(p, f)
  BY <1>1, <1>3 DEF MayUpdate, Strategy, AtTopic, TopicAt, SubAt, topics
<1>5. Strategy(p) = "update" /\ \A f \in Paths(r.todo) : MayUpdate(p, f)
  BY <1>2 DEF Stays, Entitled
<1> QED
  BY <1>4, <1>5

\* What p has dealt with after a step of its own is there.
LEMMA OwnAttached ==
    ASSUME SectionInv, NEW p \in Provisioners, NEW r \in RunState, KindOfStep(p, r),
           Attached(p)
    PROVE  Attached(p)'
<1>1. run'[p] = r /\ cfg' = cfg /\ dryRun' = dryRun /\ DOMAIN live \subseteq DOMAIN live'
  BY Frame
<1>2. ASSUME r.pc = "ok" PROVE ~AtTopic(p)' /\ r.ti > Len(topics(p))
  <2>1. Turns(p, r)
    BY <1>2, FreshFields DEF KindOfStep, Enters, Leaves, Stays, Fails
  <2>2. r.pass = "subs" /\ r.ti > Len(topics(p))
    BY <1>2, <2>1 DEF Turns
  <2> QED
    BY <1>1, <2>2 DEF AtTopic
<1>3. ASSUME Under(p)', "deleted" \notin r.history,
             NEW i \in DOMAIN cfg[p].topics, NEW j \in Slots(cfg[p], i), Seen(p, i, j)'
      PROVE  KeyAt(cfg[p], i, j) \in DOMAIN live'
  <2>1. /\ Under(p) /\ ~Enters(p, r) /\ ~Fails(p, r)
        /\ Seen(p, i, j) \/ (Leaves(p, r) /\ i = run[p].ti /\ j = Sub(p))
    BY <1>3, SeenGrows
  <2>2. "deleted" \notin run[p].history
    BY <1>3, <2>1 DEF KindOfStep, Leaves, Stays, Turns
  <2>3. CASE Seen(p, i, j)
    BY <1>1, <2>1, <2>2, <2>3 DEF Attached
  <2>4. CASE Leaves(p, r) /\ i = run[p].ti /\ j = Sub(p)
    <3>1. Standing(p) /\ Key(p) \in DOMAIN live'
      BY <2>1, <2>2, <2>4 DEF Leaves, Under
    <3> QED
      BY <2>4, <3>1, StandsAt
  <2> QED
    BY <2>1, <2>3, <2>4
<1> QED
  BY <1>1, <1>2, <1>3 DEF Attached, topics

\* Where p stands, Open is what drifts there.
LEMMA OpenIsDrifting ==
    ASSUME SectionInv, NEW p \in Provisioners, Standing(p),
           NEW i, NEW j, i = run[p].ti, j = Sub(p)
    PROVE  /\ Open(p, live[Key(p)]) = Drifting(p, i, j)
           /\ KeyAt(cfg[p], i, j) = Key(p)
           /\ i \in DOMAIN cfg[p].topics /\ j \in Slots(cfg[p], i)
BY StandsAt DEF Open, Drifting

\* An answered call leaves nothing of its mask open and unreported.
LEMMA DealtWith ==
    ASSUME SectionInv, NEW p \in Provisioners, NEW r \in RunState, KindOfStep(p, r),
           run[p].pc \in {"batch", "split"}, Dealt(p, r), run[p].warned \subseteq r.warned,
           NEW i, NEW j, i = run[p].ti, j = Sub(p), NEW T,
           Drifting(p, i, j) \subseteq Warned(p, Key(p)) \cup T
    PROVE  \A f \in Drifting(p, i, j)' : <<Key(p), f>> \in r.warned \/ f \in T \ Mask(p)
<1>1. Standing(p) /\ cfg' = cfg
  BY Sender, Frame
<1>2. \A f \in Warned(p, Key(p)) : <<Key(p), f>> \in r.warned
  <2> SUFFICES ASSUME NEW w \in run[p].warned, w[1] = Key(p)
               PROVE  <<Key(p), w[2]>> \in r.warned
    BY DEF Warned
  <2>1. w = <<w[1], w[2]>>
    BY Given DEF RunState
  <2> QED
    BY <2>1
<1>3. CASE Modifies(p)
  <2> DEFINE D(m) == DriftAt(cfg[p], i, j, m)
  <2>1. D(live'[Key(p)]) \subseteq D(live[Key(p)]) \ Mask(p)
    BY <1>3, WriteShrinks
  <2>2. /\ Drifting(p, i, j) = IF StrategyAt(cfg[p], i, j) = "update"
                               THEN D(live[Key(p)]) ELSE {}
        /\ Drifting(p, i, j)' = IF StrategyAt(cfg[p], i, j) = "update"
                                THEN D(live'[Key(p)]) ELSE {}
    BY <1>1, OpenIsDrifting DEF Drifting
  <2> HIDE DEF D
  <2>3. Drifting(p, i, j)' \subseteq Drifting(p, i, j) \ Mask(p)
    BY <2>1, <2>2
  <2> QED
    BY <1>2, <2>3
<1>4. CASE live' = live /\ {Key(p)} \X Mask(p) \subseteq r.warned
  <2>1. Drifting(p, i, j)' = Drifting(p, i, j)
    BY <1>1, <1>4 DEF Drifting
  <2>2. \A f \in Mask(p) : <<Key(p), f>> \in r.warned
    BY <1>4
  <2> QED
    BY <1>2, <2>1, <2>2
<1> QED
  BY <1>3, <1>4 DEF Dealt

\* A step of p keeps account of what drifts behind it and where it stands.
LEMMA OwnKept ==
    ASSUME SectionInv, NEW p \in Provisioners, NEW r \in RunState, KindOfStep(p, r),
           Attached(p), Kept(p)
    PROVE  Kept(p)'
<1>1. run'[p] = r /\ cfg' = cfg /\ dryRun' = dryRun /\ DOMAIN live \subseteq DOMAIN live'
  BY Frame
<1> SUFFICES ASSUME SameConfig(p), Under(p)', r.history \subseteq {"repeat"},
                    NEW i \in DOMAIN cfg[p].topics, NEW j \in Slots(cfg[p], i)
             PROVE  LET k == KeyAt(cfg[p], i, j)
                        here == i = r.ti /\ j = Sub(p)'
                    IN  /\ Seen(p, i, j)' => Drifting(p, i, j)' \subseteq Warned(p, k)'
                        /\ here /\ r.pc = "create" /\ k \in DOMAIN live' =>
                              Drifting(p, i, j)' = {}
                        /\ here /\ r.pc \in {"batch", "split"} =>
                              Drifting(p, i, j)' \subseteq Warned(p, k)' \cup Paths(r.todo)
  <2>1. SameConfig(p)' = SameConfig(p)
    BY <1>1 DEF SameConfig
  <2> QED
    BY <1>1, <2>1 DEF Kept
<1> DEFINE k == KeyAt(cfg[p], i, j)
<1>2. \A f : <<k, f>> \in r.warned => f \in Warned(p, k)'
  BY <1>1 DEF Warned
<1>3. /\ k \in DOMAIN live => Drifting(p, i, j)' \subseteq Drifting(p, i, j)
      /\ k \notin DOMAIN live /\ k \in DOMAIN live' => Drifting(p, i, j)' = {}
  BY StepShrinks
<1>4. run[p].warned \subseteq r.warned \/ Enters(p, r)
  BY DEF KindOfStep, Leaves, Stays, Turns, Fails, WarnsMore
<1>5. ~Enters(p, r) => run[p].history \subseteq {"repeat"}
  BY DEF KindOfStep, Leaves, Stays, Turns, Fails
<1>6. run[p].warned \subseteq r.warned => Warned(p, k) \subseteq Warned(p, k)'
  BY <1>1 DEF Warned
<1>7. ASSUME Seen(p, i, j)' PROVE Drifting(p, i, j)' \subseteq Warned(p, k)'
  <2>1. /\ Under(p) /\ ~Enters(p, r)
        /\ Seen(p, i, j) \/ (Leaves(p, r) /\ i = run[p].ti /\ j = Sub(p))
    BY <1>7, SeenGrows
  <2>2. "deleted" \notin run[p].history
    BY <1>5, <2>1
  <2>3. CASE Seen(p, i, j)
    <3>1. k \in DOMAIN live
      BY <2>1, <2>2, <2>3 DEF Attached
    <3>2. Drifting(p, i, j) \subseteq Warned(p, k)
      BY <1>5, <2>1, <2>3 DEF Kept
    <3> QED
      BY <1>3, <1>4, <1>6, <2>1, <3>1, <3>2
  <2>4. CASE Leaves(p, r) /\ i = run[p].ti /\ j = Sub(p)
    <3>1. Standing(p) /\ ~dryRun[p] /\ run[p].pc \in Running
      BY <2>1, <2>4 DEF Leaves, Under
    <3>2. k = Key(p) /\ Open(p, live[Key(p)]) = Drifting(p, i, j)
      BY <2>4, <3>1, OpenIsDrifting
    <3>3. CASE run[p].pc = "loop"
      <4>1. live' = live /\ {Key(p)} \X Open(p, live[Key(p)]) \subseteq r.warned
        BY <2>4, <3>1, <3>3 DEF Leaves
      <4>2. Drifting(p, i, j)' = Drifting(p, i, j)
        BY <1>1, <4>1 DEF Drifting
      <4>3. \A f \in Drifting(p, i, j)' : <<k, f>> \in r.warned
        BY <3>2, <4>1, <4>2
      <4> QED
        BY <1>2, <4>3
    <3>4. CASE run[p].pc = "create"
      <4>1. Creates(p) \/ (live' = live /\ Key(p) \in DOMAIN live)
        BY <2>4, <3>1, <3>4 DEF Leaves
      <4>2. CASE Creates(p)
        <5>1. k \notin DOMAIN live /\ k \in DOMAIN live'
          BY <3>2, <4>2, WriteShrinks DEF Creates
        <5> QED
          BY <1>3, <5>1
      <4>3. CASE live' = live /\ Key(p) \in DOMAIN live
        <5>1. Drifting(p, i, j) = {}
          BY <1>5, <2>1, <2>4, <3>2, <3>4, <4>3 DEF Kept
        <5> QED
          BY <1>3, <3>2, <4>3, <5>1
      <4> QED
        BY <4>1, <4>2, <4>3
    <3>5. CASE run[p].pc \in {"batch", "split"}
      <4>1. /\ Dealt(p, r) /\ Paths(run[p].todo) \subseteq Mask(p)
            /\ run[p].warned \subseteq r.warned
        BY <2>4, <3>1, <3>5 DEF Leaves, WarnsMore
      <4>2. Drifting(p, i, j) \subseteq Warned(p, Key(p)) \cup Paths(run[p].todo)
        BY <1>5, <2>1, <2>4, <3>2, <3>5 DEF Kept
      <4>3. \A f \in Drifting(p, i, j)' :
               <<Key(p), f>> \in r.warned \/ f \in Paths(run[p].todo) \ Mask(p)
        BY <2>4, <3>5, <4>1, <4>2, DealtWith
      <4> QED
        BY <1>2, <3>2, <4>1, <4>3
    <3> QED
      BY <3>1, <3>3, <3>4, <3>5 DEF Running
  <2> QED
    BY <2>1, <2>3, <2>4
<1>8. ASSUME i = r.ti, j = Sub(p)', r.pc \in {"create", "batch", "split"}
      PROVE  /\ r.pc = "create" => k \notin DOMAIN live'
             /\ r.pc \in {"batch", "split"} =>
                   Drifting(p, i, j)' \subseteq Warned(p, k)' \cup Paths(r.todo)
  <2>1. Stays(p, r)
    BY <1>8, FreshFields DEF KindOfStep, Enters, Leaves, Fails, Turns
  <2>2. /\ Standing(p) /\ ~Enters(p, r) /\ Under(p) /\ run[p].warned \subseteq r.warned
        /\ i = run[p].ti /\ j = Sub(p)
    <3>1. /\ Standing(p) /\ run[p].pc \in Running /\ ~dryRun[p] /\ WarnsMore(p, r)
          /\ r.pass = run[p].pass /\ r.ti = run[p].ti /\ r.si = run[p].si
      BY <2>1 DEF Stays
    <3>2. Sub(p)' = Sub(p)
      BY <1>1, <3>1 DEF Sub, AtTopic
    <3> QED
      BY <1>8, <3>1, <3>2 DEF Enters, Under, WarnsMore
  <2>3. k = Key(p) /\ Open(p, live[Key(p)]) = Drifting(p, i, j)
    BY <2>2, OpenIsDrifting
  <2>4. r.pc = "create" => k \notin DOMAIN live'
    BY <2>1, <2>3 DEF Stays
  <2>5. CASE r.pc \in {"batch", "split"} /\ run[p].pc = "loop"
    <3>1. /\ live' = live
          /\ {Key(p)} \X Open(p, live[Key(p)])
                \subseteq r.warned \cup ({Key(p)} \X Paths(r.todo))
      BY <2>1, <2>5 DEF Stays
    <3>2. Drifting(p, i, j)' = Drifting(p, i, j)
      BY <1>1, <3>1 DEF Drifting
    <3>3. \A f \in Drifting(p, i, j)' : <<k, f>> \in r.warned \/ f \in Paths(r.todo)
      BY <2>3, <3>1, <3>2
    <3> QED
      BY <1>2, <2>4, <2>5, <3>3
  <2>6. CASE r.pc \in {"batch", "split"} /\ run[p].pc # "loop"
    <3>1. /\ run[p].pc \in {"batch", "split"}
          /\ \/ live' = live /\ Paths(run[p].todo) \subseteq Paths(r.todo)
             \/ Dealt(p, r) /\ Paths(run[p].todo) \subseteq Paths(r.todo) \cup Mask(p)
      BY <2>1, <2>6 DEF Stays
    <3>2. Drifting(p, i, j) \subseteq Warned(p, Key(p)) \cup Paths(run[p].todo)
      BY <1>5, <2>2, <2>3, <3>1 DEF Kept
    <3>3. CASE live' = live /\ Paths(run[p].todo) \subseteq Paths(r.todo)
      <4>1. Drifting(p, i, j)' = Drifting(p, i, j)
        BY <1>1, <3>3 DEF Drifting
      <4> QED
        BY <1>6, <2>2, <2>3, <2>4, <3>2, <3>3, <4>1
    <3>4. CASE Dealt(p, r) /\ Paths(run[p].todo) \subseteq Paths(r.todo) \cup Mask(p)
      <4>1. \A f \in Drifting(p, i, j)' :
               <<Key(p), f>> \in r.warned \/ f \in Paths(run[p].todo) \ Mask(p)
        BY <2>2, <3>1, <3>2, <3>4, DealtWith
      <4> QED
        BY <1>2, <2>3, <2>4, <3>4, <4>1
    <3> QED
      BY <3>1, <3>3, <3>4
  <2> QED
    BY <1>8, <2>4, <2>5, <2>6
<1> HIDE DEF k
<1>9. /\ Seen(p, i, j)' => Drifting(p, i, j)' \subseteq Warned(p, k)'
      /\ i = r.ti /\ j = Sub(p)' /\ r.pc = "create" /\ k \in DOMAIN live' =>
            Drifting(p, i, j)' = {}
      /\ i = r.ti /\ j = Sub(p)' /\ r.pc \in {"batch", "split"} =>
            Drifting(p, i, j)' \subseteq Warned(p, k)' \cup Paths(r.todo)
  BY <1>7, <1>8
<1> QED
  BY <1>9 DEF k

\* A run that repeats a settled one finds nothing to create, and nothing to
\* update but what is refused.
LEMMA OwnRests ==
    ASSUME FullInv, NEW p \in Provisioners, NEW r \in RunState, KindOfStep(p, r)
    PROVE  Rests(p)'
<1>1. SectionInv /\ EffectInv(p)
  BY DEF FullInv
<1>2. /\ run'[p] = r /\ cfg' = cfg /\ endpoint' = endpoint
      /\ (settled => settled')
  BY <1>1, Frame
<1> SUFFICES ASSUME SameConfig(p)
             PROVE  /\ settled' =>
                          \A i \in DOMAIN cfg[p].topics : \A j \in Slots(cfg[p], i) :
                              /\ KeyAt(cfg[p], i, j) \in DOMAIN live'
                              /\ Drifting(p, i, j)' \subseteq ImmutablePaths \cup RefusedAt(j)
                    /\ r.history = {"repeat"} =>
                          /\ settled'
                          /\ r.pc # "create"
                          /\ r.pc \in {"batch", "split"} =>
                                Paths(r.todo) \subseteq Refused(p)'
  <2>1. SameConfig(p)' = SameConfig(p)
    BY <1>2 DEF SameConfig
  <2> QED
    BY <1>2, <2>1 DEF Rests, RefusedAt
<1>3. ASSUME settled', NEW i \in DOMAIN cfg[p].topics, NEW j \in Slots(cfg[p], i)
      PROVE  /\ KeyAt(cfg[p], i, j) \in DOMAIN live'
             /\ Drifting(p, i, j)' \subseteq ImmutablePaths \cup RefusedAt(j)
  BY <1>3, StaysSettled
<1>4. ASSUME r.history = {"repeat"}
      PROVE  /\ settled'
             /\ r.pc # "create"
             /\ r.pc \in {"batch", "split"} => Paths(r.todo) \subseteq Refused(p)'
  <2>1. CASE Enters(p, r)
    <3>1. r.pc = "loop" /\ r.history = (IF settled THEN {"repeat"} ELSE {})
      BY <2>1, FreshFields DEF Enters
    <3>2. settled'
      BY <1>2, <1>4, <3>1
    <3> QED
      BY <3>1, <3>2
  <2>2. CASE Leaves(p, r) \/ Turns(p, r)
    <3>1. r.history = run[p].history /\ r.pc \in {"loop", "ok"}
      BY <2>2 DEF Leaves, Turns
    <3>2. settled'
      BY <1>1, <1>2, <1>4, <3>1 DEF EffectInv, Rests
    <3> QED
      BY <3>1, <3>2
  <2>3. CASE Fails(p, r)
    BY <1>4, <2>3 DEF Fails
  <2>4. CASE Stays(p, r)
    <3>1. /\ r.history = run[p].history /\ Standing(p) /\ r.pass = run[p].pass
      BY <2>4 DEF Stays
    <3>2. settled /\ settled'
      BY <1>1, <1>2, <1>4, <3>1 DEF EffectInv, Rests
    <3>3. PICK i, j : i = run[p].ti /\ j = Sub(p)
      OBVIOUS
    <3>4. /\ Open(p, live[Key(p)]) = Drifting(p, i, j)
          /\ KeyAt(cfg[p], i, j) = Key(p)
          /\ i \in DOMAIN cfg[p].topics /\ j \in Slots(cfg[p], i)
      BY <1>1, <3>1, <3>3, OpenIsDrifting
    <3>5. /\ Key(p) \in DOMAIN live
          /\ Open(p, live[Key(p)]) \subseteq ImmutablePaths \cup RefusedAt(j)
      BY <1>1, <3>2, <3>4 DEF EffectInv, Rests
    <3>6. r.pc # "create"
      BY <2>4, <3>5 DEF Stays
    <3>7. Refused(p)' = Refused(p) /\ Refused(p) = RefusedAt(j)
      <4>1. AtTopic(p)' = AtTopic(p)
        BY <1>2, <3>1 DEF AtTopic
      <4> QED
        BY <1>1, <1>2, <3>1, <3>3, <4>1, StandsAt DEF Refused
    <3>8. CASE run[p].pc = "loop"
      <4>1. /\ \A f \in Paths(r.todo) : f \in Open(p, live[Key(p)])
            /\ Paths(r.todo) \cap ImmutablePaths = {}
        BY <2>4, <3>6, <3>8 DEF Stays
      <4> QED
        BY <3>2, <3>5, <3>6, <3>7, <4>1
    <3>9. CASE run[p].pc # "loop"
      <4>1. run[p].pc \in {"batch", "split"} /\ Paths(r.todo) \subseteq Paths(run[p].todo)
        BY <2>4, <3>6, <3>9 DEF Stays
      <4>2. Paths(run[p].todo) \subseteq Refused(p)
        BY <1>1, <1>4, <3>1, <4>1 DEF EffectInv, Rests
      <4> QED
        BY <3>2, <3>6, <3>7, <4>1, <4>2
    <3> QED
      BY <3>8, <3>9
  <2> QED
    BY <2>1, <2>2, <2>3, <2>4 DEF KindOfStep
<1> QED
  BY <1>3, <1>4

\* A step of a run keeps the invariant of every run.
LEMMA RunKeepsEffects ==
    ASSUME FullInv, NEW p \in Provisioners, StepOf(p), NEW q \in Provisioners
    PROVE  EffectInv(q)'
<1>1. SectionInv /\ EffectInv(p)
  BY DEF FullInv
<1>2. PICK r \in RunState : KindOfStep(p, r)
  BY <1>1, RunStep
<1>3. CASE q = p
  BY <1>1, <1>2, <1>3, OwnPrecise, OwnEntitled, OwnAttached, OwnKept, OwnRests DEF EffectInv
<1>4. CASE q # p
  BY <1>2, <1>4, OtherRun
<1> QED
  BY <1>3, <1>4

\* What a run notes around it leaves its progress alone.
LEMMA NoteFields ==
    ASSUME NEW r \in RunState, NEW e
    PROVE  LET n == Note(r, e)
           IN  /\ n.pc = r.pc /\ n.pass = r.pass /\ n.ti = r.ti /\ n.si = r.si
               /\ n.current = r.current /\ n.todo = r.todo /\ n.warned = r.warned
               /\ n.history = r.history \cup {e}
BY DEF Note, RunState

\* Edits and deletions by hand are noted by every run.
LEMMA ByHandKeepsEffects ==
    ASSUME FullInv, EditByHand \/ DeleteByHand, NEW q \in Provisioners
    PROVE  EffectInv(q)'
<1>1. SectionInv /\ EffectInv(q) /\ run[q] \in RunState
  BY Given DEF FullInv
<1>2. PICK e \in {"edited", "deleted"} :
         /\ EveryRunNotes(e)
         /\ e = "deleted" \/ DOMAIN live \subseteq DOMAIN live'
  <2>1. EditByHand => EveryRunNotes("edited") /\ DOMAIN live \subseteq DOMAIN live'
    BY DEF EditByHand, Put
  <2>2. DeleteByHand => EveryRunNotes("deleted")
    BY DEF DeleteByHand
  <2> QED
    BY <2>1, <2>2
<1>3. /\ cfg' = cfg /\ dryRun' = dryRun /\ endpoint' = endpoint /\ settled' = FALSE
  BY DEF EditByHand, DeleteByHand, inputs
<1>4. run'[q] = Note(run[q], e)
  BY <1>2 DEF EveryRunNotes
<1>5. /\ run'[q].pc = run[q].pc /\ run'[q].pass = run[q].pass
      /\ run'[q].ti = run[q].ti /\ run'[q].si = run[q].si
      /\ run'[q].todo = run[q].todo /\ run'[q].warned = run[q].warned
      /\ run'[q].history = run[q].history \cup {e}
  BY <1>1, <1>4, NoteFields
<1>6. Precise(q)'
  BY <1>1, <1>3, <1>5 DEF EffectInv, Precise
<1>7. Entitled(q)'
  <2>1. Strategy(q)' = Strategy(q) /\ \A f : MayUpdate(q, f)' = MayUpdate(q, f)
    BY <1>3, <1>5 DEF MayUpdate, Strategy, AtTopic, TopicAt, SubAt, topics
  <2> QED
    BY <1>1, <1>5, <2>1 DEF EffectInv, Entitled
<1>8. Attached(q)'
  <2>1. /\ AtTopic(q)' = AtTopic(q) /\ topics(q)' = topics(q) /\ Under(q)' = Under(q)
        /\ \A i, j : Seen(q, i, j)' = Seen(q, i, j)
    BY <1>3, <1>5 DEF AtTopic, topics, Under, Seen
  <2>2. "deleted" \notin run'[q].history =>
           "deleted" \notin run[q].history /\ DOMAIN live \subseteq DOMAIN live'
    BY <1>2, <1>5
  <2> QED
    BY <1>1, <1>3, <1>5, <2>1, <2>2 DEF EffectInv, Attached
<1>9. ~(run'[q].history \subseteq {"repeat"})
  BY <1>5
<1>10. Kept(q)'
  BY <1>9 DEF Kept
<1>11. Rests(q)'
  BY <1>3, <1>9 DEF Rests
<1> QED
  BY <1>6, <1>7, <1>8, <1>10, <1>11 DEF EffectInv

\* Nothing has happened yet.
LEMMA InitFull == Init => FullInv
<1> SUFFICES ASSUME Init PROVE FullInv
  OBVIOUS
<1>1. SectionInv
  BY InitInv
<1>2. ASSUME NEW p \in Provisioners PROVE EffectInv(p)
  <2>1. run[p] = Fresh("idle", {}) /\ ~settled
    BY DEF Init
  <2>2. run[p].pc = "idle" /\ run[p].warned = {} /\ run[p].history = {}
    BY <2>1 DEF Fresh
  <2>3. Precise(p)
    BY <2>2 DEF Precise
  <2>4. Entitled(p) /\ Attached(p) /\ Kept(p)
    BY <2>2 DEF Entitled, Attached, Kept, Under, Running
  <2>5. Rests(p)
    BY <2>1, <2>2 DEF Rests
  <2> QED
    BY <2>3, <2>4, <2>5 DEF EffectInv
<1> QED
  BY <1>1, <1>2 DEF FullInv

\* The invariant is inductive.
LEMMA NextFull == FullInv /\ [Next]_vars => FullInv'
<1> SUFFICES ASSUME FullInv, [Next]_vars PROVE FullInv'
  OBVIOUS
<1>1. SectionInv'
  BY NextInv DEF FullInv
<1>2. ASSUME NEW q \in Provisioners PROVE EffectInv(q)'
  <2>1. CASE \E p \in Provisioners : StepOf(p)
    BY <2>1, RunKeepsEffects
  <2>2. CASE EditByHand \/ DeleteByHand
    BY <2>2, ByHandKeepsEffects
  <2>3. CASE UNCHANGED vars
    <3>1. EffectInv(q)
      BY DEF FullInv
    <3>2. /\ live' = live /\ endpoint' = endpoint /\ cfg' = cfg /\ dryRun' = dryRun
          /\ run' = run /\ settled' = settled
      BY <2>3 DEF vars
    <3>3. /\ Precise(q)' = Precise(q) /\ Entitled(q)' = Entitled(q)
          /\ Attached(q)' = Attached(q)
      BY <3>2 DEF Precise, Entitled, Attached, MayUpdate, Strategy, AtTopic, TopicAt,
                  SubAt, topics, Under, Seen
    <3>4. /\ AtTopic(q)' = AtTopic(q) /\ Sub(q)' = Sub(q) /\ SameConfig(q)' = SameConfig(q)
          /\ Under(q)' = Under(q) /\ Refused(q)' = Refused(q)
          /\ \A i, j : /\ Seen(q, i, j)' = Seen(q, i, j)
                       /\ Drifting(q, i, j)' = Drifting(q, i, j)
          /\ \A k : Warned(q, k)' = Warned(q, k)
          /\ \A j : RefusedAt(j)' = RefusedAt(j)
      BY <3>2 DEF AtTopic, Sub, SameConfig, Under, Refused, Seen, Drifting, Warned, RefusedAt
    <3>5. Kept(q)' = Kept(q)
      BY <3>2, <3>4 DEF Kept
    <3>6. Rests(q)' = Rests(q)
      BY <3>2, <3>4 DEF Rests
    <3> QED
      BY <3>1, <3>3, <3>5, <3>6 DEF EffectInv
  <2> QED
    BY <2>1, <2>2, <2>3 DEF Next, StepOf
<1> QED
  BY <1>1, <1>2 DEF FullInv

\* The inductive invariant: on top of SectionInv, every run warns precisely,
\* has attached what is behind it, accounts for all that drifts there, and
\* finds a settled project settled.
THEOREM FullInvariant == Spec => []FullInv
<1>1. QED
  BY InitFull, NextFull, PTL DEF Spec

\* A warning names exactly what could not be applied: an immutable field or
\* a path this endpoint refuses (immutableDrift, applyPaths).
THEOREM WarnsPrecisely == Spec => []WarningsArePrecise
<1>1. FullInv => WarningsArePrecise
  BY DEF FullInv, EffectInv, Precise, WarningsArePrecise
<1> QED
  BY <1>1, FullInvariant, PTL

\* What a run sends is among the paths it still has to send.
LEMMA MaskInTodo ==
    ASSUME SectionInv, NEW p \in Provisioners, run[p].pc \in {"batch", "split"}
    PROVE  Mask(p) \subseteq Paths(run[p].todo)
<1>1. run[p].todo # <<>> /\ run[p].todo \in Seq(TopicPaths \cup SubscriptionPaths)
  BY Given DEF RunInv, Pending, RunState
<1>2. Head(run[p].todo) \in Paths(run[p].todo)
  BY <1>1, PathsOfTail
<1> QED
  BY <1>2 DEF Mask, Paths

\* A run that starts on a settled project of its own file creates nothing and
\* sends only what this endpoint refuses: provisioning is idempotent.
THEOREM RepeatIsSilent == Spec => []RepeatSendsNothing
<1>1. FullInv => RepeatSendsNothing
  <2> SUFFICES ASSUME FullInv, NEW p \in Provisioners,
                      run[p].history = {"repeat"}, SameConfig(p)
               PROVE  /\ run[p].pc # "create"
                      /\ run[p].pc \in {"batch", "split"} => Mask(p) \subseteq Refused(p)
    BY DEF RepeatSendsNothing
  <2>1. SectionInv /\ Rests(p)
    BY DEF FullInv, EffectInv
  <2>2. run[p].pc # "create"
    BY <2>1 DEF Rests
  <2>3. run[p].pc \in {"batch", "split"} => Mask(p) \subseteq Refused(p)
    BY <2>1, MaskInTodo DEF Rests
  <2> QED
    BY <2>2, <2>3
<1> QED
  BY <1>1, FullInvariant, PTL

-----------------------------------------------------------------------------
(* What a run leaves alone. *)

\* Only the run that takes the step moves.
LEMMA Mover ==
    ASSUME FullInv, Next, NEW p \in Provisioners, Moves(p)
    PROVE  \E r \in RunState : KindOfStep(p, r)
<1>1. SectionInv /\ run[p] \in RunState
  BY Given DEF FullInv
<1>2. CASE EditByHand \/ DeleteByHand
  <2>1. PICK e : run'[p] = Note(run[p], e)
    BY <1>2 DEF EditByHand, DeleteByHand, EveryRunNotes
  <2>2. [run'[p] EXCEPT !.history = {}] = [run[p] EXCEPT !.history = {}]
    BY <1>1, <2>1 DEF Note, RunState
  <2> QED
    BY <2>2 DEF Moves
<1>3. ASSUME NEW q \in Provisioners, StepOf(q)
      PROVE  \E r \in RunState : KindOfStep(p, r)
  <2>1. PICK r \in RunState : KindOfStep(q, r)
    BY <1>1, <1>3, RunStep
  <2>2. p = q
    BY <1>1, <2>1, Frame DEF Moves
  <2> QED
    BY <2>1, <2>2
<1> QED
  BY <1>2, <1>3 DEF Next, StepOf

\* What an update does to the resource it is for.
LEMMA ModifiedFields ==
    ASSUME SectionInv, NEW p \in Provisioners, Modifies(p)
    PROVE  /\ Key(p) \in DOMAIN live
           /\ live'[Key(p)] = ApplyMask(live[Key(p)], UpdateRequest(p), Mask(p))
           /\ \A k \in DOMAIN live : k # Key(p) => live'[k] = live[k]
<1>1. /\ Key(p) \in DOMAIN live
      /\ live'[Key(p)] = ApplyMask(live[Key(p)], UpdateRequest(p), Mask(p))
  BY DEF Modifies, UpdateEffect, Put, Reply, UpdateReply
<1> QED
  BY <1>1, WriteShrinks

\* A run deletes nothing, and the fields it changes of a resource that exists
\* are declared by its file, under strategy update and in no dry run: an
\* omitted key means "leave it alone" (buildTopic, buildSubscription, diff*).
THEOREM OnlyDeclaredFieldsChange == Spec => OmittedFieldsKept
<1> DEFINE Kind(p) ==
       \A k \in DOMAIN live :
          /\ k \in DOMAIN live'
          /\ \A f \in DOMAIN live[k] :
                live'[k][f] # live[k][f] => k = Key(p) /\ MayUpdate(p, f)
<1>1. ASSUME FullInv, Next, NEW p \in Provisioners, Moves(p)
      PROVE  Kind(p)
  <2>1. SectionInv /\ Entitled(p)
    BY <1>1 DEF FullInv, EffectInv
  <2>2. PICK r \in RunState : KindOfStep(p, r)
    BY <1>1, Mover
  <2>3. DOMAIN live \subseteq DOMAIN live'
    BY <2>1, <2>2, Frame
  <2>4. CASE live' = live
    BY <2>4
  <2>5. CASE Creates(p)
    <3>1. \A k \in DOMAIN live : live'[k] = live[k]
      BY <2>1, <2>5, WriteShrinks DEF Creates
    <3> QED
      BY <2>3, <3>1
  <2>6. CASE Modifies(p)
    <3> SUFFICES ASSUME NEW k \in DOMAIN live, NEW f \in DOMAIN live[k],
                        live'[k][f] # live[k][f]
                 PROVE  k = Key(p) /\ MayUpdate(p, f)
      BY <2>3
    <3>1. k = Key(p) /\ live'[k] = ApplyMask(live[k], UpdateRequest(p), Mask(p))
      BY <2>1, <2>6, ModifiedFields
    <3>2. f \in Mask(p)
      BY <3>1 DEF ApplyMask
    <3>3. f \in Paths(run[p].todo) /\ run[p].pc \in {"batch", "split"}
      BY <2>1, <2>6, <3>2, MaskInTodo DEF Modifies
    <3> QED
      BY <2>1, <3>1, <3>3 DEF Entitled
  <2> QED
    BY <2>2, <2>4, <2>5, <2>6 DEF KindOfStep
<1>2. FullInv /\ [Next]_vars => [\A p \in Provisioners : Moves(p) => Kind(p)]_vars
  BY <1>1
<1> QED
  BY <1>2, FullInvariant, PTL DEF Spec, OmittedFieldsKept

-----------------------------------------------------------------------------
(* The section implements Reconciler. *)

\* The keys a file declares are the keys at its places.
LEMMA DeclaredPlaces ==
    ASSUME SectionInv, NEW p \in Provisioners, NEW S
    PROVE  /\ \A i \in DOMAIN cfg[p].topics : \A j \in Slots(cfg[p], i) :
                 StrategyAt(cfg[p], i, j) \in S =>
                    KeyAt(cfg[p], i, j) \in Declares(p, S)
           /\ \A k \in Declares(p, S) :
                 \E i \in DOMAIN cfg[p].topics : \E j \in Slots(cfg[p], i) :
                    k = KeyAt(cfg[p], i, j)
<1>1. cfg[p] \in ConfigFile /\ validate(cfg[p])
  BY Given DEF TypeOK
<1>2. ASSUME NEW i \in DOMAIN cfg[p].topics, NEW j \in Slots(cfg[p], i),
             StrategyAt(cfg[p], i, j) \in S
      PROVE  KeyAt(cfg[p], i, j) \in Declares(p, S)
  <2>1. CASE j = 0
    BY <1>2, <2>1 DEF StrategyAt, KeyAt, Declares, topics
  <2>2. CASE j # 0
    <3>1. j \in DOMAIN cfg[p].topics[i].subscriptions
      BY <1>1, <2>2, PlaceTypes
    <3> QED
      BY <1>2, <2>2, <3>1 DEF StrategyAt, KeyAt, Declares, topics
  <2> QED
    BY <2>1, <2>2
<1>3. ASSUME NEW k \in Declares(p, S)
      PROVE  \E i \in DOMAIN cfg[p].topics : \E j \in Slots(cfg[p], i) :
                k = KeyAt(cfg[p], i, j)
  <2>1. ASSUME NEW i \in DOMAIN cfg[p].topics
        PROVE  /\ 0 \in Slots(cfg[p], i)
               /\ \A j \in DOMAIN cfg[p].topics[i].subscriptions :
                     j \in Slots(cfg[p], i) /\ j # 0
    <3>1. cfg[p].topics[i] \in Topic
      BY <1>1 DEF ConfigFile
    <3>2. cfg[p].topics[i].subscriptions \in Seq(Subscription)
      BY <3>1 DEF Topic
    <3> QED
      BY <3>2 DEF Slots
  <2>2. CASE \E i \in DOMAIN cfg[p].topics : k = TopicKey(cfg[p].topics[i].name)
    BY <2>1, <2>2 DEF KeyAt
  <2>3. CASE \E i \in DOMAIN cfg[p].topics :
                \E j \in DOMAIN cfg[p].topics[i].subscriptions :
                   k = SubKey(cfg[p].topics[i].subscriptions[j].name)
    BY <2>1, <2>3 DEF KeyAt
  <2> QED
    BY <1>3, <2>2, <2>3 DEF Declares, topics
<1> QED
  BY <1>2, <1>3

\* A write of a run is one that Reconciler allows it.
LEMMA MappedWrite ==
    ASSUME SectionInv, NEW p \in Provisioners, Entitled(p), Creates(p) \/ Modifies(p)
    PROVE  Abstract!Write(p)
<1>1. /\ Standing(p) /\ ~dryRun[p] /\ DOMAIN live' = DOMAIN live \cup {Key(p)}
      /\ \A k \in DOMAIN live : k # Key(p) => live'[k] = live[k]
  BY WriteShrinks
<1>2. PICK i \in DOMAIN cfg[p].topics : \E j \in Slots(cfg[p], i) :
         Key(p) = KeyAt(cfg[p], i, j) /\ Strategy(p) = StrategyAt(cfg[p], i, j)
  BY <1>1, StandsAt
<1>3. Key(p) \in Declarations[p]
  BY <1>1, <1>2, DeclaredPlaces, NotCreate DEF Declarations
<1>4. Key(p) \in DOMAIN live => Key(p) \in Updatable[p]
  <2>1. Key(p) \in DOMAIN live => Strategy(p) = "update"
    BY DEF Creates, Modifies, Entitled
  <2> QED
    BY <1>2, <2>1, DeclaredPlaces DEF Updatable
<1>5. Abstract!Only(Key(p))
  BY <1>1 DEF Abstract!Only
<1> QED
  BY <1>1, <1>3, <1>4, <1>5 DEF Abstract!Write

\* The mapped state after a step of p.
LEMMA MappedStep ==
    ASSUME SectionInv, NEW p \in Provisioners, NEW r \in RunState, KindOfStep(p, r)
    PROVE  /\ UNCHANGED <<Declarations, Updatable, dryRun>>
           /\ Phases' = [Phases EXCEPT ![p] = Phase(r.pc)]
           /\ Reasons' = [Reasons EXCEPT ![p] =
                             r.history \cap {"interrupted", "deleted"}]
           /\ Phases[p] = Phase(run[p].pc)
           /\ Reasons[p] = run[p].history \cap {"interrupted", "deleted"}
<1>1. cfg' = cfg /\ dryRun' = dryRun
  BY Frame
<1>2. UNCHANGED <<Declarations, Updatable, dryRun>>
  BY <1>1 DEF Declarations, Updatable, Declares, topics
<1>3. run'[p] = r /\ \A q \in Provisioners : q # p => run'[q] = run[q]
  BY Frame
<1> QED
  BY <1>2, <1>3 DEF Phases, Reasons, Phase

\* A step of a run maps to a step of Reconciler.
LEMMA MappedRun ==
    ASSUME FullInv, NEW p \in Provisioners, StepOf(p)
    PROVE  Abstract!Next
<1>1. SectionInv /\ EffectInv(p)
  BY DEF FullInv
<1>2. PICK r \in RunState : KindOfStep(p, r)
  BY <1>1, RunStep
<1> DEFINE E == {"interrupted", "deleted"}
<1>3. /\ UNCHANGED <<Declarations, Updatable, dryRun>> /\ edits' = edits
      /\ Phases' = [Phases EXCEPT ![p] = Phase(r.pc)]
      /\ Reasons' = [Reasons EXCEPT ![p] = r.history \cap E]
      /\ Phases[p] = Phase(run[p].pc)
      /\ Reasons[p] = run[p].history \cap E
  BY <1>1, <1>2, MappedStep DEF KindOfStep
<1>4. CASE Enters(p, r)
  <2>1. /\ r.pc = "loop" /\ r.history \cap E = {} /\ live' = live
        /\ run[p].pc \notin Running /\ run[p] \in RunState
    BY <1>1, <1>4, FreshFields, Given DEF Enters
  <2>2. Phase(r.pc) = "running" /\ Phase(run[p].pc) # "running"
    BY <2>1 DEF Phase, Running, RunState
  <2>3. Abstract!Begin(p)
    BY <1>3, <2>1, <2>2 DEF Abstract!Begin, Abstract!files
  <2> QED
    BY <2>3 DEF Abstract!Next
<1>5. CASE Turns(p, r) /\ r.pc = "ok"
  <2>1. /\ run[p].pc = "loop" /\ live' = live /\ r.history = run[p].history
        /\ ~AtTopic(p) /\ run[p].ti > Len(topics(p))
    BY <1>5 DEF Turns
  <2>2. dryRun[p] \/ "deleted" \in Reasons[p] \/ Declarations[p] \subseteq DOMAIN live
    <3> SUFFICES ASSUME ~dryRun[p], "deleted" \notin run[p].history,
                        NEW k \in Declares(p, {"create", "update"})
                 PROVE  k \in DOMAIN live
      BY <1>3 DEF Declarations
    <3>1. PICK i \in DOMAIN cfg[p].topics : \E j \in Slots(cfg[p], i) :
             k = KeyAt(cfg[p], i, j)
      BY <1>1, DeclaredPlaces
    <3>2. PICK j \in Slots(cfg[p], i) : k = KeyAt(cfg[p], i, j)
      BY <3>1
    <3>3. i \in 1..Len(topics(p)) /\ Len(topics(p)) \in Nat /\ run[p].ti \in Nat
      BY <1>1, Given DEF topics, RunState
    <3>4. Seen(p, i, j)
      BY <2>1, <3>3 DEF Seen
    <3>5. Under(p)
      BY <2>1 DEF Under, Running
    <3> QED
      BY <1>1, <3>2, <3>4, <3>5 DEF EffectInv, Attached
  <2>3. Reasons' = Reasons
    BY <1>3, <2>1 DEF Reasons
  <2>4. Phases[p] = "running" /\ Phase(r.pc) = "ok"
    BY <1>3, <1>5, <2>1 DEF Phase, Running
  <2>5. Abstract!Succeed(p)
    BY <1>3, <2>1, <2>2, <2>3, <2>4 DEF Abstract!Succeed, Abstract!files
  <2> QED
    BY <2>5 DEF Abstract!Next
<1>6. CASE Leaves(p, r) \/ Stays(p, r) \/ Fails(p, r) \/ (Turns(p, r) /\ r.pc # "ok")
  <2>1. run[p].pc \in Running
    BY <1>6 DEF Leaves, Stays, Fails, Turns, Running
  <2>2. Phases[p] = "running"
    BY <1>3, <2>1 DEF Phase
  <2>3. Abstract!Write(p) \/ UNCHANGED live
    BY <1>1, <1>2, MappedWrite DEF KindOfStep, EffectInv
  <2>4. Abstract!Fail(p) \/ UNCHANGED <<Phases, Reasons>>
    <3>1. CASE Fails(p, r)
      <4> DEFINE why == r.history \cap E
      <4>1. why \in SUBSET Abstract!Excuses /\ why # {}
        BY <3>1 DEF Abstract!Excuses, Fails
      <4>2. Reasons[p] \cup why = why
        BY <1>3, <3>1 DEF Fails
      <4>3. Reasons' = [Reasons EXCEPT ![p] = Reasons[p] \cup why]
        BY <1>3, <4>2
      <4>4. Phases' = [Phases EXCEPT ![p] = "failed"]
        BY <1>3, <3>1 DEF Fails, Phase, Running
      <4> HIDE DEF why
      <4> QED
        BY <4>1, <4>2, <4>3, <4>4 DEF Abstract!Fail
    <3>2. CASE ~Fails(p, r)
      <4>1. r.pc \in Running /\ r.history = run[p].history
        BY <1>6, <3>2 DEF Leaves, Stays, Turns, Running
      <4>2. Phase(r.pc) = Phases[p]
        BY <2>2, <4>1 DEF Phase
      <4>3. Phases' = Phases
        BY <1>3, <4>2 DEF Phases
      <4>4. Reasons' = Reasons
        BY <1>3, <4>1 DEF Reasons
      <4> QED
        BY <4>3, <4>4
    <3> QED
      BY <3>1, <3>2
  <2>5. Abstract!Work(p)
    BY <1>3, <2>2, <2>3, <2>4 DEF Abstract!Work, Abstract!files
  <2> QED
    BY <2>5 DEF Abstract!Next
<1> QED
  BY <1>2, <1>4, <1>5, <1>6 DEF KindOfStep

\* An edit by hand maps to one.
LEMMA MappedEdit ==
    ASSUME SectionInv, EditByHand \/ DeleteByHand
    PROVE  Abstract!Next
<1>1. cfg' = cfg /\ dryRun' = dryRun /\ edits' = edits + 1
  BY DEF EditByHand, DeleteByHand, inputs
<1>2. UNCHANGED <<Declarations, Updatable, dryRun>>
  BY <1>1 DEF Declarations, Updatable, Declares, topics
<1>3. ASSUME NEW e, EveryRunNotes(e), NEW p \in Provisioners
      PROVE  run'[p].pc = run[p].pc /\ run'[p].history = run[p].history \cup {e}
  BY <1>3, Given, NoteFields DEF EveryRunNotes
<1>4. CASE EditByHand
  <2>1. \A p \in Provisioners :
           run'[p].pc = run[p].pc /\ run'[p].history = run[p].history \cup {"edited"}
    BY <1>3, <1>4 DEF EditByHand
  <2>2. Phases' = Phases
    BY <2>1 DEF Phases
  <2>3. Reasons' = Reasons
    <3>1. \A p \in Provisioners :
            run'[p].history \cap {"interrupted", "deleted"}
              = run[p].history \cap {"interrupted", "deleted"}
      BY <2>1
    <3> QED
      BY <3>1 DEF Reasons
  <2>4. DOMAIN live \subseteq DOMAIN live'
    BY <1>4 DEF EditByHand, Put
  <2> QED
    BY <1>1, <1>2, <2>2, <2>3, <2>4 DEF Abstract!Next, Abstract!Edit, Abstract!files
<1>5. CASE DeleteByHand
  <2>1. \A p \in Provisioners :
           run'[p].pc = run[p].pc /\ run'[p].history = run[p].history \cup {"deleted"}
    BY <1>3, <1>5 DEF DeleteByHand
  <2>2. Phases' = Phases
    BY <2>1 DEF Phases
  <2>3. Reasons' = [p \in Provisioners |-> Reasons[p] \cup {"deleted"}]
    <3>1. \A p \in Provisioners :
            run'[p].history \cap {"interrupted", "deleted"}
              = (run[p].history \cap {"interrupted", "deleted"}) \cup {"deleted"}
      BY <2>1
    <3> QED
      BY <3>1 DEF Reasons
  <2>4. DOMAIN live' \subseteq DOMAIN live
    BY <1>5 DEF DeleteByHand
  <2> QED
    BY <1>1, <1>2, <2>2, <2>3, <2>4 DEF Abstract!Next, Abstract!Delete, Abstract!files
<1> QED
  BY <1>4, <1>5

\* Every behaviour of the section is one that Reconciler allows, for any number
\* of provisioners, any valid files and any endpoint.
THEOREM SectionImplementsReconciler == Spec => ImplementsReconciler
<1>1. Init => Abstract!Init
  <2> SUFFICES ASSUME Init PROVE Abstract!Init
    OBVIOUS
  <2>1. \A p \in Provisioners : Updatable[p] \subseteq Declarations[p]
    BY DEF Updatable, Declarations, Declares
  <2>2. \A p \in Provisioners : run[p].pc = "idle" /\ run[p].history = {}
    BY DEF Init, Fresh
  <2>3. Phases = [p \in Provisioners |-> "idle"]
    BY <2>2 DEF Phases, Phase, Running
  <2>4. Reasons = [p \in Provisioners |-> {}]
    BY <2>2 DEF Reasons
  <2> QED
    BY <2>1, <2>3, <2>4 DEF Init, Abstract!Init
<1>2. FullInv /\ [Next]_vars => [Abstract!Next]_(Abstract!vars)
  <2> SUFFICES ASSUME FullInv, [Next]_vars PROVE [Abstract!Next]_(Abstract!vars)
    OBVIOUS
  <2>1. CASE UNCHANGED vars
    BY <2>1 DEF vars, Abstract!vars, Abstract!files, Declarations, Updatable, Declares,
                topics, Phases, Reasons
  <2>2. CASE \E p \in Provisioners : StepOf(p)
    BY <2>2, MappedRun
  <2>3. CASE EditByHand \/ DeleteByHand
    BY <2>3, MappedEdit DEF FullInv
  <2> QED
    BY <2>1, <2>2, <2>3 DEF Next, StepOf
<1> QED
  BY <1>1, <1>2, FullInvariant, PTL DEF Spec, ImplementsReconciler, Abstract!Spec

-----------------------------------------------------------------------------
(* What an update keeps although it replaces a whole map. *)

\* Merged labels have all that was read and is not declared.
LEMMA MergeExtends ==
    ASSUME NEW a, NEW b, NEW c
    PROVE  /\ Extends(mergeLabels(a, b), Common(a, c), DOMAIN b)
           /\ Extends(c, Common(a, c), DOMAIN b)
BY DEF Extends, mergeLabels, Common

\* The push config an update sends has the attributes that were read.
LEMMA PushExtends ==
    ASSUME NEW n \in Texts, NEW s \in Subscription, s.push_endpoint # "",
           NEW m \in SubscriptionProto, NEW pc \in m.push_config, NEW c, NEW echoes
    PROVE  \E x \in Answered(echoes, toProtoSubscription(mergeSubscription(
                 fromProtoSubscription(m), buildSubscription(n, s)))).push_config :
              Extends(x.attributes, Common(pc.attributes, c), DOMAIN s.push_attributes)
<1> DEFINE d == buildSubscription(n, s)
           q == fromProtoSubscription(m)
           o == The(d.Push)
<1>1. m.push_config = {pc}
  <2>1. m.push_config \in Opt(PushConfigProto)
    BY DEF SubscriptionProto
  <2> QED
    BY <2>1 DEF Opt
<1>2. q.Push = {fromProtoPushConfig(pc)}
  BY <1>1 DEF fromProtoSubscription
<1>3. The(q.Push) = fromProtoPushConfig(pc) /\ q.Push # {}
  BY <1>2, TheIn
<1>4. The(q.Push).Attributes = pc.attributes
  <2>1. fromProtoPushConfig(pc).Attributes = pc.attributes
    BY DEF fromProtoPushConfig
  <2> HIDE DEF q
  <2> QED
    BY <1>3, <2>1
<1>5. d.Push # {} /\ \A e \in d.Push : e.Attributes = s.push_attributes
  <2>1. d.Push = buildPushConfig(s)
    BY DEF buildSubscription
  <2> DEFINE b == [Endpoint      |-> s.push_endpoint,
                   Attributes    |-> s.push_attributes,
                   OIDCToken     |-> s.push_oidc_token,
                   Wrapper       |-> s.push_wrapper,
                   WriteMetadata |-> s.push_write_metadata]
  <2>2. buildPushConfig(s) = {b} /\ b.Attributes = s.push_attributes
    <3>1. b.Attributes = s.push_attributes
      OBVIOUS
    <3> QED
      BY <3>1 DEF buildPushConfig
  <2> HIDE DEF b
  <2> HIDE DEF d
  <2> QED
    BY <2>1, <2>2
<1>6. d \in ClientSubscription
  BY BuildSubscriptionType
<1>7. o \in d.Push /\ o.Attributes = s.push_attributes /\ o \in PushConfig
  BY <1>5, <1>6, TheIn DEF ClientSubscription, Opt
<1> HIDE DEF d, q, o
<1> DEFINE e == [o EXCEPT !.Attributes =
                    mergeLabels(The(q.Push).Attributes, o.Attributes)]
           x == toProtoPushConfig(e)
<1>8. e \in mergePush(q.Push, d.Push)
  BY <1>3, <1>7 DEF mergePush
<1>9. x \in toProtoSubscription(mergeSubscription(q, d)).push_config
  <2>1. mergeSubscription(q, d).Push = mergePush(q.Push, d.Push)
    BY <1>6 DEF mergeSubscription, ClientSubscription
  <2> HIDE DEF e
  <2> QED
    BY <1>8, <2>1 DEF toProtoSubscription
<1>10. x.attributes = mergeLabels(pc.attributes, s.push_attributes)
  <2>1. e.Attributes = mergeLabels(pc.attributes, s.push_attributes)
    BY <1>4, <1>7 DEF PushConfig
  <2> HIDE DEF e
  <2> QED
    BY <2>1 DEF toProtoPushConfig
<1>11. Extends(x.attributes, Common(pc.attributes, c), DOMAIN s.push_attributes)
  BY <1>10, MergeExtends
<1>12. Unwrapped(x).attributes = x.attributes
  BY DEF toProtoPushConfig, Unwrapped
<1> DEFINE r == toProtoSubscription(mergeSubscription(q, d))
<1>13. Answered(echoes, r).push_config =
          IF echoes THEN r.push_config ELSE {Unwrapped(z) : z \in r.push_config}
  BY DEF Answered, toProtoSubscription
<1>14. x \in r.push_config
  BY <1>9
<1> HIDE DEF x, r
<1>15. \E z \in Answered(echoes, r).push_config :
          Extends(z.attributes, Common(pc.attributes, c), DOMAIN s.push_attributes)
  BY <1>11, <1>12, <1>13, <1>14
<1> QED
  BY <1>15 DEF d, q, r

\* An update keeps every label and push attribute that was there when the run
\* read the resource, still is, and is not declared (mergeLabels).
THEOREM SeenLabelsAreKept == Spec => SeenLabelsKept
<1> DEFINE Keeps(p) ==
       LET seen == The(run[p].current)
           now  == live[Key(p)]
           next == live'[Key(p)]
       IN  /\ Extends(next.labels, Common(seen.labels, now.labels),
                      DOMAIN Declared(p).labels)
           /\ ~AtTopic(p) =>
                \A s \in seen.push_config, n \in now.push_config :
                  \E x \in next.push_config :
                      Extends(x.attributes, Common(s.attributes, n.attributes),
                              DOMAIN SubAt(p).push_attributes)
<1>1. ASSUME FullInv, Next, NEW p \in Provisioners, Updates(p)
      PROVE  Keeps(p)
  <2> DEFINE seen == The(run[p].current)
             now  == live[Key(p)]
             next == live'[Key(p)]
             mask == Mask(p)
  <2>1. SectionInv /\ Entitled(p)
    BY <1>1 DEF FullInv, EffectInv
  <2>2. Modifies(p)
    <3>1. PICK r \in RunState : KindOfStep(p, r)
      BY <1>1, Mover DEF Updates
    <3> QED
      BY <1>1, <3>1 DEF KindOfStep, Updates, Creates
  <2>3. Standing(p) /\ run[p].pc \in {"batch", "split"}
    BY <2>1, <2>2, Sender DEF Modifies
  <2>4. /\ Key(p) \in DOMAIN live
        /\ next = ApplyMask(now, UpdateRequest(p), mask)
    BY <2>1, <2>2, ModifiedFields
  <2>5. now \in (IF AtTopic(p) THEN TopicProto ELSE SubscriptionProto)
    BY <2>1, <2>3, <2>4, Given, StandingRequest DEF IsProject
  <2>6. seen \in (IF AtTopic(p) THEN TopicProto ELSE SubscriptionProto)
    BY <2>1, <2>3, TheIn, Given DEF RunInv, Pending
  <2>7. /\ TopicAt(p) \in Topic /\ TopicAt(p).name \in Texts
        /\ ~AtTopic(p) => SubAt(p) \in Subscription
    BY <2>1, <2>3, Given, StandingTypes, TextsAssumption
  <2>8. \A f \in mask : MayUpdate(p, f)
    BY <2>1, <2>3, MaskInTodo DEF Entitled
  <2> HIDE DEF seen, now, next, mask
  <2>9. CASE AtTopic(p)
    <3> DEFINE t == TopicAt(p)
    <3>1. UpdateRequest(p) = toProtoTopic(mergeTopic(fromProtoTopic(seen), buildTopic(t)))
      BY <2>9 DEF UpdateRequest, DesiredTopic, seen
    <3>2. UpdateRequest(p).labels = mergeLabels(seen.labels, t.labels)
      BY <3>1 DEF toProtoTopic, mergeTopic, fromProtoTopic, buildTopic
    <3>3. next.labels = IF "labels" \in mask THEN mergeLabels(seen.labels, t.labels)
                        ELSE now.labels
      BY <2>4, <2>5, <2>9, <3>2 DEF ApplyMask, TopicProto
    <3>4. Declared(p).labels = t.labels
      BY <2>9 DEF Declared
    <3> HIDE DEF t
    <3>5. Extends(next.labels, Common(seen.labels, now.labels), DOMAIN Declared(p).labels)
      BY <3>3, <3>4, MergeExtends
    <3> QED
      BY <2>9, <3>5 DEF seen, now, next
  <2>10. CASE ~AtTopic(p)
    <3> DEFINE n == TopicAt(p).name
               s == SubAt(p)
               req == Answered(endpoint.echoes, toProtoSubscription(mergeSubscription(
                         fromProtoSubscription(seen), buildSubscription(n, s))))
    <3>1. UpdateRequest(p) = req
      BY <2>10 DEF UpdateRequest, DesiredSub, seen
    <3>2. req.labels = mergeLabels(seen.labels, s.labels)
      BY DEF Answered, toProtoSubscription, mergeSubscription, fromProtoSubscription,
             buildSubscription
    <3>3. Declared(p).labels = s.labels
      BY <2>10 DEF Declared
    <3>4. "push_config" \in mask => s.push_endpoint # ""
      BY <2>8, <2>10 DEF MayUpdate, SubscriptionDeclares
    <3>5. n \in Texts /\ s \in Subscription /\ seen \in SubscriptionProto
          /\ now \in SubscriptionProto
      BY <2>5, <2>6, <2>7, <2>10
    <3>6. \A pc \in seen.push_config, c \in now.push_config : s.push_endpoint # "" =>
             \E x \in req.push_config :
                Extends(x.attributes, Common(pc.attributes, c.attributes),
                        DOMAIN s.push_attributes)
      <4> HIDE DEF n, s
      <4> QED
        BY <3>5, PushExtends
    <3> HIDE DEF req, n, s
    <3>7. /\ next.labels = IF "labels" \in mask THEN req.labels ELSE now.labels
          /\ next.push_config = IF "push_config" \in mask THEN req.push_config
                                ELSE now.push_config
      BY <2>4, <3>1, <3>5 DEF ApplyMask, SubscriptionProto
    <3>8. Extends(next.labels, Common(seen.labels, now.labels), DOMAIN Declared(p).labels)
      BY <3>2, <3>3, <3>7, MergeExtends
    <3>9. \A pc \in seen.push_config, c \in now.push_config :
             \E x \in next.push_config :
                Extends(x.attributes, Common(pc.attributes, c.attributes),
                        DOMAIN s.push_attributes)
      BY <3>4, <3>6, <3>7, MergeExtends
    <3> QED
      BY <3>8, <3>9 DEF seen, now, next, s
  <2> QED
    BY <2>9, <2>10
<1>2. FullInv /\ [Next]_vars => [\A p \in Provisioners : Updates(p) => Keeps(p)]_vars
  BY <1>1
<1> QED
  BY <1>2, FullInvariant, PTL DEF Spec, SeenLabelsKept

-----------------------------------------------------------------------------
(* The code's comparison against the reference definition of "as declared". *)

\* A label with the value "" is taken for one that is not there, in Go and
\* here: the theorem about Converged is for files without such values.
HasValues(labels) == \A k \in DOMAIN labels : labels[k] # ""

LabelsHaveValues ==
    \A p \in Provisioners : \A i \in DOMAIN cfg[p].topics :
        /\ HasValues(cfg[p].topics[i].labels)
        /\ \A j \in DOMAIN cfg[p].topics[i].subscriptions :
              LET s == cfg[p].topics[i].subscriptions[j]
              IN  HasValues(s.labels) /\ HasValues(s.push_attributes)

\* Labels that the comparison accepts are there.
LEMMA LabelsMet ==
    ASSUME NEW want, NEW got, HasValues(want), labelsSubset(want, got)
    PROVE  HasLabels(got, want)
BY DEF HasValues, labelsSubset, HasLabels, Lookup

\* A declared duration that the comparison accepts is the live one.
LEMMA DurationMet ==
    ASSUME NEW o \in Opt(Int), NEW lo, NEW hi, lo \in Nat, lo > 0,
           validateDurationRange(o, lo, hi), NEW v,
           ~(ParseDuration(o) > 0 /\ v # ParseDuration(o))
    PROVE  \A d \in o : v = d
<1> SUFFICES ASSUME NEW d \in o PROVE v = d
  OBVIOUS
<1>1. ParseDuration(o) = d
  BY ParseDurationOf
<1>2. d >= 0 /\ lo <= d /\ d \in Int
  BY DEF validateDurationRange, Opt
<1>3. d > 0
  BY <1>2
<1> QED
  BY <1>1, <1>3

\* What does not drift on a topic is as declared.
LEMMA TopicUnmet ==
    ASSUME NEW t \in Topic, NEW m, HasValues(t.labels),
           validateDurationRange(t.message_retention,
                                 minMessageRetention, maxMessageRetention)
    PROVE  Unmet(TopicMet(t, m)) \subseteq TopicDrift(t, m)
<1>1. /\ fromProtoTopic(m).Labels = m.labels
      /\ fromProtoTopic(m).MessageRetention = m.message_retention_duration
      /\ buildTopic(t).Labels = t.labels
      /\ buildTopic(t).MessageRetention = ParseDuration(t.message_retention)
  BY DEF fromProtoTopic, buildTopic
<1>2. "labels" \notin TopicDrift(t, m) => HasLabels(m.labels, t.labels)
  <2>1. "labels" \notin TopicDrift(t, m) => labelsSubset(t.labels, m.labels)
    BY <1>1, TopicDriftFields DEF TopicField
  <2> QED
    BY <2>1, LabelsMet
<1>3. "message_retention_duration" \notin TopicDrift(t, m) =>
         \A d \in t.message_retention : m.message_retention_duration = d
  <2>1. t.message_retention \in Opt(Int)
    BY DEF Topic
  <2>2. minMessageRetention \in Nat /\ minMessageRetention > 0
    BY DEF minMessageRetention, Minute, Second
  <2>3. "message_retention_duration" \notin TopicDrift(t, m) =>
           ~(/\ ParseDuration(t.message_retention) > 0
             /\ m.message_retention_duration # ParseDuration(t.message_retention))
    BY <1>1, TopicDriftFields DEF TopicField
  <2> QED
    BY <2>1, <2>2, <2>3, DurationMet
<1> SUFFICES ASSUME NEW f \in DOMAIN TopicMet(t, m), ~TopicMet(t, m)[f]
             PROVE  f \in TopicDrift(t, m)
  BY DEF Unmet
<1>4. f \in {"labels", "message_retention_duration"}
  BY DEF TopicMet
<1>5. CASE f = "labels"
  <2>1. ~HasLabels(m.labels, t.labels)
    BY <1>5 DEF TopicMet
  <2> QED
    BY <1>2, <1>5, <2>1
<1>6. CASE f = "message_retention_duration"
  <2>1. ~\A d \in t.message_retention : m.message_retention_duration = d
    BY <1>6 DEF TopicMet
  <2> QED
    BY <1>3, <1>6, <2>1
<1> QED
  BY <1>4, <1>5, <1>6

\* A push config that the comparison accepts is as declared.
LEMMA PushConfigMet ==
    ASSUME NEW s \in Subscription, s.push_endpoint # "", HasValues(s.push_attributes),
           NEW M, M \in Opt(PushConfigProto),
           pushConfigEqual({fromProtoPushConfig(pc) : pc \in M}, buildPushConfig(s))
    PROVE  \E pc \in M : PushMet(s, pc)
<1> DEFINE b == [Endpoint      |-> s.push_endpoint,
                 Attributes    |-> s.push_attributes,
                 OIDCToken     |-> s.push_oidc_token,
                 Wrapper       |-> s.push_wrapper,
                 WriteMetadata |-> s.push_write_metadata]
<1>1. buildPushConfig(s) = {b}
  BY DEF buildPushConfig
<1>2. /\ b.Endpoint = s.push_endpoint /\ b.Attributes = s.push_attributes
      /\ b.OIDCToken = s.push_oidc_token /\ b.Wrapper = s.push_wrapper
      /\ b.WriteMetadata = s.push_write_metadata
  OBVIOUS
<1> HIDE DEF b
<1>3. PICK pc \in M : LET c == fromProtoPushConfig(pc)
                      IN  /\ b.Endpoint # "" => c.Endpoint = b.Endpoint
                          /\ labelsSubset(b.Attributes, c.Attributes)
                          /\ oidcEqual(c.OIDCToken, b.OIDCToken)
                          /\ b.Wrapper # "" => effectiveWrapper(c.Wrapper) = b.Wrapper
                          /\ b.Wrapper = "none" => c.WriteMetadata = b.WriteMetadata
  BY <1>1 DEF pushConfigEqual
<1> DEFINE c == fromProtoPushConfig(pc)
<1>4. /\ c.Endpoint = pc.push_endpoint /\ c.Attributes = pc.attributes
      /\ c.OIDCToken = pc.oidc_token
      /\ c.Wrapper = (IF pc.no_wrapper # {} THEN "none"
                      ELSE IF pc.pubsub_wrapper THEN "pubsub" ELSE "")
      /\ c.WriteMetadata = DerefBool(pc.no_wrapper)
  BY DEF fromProtoPushConfig
<1>5. pc.no_wrapper \in Opt(BOOLEAN)
  BY DEF Opt, PushConfigProto
<1> HIDE DEF c
<1>6. pc.push_endpoint = s.push_endpoint
  BY <1>2, <1>3, <1>4 DEF c
<1>7. HasLabels(pc.attributes, s.push_attributes)
  BY <1>2, <1>3, <1>4, LabelsMet DEF c
<1>8. s.push_oidc_token # {} => pc.oidc_token = s.push_oidc_token
  BY <1>2, <1>3, <1>4 DEF c, oidcEqual
<1>9. s.push_wrapper = "pubsub" => pc.no_wrapper = {}
  BY <1>2, <1>3, <1>4 DEF c, effectiveWrapper
<1>10. ASSUME s.push_wrapper = "none" PROVE pc.no_wrapper = {s.push_write_metadata}
  <2>1. pc.no_wrapper # {} /\ DerefBool(pc.no_wrapper) = s.push_write_metadata
    BY <1>2, <1>3, <1>4, <1>10 DEF c, effectiveWrapper
  <2>2. PICK x \in pc.no_wrapper : x \in BOOLEAN /\ pc.no_wrapper = {x}
    <3>1. PICK x \in pc.no_wrapper : TRUE
      BY <2>1
    <3>2. x \in BOOLEAN
      BY <1>5, <3>1 DEF Opt
    <3>3. \A y \in pc.no_wrapper : y = x
      BY <1>5, <3>1, Zenon DEF Opt
    <3>4. pc.no_wrapper = {x}
      BY <3>1, <3>3
    <3> QED
      BY <3>1, <3>2, <3>4
  <2>3. DerefBool(pc.no_wrapper) = x
    BY <2>2, DerefOfOne
  <2> QED
    BY <2>1, <2>2, <2>3
<1> QED
  BY <1>6, <1>7, <1>8, <1>9, <1>10 DEF PushMet

\* What of the plain settings does not drift is as declared.
LEMMA ScalarsMet ==
    ASSUME NEW n \in Texts, NEW s \in Subscription, validateSubscription(s),
           NEW m \in SubscriptionProto
    PROVE  /\ "ack_deadline_seconds" \notin SubDrift(n, s, m) =>
                 \A d \in s.ack_deadline : m.ack_deadline_seconds * Second = d
           /\ "message_retention_duration" \notin SubDrift(n, s, m) =>
                 \A d \in s.message_retention : m.message_retention_duration = d
           /\ "retain_acked_messages" \notin SubDrift(n, s, m) =>
                 \A b \in s.retain_acked_messages : m.retain_acked_messages = b
           /\ "enable_exactly_once_delivery" \notin SubDrift(n, s, m) =>
                 \A b \in s.enable_exactly_once_delivery :
                     m.enable_exactly_once_delivery = b
           /\ "enable_message_ordering" \notin SubDrift(n, s, m) =>
                 \A b \in s.enable_message_ordering : m.enable_message_ordering = b
<1> DEFINE c == fromProtoSubscription(m)
           d == buildSubscription(n, s)
           D == SubDrift(n, s, m)
<1>1. /\ c.AckDeadline = m.ack_deadline_seconds * Second
      /\ c.MessageRetention = m.message_retention_duration
      /\ c.RetainAckedMessages = {m.retain_acked_messages}
      /\ c.EnableExactlyOnceDelivery = {m.enable_exactly_once_delivery}
      /\ c.EnableMessageOrdering = {m.enable_message_ordering}
  BY DEF fromProtoSubscription
<1>2. /\ d.AckDeadline = ParseDuration(s.ack_deadline)
      /\ d.MessageRetention = ParseDuration(s.message_retention)
      /\ d.RetainAckedMessages = s.retain_acked_messages
      /\ d.EnableExactlyOnceDelivery = s.enable_exactly_once_delivery
      /\ d.EnableMessageOrdering = s.enable_message_ordering
  BY DEF buildSubscription
<1>3. \A f : f \in D <=> \/ ScalarField(f, c, d) \/ MessageField(f, c, d)
                         \/ f \in immutableDrift(c, d)
  BY SubDriftFields
<1> HIDE DEF c, d, D
<1>4. /\ "ack_deadline_seconds" \notin D =>
            ~(d.AckDeadline > 0 /\ c.AckDeadline # d.AckDeadline)
      /\ "message_retention_duration" \notin D =>
            ~(d.MessageRetention > 0 /\ c.MessageRetention # d.MessageRetention)
      /\ "retain_acked_messages" \notin D =>
            ~boolDrift(c.RetainAckedMessages, d.RetainAckedMessages)
      /\ "enable_exactly_once_delivery" \notin D =>
            ~boolDrift(c.EnableExactlyOnceDelivery, d.EnableExactlyOnceDelivery)
  BY <1>3 DEF ScalarField
<1>5. "enable_message_ordering" \notin D =>
         ~boolDrift(c.EnableMessageOrdering, d.EnableMessageOrdering)
  BY <1>3 DEF immutableDrift, ImmutablePaths
<1>6. ASSUME NEW b \in BOOLEAN, NEW o, ~boolDrift({b}, o) PROVE \A x \in o : b = x
  BY <1>6, DerefOfOne DEF boolDrift
<1>7. /\ m.retain_acked_messages \in BOOLEAN /\ m.enable_exactly_once_delivery \in BOOLEAN
      /\ m.enable_message_ordering \in BOOLEAN
  BY DEF SubscriptionProto
<1>8. /\ s.ack_deadline \in Opt(Int) /\ s.message_retention \in Opt(Int)
  BY DEF Subscription
<1>9. /\ validateDurationRange(s.ack_deadline, minAckDeadline, maxAckDeadline)
      /\ validateDurationRange(s.message_retention,
                               minMessageRetention, maxMessageRetention)
  BY DEF validateSubscription, validateAckDeadline
<1>10. /\ minMessageRetention \in Nat /\ minMessageRetention > 0
       /\ minAckDeadline \in Nat /\ minAckDeadline > 0
  BY DEF minMessageRetention, minAckDeadline, Minute, Second
<1>11. "ack_deadline_seconds" \notin D => \A x \in s.ack_deadline : c.AckDeadline = x
  BY <1>2, <1>4, <1>8, <1>9, <1>10, DurationMet
<1>12. "message_retention_duration" \notin D =>
          \A x \in s.message_retention : c.MessageRetention = x
  BY <1>2, <1>4, <1>8, <1>9, <1>10, DurationMet
<1>13. /\ "ack_deadline_seconds" \notin D =>
             \A x \in s.ack_deadline : m.ack_deadline_seconds * Second = x
       /\ "message_retention_duration" \notin D =>
             \A x \in s.message_retention : m.message_retention_duration = x
  BY <1>1, <1>11, <1>12
<1>14. "retain_acked_messages" \notin D =>
          \A x \in s.retain_acked_messages : m.retain_acked_messages = x
  BY <1>1, <1>2, <1>4, <1>6, <1>7
<1>15. "enable_exactly_once_delivery" \notin D =>
          \A x \in s.enable_exactly_once_delivery : m.enable_exactly_once_delivery = x
  BY <1>1, <1>2, <1>4, <1>6, <1>7
<1>16. "enable_message_ordering" \notin D =>
          \A x \in s.enable_message_ordering : m.enable_message_ordering = x
  BY <1>1, <1>2, <1>5, <1>6, <1>7
<1> QED
  BY <1>13, <1>14, <1>15, <1>16 DEF D

\* What of the maps and messages does not drift is as declared.
LEMMA MessagesMet ==
    ASSUME NEW n \in Texts, NEW s \in Subscription, validateSubscription(s),
           HasValues(s.labels), HasValues(s.push_attributes),
           NEW m \in SubscriptionProto
    PROVE  /\ "topic" \notin SubDrift(n, s, m) => m.topic = n
           /\ "filter" \notin SubDrift(n, s, m) => (s.filter # "" => m.filter = s.filter)
           /\ "expiration_policy" \notin SubDrift(n, s, m) =>
                 \A d \in s.expiration_ttl :
                     m.expiration_policy = {IF d = ExpirationNever THEN 0 ELSE d}
           /\ "labels" \notin SubDrift(n, s, m) => HasLabels(m.labels, s.labels)
           /\ "push_config" \notin SubDrift(n, s, m) =>
                 (s.push_endpoint # "" => \E pc \in m.push_config : PushMet(s, pc))
           /\ "dead_letter_policy" \notin SubDrift(n, s, m) =>
                 \A d \in s.dead_letter : \E x \in m.dead_letter_policy :
                    /\ x.dead_letter_topic = d.topic
                    /\ d.max_delivery_attempts # 0 =>
                          x.max_delivery_attempts = d.max_delivery_attempts
           /\ "retry_policy" \notin SubDrift(n, s, m) =>
                 \A r \in s.retry : \E x \in m.retry_policy : RetryMet(r, x)
<1> DEFINE c == fromProtoSubscription(m)
           d == buildSubscription(n, s)
           D == SubDrift(n, s, m)
<1>1. /\ c.Topic = m.topic /\ c.Filter = m.filter /\ c.Labels = m.labels
      /\ c.ExpirationSet = (m.expiration_policy # {})
      /\ c.ExpirationTTL = ParseDuration(m.expiration_policy)
      /\ c.Push = {fromProtoPushConfig(pc) : pc \in m.push_config}
      /\ c.DeadLetter = {[Topic |-> x.dead_letter_topic,
                          MaxDeliveryAttempts |-> x.max_delivery_attempts] :
                            x \in m.dead_letter_policy}
      /\ c.Retry = {[MinimumBackoff |-> x.minimum_backoff,
                     MaximumBackoff |-> x.maximum_backoff] : x \in m.retry_policy}
  BY DEF fromProtoSubscription
<1>2. /\ d.Topic = n /\ d.Filter = s.filter /\ d.Labels = s.labels
      /\ d.ExpirationSet = (s.expiration_ttl # {})
      /\ d.ExpirationTTL = IF s.expiration_ttl = {ExpirationNever} THEN 0
                           ELSE ParseDuration(s.expiration_ttl)
      /\ d.Push = buildPushConfig(s)
      /\ d.DeadLetter = {[Topic |-> x.topic,
                          MaxDeliveryAttempts |-> x.max_delivery_attempts] :
                            x \in s.dead_letter}
      /\ d.Retry = {[MinimumBackoff |-> ParseDuration(r.minimum_backoff),
                     MaximumBackoff |-> ParseDuration(r.maximum_backoff)] : r \in s.retry}
  BY DEF buildSubscription
<1>3. \A f : f \in D <=> \/ ScalarField(f, c, d) \/ MessageField(f, c, d)
                         \/ f \in immutableDrift(c, d)
  BY SubDriftFields
<1> HIDE DEF c, d, D
<1>4. /\ "topic" \notin D => d.Topic = c.Topic
      /\ "filter" \notin D => (d.Filter # "" => d.Filter = c.Filter)
  BY <1>3 DEF immutableDrift, ImmutablePaths
<1>5. /\ "expiration_policy" \notin D /\ d.ExpirationSet =>
            c.ExpirationSet /\ c.ExpirationTTL = d.ExpirationTTL
      /\ "labels" \notin D => labelsSubset(d.Labels, c.Labels)
      /\ "push_config" \notin D /\ d.Push # {} => pushConfigEqual(c.Push, d.Push)
      /\ "dead_letter_policy" \notin D /\ d.DeadLetter # {} => c.DeadLetter = d.DeadLetter
      /\ "retry_policy" \notin D /\ d.Retry # {} => c.Retry = d.Retry
  BY <1>3 DEF MessageField
<1>6. /\ "topic" \notin D => m.topic = n
      /\ "filter" \notin D => (s.filter # "" => m.filter = s.filter)
  BY <1>1, <1>2, <1>4
<1>7. ASSUME "expiration_policy" \notin D, NEW x \in s.expiration_ttl
      PROVE  m.expiration_policy = {IF x = ExpirationNever THEN 0 ELSE x}
  <2>1. s.expiration_ttl \in Opt(Int) /\ m.expiration_policy \in Opt(Nat)
    BY DEF Subscription, SubscriptionProto
  <2>2. s.expiration_ttl = {x} /\ ParseDuration(s.expiration_ttl) = x
    BY <2>1, ParseDurationOf DEF Opt
  <2>3. d.ExpirationSet /\ d.ExpirationTTL = IF x = ExpirationNever THEN 0 ELSE x
    <3>1. {x} = {ExpirationNever} <=> x = ExpirationNever
      OBVIOUS
    <3> QED
      BY <1>2, <2>2, <3>1
  <2>4. /\ m.expiration_policy # {}
        /\ ParseDuration(m.expiration_policy) = d.ExpirationTTL
    BY <1>1, <1>5, <1>7, <2>3
  <2>5. PICK y \in m.expiration_policy : TRUE
    BY <2>4
  <2>6. m.expiration_policy \in Opt(Int)
    BY <2>1 DEF Opt
  <2>7. m.expiration_policy = {y} /\ ParseDuration(m.expiration_policy) = y
    BY <2>5, <2>6, ParseDurationOf DEF Opt
  <2> QED
    BY <2>3, <2>4, <2>7
<1>8. "labels" \notin D => HasLabels(m.labels, s.labels)
  BY <1>1, <1>2, <1>5, LabelsMet
<1>9. ASSUME "push_config" \notin D, s.push_endpoint # ""
      PROVE  \E pc \in m.push_config : PushMet(s, pc)
  <2>1. d.Push # {}
    BY <1>2, <1>9 DEF buildPushConfig
  <2>2. pushConfigEqual({fromProtoPushConfig(pc) : pc \in m.push_config}, buildPushConfig(s))
    BY <1>1, <1>2, <1>5, <1>9, <2>1
  <2>3. m.push_config \in Opt(PushConfigProto)
    BY DEF SubscriptionProto
  <2> QED
    BY <1>9, <2>2, <2>3, PushConfigMet
<1>10. ASSUME "dead_letter_policy" \notin D, NEW y \in s.dead_letter
       PROVE  \E x \in m.dead_letter_policy :
                 /\ x.dead_letter_topic = y.topic
                 /\ x.max_delivery_attempts = y.max_delivery_attempts
  <2> DEFINE z == [Topic |-> y.topic, MaxDeliveryAttempts |-> y.max_delivery_attempts]
  <2>1. z \in d.DeadLetter
    BY <1>2, <1>10
  <2>2. z \in c.DeadLetter
    BY <1>5, <1>10, <2>1
  <2>3. PICK x \in m.dead_letter_policy :
           z = [Topic |-> x.dead_letter_topic,
                MaxDeliveryAttempts |-> x.max_delivery_attempts]
    BY <1>1, <2>2
  <2>4. z.Topic = y.topic /\ z.MaxDeliveryAttempts = y.max_delivery_attempts
    OBVIOUS
  <2>5. z.Topic = x.dead_letter_topic /\ z.MaxDeliveryAttempts = x.max_delivery_attempts
    BY <2>3
  <2> HIDE DEF z
  <2> QED
    BY <2>4, <2>5
<1>11. ASSUME "retry_policy" \notin D, NEW r \in s.retry
       PROVE  \E x \in m.retry_policy : RetryMet(r, x)
  <2> DEFINE z == [MinimumBackoff |-> ParseDuration(r.minimum_backoff),
                   MaximumBackoff |-> ParseDuration(r.maximum_backoff)]
  <2>1. z \in d.Retry
    BY <1>2, <1>11
  <2>2. z \in c.Retry
    BY <1>5, <1>11, <2>1
  <2>3. PICK x \in m.retry_policy :
           z = [MinimumBackoff |-> x.minimum_backoff, MaximumBackoff |-> x.maximum_backoff]
    BY <1>1, <2>2
  <2>4. /\ z.MinimumBackoff = ParseDuration(r.minimum_backoff)
        /\ z.MaximumBackoff = ParseDuration(r.maximum_backoff)
    OBVIOUS
  <2>5. z.MinimumBackoff = x.minimum_backoff /\ z.MaximumBackoff = x.maximum_backoff
    BY <2>3
  <2> HIDE DEF z
  <2>6. r.minimum_backoff \in Opt(Int) /\ r.maximum_backoff \in Opt(Int)
    <3>1. s.retry \in Opt(Retry)
      BY DEF Subscription
    <3>2. r \in Retry
      BY <1>11, <3>1 DEF Opt
    <3> QED
      BY <3>2 DEF Retry
  <2>7. /\ \A y \in r.minimum_backoff : x.minimum_backoff = y
        /\ \A y \in r.maximum_backoff : x.maximum_backoff = y
    BY <2>4, <2>5, <2>6, ParseDurationOf
  <2> QED
    BY <2>7 DEF RetryMet
<1> QED
  BY <1>6, <1>7, <1>8, <1>9, <1>10, <1>11 DEF D

\* What does not drift on a subscription is as declared.
LEMMA SubUnmet ==
    ASSUME NEW n \in Texts, NEW s \in Subscription, validateSubscription(s),
           HasValues(s.labels), HasValues(s.push_attributes),
           NEW m \in SubscriptionProto
    PROVE  Unmet(SubscriptionMet(n, s, m)) \subseteq SubDrift(n, s, m)
<1> DEFINE M == SubscriptionMet(n, s, m)
<1>1. DOMAIN M = SubscriptionPaths \cup ImmutablePaths
  BY DEF SubscriptionMet, SubscriptionPaths, ImmutablePaths
<1>2. /\ M.topic = (m.topic = n)
      /\ M.filter = (s.filter # "" => m.filter = s.filter)
      /\ M.labels = HasLabels(m.labels, s.labels)
      /\ M.push_config = (s.push_endpoint # "" => \E pc \in m.push_config : PushMet(s, pc))
  BY DEF SubscriptionMet
<1>3. /\ M.enable_message_ordering =
            \A b \in s.enable_message_ordering : m.enable_message_ordering = b
      /\ M.retain_acked_messages =
            \A b \in s.retain_acked_messages : m.retain_acked_messages = b
      /\ M.enable_exactly_once_delivery =
            \A b \in s.enable_exactly_once_delivery : m.enable_exactly_once_delivery = b
  BY DEF SubscriptionMet
<1>4. /\ M.ack_deadline_seconds =
            \A d \in s.ack_deadline : m.ack_deadline_seconds * Second = d
      /\ M.message_retention_duration =
            \A d \in s.message_retention : m.message_retention_duration = d
      /\ M.expiration_policy =
            \A d \in s.expiration_ttl :
                m.expiration_policy = {IF d = ExpirationNever THEN 0 ELSE d}
  BY DEF SubscriptionMet
<1>5. /\ M.dead_letter_policy =
            \A d \in s.dead_letter : \E x \in m.dead_letter_policy :
                /\ x.dead_letter_topic = d.topic
                /\ d.max_delivery_attempts # 0 =>
                      x.max_delivery_attempts = d.max_delivery_attempts
      /\ M.retry_policy = \A r \in s.retry : \E x \in m.retry_policy : RetryMet(r, x)
  BY DEF SubscriptionMet
<1> HIDE DEF M
<1>6. /\ "ack_deadline_seconds" \notin SubDrift(n, s, m) => M.ack_deadline_seconds
      /\ "message_retention_duration" \notin SubDrift(n, s, m) =>
            M.message_retention_duration
      /\ "retain_acked_messages" \notin SubDrift(n, s, m) => M.retain_acked_messages
      /\ "enable_exactly_once_delivery" \notin SubDrift(n, s, m) =>
            M.enable_exactly_once_delivery
      /\ "enable_message_ordering" \notin SubDrift(n, s, m) => M.enable_message_ordering
  <2>1. "ack_deadline_seconds" \notin SubDrift(n, s, m) => M.ack_deadline_seconds
    BY <1>4, ScalarsMet
  <2>2. "message_retention_duration" \notin SubDrift(n, s, m) =>
           M.message_retention_duration
    BY <1>4, ScalarsMet
  <2>3. "retain_acked_messages" \notin SubDrift(n, s, m) => M.retain_acked_messages
    BY <1>3, ScalarsMet
  <2>4. "enable_exactly_once_delivery" \notin SubDrift(n, s, m) =>
           M.enable_exactly_once_delivery
    BY <1>3, ScalarsMet
  <2>5. "enable_message_ordering" \notin SubDrift(n, s, m) => M.enable_message_ordering
    BY <1>3, ScalarsMet
  <2> QED
    BY <2>1, <2>2, <2>3, <2>4, <2>5
<1>7. /\ "topic" \notin SubDrift(n, s, m) => M.topic
      /\ "filter" \notin SubDrift(n, s, m) => M.filter
      /\ "labels" \notin SubDrift(n, s, m) => M.labels
      /\ "push_config" \notin SubDrift(n, s, m) => M.push_config
  BY <1>2, MessagesMet, Zenon
<1>8. /\ "expiration_policy" \notin SubDrift(n, s, m) => M.expiration_policy
      /\ "dead_letter_policy" \notin SubDrift(n, s, m) => M.dead_letter_policy
      /\ "retry_policy" \notin SubDrift(n, s, m) => M.retry_policy
  BY <1>4, <1>5, MessagesMet, Zenon
<1> SUFFICES ASSUME NEW f \in SubscriptionPaths \cup ImmutablePaths,
                    ~M[f], f \notin SubDrift(n, s, m)
             PROVE  FALSE
  BY <1>1 DEF Unmet, M
<1> QED
  BY <1>6, <1>7, <1>8 DEF SubscriptionPaths, ImmutablePaths

\* At each place of a file, what is not as declared drifts.
LEMMA UnmetDrifts ==
    ASSUME SectionInv, LabelsHaveValues, NEW p \in Provisioners,
           NEW i \in DOMAIN cfg[p].topics, NEW j \in Slots(cfg[p], i),
           KeyAt(cfg[p], i, j) \in DOMAIN live
    PROVE  LET t == cfg[p].topics[i]
               s == t.subscriptions[j]
               m == live[KeyAt(cfg[p], i, j)]
           IN  /\ j = 0 => Unmet(TopicMet(t, m)) \subseteq DriftAt(cfg[p], i, j, m)
               /\ j # 0 => Unmet(SubscriptionMet(t.name, s, m))
                             \subseteq DriftAt(cfg[p], i, j, m)
<1> DEFINE t == cfg[p].topics[i]
           s == t.subscriptions[j]
           k == KeyAt(cfg[p], i, j)
           m == live[k]
<1>1. cfg[p] \in ConfigFile /\ validate(cfg[p])
  BY Given DEF TypeOK
<1>2. /\ t \in Topic /\ t.name \in Texts
      /\ validateDurationRange(t.message_retention,
                               minMessageRetention, maxMessageRetention)
      /\ j # 0 => /\ j \in DOMAIN t.subscriptions
                  /\ s \in Subscription /\ validateSubscription(s)
      /\ k \in (IF j = 0 THEN TopicKeys ELSE SubKeys)
  BY <1>1, PlaceTypes, TextsAssumption
<1>3. m \in Messages(k)
  BY Given DEF IsProject
<1>4. m \in (IF j = 0 THEN TopicProto ELSE SubscriptionProto)
  BY <1>2, <1>3, KeysDiffer DEF Messages
<1>5. /\ HasValues(t.labels)
      /\ j # 0 => HasValues(s.labels) /\ HasValues(s.push_attributes)
  BY <1>2 DEF LabelsHaveValues
<1>6. /\ j = 0 => DriftAt(cfg[p], i, j, m) = TopicDrift(t, m)
      /\ j # 0 => DriftAt(cfg[p], i, j, m) = SubDrift(t.name, s, m)
  BY DEF DriftAt
<1> HIDE DEF t, s, k, m
<1>7. j = 0 => Unmet(TopicMet(t, m)) \subseteq DriftAt(cfg[p], i, j, m)
  BY <1>2, <1>5, <1>6, TopicUnmet
<1>8. j # 0 => Unmet(SubscriptionMet(t.name, s, m)) \subseteq DriftAt(cfg[p], i, j, m)
  BY <1>2, <1>4, <1>5, <1>6, SubUnmet
<1> QED
  BY <1>7, <1>8 DEF t, s, k, m

\* Where a run that succeeded undisturbed may update, it has warned of all
\* that is not as declared.
LEMMA SuccessIsConverged ==
    ASSUME FullInv, LabelsHaveValues, NEW p \in Provisioners,
           run[p].pc = "ok", ~dryRun[p], SameConfig(p), run[p].history \subseteq {"repeat"},
           NEW i \in DOMAIN cfg[p].topics, NEW j \in Slots(cfg[p], i)
    PROVE  LET k == KeyAt(cfg[p], i, j)
           IN  /\ k \in DOMAIN live
               /\ StrategyAt(cfg[p], i, j) = "update" =>
                     {k} \X DriftAt(cfg[p], i, j, live[k]) \subseteq run[p].warned
<1> DEFINE k == KeyAt(cfg[p], i, j)
<1>1. SectionInv /\ EffectInv(p)
  BY DEF FullInv
<1>2. Under(p) /\ "deleted" \notin run[p].history
  BY DEF Under
<1>3. ~AtTopic(p) /\ run[p].ti > Len(topics(p))
  BY <1>1 DEF EffectInv, Attached
<1>4. Seen(p, i, j)
  <2>1. i \in 1..Len(topics(p)) /\ Len(topics(p)) \in Nat /\ run[p].ti \in Nat
    BY <1>1, Given DEF topics, RunState
  <2> QED
    BY <1>3, <2>1 DEF Seen
<1>5. k \in DOMAIN live
  BY <1>1, <1>2, <1>4 DEF EffectInv, Attached
<1>6. Drifting(p, i, j) \subseteq Warned(p, k)
  BY <1>1, <1>2, <1>4 DEF EffectInv, Kept
<1>7. \A f \in Warned(p, k) : <<k, f>> \in run[p].warned
  <2> SUFFICES ASSUME NEW w \in run[p].warned, w[1] = k
               PROVE  <<k, w[2]>> \in run[p].warned
    BY DEF Warned
  <2>1. w = <<w[1], w[2]>>
    BY <1>1, Given DEF RunState
  <2> QED
    BY <2>1
<1>8. StrategyAt(cfg[p], i, j) = "update" =>
         Drifting(p, i, j) = DriftAt(cfg[p], i, j, live[k])
  BY DEF Drifting
<1> HIDE DEF k
<1>9. StrategyAt(cfg[p], i, j) = "update" =>
         {k} \X DriftAt(cfg[p], i, j, live[k]) \subseteq run[p].warned
  BY <1>6, <1>7, <1>8
<1> QED
  BY <1>5, <1>9 DEF k

\* The config files, and so their labels, never change.
LEMMA ValuesStay == LabelsHaveValues /\ [Next]_vars => LabelsHaveValues'
<1> SUFFICES ASSUME LabelsHaveValues, [Next]_vars PROVE LabelsHaveValues'
  OBVIOUS
<1>1. cfg' = cfg
  BY DEF Next, ProvisionPubSub, Start, Rerun, ensureTopic, ensureSubscription, create,
         applyBatch, applyPath, topicsDone, subscriptionsDone, sectionDone, Interrupt,
         LostReply, EditByHand, DeleteByHand, inputs, vars
<1> QED
  BY <1>1 DEF LabelsHaveValues

\* When a run has succeeded and nobody else interfered, every resource of its
\* file exists and every declared setting is live or was warned about - for
\* files in which no declared label or attribute has the value "", which the
\* code does not tell from a missing one (labelsSubset).
THEOREM SuccessMeansProvisioned == Spec /\ LabelsHaveValues => []Converged
<1>1. FullInv /\ LabelsHaveValues => Converged
  <2> SUFFICES ASSUME FullInv, LabelsHaveValues, NEW p \in Provisioners,
                      run[p].pc = "ok", ~dryRun[p], SameConfig(p),
                      run[p].history \subseteq {"repeat"}
               PROVE  AsDeclared(cfg[p], live, run[p].warned)
    BY DEF Converged
  <2> DEFINE c == cfg[p]
  <2>1. SectionInv /\ cfg[p] \in ConfigFile /\ validate(cfg[p])
    BY Given DEF FullInv, TypeOK
  <2>2. ASSUME NEW i \in DOMAIN c.topics, NEW j \in Slots(c, i)
        PROVE  LET t == c.topics[i]
                   k == KeyAt(c, i, j)
               IN  /\ k \in DOMAIN live
                   /\ StrategyAt(c, i, j) = "update" =>
                         /\ j = 0 => {k} \X Unmet(TopicMet(t, live[k])) \subseteq run[p].warned
                         /\ j # 0 => {k} \X Unmet(SubscriptionMet(t.name, t.subscriptions[j],
                                                                  live[k]))
                                        \subseteq run[p].warned
    <3> DEFINE k == KeyAt(c, i, j)
    <3>1. /\ k \in DOMAIN live
          /\ StrategyAt(c, i, j) = "update" =>
                {k} \X DriftAt(c, i, j, live[k]) \subseteq run[p].warned
      BY SuccessIsConverged
    <3>2. /\ j = 0 => Unmet(TopicMet(c.topics[i], live[k])) \subseteq DriftAt(c, i, j, live[k])
          /\ j # 0 => Unmet(SubscriptionMet(c.topics[i].name, c.topics[i].subscriptions[j],
                                            live[k]))
                        \subseteq DriftAt(c, i, j, live[k])
      BY <2>1, <3>1, UnmetDrifts
    <3> HIDE DEF k, c
    <3>3. /\ k \in DOMAIN live
          /\ StrategyAt(c, i, j) = "update" =>
                /\ j = 0 => {k} \X Unmet(TopicMet(c.topics[i], live[k])) \subseteq run[p].warned
                /\ j # 0 => {k} \X Unmet(SubscriptionMet(c.topics[i].name,
                                              c.topics[i].subscriptions[j], live[k]))
                               \subseteq run[p].warned
      BY <3>1, <3>2
    <3> QED
      BY <3>3 DEF k
  <2>3. ASSUME NEW i \in DOMAIN c.topics
        PROVE  LET t == c.topics[i]
                   key == TopicKey(t.name)
               IN  /\ key \in DOMAIN live
                   /\ EffectiveStrategy(t.strategy, c.strategy) = "update" =>
                         {key} \X Unmet(TopicMet(t, live[key])) \subseteq run[p].warned
    <3>1. 0 \in Slots(c, i)
      <4>1. c.topics[i] \in Topic
        BY <2>1 DEF ConfigFile
      <4>2. c.topics[i].subscriptions \in Seq(Subscription)
        BY <4>1 DEF Topic
      <4> QED
        BY <4>2 DEF Slots
    <3>2. /\ KeyAt(c, i, 0) = TopicKey(c.topics[i].name)
          /\ StrategyAt(c, i, 0) = EffectiveStrategy(c.topics[i].strategy, c.strategy)
      BY DEF KeyAt, StrategyAt
    <3> HIDE DEF c
    <3> QED
      BY <2>2, <3>1, <3>2
  <2>4. ASSUME NEW i \in DOMAIN c.topics, NEW j \in DOMAIN c.topics[i].subscriptions
        PROVE  LET t == c.topics[i]
                   s == t.subscriptions[j]
                   k == SubKey(s.name)
               IN  /\ k \in DOMAIN live
                   /\ EffectiveStrategy(s.strategy, c.strategy) = "update" =>
                         {k} \X Unmet(SubscriptionMet(t.name, s, live[k]))
                            \subseteq run[p].warned
    <3>1. j \in Slots(c, i) /\ j # 0
      <4>1. c.topics[i] \in Topic
        BY <2>1 DEF ConfigFile
      <4>2. c.topics[i].subscriptions \in Seq(Subscription)
        BY <4>1 DEF Topic
      <4> QED
        BY <4>2 DEF Slots
    <3>2. /\ KeyAt(c, i, j) = SubKey(c.topics[i].subscriptions[j].name)
          /\ StrategyAt(c, i, j) =
                EffectiveStrategy(c.topics[i].subscriptions[j].strategy, c.strategy)
      BY <3>1 DEF KeyAt, StrategyAt
    <3> HIDE DEF c
    <3> QED
      BY <2>2, <3>1, <3>2
  <2> HIDE DEF c
  <2>5. AsDeclared(c, live, run[p].warned)
    BY <2>3, <2>4 DEF AsDeclared
  <2> QED
    BY <2>5 DEF c
<1> QED
  BY <1>1, ValuesStay, FullInvariant, PTL DEF Spec
-----------------------------------------------------------------------------
(* A run ends: every step of its own takes it forward, and nobody takes it   *)
(* back.                                                                     *)

\* The places of a run, which bound how far it can get: each topic and each
\* subscription of its file, and one past the last.
InFile(p) ==
    run[p].pc \in Running =>
        /\ run[p].ti <= Len(topics(p)) + 1
        /\ run[p].si <= IF ~AtTopic(p) /\ run[p].ti <= Len(topics(p))
                        THEN Len(TopicAt(p).subscriptions) + 1 ELSE 1

\* All runs are at a place of their file.
AllInFile == \A p \in Provisioners : InFile(p)

\* A step of a run that is under way, and any step that moves one, takes it ahead.
Advances ==
    \A p \in Provisioners :
        run[p].pc \in Running /\ (StepOf(p) \/ Moves(p)) => Ahead(run[p], run'[p])

\* What counts of a record, whatever it warned about.
LEMMA WarnKeeps ==
    ASSUME NEW q \in RunState, NEW k, NEW F
    PROVE  LET w == Warn(q, k, F)
           IN  /\ w.pc = q.pc /\ w.pass = q.pass /\ w.ti = q.ti /\ w.si = q.si
               /\ w.todo = q.todo
               /\ Advance(w).pc = "loop" /\ Advance(w).pass = q.pass
               /\ Advance(w).ti = Advance(q).ti /\ Advance(w).si = Advance(q).si
BY DEF Warn, Advance, RunState

\* Going on to the next resource is getting ahead.
LEMMA AdvanceAhead ==
    ASSUME NEW q \in RunState
    PROVE  /\ Ahead(q, Advance(q))
           /\ \A k, F : Ahead(q, Advance(Warn(q, k, F)))
<1>1. /\ Advance(q).pc = "loop" /\ Advance(q).pass = q.pass
      /\ Advance(q).ti = (IF q.pass = "topics" THEN q.ti + 1 ELSE q.ti)
      /\ Advance(q).si = (IF q.pass = "topics" THEN q.si ELSE q.si + 1)
  BY AdvanceFields DEF RunState
<1>2. q.ti \in Nat /\ q.si \in Nat
  BY DEF RunState
<1>3. Ahead(q, Advance(q))
  BY <1>1, <1>2 DEF Ahead, Running
<1>4. \A k, F : Ahead(q, Advance(Warn(q, k, F)))
  BY <1>1, <1>2, WarnKeeps DEF Ahead, Running
<1> QED
  BY <1>3, <1>4

\* So is failing.
LEMMA FailAhead ==
    ASSUME NEW q \in RunState
    PROVE  Ahead(q, Fail(q)) /\ \A e : Ahead(q, Note(Fail(q), e))
BY DEF Fail, Note, Ahead, RunState

\* And dealing with one path of several.
LEMMA NextPathAhead ==
    ASSUME NEW q \in RunState, q.pc = "split", q.todo # <<>>
    PROVE  /\ Ahead(q, NextPath(q))
           /\ \A k, F : Ahead(q, NextPath(Warn(q, k, F)))
<1>1. /\ q.todo \in Seq(TopicPaths \cup SubscriptionPaths)
      /\ Len(Tail(q.todo)) < Len(q.todo)
  BY DEF RunState
<1>2. ASSUME NEW w, w.pc = q.pc, w.pass = q.pass, w.ti = q.ti, w.si = q.si,
             w.todo = q.todo, w = q \/ \E k, F : w = Warn(q, k, F)
      PROVE  Ahead(q, NextPath(w))
  <2>1. CASE Len(w.todo) = 1
    BY <1>2, <2>1, AdvanceAhead DEF NextPath
  <2>2. CASE Len(w.todo) # 1
    <3> DEFINE s == [w EXCEPT !.todo = Tail(@)]
    <3>1. NextPath(w) = s
      BY <2>2 DEF NextPath
    <3>2. /\ s.pc = "split" /\ s.pass = q.pass /\ s.ti = q.ti /\ s.si = q.si
          /\ s.todo = Tail(q.todo)
      BY <1>2 DEF Warn, RunState
    <3> HIDE DEF s
    <3>3. Stage(q) = Stage(s)
      BY <3>2 DEF Stage
    <3> QED
      BY <1>1, <3>1, <3>2, <3>3 DEF Ahead, Running
  <2> QED
    BY <2>1, <2>2
<1>3. Ahead(q, NextPath(q))
  BY <1>2
<1>4. ASSUME NEW k, NEW F PROVE Ahead(q, NextPath(Warn(q, k, F)))
  BY <1>2, WarnKeeps
<1> QED
  BY <1>3, <1>4

\* The replies to an update take a run ahead.
LEMMA ReplyAhead ==
    ASSUME SectionInv, NEW p \in Provisioners, applyBatch(p) \/ applyPath(p)
    PROVE  Ahead(run[p], run'[p])
<1>1. run[p] \in RunState /\ DOMAIN run = Provisioners
  BY Given
<1>2. \A r : Become(p, r) => run'[p] = r
  BY <1>1, Given DEF Become
<1>3. CASE applyBatch(p)
  <2> DEFINE s == [run[p] EXCEPT !.pc = "split"]
  <2>1. s.pc = "split" /\ s.pass = run[p].pass /\ s.ti = run[p].ti /\ s.si = run[p].si
    BY <1>1 DEF RunState
  <2>2. run[p].pc = "batch"
    BY <1>3 DEF applyBatch
  <2> HIDE DEF s
  <2>3. Stage(run[p]) < Stage(s)
    BY <2>1, <2>2 DEF Stage
  <2>4. Ahead(run[p], s)
    BY <2>1, <2>3 DEF Ahead, Running
  <2>5. \/ Become(p, Advance(run[p])) \/ Become(p, Fail(run[p])) \/ Become(p, s)
        \/ Become(p, Advance(Warn(run[p], Key(p), Mask(p))))
    BY <1>3 DEF applyBatch, s
  <2> QED
    BY <1>1, <1>2, <2>4, <2>5, AdvanceAhead, FailAhead
<1>4. CASE applyPath(p)
  <2>1. run[p].pc = "split" /\ run[p].todo # <<>>
    BY <1>4, Given DEF applyPath, RunInv, Pending
  <2>2. \/ Become(p, NextPath(run[p])) \/ Become(p, Fail(run[p]))
        \/ Become(p, NextPath(Warn(run[p], Key(p), Mask(p))))
    BY <1>4 DEF applyPath
  <2> QED
    BY <1>1, <1>2, <2>1, <2>2, NextPathAhead, FailAhead
<1> QED
  BY <1>3, <1>4

\* Every step of a run that is under way takes it ahead.
LEMMA StepAhead ==
    ASSUME SectionInv, NEW p \in Provisioners, StepOf(p), run[p].pc \in Running
    PROVE  Ahead(run[p], run'[p])
<1>1. run[p] \in RunState
  BY Given
<1>2. PICK r \in RunState : KindOfStep(p, r)
  BY RunStep
<1>3. run'[p] = r
  BY <1>2, Frame
<1>4. CASE Fails(p, r)
  BY <1>3, <1>4 DEF Fails, Ahead
<1>5. CASE Leaves(p, r)
  BY <1>1, <1>3, <1>5 DEF Leaves, Ahead, AtTopic, Running, RunState
<1>6. CASE Turns(p, r)
  BY <1>1, <1>3, <1>6 DEF Turns, Ahead, AtTopic, Running, RunState
<1>7. CASE Stays(p, r) /\ run[p].pc \notin {"batch", "split"}
  <2>1. run[p].pc = "loop" /\ r.pc \in {"create", "batch", "split"}
    BY <1>7 DEF Stays
  <2>2. Stage(run[p]) < Stage(r)
    BY <2>1 DEF Stage
  <2> QED
    BY <1>3, <1>7, <2>1, <2>2 DEF Stays, Ahead, Running
<1>8. CASE Stays(p, r) /\ run[p].pc \in {"batch", "split"}
  <2>1. r.pc # "failed"
    BY <1>8 DEF Stays
  <2>2. ~Interrupt(p) /\ ~LostReply(p)
    <3>1. Note(Fail(run[p]), "interrupted").pc = "failed"
      BY <1>1 DEF Note, Fail, RunState
    <3> QED
      BY <1>2, <1>3, <2>1, <3>1, Given DEF Interrupt, LostReply, Become
  <2>3. applyBatch(p) \/ applyPath(p)
    BY <1>8, <2>2 DEF StepOf, ProvisionPubSub, Start, Rerun, ensureTopic,
       ensureSubscription, create, topicsDone, subscriptionsDone, sectionDone
  <2> QED
    BY <2>3, ReplyAhead
<1>9. ~Enters(p, r)
  BY DEF Enters
<1> QED
  BY <1>2, <1>4, <1>5, <1>6, <1>7, <1>8, <1>9 DEF KindOfStep

\* A topic of a file has finitely many subscriptions.
LEMMA SubsLen ==
    ASSUME SectionInv, NEW p \in Provisioners, NEW i \in Nat \ {0}, i <= Len(topics(p))
    PROVE  /\ Len(topics(p)[i].subscriptions) \in Nat
           /\ DOMAIN topics(p)[i].subscriptions = 1..Len(topics(p)[i].subscriptions)
<1>1. cfg[p] \in ConfigFile /\ i \in DOMAIN topics(p)
  BY Given DEF TypeOK
<1>2. topics(p)[i] \in Topic
  BY <1>1 DEF ConfigFile, topics
<1> QED
  BY <1>2 DEF Topic

\* The place a record is at, in the file of run p.
Place(p, r) ==
    r.pc \in Running =>
        /\ r.ti <= Len(topics(p)) + 1
        /\ r.si <= IF r.pass # "topics" /\ r.ti <= Len(topics(p))
                   THEN Len(topics(p)[r.ti].subscriptions) + 1 ELSE 1

\* A step of a run takes it to a place of its file.
LEMMA StepInFile ==
    ASSUME SectionInv, NEW p \in Provisioners, Place(p, run[p]),
           NEW r \in RunState, KindOfStep(p, r)
    PROVE  Place(p, r)
<1>1. /\ run[p] \in RunState /\ Len(topics(p)) \in Nat
      /\ DOMAIN topics(p) = 1..Len(topics(p))
  BY Given
<1>2. run[p].ti \in Nat \ {0} /\ run[p].si \in Nat \ {0}
  BY <1>1 DEF RunState
<1>3. CASE Enters(p, r)
  <2>1. r.pass = "topics" /\ r.ti = 1 /\ r.si = 1
    BY <1>3 DEF Enters, Fresh
  <2> QED
    BY <1>1, <2>1 DEF Place
<1>4. CASE Leaves(p, r) /\ AtTopic(p)
  <2>1. /\ run[p].ti <= Len(topics(p)) /\ run[p].pass = "topics" /\ run[p].si <= 1
    BY <1>1, <1>4 DEF Leaves, Standing, AtTopic, Place
  <2> QED
    BY <1>1, <1>2, <1>4, <2>1 DEF Leaves, Place
<1>5. CASE Leaves(p, r) /\ ~AtTopic(p)
  <2>1. /\ run[p].ti <= Len(topics(p)) /\ run[p].pass # "topics"
        /\ run[p].si \in DOMAIN topics(p)[run[p].ti].subscriptions
    BY <1>1, <1>5 DEF Leaves, Standing, AtTopic, TopicAt
  <2>2. run[p].si <= Len(topics(p)[run[p].ti].subscriptions)
    BY <1>2, <2>1, SubsLen
  <2> QED
    BY <1>1, <1>2, <1>5, <2>1, <2>2, SubsLen DEF Leaves, Place
<1>6. CASE Stays(p, r)
  BY <1>6 DEF Stays, Place
<1>7. CASE Fails(p, r)
  BY <1>7 DEF Fails, Place, Running
<1>8. CASE Turns(p, r)
  <2>1. CASE r.pc = "ok"
    BY <2>1 DEF Place, Running
  <2>2. CASE r.pc = "loop"
    <3>1. /\ r.si = 1 /\ r.ti \in Nat \ {0} /\ r.ti <= Len(topics(p)) + 1
      BY <1>1, <1>2, <1>8, <2>2 DEF Turns
    <3> QED
      BY <1>1, <3>1, SubsLen DEF Place
  <2> QED
    BY <1>8, <2>1, <2>2 DEF Turns
<1> QED
  BY <1>3, <1>4, <1>5, <1>6, <1>7, <1>8 DEF KindOfStep

\* The place of a run is that of its record.
LEMMA PlaceOfRun == \A p : InFile(p) <=> Place(p, run[p])
BY DEF InFile, Place, AtTopic, TopicAt

\* Every run stays within its file, and a run that moves gets ahead.
LEMMA RunsAdvance ==
    ASSUME SectionInv, AllInFile, [Next]_vars
    PROVE  AllInFile' /\ [Advances]_vars
<1>1. CASE UNCHANGED vars
  BY <1>1 DEF vars, AllInFile, InFile, topics, TopicAt, AtTopic
<1>2. ASSUME NEW p \in Provisioners, StepOf(p)
      PROVE  AllInFile' /\ Advances
  <2>1. PICK r \in RunState : KindOfStep(p, r)
    BY <1>2, RunStep
  <2>2. /\ cfg' = cfg /\ run'[p] = r
        /\ \A q \in Provisioners : q # p => run'[q] = run[q]
    BY <2>1, Frame
  <2>3. \A q \in Provisioners : InFile(q)' <=> Place(q, run'[q])
    BY <2>2 DEF InFile, Place, AtTopic, TopicAt, topics
  <2>4. \A q \in Provisioners : Place(q, run[q])
    BY PlaceOfRun DEF AllInFile
  <2>5. Place(p, r)
    BY <2>1, <2>4, StepInFile
  <2>6. AllInFile'
    BY <2>2, <2>3, <2>4, <2>5 DEF AllInFile
  <2>7. Advances
    BY <1>2, <2>2, StepAhead DEF Advances, Moves
  <2> QED
    BY <2>6, <2>7
<1>3. CASE EditByHand \/ DeleteByHand
  <2>1. PICK e : run' = [p \in Provisioners |-> Note(run[p], e)]
    BY <1>3 DEF EditByHand, DeleteByHand, EveryRunNotes
  <2>2. cfg' = cfg
    BY <1>3 DEF EditByHand, DeleteByHand, inputs
  <2>3. ASSUME NEW p \in Provisioners
        PROVE  /\ run'[p].pc = run[p].pc /\ run'[p].pass = run[p].pass
               /\ run'[p].ti = run[p].ti /\ run'[p].si = run[p].si
               /\ [run'[p] EXCEPT !.history = {}] = [run[p] EXCEPT !.history = {}]
    BY <2>1, Given DEF Note, RunState
  <2>4. AllInFile'
    BY <2>2, <2>3 DEF AllInFile, InFile, AtTopic, TopicAt, topics
  <2>5. Advances
    BY <2>3, StepAhead DEF Advances, Moves
  <2> QED
    BY <2>4, <2>5
<1> QED
  BY <1>1, <1>2, <1>3 DEF Next, StepOf

\* A run of the Pub/Sub section ends: each of its own steps takes it ahead in
\* its file, other runs and edits by hand never set it back (ProvisionPubSub,
\* applyPaths), and its places are bounded by the file.  So between a start and
\* an end it takes finitely many steps, whatever happens around it.
THEOREM EveryStepCounts ==
    Spec => []AllInFile /\ [][Advances]_vars /\ NeverSetBack
<1>1. Init => AllInFile
  BY DEF Init, AllInFile, InFile, Fresh, Running
<1>2. FullInv /\ AllInFile /\ [Next]_vars => AllInFile' /\ [Advances]_vars
  BY RunsAdvance DEF FullInv
<1>3. [Advances]_vars =>
        [\A p \in Provisioners :
            run[p].pc \in Running /\ Moves(p) => Ahead(run[p], run'[p])]_vars
  BY DEF Advances
<1> QED
  BY <1>1, <1>2, <1>3, FullInvariant, PTL DEF Spec, NeverSetBack

=============================================================================
