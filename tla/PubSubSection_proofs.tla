------------------------ MODULE PubSubSection_proofs ------------------------
(***************************************************************************)
(* The Pub/Sub section fails only for outside reasons, for every number of *)
(* provisioners, every config file validation accepts, every endpoint and  *)
(* every initial project.                                                  *)
(*                                                                         *)
(* First the types of the pure operators (config to client form to wire    *)
(* message and back, masks and merges), then the steps of a run, then the  *)
(* inductive invariant SectionInv action by action, and the theorems that  *)
(* follow from it.                                                         *)
(***************************************************************************)
EXTENDS PubSubProperties, SequenceTheorems, TLAPS

-----------------------------------------------------------------------------
(* Values. *)

\* A pointer that is not nil points to something.
LEMMA TheIn ==
    ASSUME NEW o, o # {}
    PROVE  The(o) \in o
<1>1. PICK x : x \in o
  OBVIOUS
<1>2. QED
  BY <1>1 DEF The

\* ParseDuration yields 0 or the duration given.
LEMMA ParseDurationType ==
    ASSUME NEW S, 0 \in S, NEW o \in SUBSET S
    PROVE  ParseDuration(o) \in S
BY TheIn DEF ParseDuration

\* Merging two label maps gives a label map.
LEMMA MergeLabelsType ==
    ASSUME NEW a \in LabelMaps, NEW b \in LabelMaps
    PROVE  mergeLabels(a, b) \in LabelMaps
<1>1. PICK K \in SUBSET LabelKeys : a \in [K -> Texts]
  BY DEF LabelMaps
<1>2. PICK L \in SUBSET LabelKeys : b \in [L -> Texts]
  BY DEF LabelMaps
<1>3. mergeLabels(a, b) \in [K \cup L -> Texts]
  BY <1>1, <1>2 DEF mergeLabels
<1>4. QED
  BY <1>3 DEF LabelMaps

-----------------------------------------------------------------------------
(* The conversions. *)

\* buildTopic yields a client topic.
LEMMA BuildTopicType ==
    ASSUME NEW t \in Topic
    PROVE  buildTopic(t) \in ClientTopic
<1>1. ParseDuration(t.message_retention) \in Int
  BY ParseDurationType DEF Topic, Opt
<1>2. QED
  BY <1>1 DEF buildTopic, Topic, ClientTopic

\* buildSubscription yields a client subscription.
LEMMA BuildSubscriptionType ==
    ASSUME NEW n \in Texts, NEW s \in Subscription
    PROVE  buildSubscription(n, s) \in ClientSubscription
<1>1. /\ ParseDuration(s.ack_deadline) \in Int
      /\ ParseDuration(s.message_retention) \in Int
      /\ ParseDuration(s.expiration_ttl) \in Int
  BY ParseDurationType DEF Subscription, Opt
<1>2. buildPushConfig(s) \in Opt(PushConfig)
  <2>1. [Endpoint      |-> s.push_endpoint,
         Attributes    |-> s.push_attributes,
         OIDCToken     |-> s.push_oidc_token,
         Wrapper       |-> s.push_wrapper,
         WriteMetadata |-> s.push_write_metadata] \in PushConfig
    BY DEF Subscription, PushConfig
  <2>2. QED
    BY <2>1 DEF buildPushConfig, Opt
<1>3. {[Topic |-> d.topic, MaxDeliveryAttempts |-> d.max_delivery_attempts] :
          d \in s.dead_letter} \in Opt(DeadLetterPolicy)
  BY DEF Subscription, DeadLetter, DeadLetterPolicy, Opt
<1>4. \A r \in s.retry : /\ ParseDuration(r.minimum_backoff) \in Int
                         /\ ParseDuration(r.maximum_backoff) \in Int
  BY ParseDurationType DEF Subscription, Retry, Opt
<1>5. {[MinimumBackoff |-> ParseDuration(r.minimum_backoff),
        MaximumBackoff |-> ParseDuration(r.maximum_backoff)] :
          r \in s.retry} \in Opt(RetryPolicy)
  BY <1>4 DEF Subscription, RetryPolicy, Opt
<1>6. QED
  BY <1>1, <1>2, <1>3, <1>5
     DEF buildSubscription, Subscription, ClientSubscription

\* toProtoTopic yields a topic message.
LEMMA ToProtoTopicType ==
    ASSUME NEW t \in ClientTopic
    PROVE  toProtoTopic(t) \in TopicProto
BY DEF toProtoTopic, ClientTopic, TopicProto, Positive

\* toProtoPushConfig sets one wrapper at most.
LEMMA ToProtoPushConfigType ==
    ASSUME NEW p \in PushConfig
    PROVE  toProtoPushConfig(p) \in PushConfigProto
BY DEF toProtoPushConfig, PushConfig, PushConfigProto, Opt

\* toProtoSubscription yields a subscription message.
LEMMA ToProtoSubscriptionType ==
    ASSUME NEW s \in ClientSubscription
    PROVE  toProtoSubscription(s) \in SubscriptionProto
<1>1. {toProtoPushConfig(p) : p \in s.Push} \in Opt(PushConfigProto)
  BY ToProtoPushConfigType DEF ClientSubscription, Opt
<1>2. {[dead_letter_topic     |-> d.Topic,
        max_delivery_attempts |-> d.MaxDeliveryAttempts] :
          d \in s.DeadLetter} \in Opt(DeadLetterProto)
  BY DEF ClientSubscription, DeadLetterPolicy, DeadLetterProto, Opt
<1>3. {[minimum_backoff |-> Positive(r.MinimumBackoff),
        maximum_backoff |-> Positive(r.MaximumBackoff)] :
          r \in s.Retry} \in Opt(RetryProto)
  BY DEF ClientSubscription, RetryPolicy, RetryProto, Positive, Opt
<1>4. /\ Positive(s.AckDeadline) \div Second \in Nat
      /\ Positive(s.MessageRetention) \in Nat
      /\ Positive(s.ExpirationTTL) \in Nat
  BY DEF ClientSubscription, Positive, Second
<1>5. (IF s.ExpirationSet THEN {Positive(s.ExpirationTTL)} ELSE {}) \in Opt(Nat)
  BY <1>4 DEF Opt
<1>6. \A b : DerefBool(b) \in BOOLEAN
  BY DEF DerefBool
<1>7. QED
  BY <1>1, <1>2, <1>3, <1>4, <1>5, <1>6
     DEF toProtoSubscription, ClientSubscription, SubscriptionProto

\* What the endpoint answers is a message of its kind, and differs from what it
\* was given in the push config only.
LEMMA AnsweredType ==
    ASSUME NEW e, NEW s \in SubscriptionProto
    PROVE  /\ Answered(e, s) \in SubscriptionProto
           /\ \A f \in DOMAIN s \ {"push_config"} : Answered(e, s)[f] = s[f]
<1>1. s.push_config \in Opt(PushConfigProto)
  BY DEF SubscriptionProto
<1>2. \A pc \in PushConfigProto : Unwrapped(pc) \in PushConfigProto
  BY DEF Unwrapped, PushConfigProto
<1>3. {Unwrapped(pc) : pc \in s.push_config} \in Opt(PushConfigProto)
  BY <1>1, <1>2 DEF Opt
<1> QED
  BY <1>3 DEF Answered, SubscriptionProto

\* fromProtoTopic yields a client topic.
LEMMA FromProtoTopicType ==
    ASSUME NEW t \in TopicProto
    PROVE  fromProtoTopic(t) \in ClientTopic
BY DEF fromProtoTopic, TopicProto, ClientTopic

\* The label maps a read returns are label maps.
LEMMA FromProtoSubscriptionLabels ==
    ASSUME NEW s \in SubscriptionProto
    PROVE  /\ fromProtoSubscription(s).Labels \in LabelMaps
           /\ \A c \in fromProtoSubscription(s).Push : c.Attributes \in LabelMaps
<1>1. s.labels \in LabelMaps /\ s.push_config \subseteq PushConfigProto
  BY DEF SubscriptionProto, Opt
<1>2. \A pc \in PushConfigProto : fromProtoPushConfig(pc).Attributes \in LabelMaps
  BY DEF PushConfigProto, fromProtoPushConfig
<1>3. /\ fromProtoSubscription(s).Labels = s.labels
      /\ fromProtoSubscription(s).Push =
            {fromProtoPushConfig(pc) : pc \in s.push_config}
  BY DEF fromProtoSubscription
<1>4. QED
  BY <1>1, <1>2, <1>3

\* Merging what was read into the wanted form changes no type.
LEMMA MergeTopicType ==
    ASSUME NEW c \in ClientTopic, NEW d \in ClientTopic
    PROVE  mergeTopic(c, d) \in ClientTopic
BY MergeLabelsType DEF mergeTopic, ClientTopic

\* The same of a subscription, whose push attributes are merged too.
LEMMA MergeSubscriptionType ==
    ASSUME NEW c, c.Labels \in LabelMaps,
           \A x \in c.Push : x.Attributes \in LabelMaps,
           NEW d \in ClientSubscription
    PROVE  mergeSubscription(c, d) \in ClientSubscription
<1>1. \A x \in d.Push :
        (IF c.Push = {} THEN x.Attributes
         ELSE mergeLabels(The(c.Push).Attributes, x.Attributes)) \in LabelMaps
  BY TheIn, MergeLabelsType DEF ClientSubscription, PushConfig, Opt
<1>2. mergePush(c.Push, d.Push) \in Opt(PushConfig)
  BY <1>1 DEF mergePush, ClientSubscription, PushConfig, Opt
<1>3. mergeLabels(c.Labels, d.Labels) \in LabelMaps
  BY MergeLabelsType DEF ClientSubscription
<1>4. QED
  BY <1>2, <1>3 DEF mergeSubscription, ClientSubscription

-----------------------------------------------------------------------------
(* Masks. *)

\* A mask with one path, or none.
LEMMA WhenType ==
    ASSUME NEW S, NEW f \in S, NEW c
    PROVE  When(c, f) \in Seq(S)
BY DEF When

\* Masks put one after the other.
LEMMA ConcatType ==
    ASSUME NEW S, NEW a \in Seq(S), NEW b \in Seq(S)
    PROVE  a \o b \in Seq(S)
OBVIOUS

\* What is left of a list of two or more.
LEMMA TailType ==
    ASSUME NEW S, NEW a \in Seq(S), a # <<>>, Len(a) # 1
    PROVE  Tail(a) \in Seq(S) /\ Tail(a) # <<>>
<1>1. Len(a) \in Nat /\ Len(a) # 0
  BY EmptySeq, LenProperties
<1>2. Tail(a) \in Seq(S) /\ Len(Tail(a)) = Len(a) - 1
  BY HeadTailProperties
<1>3. Len(Tail(a)) # 0
  BY <1>1, <1>2
<1>4. Len(<<>>) = 0
  BY EmptySeq
<1>5. QED
  BY <1>2, <1>3, <1>4, Zenon

\* diffTopic names topic paths only.
LEMMA DiffTopicType ==
    ASSUME NEW c, NEW d
    PROVE  diffTopic(c, d) \in Seq(TopicPaths)
<1>1. "message_retention_duration" \in TopicPaths /\ "labels" \in TopicPaths
  BY DEF TopicPaths
<1>2. QED
  BY <1>1, WhenType, ConcatType, Zenon DEF diffTopic

\* diffSubscription names mutable subscription paths only.
LEMMA DiffSubscriptionType ==
    ASSUME NEW c, NEW d
    PROVE  diffSubscription(c, d) \in Seq(SubscriptionPaths)
<1>1. /\ "ack_deadline_seconds" \in SubscriptionPaths
      /\ "message_retention_duration" \in SubscriptionPaths
      /\ "retain_acked_messages" \in SubscriptionPaths
      /\ "enable_exactly_once_delivery" \in SubscriptionPaths
      /\ "expiration_policy" \in SubscriptionPaths
      /\ "labels" \in SubscriptionPaths
      /\ "push_config" \in SubscriptionPaths
      /\ "dead_letter_policy" \in SubscriptionPaths
      /\ "retry_policy" \in SubscriptionPaths
  BY DEF SubscriptionPaths
<1>2. diffScalars(c, d) \in Seq(SubscriptionPaths)
  BY <1>1, WhenType, ConcatType, Zenon DEF diffScalars
<1>3. diffMessages(c, d) \in Seq(SubscriptionPaths)
  BY <1>1, WhenType, ConcatType, Zenon DEF diffMessages
<1>4. QED
  BY <1>2, <1>3, ConcatType DEF diffSubscription

\* Applying a mask keeps a message a message of its kind.
LEMMA ApplyMaskTopic ==
    ASSUME NEW s \in TopicProto, NEW r \in TopicProto, NEW mask
    PROVE  ApplyMask(s, r, mask) \in TopicProto
BY DEF ApplyMask, TopicProto

\* The same of a subscription.
LEMMA ApplyMaskSubscription ==
    ASSUME NEW s \in SubscriptionProto, NEW r \in SubscriptionProto, NEW mask
    PROVE  ApplyMask(s, r, mask) \in SubscriptionProto
BY DEF ApplyMask, SubscriptionProto

-----------------------------------------------------------------------------
(* The resource a run stands at. *)

\* The run has a resource of its file before it.
Standing(p) ==
    /\ run[p].ti \in DOMAIN topics(p)
    /\ ~AtTopic(p) => run[p].si \in DOMAIN TopicAt(p).subscriptions

\* No key is both a topic's and a subscription's.
LEMMA KeysDiffer == TopicKeys \cap SubKeys = {}
BY DEF TopicKeys, SubKeys, TopicKey, SubKey

\* What a valid file holds where a run stands.
LEMMA StandingTypes ==
    ASSUME TypeOK, NEW p \in Provisioners, validate(cfg[p]), Standing(p)
    PROVE  /\ TopicAt(p) \in Topic
           /\ TopicAt(p).name \in ResourceNames
           /\ ~AtTopic(p) => /\ SubAt(p) \in Subscription
                             /\ SubAt(p).name \in ResourceNames
<1>1. cfg[p] \in ConfigFile
  BY DEF TypeOK
<1>2. topics(p) \in Seq(Topic) /\ TopicAt(p) \in Topic
  BY <1>1 DEF ConfigFile, topics, TopicAt, Standing
<1>3. validateTopics(topics(p))
  BY DEF validate, topics
<1>4. TopicAt(p).name \in ResourceNames
  BY <1>3 DEF validateTopics, TopicAt, Standing
<1>5. ASSUME ~AtTopic(p)
      PROVE  SubAt(p) \in Subscription /\ SubAt(p).name \in ResourceNames
  <2>1. run[p].si \in DOMAIN TopicAt(p).subscriptions
    BY <1>5 DEF Standing
  <2>2. TopicAt(p).subscriptions \in Seq(Subscription)
    BY <1>2 DEF Topic
  <2>3. validateSubscription(SubAt(p))
    BY <1>3, <2>1 DEF validateTopics, TopicAt, SubAt, Standing
  <2>4. SubAt(p) \in Subscription
    BY <2>1, <2>2 DEF SubAt
  <2>5. QED
    BY <2>3, <2>4 DEF validateSubscription
<1>6. QED
  BY <1>2, <1>4, <1>5

\* The key of the resource and the request that would create it.
LEMMA StandingRequest ==
    ASSUME TypeOK, NEW p \in Provisioners, validate(cfg[p]), Standing(p)
    PROVE  /\ Key(p) \in (IF AtTopic(p) THEN TopicKeys ELSE SubKeys)
           /\ Messages(Key(p)) = (IF AtTopic(p) THEN TopicProto
                                                ELSE SubscriptionProto)
           /\ CreateRequest(p) \in Messages(Key(p))
<1>1. TopicAt(p).name \in Texts
  BY StandingTypes, TextsAssumption
<1>2. Key(p) \in (IF AtTopic(p) THEN TopicKeys ELSE SubKeys)
  BY StandingTypes DEF Key, TopicKeys, SubKeys
<1>3. Messages(Key(p)) = (IF AtTopic(p) THEN TopicProto ELSE SubscriptionProto)
  BY <1>2, KeysDiffer DEF Messages
<1>4. CASE AtTopic(p)
  BY <1>2, <1>3, <1>4, StandingTypes, BuildTopicType, ToProtoTopicType
     DEF CreateRequest, DesiredTopic
<1>5. CASE ~AtTopic(p)
  BY <1>1, <1>2, <1>3, <1>5, StandingTypes, BuildSubscriptionType,
     ToProtoSubscriptionType, AnsweredType DEF CreateRequest, DesiredSub
<1>6. QED
  BY <1>4, <1>5

\* The request of an update.
LEMMA StandingUpdate ==
    ASSUME TypeOK, NEW p \in Provisioners, validate(cfg[p]), Standing(p),
           run[p].current # {},
           run[p].current \subseteq (IF AtTopic(p) THEN TopicProto
                                                   ELSE SubscriptionProto)
    PROVE  UpdateRequest(p) \in Messages(Key(p))
<1> DEFINE current == The(run[p].current)
<1>1. current \in (IF AtTopic(p) THEN TopicProto ELSE SubscriptionProto)
  BY TheIn
<1>2. Messages(Key(p)) = (IF AtTopic(p) THEN TopicProto ELSE SubscriptionProto)
  BY StandingRequest
<1>3. CASE AtTopic(p)
  <2>1. DesiredTopic(p) \in ClientTopic
    BY StandingTypes, BuildTopicType DEF DesiredTopic
  <2>2. mergeTopic(fromProtoTopic(current), DesiredTopic(p)) \in ClientTopic
    BY <1>1, <1>3, <2>1, FromProtoTopicType, MergeTopicType
  <2>3. QED
    BY <1>2, <1>3, <2>2, ToProtoTopicType DEF UpdateRequest
<1>4. CASE ~AtTopic(p)
  <2>1. DesiredSub(p) \in ClientSubscription
    BY <1>4, StandingTypes, TextsAssumption, BuildSubscriptionType DEF DesiredSub
  <2>2. mergeSubscription(fromProtoSubscription(current), DesiredSub(p))
            \in ClientSubscription
    BY <1>1, <1>4, <2>1, FromProtoSubscriptionLabels, MergeSubscriptionType
  <2>3. QED
    BY <1>2, <1>4, <2>2, ToProtoSubscriptionType, AnsweredType DEF UpdateRequest
<1>5. QED
  BY <1>3, <1>4

\* Storing a message under its key leaves a project.
LEMMA PutProject ==
    ASSUME NEW l, IsProject(l), NEW k \in TopicKeys \cup SubKeys,
           NEW m \in Messages(k)
    PROVE  /\ IsProject(Put(l, k, m))
           /\ DOMAIN Put(l, k, m) = DOMAIN l \cup {k}
BY DEF IsProject, Put

\* Applying a mask to a stored message leaves a message of its kind.
LEMMA ApplyMaskType ==
    ASSUME NEW k \in TopicKeys \cup SubKeys, NEW s \in Messages(k),
           NEW r \in Messages(k), NEW mask
    PROVE  ApplyMask(s, r, mask) \in Messages(k)
BY ApplyMaskTopic, ApplyMaskSubscription DEF Messages

-----------------------------------------------------------------------------
(* The steps of a run. *)

\* Each way a run goes on yields a run state.
LEMMA GoOnTypes ==
    ASSUME NEW r \in RunState
    PROVE  /\ Advance(r) \in RunState
           /\ Creating(r) \in RunState
           /\ Fail(r) \in RunState
           /\ \A e \in Events : Note(r, e) \in RunState
<1>0. /\ <<>> \in Seq(TopicPaths \cup SubscriptionPaths)
      /\ {} \in SUBSET (TopicProto \cup SubscriptionProto)
  OBVIOUS
<1>1. Advance(r) \in RunState
  <2>1. /\ (IF r.pass = "topics" THEN r.ti + 1 ELSE r.ti) \in Nat \ {0}
        /\ (IF r.pass = "subs" THEN r.si + 1 ELSE r.si) \in Nat \ {0}
    BY DEF RunState
  <2>2. QED
    BY <1>0, <2>1 DEF Advance, RunState, Running
<1>2. Creating(r) \in RunState
  BY DEF Creating, RunState, Running
<1>3. Fail(r) \in RunState
  BY <1>0 DEF Fail, RunState
<1>4. ASSUME NEW e \in Events
      PROVE  Note(r, e) \in RunState
  <2>1. r.history \cup {e} \in SUBSET Events
    BY DEF RunState
  <2>2. QED
    BY <2>1 DEF Note, RunState
<1>5. QED
  BY <1>1, <1>2, <1>3, <1>4

\* The turns of the loops.
LEMMA TurnTypes ==
    ASSUME NEW r \in RunState
    PROVE  /\ LET x == [r EXCEPT !.pass = "subs", !.ti = 1, !.si = 1]
              IN  /\ x \in RunState /\ x.pc = r.pc /\ x.pass = "subs"
                  /\ x.history = r.history
           /\ LET x == [r EXCEPT !.ti = @ + 1, !.si = 1]
              IN  /\ x \in RunState /\ x.pc = r.pc /\ x.pass = r.pass
                  /\ x.history = r.history
<1>1. 1 \in Nat \ {0} /\ r.ti + 1 \in Nat \ {0}
  BY DEF RunState
<1>2. /\ [r EXCEPT !.pass = "subs", !.ti = 1, !.si = 1] \in RunState
      /\ [r EXCEPT !.ti = @ + 1, !.si = 1] \in RunState
  BY <1>1 DEF RunState
<1>3. QED
  BY <1>2 DEF RunState

\* What a failed run still holds.
LEMMA FailFields ==
    ASSUME NEW r \in RunState
    PROVE  /\ Fail(r) \in RunState
           /\ Fail(r).pc = "failed"
           /\ Fail(r).history = r.history
BY GoOnTypes DEF Fail, RunState

\* Reporting fields of a resource yields a run state.
LEMMA WarnType ==
    ASSUME NEW r \in RunState, NEW k \in TopicKeys \cup SubKeys,
           NEW F \in SUBSET (TopicPaths \cup SubscriptionPaths \cup ImmutablePaths)
    PROVE  /\ Warn(r, k, F) \in RunState
           /\ Warn(r, k, F) = [r EXCEPT !.warned = Warn(r, k, F).warned]
BY DEF Warn, RunState

\* A run at its beginning is a run state.
LEMMA FreshType ==
    ASSUME NEW pc \in {"idle", "loop"}, NEW h \in SUBSET Events
    PROVE  Fresh(pc, h) \in RunState
BY DEF Fresh, RunState, Running

\* A run that takes no step keeps its invariant while resources are added.
LEMMA OthersKeep ==
    ASSUME NEW q \in Provisioners, RunInv(q),
           run'[q] = run[q], UNCHANGED inputs, DOMAIN live \subseteq DOMAIN live'
    PROVE  RunInv(q)'
<1>1. cfg' = cfg /\ dryRun' = dryRun
  BY DEF inputs
<1>2. /\ topics(q)' = topics(q)
      /\ TopicAt(q)' = TopicAt(q)
      /\ AtTopic(q)' = AtTopic(q)
  BY <1>1 DEF topics, TopicAt, AtTopic
<1>3. Key(q)' = Key(q)
  BY <1>2 DEF Key, SubAt
<1>4. Positioned(q)'
  BY <1>1, <1>2 DEF RunInv, Positioned
<1>5. Pending(q)'
  BY <1>2, <1>3 DEF RunInv, Pending
<1>6. TopicsSeen(q)' = TopicsSeen(q)
  BY <1>2 DEF TopicsSeen
<1>7. Prepared(q)'
  BY <1>1, <1>2, <1>6 DEF RunInv, Prepared
<1>8. QED
  BY <1>1, <1>4, <1>5, <1>7 DEF RunInv, FailedForAReason

\* A step of one provisioner that only adds resources preserves SectionInv if
\* it leaves the provisioner's own run in order.
LEMMA StepOfOne ==
    ASSUME SectionInv, NEW p \in Provisioners, NEW r \in RunState,
           Become(p, r), UNCHANGED inputs,
           IsProject(live'), DOMAIN live \subseteq DOMAIN live',
           settled' \in BOOLEAN, faults' \in 0..MaxFaults,
           edits' \in 0..MaxEdits, reruns' \in 0..MaxReruns,
           RunInv(p)'
    PROVE  SectionInv'
<1>1. run \in [Provisioners -> RunState]
  BY DEF SectionInv, TypeOK
<1>2. run' \in [Provisioners -> RunState]
  BY <1>1 DEF Become
<1>3. TypeOK'
  BY <1>2 DEF SectionInv, TypeOK, inputs
<1>4. ASSUME NEW q \in Provisioners, q # p
      PROVE  RunInv(q)'
  <2>1. run'[q] = run[q]
    BY <1>1, <1>4 DEF Become
  <2>2. QED
    BY <2>1, OthersKeep DEF SectionInv
<1>5. QED
  BY <1>3, <1>4 DEF SectionInv

\* A run that is done with the resource it stands at: if that is a topic, it
\* exists now, so the topics dealt with still exist.
LEMMA AdvanceStep ==
    ASSUME SectionInv, NEW p \in Provisioners,
           run[p].pc \in Running, Standing(p),
           NEW w \in RunState, w = [run[p] EXCEPT !.warned = w.warned],
           Become(p, Advance(w)), UNCHANGED inputs,
           DOMAIN live \subseteq DOMAIN live',
           AtTopic(p) /\ ~dryRun[p] /\ "deleted" \notin run[p].history
                => Key(p) \in DOMAIN live'
    PROVE  RunInv(p)'
<1>1. run \in [Provisioners -> RunState] /\ run[p] \in RunState
  BY DEF SectionInv, TypeOK
<1>2. /\ run'[p] = Advance(w)
      /\ cfg' = cfg /\ dryRun' = dryRun
  BY <1>1 DEF Become, inputs
<1>3. /\ w.pass = run[p].pass /\ w.ti = run[p].ti /\ w.history = run[p].history
  BY <1>1 DEF RunState
<1>4. /\ run'[p].pc = "loop"
      /\ run'[p].pass = run[p].pass
      /\ run'[p].ti = (IF run[p].pass = "topics" THEN run[p].ti + 1 ELSE run[p].ti)
      /\ run'[p].history = run[p].history
  BY <1>2, <1>3 DEF Advance, RunState
<1>5. topics(p)' = topics(p) /\ AtTopic(p)' = AtTopic(p)
  BY <1>2, <1>4 DEF topics, AtTopic
<1>6. Prepared(p)'
  <2>1. SUFFICES ASSUME ~dryRun[p], "deleted" \notin run[p].history,
                        NEW i \in TopicsSeen(p)'
                 PROVE  TopicKey(topics(p)[i].name) \in DOMAIN live'
    BY <1>2, <1>4, <1>5 DEF Prepared
  <2>2. i \in DOMAIN topics(p) /\ (AtTopic(p) => i < run[p].ti + 1)
    BY <1>4, <1>5 DEF TopicsSeen, AtTopic
  <2>3. CASE i \in TopicsSeen(p)
    BY <2>1, <2>3 DEF SectionInv, RunInv, Prepared
  <2>4. CASE i \notin TopicsSeen(p)
    <3>1. cfg[p] \in ConfigFile
      BY DEF SectionInv, TypeOK
    <3>2. DOMAIN topics(p) = 1..Len(topics(p)) /\ run[p].ti \in Nat
      BY <1>1, <3>1 DEF ConfigFile, topics, RunState
    <3>3. AtTopic(p) /\ i = run[p].ti
      BY <2>2, <2>4, <3>2 DEF TopicsSeen
    <3>4. QED
      BY <2>1, <3>3 DEF Key, TopicAt
  <2>5. QED
    BY <2>3, <2>4
<1>7. QED
  BY <1>2, <1>4, <1>6
     DEF SectionInv, RunInv, Positioned, Pending, FailedForAReason

\* A run that fails for an outside reason.
LEMMA FailStep ==
    ASSUME SectionInv, NEW p \in Provisioners, NEW w \in RunState,
           w.history \cap {"interrupted", "deleted"} # {}, w.pc = "failed",
           Become(p, w), UNCHANGED inputs
    PROVE  RunInv(p)'
<1>1. run \in [Provisioners -> RunState]
  BY DEF SectionInv, TypeOK
<1>2. run'[p] = w /\ cfg' = cfg
  BY <1>1 DEF Become, inputs
<1>3. QED
  BY <1>2 DEF SectionInv, RunInv, Positioned, Pending, Prepared,
              FailedForAReason, Running

\* A run that has something to send for the resource it stands at.
LEMMA SendStep ==
    ASSUME SectionInv, NEW p \in Provisioners,
           run[p].pc \in Running, Standing(p), ~dryRun[p],
           NEW w \in RunState,
           w.pass = run[p].pass, w.ti = run[p].ti, w.si = run[p].si,
           w.history = run[p].history,
           w.pc \in {"create", "batch", "split"},
           w.pc \in {"batch", "split"} =>
              /\ w.todo # <<>>
              /\ w.todo \in Seq(IF AtTopic(p) THEN TopicPaths
                                              ELSE SubscriptionPaths)
              /\ w.current # {}
              /\ w.current \subseteq (IF AtTopic(p) THEN TopicProto
                                                    ELSE SubscriptionProto)
              /\ "deleted" \notin run[p].history => Key(p) \in DOMAIN live',
           Become(p, w), UNCHANGED inputs, DOMAIN live \subseteq DOMAIN live'
    PROVE  RunInv(p)'
<1>1. run \in [Provisioners -> RunState]
  BY DEF SectionInv, TypeOK
<1>2. run'[p] = w /\ cfg' = cfg /\ dryRun' = dryRun
  BY <1>1 DEF Become, inputs
<1>3. /\ topics(p)' = topics(p)
      /\ TopicAt(p)' = TopicAt(p)
      /\ AtTopic(p)' = AtTopic(p)
  BY <1>2 DEF topics, TopicAt, AtTopic
<1>4. Key(p)' = Key(p)
  BY <1>2, <1>3 DEF Key, SubAt
<1>5. Positioned(p)'
  BY <1>2, <1>3 DEF Positioned, Standing
<1>6. Pending(p)'
  BY <1>2, <1>3, <1>4 DEF Pending
<1>7. TopicsSeen(p)' = TopicsSeen(p)
  BY <1>2, <1>3 DEF TopicsSeen
<1>8. Prepared(p)'
  BY <1>2, <1>3, <1>7 DEF SectionInv, RunInv, Prepared
<1>9. QED
  BY <1>2, <1>5, <1>6, <1>8 DEF SectionInv, RunInv, FailedForAReason

-----------------------------------------------------------------------------
(* The actions. *)

\* A fresh fleet with valid files satisfies the inductive invariant.
LEMMA InitInv == Init => SectionInv
<1> SUFFICES ASSUME Init PROVE SectionInv
  OBVIOUS
<1>1. /\ IsProject(live) /\ endpoint \in Endpoint
      /\ cfg \in [Provisioners -> ConfigFile]
      /\ dryRun \in [Provisioners -> BOOLEAN]
      /\ faults \in 0..MaxFaults /\ edits \in 0..MaxEdits
      /\ reruns \in 0..MaxReruns
  BY SectionAssumption DEF Init
<1>2. run \in [Provisioners -> RunState]
  BY FreshType DEF Init
<1>3. TypeOK
  BY <1>1, <1>2 DEF TypeOK, Init
<1>4. ASSUME NEW p \in Provisioners PROVE RunInv(p)
  <2>1. run[p].pc = "idle" /\ validate(cfg[p])
    BY DEF Init, Fresh
  <2>2. QED
    BY <2>1 DEF RunInv, Positioned, Pending, Prepared, FailedForAReason, Running
<1>5. QED
  BY <1>3, <1>4 DEF SectionInv

\* What every step of p may take for granted.
LEMMA Given ==
    ASSUME SectionInv, NEW p \in Provisioners
    PROVE  /\ TypeOK /\ RunInv(p) /\ validate(cfg[p])
           /\ run \in [Provisioners -> RunState] /\ run[p] \in RunState
           /\ IsProject(live)
           /\ settled \in BOOLEAN /\ faults \in 0..MaxFaults
           /\ edits \in 0..MaxEdits /\ reruns \in 0..MaxReruns
           /\ DOMAIN topics(p) = 1..Len(topics(p))
           /\ Len(topics(p)) \in Nat
BY DEF SectionInv, TypeOK, RunInv, ConfigFile, topics

\* A run that starts afresh.
LEMMA BeginStep ==
    ASSUME SectionInv, NEW p \in Provisioners,
           Become(p, Fresh("loop", IF settled THEN {"repeat"} ELSE {})),
           UNCHANGED <<live, inputs, settled, faults, edits>>,
           reruns' \in 0..MaxReruns
    PROVE  SectionInv'
<1> DEFINE r == Fresh("loop", IF settled THEN {"repeat"} ELSE {})
<1>1. r \in RunState
  BY FreshType DEF Events
<1>2. run'[p] = r /\ cfg' = cfg
  BY Given DEF Become, inputs
<1>3. /\ run'[p].pc = "loop" /\ run'[p].pass = "topics" /\ run'[p].ti = 1
  BY <1>2 DEF Fresh
<1>4. TopicsSeen(p)' = {}
  <2>1. DOMAIN topics(p)' = 1..Len(topics(p))
    BY <1>2, Given DEF topics
  <2>2. QED
    BY <1>3, <2>1 DEF TopicsSeen, AtTopic
<1>5. RunInv(p)'
  BY <1>2, <1>3, <1>4, Given
     DEF RunInv, Positioned, Pending, Prepared, FailedForAReason
<1>6. QED
  BY <1>1, <1>5, Given, StepOfOne

\* Starting a run preserves it.
LEMMA StartInv ==
    ASSUME SectionInv, NEW p \in Provisioners, Start(p)
    PROVE  SectionInv'
BY Given, BeginStep DEF Start, Begin, bounds

\* Starting a run once more preserves it.
LEMMA RerunInv ==
    ASSUME SectionInv, NEW p \in Provisioners, Rerun(p)
    PROVE  SectionInv'
<1>1. reruns' \in 0..MaxReruns
  BY Given, SectionAssumption DEF Rerun
<1>2. QED
  BY <1>1, BeginStep DEF Rerun, Begin

\* Where ensureTopic and ensureSubscription read.
LEMMA StandsAtGet ==
    ASSUME SectionInv, NEW p \in Provisioners,
           run[p].ti <= Len(topics(p)),
           ~AtTopic(p) => run[p].si <= Len(TopicAt(p).subscriptions)
    PROVE  Standing(p)
<1>1. run[p].ti \in DOMAIN topics(p)
  BY Given DEF RunState
<1>2. TopicAt(p) \in Topic
  BY <1>1 DEF SectionInv, TypeOK, ConfigFile, topics, TopicAt
<1>3. TopicAt(p).subscriptions \in Seq(Subscription)
  BY <1>2 DEF Topic
<1>4. QED
  BY <1>1, <1>3, Given DEF Standing, RunState

\* A run that leaves the resource it stands at as it is.
LEMMA LeaveStep ==
    ASSUME SectionInv, NEW p \in Provisioners,
           run[p].pc = "loop", Standing(p),
           NEW w \in RunState, w = [run[p] EXCEPT !.warned = w.warned],
           Become(p, Advance(w)), UNCHANGED <<live, inputs, settled, bounds>>,
           dryRun[p] \/ Key(p) \in DOMAIN live
    PROVE  SectionInv'
<1>1. RunInv(p)'
  BY AdvanceStep DEF Running
<1>2. QED
  BY <1>1, Given, GoOnTypes, StepOfOne DEF bounds

\* A run that goes on to create the resource it stands at.
LEMMA CreatingStep ==
    ASSUME SectionInv, NEW p \in Provisioners,
           run[p].pc = "loop", Standing(p), ~dryRun[p],
           Become(p, Creating(run[p])), UNCHANGED <<live, inputs, settled, bounds>>
    PROVE  SectionInv'
<1>1. Creating(run[p]) \in RunState
  BY Given, GoOnTypes
<1>2. /\ Creating(run[p]).pc = "create"
      /\ Creating(run[p]).pass = run[p].pass
      /\ Creating(run[p]).ti = run[p].ti /\ Creating(run[p]).si = run[p].si
      /\ Creating(run[p]).history = run[p].history
  BY Given DEF Creating, RunState
<1>3. RunInv(p)'
  BY <1>1, <1>2, SendStep DEF Running
<1>4. QED
  BY <1>1, <1>3, Given, StepOfOne DEF bounds

\* A run that goes on to update the resource it stands at.
LEMMA UpdatingStep ==
    ASSUME SectionInv, NEW p \in Provisioners,
           run[p].pc = "loop", Standing(p), ~dryRun[p], Key(p) \in DOMAIN live,
           NEW w \in RunState, w = [run[p] EXCEPT !.warned = w.warned],
           NEW mask \in Seq(IF AtTopic(p) THEN TopicPaths ELSE SubscriptionPaths),
           mask # <<>>,
           Become(p, Updating(w, live[Key(p)], mask)),
           UNCHANGED <<live, inputs, settled, bounds>>
    PROVE  SectionInv'
<1> DEFINE r == Updating(w, live[Key(p)], mask)
<1>1. live[Key(p)] \in (IF AtTopic(p) THEN TopicProto ELSE SubscriptionProto)
  BY Given, StandingRequest DEF IsProject
<1>2. mask \in Seq(TopicPaths \cup SubscriptionPaths)
  OBVIOUS
<1>3. r \in RunState
  BY <1>1, <1>2 DEF Updating, RunState, Running
<1>4. /\ r.pc = "batch" /\ r.current = {live[Key(p)]} /\ r.todo = mask
      /\ r.pass = run[p].pass /\ r.ti = run[p].ti /\ r.si = run[p].si
      /\ r.history = run[p].history
  BY Given DEF Updating, RunState
<1>5. RunInv(p)'
  BY <1>1, <1>3, <1>4, SendStep DEF Running
<1>6. QED
  BY <1>3, <1>5, Given, StepOfOne DEF bounds

\* ensureTopic preserves it, in each of the ways its read can end.
LEMMA EnsureTopicInv ==
    ASSUME SectionInv, NEW p \in Provisioners, ensureTopic(p)
    PROVE  SectionInv'
<1>1. /\ run[p].pc = "loop" /\ AtTopic(p)
      /\ UNCHANGED <<live, inputs, settled, bounds>>
  BY DEF ensureTopic
<1>2. Standing(p)
  BY StandsAtGet DEF ensureTopic
<1>3. run[p] \in RunState /\ run[p] = [run[p] EXCEPT !.warned = run[p].warned]
  BY Given DEF RunState
<1>4. CASE Key(p) \notin DOMAIN live
  <2>1. CASE dryRun[p]
    BY <1>1, <1>2, <1>3, <1>4, <2>1, LeaveStep DEF ensureTopic
  <2>2. CASE ~dryRun[p]
    BY <1>1, <1>2, <1>4, <2>2, CreatingStep DEF ensureTopic
  <2>3. QED
    BY <2>1, <2>2
<1>5. CASE Key(p) \in DOMAIN live
  <2> DEFINE mask == IF Strategy(p) = "create" THEN <<>>
                     ELSE diffTopic(fromProtoTopic(live[Key(p)]), DesiredTopic(p))
  <2>1. mask \in Seq(TopicPaths)
    BY DiffTopicType
  <2>2. Become(p, IF mask = <<>> \/ dryRun[p] THEN Advance(run[p])
                  ELSE Updating(run[p], live[Key(p)], mask))
    BY <1>5 DEF ensureTopic
  <2>3. CASE mask = <<>> \/ dryRun[p]
    BY <1>1, <1>2, <1>3, <1>5, <2>2, <2>3, LeaveStep
  <2>4. CASE ~(mask = <<>> \/ dryRun[p])
    BY <1>1, <1>2, <1>3, <1>5, <2>1, <2>2, <2>4, UpdatingStep
  <2>5. QED
    BY <2>3, <2>4
<1>6. QED
  BY <1>4, <1>5

\* ensureSubscription preserves it, in each of the ways its read can end.
LEMMA EnsureSubscriptionInv ==
    ASSUME SectionInv, NEW p \in Provisioners, ensureSubscription(p)
    PROVE  SectionInv'
<1>1. /\ run[p].pc = "loop" /\ ~AtTopic(p)
      /\ UNCHANGED <<live, inputs, settled, bounds>>
  BY DEF ensureSubscription
<1>2. Standing(p)
  BY StandsAtGet DEF ensureSubscription
<1>3. run[p] \in RunState /\ run[p] = [run[p] EXCEPT !.warned = run[p].warned]
  BY Given DEF RunState
<1>4. CASE Key(p) \notin DOMAIN live
  <2>1. CASE dryRun[p]
    BY <1>1, <1>2, <1>3, <1>4, <2>1, LeaveStep DEF ensureSubscription
  <2>2. CASE ~dryRun[p]
    BY <1>1, <1>2, <1>4, <2>2, CreatingStep DEF ensureSubscription
  <2>3. QED
    BY <2>1, <2>2
<1>5. CASE Key(p) \in DOMAIN live /\ Strategy(p) = "create"
  <2>1. Become(p, Advance(run[p]))
    BY <1>5 DEF ensureSubscription
  <2>2. QED
    BY <1>1, <1>2, <1>3, <1>5, <2>1, LeaveStep
<1>6. CASE Key(p) \in DOMAIN live /\ Strategy(p) # "create"
  <2> DEFINE current  == fromProtoSubscription(live[Key(p)])
             drift    == immutableDrift(current, DesiredSub(p))
             reported == Warn(run[p], Key(p), drift)
             mask     == diffSubscription(current, DesiredSub(p))
  <2>1. mask \in Seq(SubscriptionPaths)
    BY DiffSubscriptionType
  <2>2. drift \in SUBSET (TopicPaths \cup SubscriptionPaths \cup ImmutablePaths)
    BY DEF immutableDrift
  <2>3. /\ reported \in RunState
        /\ reported = [run[p] EXCEPT !.warned = reported.warned]
    <3>1. Key(p) \in TopicKeys \cup SubKeys
      BY <1>2, Given, StandingRequest
    <3>2. QED
      BY <1>3, <2>2, <3>1, WarnType
  <2>4. Become(p, IF mask = <<>> \/ dryRun[p] THEN Advance(reported)
                  ELSE Updating(reported, live[Key(p)], mask))
    BY <1>6 DEF ensureSubscription
  <2> HIDE DEF reported, mask
  <2>5. CASE mask = <<>> \/ dryRun[p]
    BY <1>1, <1>2, <1>6, <2>3, <2>4, <2>5, LeaveStep
  <2>6. CASE ~(mask = <<>> \/ dryRun[p])
    BY <1>1, <1>2, <1>6, <2>1, <2>3, <2>4, <2>6, UpdatingStep
  <2>7. QED
    BY <2>5, <2>6
<1>7. QED
  BY <1>4, <1>5, <1>6

\* The topics a request names exist: the run's own topic and the dead letter
\* topics, which a valid file declares, are among the topics dealt with.
LEMMA NamedTopicsExist ==
    ASSUME SectionInv, NEW p \in Provisioners,
           run[p].pc \in {"create", "batch", "split"}, ~AtTopic(p),
           "deleted" \notin run[p].history
    PROVE  NamedTopics(CreateRequest(p)) \subseteq DOMAIN live
<1>1. Standing(p) /\ ~dryRun[p]
  BY Given DEF RunInv, Positioned, Standing
<1>2. \A i \in DOMAIN topics(p) : TopicKey(topics(p)[i].name) \in DOMAIN live
  BY <1>1, Given DEF RunInv, Prepared, Running, TopicsSeen
<1>3. /\ CreateRequest(p).topic = TopicAt(p).name
      /\ CreateRequest(p).dead_letter_policy =
            {[dead_letter_topic     |-> x.Topic,
              max_delivery_attempts |-> x.MaxDeliveryAttempts] :
                x \in {[Topic |-> d.topic,
                        MaxDeliveryAttempts |-> d.max_delivery_attempts] :
                          d \in SubAt(p).dead_letter}}
  BY DEF CreateRequest, DesiredSub, buildSubscription, toProtoSubscription, Answered
<1>4. TopicKey(CreateRequest(p).topic) \in DOMAIN live
  BY <1>1, <1>2, <1>3 DEF Standing, TopicAt
<1>5. ASSUME NEW d \in SubAt(p).dead_letter
      PROVE  TopicKey(d.topic) \in DOMAIN live
  <2>1. validateDeadLetterTargets(topics(p))
    BY Given DEF validate, validateTopics, topics
  <2>2. \E k \in DOMAIN topics(p) : topics(p)[k].name = d.topic
    BY <1>1, <2>1 DEF validateDeadLetterTargets, Standing, SubAt, TopicAt
  <2>3. QED
    BY <1>2, <2>2
<1>6. \A x \in CreateRequest(p).dead_letter_policy :
         \E d \in SubAt(p).dead_letter : x.dead_letter_topic = d.topic
  BY <1>3
<1>7. QED
  BY <1>4, <1>5, <1>6 DEF NamedTopics, DeadLetterTopics

\* Storing what a run creates.
LEMMA CreateEffect ==
    ASSUME SectionInv, NEW p \in Provisioners, run[p].pc = "create",
           live' = Put(live, Key(p), CreateRequest(p))
    PROVE  /\ IsProject(live')
           /\ DOMAIN live' = DOMAIN live \cup {Key(p)}
<1>1. Standing(p)
  BY Given DEF RunInv, Positioned, Standing
<1>2. Key(p) \in TopicKeys \cup SubKeys /\ CreateRequest(p) \in Messages(Key(p))
  BY <1>1, Given, StandingRequest
<1>3. QED
  BY <1>2, Given, PutProject

\* Storing what a run updates.
LEMMA UpdateStored ==
    ASSUME SectionInv, NEW p \in Provisioners, run[p].pc \in {"batch", "split"},
           Reply(p) = "ok",
           live' = UpdateEffect(live, Key(p), UpdateRequest(p), Mask(p))
    PROVE  /\ IsProject(live')
           /\ Key(p) \in DOMAIN live
           /\ DOMAIN live' = DOMAIN live
<1>1. Standing(p)
  BY Given DEF RunInv, Positioned, Standing
<1>2. Key(p) \in TopicKeys \cup SubKeys
  BY <1>1, Given, StandingRequest
<1>3. UpdateRequest(p) \in Messages(Key(p))
  BY <1>1, Given, StandingUpdate DEF RunInv, Pending
<1>4. Key(p) \in DOMAIN live
  BY DEF Reply, UpdateReply
<1>5. live[Key(p)] \in Messages(Key(p))
  BY <1>4, Given DEF IsProject
<1>6. ApplyMask(live[Key(p)], UpdateRequest(p), Mask(p)) \in Messages(Key(p))
  BY <1>2, <1>3, <1>5, ApplyMaskType
<1>7. /\ IsProject(live')
      /\ DOMAIN live' = DOMAIN live \cup {Key(p)}
  BY <1>2, <1>6, Given, PutProject DEF UpdateEffect
<1>8. QED
  BY <1>4, <1>7

\* create preserves it: an error reply has an outside reason.
LEMMA CreateInv ==
    ASSUME SectionInv, NEW p \in Provisioners, create(p)
    PROVE  SectionInv'
<1>1. run[p].pc = "create" /\ UNCHANGED <<inputs, settled, bounds>>
  BY DEF create
<1>2. Standing(p)
  BY <1>1, Given DEF RunInv, Positioned, Standing
<1>3. run[p] \in RunState /\ run[p] = [run[p] EXCEPT !.warned = run[p].warned]
  BY Given DEF RunState
<1>4. CASE CreateCall(p) = "ok"
  <2>1. live' = Put(live, Key(p), CreateRequest(p)) /\ Become(p, Advance(run[p]))
    BY <1>4 DEF create
  <2>2. IsProject(live') /\ DOMAIN live' = DOMAIN live \cup {Key(p)}
    BY <1>1, <2>1, CreateEffect
  <2>3. RunInv(p)'
    BY <1>1, <1>2, <1>3, <2>1, <2>2, AdvanceStep DEF Running
  <2>4. QED
    BY <1>1, <1>3, <2>1, <2>2, <2>3, Given, GoOnTypes, StepOfOne DEF bounds
<1>5. CASE CreateCall(p) = "exists"
  <2>1. live' = live /\ Become(p, Advance(run[p]))
    BY <1>5 DEF create
  <2>2. Key(p) \in DOMAIN live
    BY <1>5 DEF CreateCall, CreateReply
  <2>3. RunInv(p)'
    BY <1>1, <1>2, <1>3, <2>1, <2>2, AdvanceStep DEF Running
  <2>4. QED
    BY <1>1, <1>3, <2>1, <2>3, Given, GoOnTypes, StepOfOne DEF bounds
<1>6. CASE CreateCall(p) = "error"
  <2>1. live' = live /\ Become(p, Fail(run[p]))
    BY <1>6 DEF create
  <2>2. /\ Key(p) \in SubKeys
        /\ ~(NamedTopics(CreateRequest(p)) \subseteq DOMAIN live)
    BY <1>6 DEF CreateCall, CreateReply
  <2>3. ~AtTopic(p)
    BY <1>2, <2>2, Given, StandingRequest, KeysDiffer
  <2>4. "deleted" \in run[p].history
    BY <1>1, <2>2, <2>3, NamedTopicsExist
  <2>5. /\ Fail(run[p]) \in RunState
        /\ Fail(run[p]).pc = "failed"
        /\ Fail(run[p]).history = run[p].history
    BY <1>3, FailFields
  <2>6. RunInv(p)'
    BY <1>1, <2>1, <2>4, <2>5, FailStep
  <2>7. QED
    BY <1>1, <2>1, <2>5, <2>6, Given, StepOfOne DEF bounds
<1>7. QED
  BY <1>4, <1>5, <1>6 DEF create

\* What a run that updates knows of its mask.
LEMMA MaskPaths ==
    ASSUME SectionInv, NEW p \in Provisioners, run[p].pc \in {"batch", "split"}
    PROVE  Mask(p) \subseteq (IF AtTopic(p) THEN TopicPaths ELSE SubscriptionPaths)
<1> DEFINE P == IF AtTopic(p) THEN TopicPaths ELSE SubscriptionPaths
<1>1. run[p].todo \in Seq(P) /\ run[p].todo # <<>>
  BY Given DEF RunInv, Pending
<1>2. \A i \in DOMAIN run[p].todo : run[p].todo[i] \in P
  BY <1>1
<1>3. Head(run[p].todo) \in P
  BY <1>1
<1>4. QED
  BY <1>2, <1>3 DEF Mask

\* An update is answered with an error only if somebody deleted a resource.
LEMMA UpdateErrorMeansDeleted ==
    ASSUME SectionInv, NEW p \in Provisioners, run[p].pc \in {"batch", "split"},
           Reply(p) = "error"
    PROVE  "deleted" \in run[p].history
<1> SUFFICES ASSUME "deleted" \notin run[p].history PROVE FALSE
  OBVIOUS
<1>1. Key(p) \in DOMAIN live
  BY Given DEF RunInv, Pending
<1>2. Mask(p) \cap ImmutablePaths = {}
  BY MaskPaths DEF TopicPaths, SubscriptionPaths, ImmutablePaths
<1>3. /\ "dead_letter_policy" \in Mask(p)
      /\ ~(DeadLetterTopics(UpdateRequest(p)) \subseteq DOMAIN live)
  BY <1>1, <1>2 DEF Reply, UpdateReply
<1>4. ~AtTopic(p)
  BY <1>3, MaskPaths DEF TopicPaths
<1>5. UpdateRequest(p).dead_letter_policy = CreateRequest(p).dead_letter_policy
  BY <1>4 DEF UpdateRequest, CreateRequest, mergeSubscription,
              toProtoSubscription, DesiredSub, buildSubscription, Answered
<1>6. DeadLetterTopics(UpdateRequest(p)) \subseteq DOMAIN live
  BY <1>4, <1>5, NamedTopicsExist DEF NamedTopics, DeadLetterTopics
<1>7. QED
  BY <1>3, <1>6

\* A run that is told an error fails.
LEMMA UpdateErrorStep ==
    ASSUME SectionInv, NEW p \in Provisioners, run[p].pc \in {"batch", "split"},
           Reply(p) = "error", Become(p, Fail(run[p])),
           UNCHANGED <<live, inputs, settled, bounds>>
    PROVE  SectionInv'
<1>1. "deleted" \in run[p].history
  BY UpdateErrorMeansDeleted
<1>2. /\ Fail(run[p]) \in RunState
      /\ Fail(run[p]).pc = "failed"
      /\ Fail(run[p]).history = run[p].history
  BY Given, FailFields
<1>3. RunInv(p)'
  BY <1>1, <1>2, FailStep
<1>4. QED
  BY <1>2, <1>3, Given, StepOfOne DEF bounds

\* A run that is done with the update it was sending.
LEMMA UpdatedStep ==
    ASSUME SectionInv, NEW p \in Provisioners, run[p].pc \in {"batch", "split"},
           NEW w \in RunState, w = [run[p] EXCEPT !.warned = w.warned],
           Become(p, Advance(w)), UNCHANGED <<inputs, settled, bounds>>,
           IsProject(live'), DOMAIN live' = DOMAIN live
    PROVE  SectionInv'
<1>1. Standing(p)
  BY Given DEF RunInv, Positioned, Standing
<1>2. "deleted" \notin run[p].history => Key(p) \in DOMAIN live
  BY Given DEF RunInv, Pending
<1>3. RunInv(p)'
  BY <1>1, <1>2, AdvanceStep DEF Running
<1>4. QED
  BY <1>3, Given, GoOnTypes, StepOfOne DEF bounds

\* A run that has paths left to send.
LEMMA PathsLeftStep ==
    ASSUME SectionInv, NEW p \in Provisioners, run[p].pc \in {"batch", "split"},
           NEW w \in RunState, w.pc = "split",
           w.pass = run[p].pass, w.ti = run[p].ti, w.si = run[p].si,
           w.history = run[p].history, w.current = run[p].current,
           w.todo # <<>>,
           w.todo \in Seq(IF AtTopic(p) THEN TopicPaths ELSE SubscriptionPaths),
           Become(p, w), UNCHANGED <<inputs, settled, bounds>>,
           IsProject(live'), DOMAIN live' = DOMAIN live
    PROVE  SectionInv'
<1>1. Standing(p) /\ ~dryRun[p]
  BY Given DEF RunInv, Positioned, Standing
<1>2. RunInv(p)'
  BY <1>1, Given, SendStep DEF RunInv, Pending, Running
<1>3. QED
  BY <1>2, Given, StepOfOne DEF bounds

\* Reporting the refused paths changes nothing but the warnings.
LEMMA ReportPaths ==
    ASSUME SectionInv, NEW p \in Provisioners, run[p].pc \in {"batch", "split"}
    PROVE  /\ Warn(run[p], Key(p), Mask(p)) \in RunState
           /\ Warn(run[p], Key(p), Mask(p)) =
                [run[p] EXCEPT !.warned = Warn(run[p], Key(p), Mask(p)).warned]
<1>1. Standing(p)
  BY Given DEF RunInv, Positioned, Standing
<1>2. Key(p) \in TopicKeys \cup SubKeys
  BY <1>1, Given, StandingRequest
<1>3. Mask(p) \in SUBSET (TopicPaths \cup SubscriptionPaths \cup ImmutablePaths)
  BY MaskPaths
<1>4. QED
  BY <1>2, <1>3, Given, WarnType

\* The first call of applyPaths preserves it.
LEMMA ApplyBatchInv ==
    ASSUME SectionInv, NEW p \in Provisioners, applyBatch(p)
    PROVE  SectionInv'
<1>1. run[p].pc = "batch" /\ UNCHANGED <<inputs, settled, bounds>>
  BY DEF applyBatch
<1>2. run[p] \in RunState /\ run[p] = [run[p] EXCEPT !.warned = run[p].warned]
  BY Given DEF RunState
<1>3. CASE Reply(p) = "ok"
  <2>1. /\ live' = UpdateEffect(live, Key(p), UpdateRequest(p), Mask(p))
        /\ Become(p, Advance(run[p]))
    BY <1>3 DEF applyBatch
  <2>2. IsProject(live') /\ DOMAIN live' = DOMAIN live
    BY <1>1, <1>3, <2>1, UpdateStored
  <2>3. QED
    BY <1>1, <1>2, <2>1, <2>2, UpdatedStep
<1>4. CASE Reply(p) = "error"
  BY <1>1, <1>4, UpdateErrorStep DEF applyBatch
<1>5. CASE Reply(p) = "unsupported"
  <2>1. live' = live /\ IsProject(live')
    BY <1>5, Given DEF applyBatch
  <2>2. CASE Len(run[p].todo) = 1
    <3>1. Become(p, Advance(Warn(run[p], Key(p), Mask(p))))
      BY <1>5, <2>2 DEF applyBatch
    <3>2. QED
      BY <1>1, <2>1, <3>1, ReportPaths, UpdatedStep
  <2>3. CASE Len(run[p].todo) # 1
    <3> DEFINE w == [run[p] EXCEPT !.pc = "split"]
    <3>1. Become(p, w)
      BY <1>5, <2>3 DEF applyBatch
    <3>2. /\ w \in RunState /\ w.pc = "split"
          /\ w.pass = run[p].pass /\ w.ti = run[p].ti /\ w.si = run[p].si
          /\ w.history = run[p].history /\ w.current = run[p].current
          /\ w.todo = run[p].todo
      BY <1>2 DEF RunState, Running
    <3>3. /\ w.todo # <<>>
          /\ w.todo \in Seq(IF AtTopic(p) THEN TopicPaths ELSE SubscriptionPaths)
      BY <1>1, <3>2, Given DEF RunInv, Pending
    <3> HIDE DEF w
    <3>4. QED
      BY <1>1, <2>1, <3>1, <3>2, <3>3, PathsLeftStep
  <2>4. QED
    BY <2>2, <2>3
<1>6. QED
  BY <1>3, <1>4, <1>5 DEF applyBatch

\* The next path, or the next resource.
LEMMA NextPathStep ==
    ASSUME SectionInv, NEW p \in Provisioners, run[p].pc = "split",
           NEW w \in RunState, w = [run[p] EXCEPT !.warned = w.warned],
           Become(p, NextPath(w)), UNCHANGED <<inputs, settled, bounds>>,
           IsProject(live'), DOMAIN live' = DOMAIN live
    PROVE  SectionInv'
<1>1. /\ w.pc = "split" /\ w.pass = run[p].pass /\ w.ti = run[p].ti
      /\ w.si = run[p].si /\ w.history = run[p].history
      /\ w.current = run[p].current /\ w.todo = run[p].todo
  BY Given DEF RunState
<1>2. CASE Len(w.todo) = 1
  BY <1>2, UpdatedStep DEF NextPath
<1>3. CASE Len(w.todo) # 1
  <2> DEFINE P == IF AtTopic(p) THEN TopicPaths ELSE SubscriptionPaths
             x == [w EXCEPT !.todo = Tail(w.todo)]
  <2>1. w.todo \in Seq(P) /\ w.todo # <<>>
    BY <1>1, Given DEF RunInv, Pending
  <2>2. Tail(w.todo) \in Seq(P) /\ Tail(w.todo) # <<>>
    BY <1>3, <2>1, TailType
  <2>3. Tail(w.todo) \in Seq(TopicPaths \cup SubscriptionPaths)
    BY <1>3, <2>1, TailType DEF RunState
  <2>4. /\ x \in RunState /\ x.pc = "split"
        /\ x.pass = run[p].pass /\ x.ti = run[p].ti /\ x.si = run[p].si
        /\ x.history = run[p].history /\ x.current = run[p].current
        /\ x.todo = Tail(w.todo)
    BY <1>1, <2>3 DEF RunState
  <2>5. Become(p, x)
    BY <1>3 DEF NextPath
  <2> HIDE DEF x
  <2>6. QED
    BY <2>2, <2>4, <2>5, PathsLeftStep
<1>4. QED
  BY <1>2, <1>3

\* The calls for single paths preserve it.
LEMMA ApplyPathInv ==
    ASSUME SectionInv, NEW p \in Provisioners, applyPath(p)
    PROVE  SectionInv'
<1>1. run[p].pc = "split" /\ UNCHANGED <<inputs, settled, bounds>>
  BY DEF applyPath
<1>2. run[p] \in RunState /\ run[p] = [run[p] EXCEPT !.warned = run[p].warned]
  BY Given DEF RunState
<1>3. CASE Reply(p) = "ok"
  <2>1. /\ live' = UpdateEffect(live, Key(p), UpdateRequest(p), Mask(p))
        /\ Become(p, NextPath(run[p]))
    BY <1>3 DEF applyPath
  <2>2. IsProject(live') /\ DOMAIN live' = DOMAIN live
    BY <1>1, <1>3, <2>1, UpdateStored
  <2>3. QED
    BY <1>1, <1>2, <2>1, <2>2, NextPathStep
<1>4. CASE Reply(p) = "error"
  BY <1>1, <1>4, UpdateErrorStep DEF applyPath
<1>5. CASE Reply(p) = "unsupported"
  <2>1. /\ live' = live /\ IsProject(live')
        /\ Become(p, NextPath(Warn(run[p], Key(p), Mask(p))))
    BY <1>5, Given DEF applyPath
  <2>2. QED
    BY <1>1, <2>1, ReportPaths, NextPathStep
<1>6. QED
  BY <1>3, <1>4, <1>5 DEF applyPath

\* The ends of the loops preserve it.
LEMMA LoopInv ==
    ASSUME SectionInv, NEW p \in Provisioners,
           topicsDone(p) \/ subscriptionsDone(p) \/ sectionDone(p)
    PROVE  SectionInv'
<1> DEFINE r == run'[p]
<1>1. /\ run[p].pc = "loop" /\ live' = live /\ UNCHANGED <<inputs, bounds>>
      /\ settled' \in BOOLEAN
  BY Given DEF topicsDone, subscriptionsDone, sectionDone
<1>2. /\ r \in RunState /\ r.pc \in {"loop", "ok"} /\ r.pass = "subs"
      /\ r.history = run[p].history
      /\ run' = [run EXCEPT ![p] = r]
  <2>1. CASE topicsDone(p)
    <3> DEFINE x == [run[p] EXCEPT !.pass = "subs", !.ti = 1, !.si = 1]
    <3>1. run[p] \in RunState /\ run \in [Provisioners -> RunState]
      BY Given
    <3>2. /\ x \in RunState /\ x.pc = run[p].pc /\ x.pass = "subs"
          /\ x.history = run[p].history
      BY <3>1, TurnTypes
    <3>3. run' = [run EXCEPT ![p] = x] /\ run[p].pc = "loop"
      BY <2>1 DEF topicsDone, Become
    <3> HIDE DEF x
    <3>4. QED
      BY <3>1, <3>2, <3>3
  <2>2. CASE subscriptionsDone(p)
    <3>1. run[p].pass = "subs"
      BY <2>2, Given DEF subscriptionsDone, AtTopic, RunState
    <3>2. QED
      <4> DEFINE x == [run[p] EXCEPT !.ti = @ + 1, !.si = 1]
      <4>1. run[p] \in RunState /\ run \in [Provisioners -> RunState]
        BY Given
      <4>2. /\ x \in RunState /\ x.pc = run[p].pc /\ x.pass = run[p].pass
            /\ x.history = run[p].history
        BY <4>1, TurnTypes
      <4>3. run' = [run EXCEPT ![p] = x] /\ run[p].pc = "loop"
        BY <2>2 DEF subscriptionsDone, Become
      <4> HIDE DEF x
      <4>4. QED
        BY <3>1, <4>1, <4>2, <4>3
  <2>3. CASE sectionDone(p)
    <3>1. run[p].pass = "subs"
      BY <2>3, Given DEF sectionDone, AtTopic, RunState
    <3>2. QED
      BY <2>3, <3>1, Given DEF sectionDone, Become, RunState, Running
  <2>4. QED
    BY <2>1, <2>2, <2>3
<1>3. \A i \in DOMAIN topics(p) : i \in TopicsSeen(p)
  <2>1. CASE topicsDone(p)
    BY <2>1, Given DEF topicsDone, TopicsSeen, RunState
  <2>2. CASE ~AtTopic(p)
    BY <2>2 DEF TopicsSeen
  <2>3. QED
    BY <2>1, <2>2 DEF subscriptionsDone, sectionDone
<1>4. cfg' = cfg /\ dryRun' = dryRun /\ topics(p)' = topics(p)
  BY <1>1 DEF inputs, topics
<1>5. Prepared(p)'
  BY <1>1, <1>2, <1>3, <1>4, Given DEF RunInv, Prepared, Running, TopicsSeen
<1>6. RunInv(p)'
  BY <1>2, <1>4, <1>5, Given DEF RunInv, Positioned, Pending, FailedForAReason
<1>7. Become(p, r)
  BY <1>2 DEF Become
<1> HIDE DEF r
<1>8. QED
  BY <1>1, <1>2, <1>6, <1>7, Given, StepOfOne DEF bounds

\* A run that is interrupted, whether or not its last call took effect.
LEMMA InterruptedStep ==
    ASSUME SectionInv, NEW p \in Provisioners,
           Become(p, Note(Fail(run[p]), "interrupted")),
           faults < MaxFaults, faults' = faults + 1,
           UNCHANGED <<inputs, settled, edits, reruns>>,
           IsProject(live'), DOMAIN live \subseteq DOMAIN live'
    PROVE  SectionInv'
<1> DEFINE w == Note(Fail(run[p]), "interrupted")
<1>1. Fail(run[p]) \in RunState /\ Fail(run[p]).pc = "failed"
  BY Given, FailFields
<1>2. w \in RunState
  BY <1>1, GoOnTypes DEF Events
<1>3. w.pc = "failed" /\ "interrupted" \in w.history
  BY <1>1 DEF Note, RunState
<1>4. w.history \cap {"interrupted", "deleted"} # {}
  BY <1>3
<1>5. faults' \in 0..MaxFaults
  BY Given, SectionAssumption
<1> HIDE DEF w
<1>6. Become(p, w)
  BY DEF w
<1>7. RunInv(p)'
  BY <1>2, <1>3, <1>4, <1>6, FailStep
<1>8. QED
  BY <1>2, <1>5, <1>6, <1>7, Given, StepOfOne

\* Interrupts and lost replies preserve it.
LEMMA InterruptInv ==
    ASSUME SectionInv, NEW p \in Provisioners, Interrupt(p) \/ LostReply(p)
    PROVE  SectionInv'
<1>1. IsProject(live') /\ DOMAIN live \subseteq DOMAIN live'
  <2>1. CASE Interrupt(p)
    BY <2>1, Given DEF Interrupt
  <2>2. CASE LostReply(p) /\ run[p].pc = "create"
    BY <2>2, CreateEffect DEF LostReply
  <2>3. CASE LostReply(p) /\ run[p].pc # "create"
    BY <2>3, UpdateStored DEF LostReply
  <2>4. QED
    BY <2>1, <2>2, <2>3
<1>2. QED
  BY <1>1, InterruptedStep DEF Interrupt, LostReply

\* Noting an event leaves a run where it is.
LEMMA NoteStep ==
    ASSUME SectionInv, NEW e \in Events, EveryRunNotes(e), UNCHANGED inputs,
           e = "deleted" \/ DOMAIN live \subseteq DOMAIN live'
    PROVE  /\ run' \in [Provisioners -> RunState]
           /\ \A p \in Provisioners : RunInv(p)'
<1>1. run' \in [Provisioners -> RunState]
  BY GoOnTypes DEF EveryRunNotes, SectionInv, TypeOK
<1>2. ASSUME NEW p \in Provisioners
      PROVE  RunInv(p)'
  <2>1. run'[p] = Note(run[p], e) /\ run[p] \in RunState
    BY Given DEF EveryRunNotes
  <2>2. /\ run'[p].pc = run[p].pc /\ run'[p].pass = run[p].pass
        /\ run'[p].ti = run[p].ti /\ run'[p].si = run[p].si
        /\ run'[p].todo = run[p].todo /\ run'[p].current = run[p].current
        /\ run'[p].history = run[p].history \cup {e}
    BY <2>1 DEF Note, RunState
  <2>3. cfg' = cfg /\ dryRun' = dryRun
    BY DEF inputs
  <2>4. /\ topics(p)' = topics(p) /\ TopicAt(p)' = TopicAt(p)
        /\ AtTopic(p)' = AtTopic(p)
    BY <2>2, <2>3 DEF topics, TopicAt, AtTopic
  <2>5. Key(p)' = Key(p)
    BY <2>2, <2>4 DEF Key, SubAt
  <2>6. TopicsSeen(p)' = TopicsSeen(p)
    BY <2>2, <2>4 DEF TopicsSeen
  <2>7. Positioned(p)'
    BY <2>2, <2>3, <2>4, Given DEF RunInv, Positioned
  <2>8. Pending(p)'
    BY <2>2, <2>4, <2>5, Given DEF RunInv, Pending
  <2>9. Prepared(p)'
    BY <2>2, <2>3, <2>4, <2>6, Given DEF RunInv, Prepared
  <2>10. QED
    BY <2>2, <2>3, <2>7, <2>8, <2>9, Given DEF RunInv, FailedForAReason
<1>3. QED
  BY <1>1, <1>2

\* Edits and deletions by hand preserve it.
LEMMA ByHandInv ==
    ASSUME SectionInv, EditByHand \/ DeleteByHand
    PROVE  SectionInv'
<1>1. /\ UNCHANGED <<inputs, faults, reruns>> /\ settled' = FALSE
      /\ edits' \in 0..MaxEdits
  BY SectionAssumption DEF EditByHand, DeleteByHand, SectionInv, TypeOK
<1>2. CASE EditByHand
  <2>1. PICK e \in ByHand : live' = Put(live, e[1], e[2])
    BY <1>2 DEF EditByHand
  <2>2. IsProject(live') /\ DOMAIN live \subseteq DOMAIN live'
    <3> DEFINE k == e[1]
               m == e[2]
    <3>1. k \in TopicKeys \cup SubKeys /\ m \in Messages(k)
      BY SectionAssumption
    <3>2. IsProject(live) /\ live' = Put(live, k, m)
      BY <2>1 DEF SectionInv, TypeOK
    <3> HIDE DEF k, m
    <3>3. IsProject(live') /\ DOMAIN live' = DOMAIN live \cup {k}
      BY <3>1, <3>2, PutProject
    <3>4. QED
      BY <3>3
  <2>3. EveryRunNotes("edited")
    BY <1>2 DEF EditByHand
  <2>4. /\ run' \in [Provisioners -> RunState]
        /\ \A p \in Provisioners : RunInv(p)'
    BY <1>1, <2>2, <2>3, NoteStep DEF Events
  <2>5. QED
    BY <1>1, <2>2, <2>4 DEF SectionInv, TypeOK, inputs
<1>3. CASE DeleteByHand
  <2>1. PICK gone \in DOMAIN live :
            live' = [k \in DOMAIN live \ {gone} |-> live[k]]
    BY <1>3 DEF DeleteByHand
  <2>2. IsProject(live')
    BY <2>1 DEF SectionInv, TypeOK, IsProject
  <2>3. EveryRunNotes("deleted")
    BY <1>3 DEF DeleteByHand
  <2>4. /\ run' \in [Provisioners -> RunState]
        /\ \A p \in Provisioners : RunInv(p)'
    BY <1>1, <2>3, NoteStep DEF Events
  <2>5. QED
    BY <1>1, <2>2, <2>4 DEF SectionInv, TypeOK, inputs
<1>4. QED
  BY <1>2, <1>3

-----------------------------------------------------------------------------
(* The theorems. *)

\* Every step preserves the inductive invariant.
LEMMA NextInv == SectionInv /\ [Next]_vars => SectionInv'
<1> SUFFICES ASSUME SectionInv, [Next]_vars PROVE SectionInv'
  OBVIOUS
<1>1. ASSUME NEW p \in Provisioners, ProvisionPubSub(p) PROVE SectionInv'
  BY <1>1, StartInv, EnsureTopicInv, EnsureSubscriptionInv, CreateInv,
     ApplyBatchInv, ApplyPathInv, LoopInv DEF ProvisionPubSub
<1>2. ASSUME NEW p \in Provisioners, Rerun(p) PROVE SectionInv'
  BY <1>2, RerunInv
<1>3. ASSUME NEW p \in Provisioners, Interrupt(p) \/ LostReply(p)
      PROVE  SectionInv'
  BY <1>3, InterruptInv
<1>4. CASE EditByHand \/ DeleteByHand
  BY <1>4, ByHandInv
<1>5. CASE UNCHANGED vars
  <2>1. TypeOK'
    BY <1>5 DEF SectionInv, TypeOK, vars
  <2>2. ASSUME NEW q \in Provisioners PROVE RunInv(q)'
    BY <1>5, OthersKeep DEF SectionInv, vars, inputs
  <2>3. QED
    BY <2>1, <2>2 DEF SectionInv
<1>6. QED
  BY <1>1, <1>2, <1>3, <1>4, <1>5 DEF Next

\* The inductive invariant holds throughout every behaviour.
THEOREM SectionInvariant == Spec => []SectionInv
<1>1. QED
  BY InitInv, NextInv, PTL DEF Spec

\* A run of a config that validation accepts fails only when it is interrupted
\* or a resource is deleted under it.
THEOREM FailsOnlyForOutsideReasons == Spec => []OnlyFaultsFail
<1>1. SectionInv => OnlyFaultsFail
  BY DEF SectionInv, RunInv, FailedForAReason, OnlyFaultsFail
<1>2. QED
  BY <1>1, SectionInvariant, PTL

\* Whatever a run sends for a subscription, the topics it names exist.
THEOREM TopicsExistBeforeUse == Spec => []TopicsComeFirst
<1>1. SectionInv => TopicsComeFirst
  BY NamedTopicsExist DEF TopicsComeFirst
<1>2. QED
  BY <1>1, SectionInvariant, PTL
=============================================================================
