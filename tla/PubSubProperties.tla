-------------------------- MODULE PubSubProperties --------------------------
(***************************************************************************)
(* What the Pub/Sub section promises.  Whether a live resource is as the   *)
(* config declares it is defined here from the config and the message on   *)
(* the wire alone, without the code's own comparison.                      *)
(***************************************************************************)
EXTENDS PubSubSection

-----------------------------------------------------------------------------
(* The reference definition of "as declared". *)

HasLabels(labels, declared) ==
    \A k \in DOMAIN declared : k \in DOMAIN labels /\ labels[k] = declared[k]

\* For each field, whether message m has what topic t of the config declares.
TopicMet(t, m) ==
    [labels |-> HasLabels(m.labels, t.labels),
     message_retention_duration |->
        \A d \in t.message_retention : m.message_retention_duration = d]

PushMet(s, pc) ==
    /\ pc.push_endpoint = s.push_endpoint
    /\ HasLabels(pc.attributes, s.push_attributes)
    /\ s.push_oidc_token # {} => pc.oidc_token = s.push_oidc_token
    /\ s.push_wrapper = "pubsub" => pc.no_wrapper = {}
    /\ s.push_wrapper = "none" => pc.no_wrapper = {s.push_write_metadata}

RetryMet(r, policy) ==
    /\ \A d \in r.minimum_backoff : policy.minimum_backoff = d
    /\ \A d \in r.maximum_backoff : policy.maximum_backoff = d

SubscriptionMet(topicName, s, m) ==
    [topic  |-> m.topic = topicName,
     filter |-> s.filter # "" => m.filter = s.filter,
     enable_message_ordering |->
        \A b \in s.enable_message_ordering : m.enable_message_ordering = b,
     ack_deadline_seconds |->
        \A d \in s.ack_deadline : m.ack_deadline_seconds * Second = d,
     message_retention_duration |->
        \A d \in s.message_retention : m.message_retention_duration = d,
     retain_acked_messages |->
        \A b \in s.retain_acked_messages : m.retain_acked_messages = b,
     enable_exactly_once_delivery |->
        \A b \in s.enable_exactly_once_delivery :
            m.enable_exactly_once_delivery = b,
     expiration_policy |->
        \A d \in s.expiration_ttl :
            m.expiration_policy = {IF d = ExpirationNever THEN 0 ELSE d},
     labels |-> HasLabels(m.labels, s.labels),
     push_config |->
        s.push_endpoint # "" => \E pc \in m.push_config : PushMet(s, pc),
     dead_letter_policy |->
        \A d \in s.dead_letter : \E x \in m.dead_letter_policy :
            /\ x.dead_letter_topic = d.topic
            /\ d.max_delivery_attempts # 0 =>
                  x.max_delivery_attempts = d.max_delivery_attempts,
     retry_policy |->
        \A r \in s.retry : \E x \in m.retry_policy : RetryMet(r, x)]

Unmet(met) == {f \in DOMAIN met : ~met[f]}

\* Every resource of config c exists, and the ones it may update are as it
\* declares except for the fields in warned.
AsDeclared(c, l, warned) ==
    \A i \in DOMAIN c.topics :
        LET t == c.topics[i]
            key == TopicKey(t.name)
        IN  /\ key \in DOMAIN l
            /\ EffectiveStrategy(t.strategy, c.strategy) = "update" =>
                  {key} \X Unmet(TopicMet(t, l[key])) \subseteq warned
            /\ \A j \in DOMAIN t.subscriptions :
                  LET s == t.subscriptions[j]
                      k == SubKey(s.name)
                  IN  /\ k \in DOMAIN l
                      /\ EffectiveStrategy(s.strategy, c.strategy) = "update" =>
                            {k} \X Unmet(SubscriptionMet(t.name, s, l[k]))
                                \subseteq warned

SameConfig(p) == \A q \in Provisioners : cfg[q] = cfg[p]

-----------------------------------------------------------------------------
(* Invariants. *)

\* Every variable has its type: live holds well-formed messages under keys of
\* their kind, and the runs' positions, masks and warnings are well formed.
TypeOK ==
    /\ IsProject(live)
    /\ endpoint \in Endpoint
    /\ cfg \in [Provisioners -> ConfigFile]
    /\ dryRun \in [Provisioners -> BOOLEAN]
    /\ run \in [Provisioners -> RunState]
    /\ settled \in BOOLEAN
    /\ faults \in 0..MaxFaults /\ edits \in 0..MaxEdits
    /\ reruns \in 0..MaxReruns

\* A run of a valid config fails only when it was interrupted or somebody
\* deleted a resource under it: no call the code makes by itself is refused
\* with an error it does not tolerate, whatever other runs do meanwhile
\* (no immutable path in a mask, no subscription before its topics).
OnlyFaultsFail ==
    \A p \in Provisioners :
        run[p].pc = "failed" =>
            run[p].history \cap {"interrupted", "deleted"} # {}

\* When a run sends anything for a subscription, the topic it is attached to
\* and its dead letter topic exist: the two passes of ProvisionPubSub.
TopicsComeFirst ==
    \A p \in Provisioners :
        /\ run[p].pc \in {"create", "batch", "split"} /\ ~AtTopic(p)
        /\ "deleted" \notin run[p].history
        => NamedTopics(CreateRequest(p)) \subseteq DOMAIN live

\* When a run has succeeded and nobody else changed anything, every resource
\* exists and every declared setting is live, or the run warned about it.
Converged ==
    \A p \in Provisioners :
        /\ run[p].pc = "ok" /\ ~dryRun[p] /\ SameConfig(p)
        /\ run[p].history \subseteq {"repeat"}
        => AsDeclared(cfg[p], live, run[p].warned)

\* A run that starts when an earlier one of the same config has succeeded and
\* nothing changed since creates nothing and updates nothing: all it still
\* sends is the paths this endpoint refuses.
RepeatSendsNothing ==
    \A p \in Provisioners :
        run[p].history = {"repeat"} /\ SameConfig(p) =>
            /\ run[p].pc # "create"
            /\ run[p].pc \in {"batch", "split"} => Mask(p) \subseteq Refused(p)

\* A warning names exactly what could not be applied: an immutable field, or
\* a path this endpoint refuses, never one that was refused only because it
\* was batched with another (applyPaths).
WarningsArePrecise ==
    \A p \in Provisioners : \A w \in run[p].warned :
        w[2] \in ImmutablePaths
            \cup (IF w[1] \in TopicKeys THEN endpoint.topic ELSE endpoint.sub)

-----------------------------------------------------------------------------
(* Why a run fails only for outside reasons: the inductive invariant. *)

\* A run that is about to send something stands at a resource of its file.
Positioned(p) ==
    run[p].pc \in {"create", "batch", "split"} =>
        /\ ~dryRun[p]
        /\ run[p].ti \in DOMAIN topics(p)
        /\ ~AtTopic(p) => run[p].si \in DOMAIN TopicAt(p).subscriptions

\* An update is for a resource the run has read and that still exists unless
\* somebody deleted it, and its mask names mutable paths of that kind only.
Pending(p) ==
    run[p].pc \in {"batch", "split"} =>
        /\ run[p].todo # <<>>
        /\ run[p].todo \in Seq(IF AtTopic(p) THEN TopicPaths
                                             ELSE SubscriptionPaths)
        /\ run[p].current # {}
        /\ run[p].current \subseteq (IF AtTopic(p) THEN TopicProto
                                                   ELSE SubscriptionProto)
        /\ "deleted" \notin run[p].history => Key(p) \in DOMAIN live

\* The topics a run has dealt with: in the second pass, all of its file.
TopicsSeen(p) ==
    {i \in DOMAIN topics(p) : AtTopic(p) => i < run[p].ti}

\* They exist, unless somebody deleted them since the run started.
Prepared(p) ==
    run[p].pc \in Running /\ ~dryRun[p] /\ "deleted" \notin run[p].history =>
        \A i \in TopicsSeen(p) : TopicKey(topics(p)[i].name) \in DOMAIN live

FailedForAReason(p) ==
    run[p].pc = "failed" => run[p].history \cap {"interrupted", "deleted"} # {}

RunInv(p) ==
    /\ validate(cfg[p])
    /\ Positioned(p)
    /\ Pending(p)
    /\ Prepared(p)
    /\ FailedForAReason(p)

\* The inductive invariant: a run's position is one of its file, what it has
\* still to send is for resources and topics that exist, and if it failed
\* there is an outside reason.
SectionInv == TypeOK /\ \A p \in Provisioners : RunInv(p)

-----------------------------------------------------------------------------
(* Action properties.  A run moves when its own record changes other than  *)
(* by noting what happened around it.                                      *)

Moves(p) ==
    [run[p] EXCEPT !.history = {}] # [run[p] EXCEPT !.history = {}]'

TopicDeclares(t) ==
    [labels |-> DOMAIN t.labels # {},
     message_retention_duration |-> t.message_retention # {}]

SubscriptionDeclares(s) ==
    [topic |-> FALSE, filter |-> FALSE, enable_message_ordering |-> FALSE,
     ack_deadline_seconds         |-> s.ack_deadline # {},
     message_retention_duration   |-> s.message_retention # {},
     retain_acked_messages        |-> s.retain_acked_messages # {},
     enable_exactly_once_delivery |-> s.enable_exactly_once_delivery # {},
     expiration_policy            |-> s.expiration_ttl # {},
     labels                       |-> DOMAIN s.labels # {},
     push_config                  |-> s.push_endpoint # "",
     dead_letter_policy           |-> s.dead_letter # {},
     retry_policy                 |-> s.retry # {}]

\* Whether the resource p is at may have field f updated by p.
MayUpdate(p, f) ==
    /\ ~dryRun[p] /\ Strategy(p) = "update"
    /\ IF AtTopic(p) THEN TopicDeclares(TopicAt(p))[f]
                     ELSE SubscriptionDeclares(SubAt(p))[f]

\* A run deletes nothing, and changes a field of an existing resource only if
\* its config declares that field for it, the strategy is update and it is no
\* dry run: an omitted key means "leave it alone".
OmittedFieldsKept ==
    [][\A p \in Provisioners : Moves(p) =>
         \A k \in DOMAIN live :
            /\ k \in DOMAIN live'
            /\ \A f \in DOMAIN live[k] :
                  live'[k][f] # live[k][f] => k = Key(p) /\ MayUpdate(p, f)]_vars

Extends(after, before, except) ==
    \A l \in DOMAIN before \ except : l \in DOMAIN after /\ after[l] = before[l]

Common(f, g) ==
    [l \in {x \in DOMAIN f \cap DOMAIN g : f[x] = g[x]} |-> f[l]]

Declared(p) == IF AtTopic(p) THEN TopicAt(p) ELSE SubAt(p)

\* An update of p that changes a resource it read before.
Updates(p) == Moves(p) /\ run[p].pc \in {"batch", "split"} /\ live' # live

\* An update keeps every label and push attribute that was on the resource
\* when the run read it, is still there, and is not declared by the config,
\* although the mask replaces the whole map (mergeLabels).
SeenLabelsKept ==
    [][\A p \in Provisioners : Updates(p) =>
         LET seen == The(run[p].current)
             now  == live[Key(p)]
             next == live'[Key(p)]
         IN  /\ Extends(next.labels, Common(seen.labels, now.labels),
                        DOMAIN Declared(p).labels)
             /\ ~AtTopic(p) =>
                  \A s \in seen.push_config, n \in now.push_config :
                    \E x \in next.push_config :
                        Extends(x.attributes, Common(s.attributes, n.attributes),
                                DOMAIN SubAt(p).push_attributes)]_vars

\* An update keeps the parts of a push config and of a retry policy that the
\* config leaves out: the wrapper (README, "push_wrapper": omitting it leaves
\* what the subscription already has), the token and either bound.
OmittedSettingsKept ==
    [][\A p \in Provisioners : Updates(p) /\ ~AtTopic(p) =>
         LET s == SubAt(p)
         IN  /\ \A n \in live[Key(p)].push_config :
                  \E x \in live'[Key(p)].push_config :
                     /\ s.push_wrapper = "" => x.no_wrapper = n.no_wrapper
                     /\ s.push_oidc_token = {} => x.oidc_token = n.oidc_token
             /\ \A n \in live[Key(p)].retry_policy, r \in s.retry :
                  \E x \in live'[Key(p)].retry_policy :
                     /\ r.minimum_backoff = {} => x.minimum_backoff = n.minimum_backoff
                     /\ r.maximum_backoff = {} => x.maximum_backoff = n.maximum_backoff]_vars

\* How far a run is with the resource it stands at.
Stage(r) ==
    IF r.pc = "loop" THEN 0 ELSE IF r.pc = "split" THEN 2 ELSE 1

\* s is ahead of r: it is over, or it is in the second loop and r is not, or at
\* a later topic or subscription, or further with the same one, or has fewer
\* paths of it left to send.
Ahead(r, s) ==
    \/ s.pc \in {"ok", "failed"}
    \/ /\ s.pc \in Running
       /\ \/ r.pass = "topics" /\ s.pass = "subs"
          \/ r.pass = s.pass /\ r.ti < s.ti
          \/ r.pass = s.pass /\ r.ti = s.ti /\ r.si < s.si
          \/ /\ r.pass = s.pass /\ r.ti = s.ti /\ r.si = s.si
             /\ \/ Stage(r) < Stage(s)
                \/ Stage(r) = Stage(s) /\ Len(s.todo) < Len(r.todo)

\* A run that is under way moves only ahead, whatever other runs and people do
\* to the resources it is about: it never goes back to one it has dealt with,
\* and sends no path and no create twice (ProvisionPubSub, applyPaths, and
\* AlreadyExists in CreateTopic).  So it cannot be kept busy by others.
NeverSetBack ==
    [][\A p \in Provisioners :
         run[p].pc \in Running /\ Moves(p) => Ahead(run[p], run'[p])]_vars

-----------------------------------------------------------------------------
(* The Pub/Sub section as an implementation of Reconciler. *)

\* The resources of p's file whose strategy is among strategies.
Declares(p, strategies) ==
    {TopicKey(topics(p)[i].name) : i \in {i \in DOMAIN topics(p) :
        EffectiveStrategy(topics(p)[i].strategy, cfg[p].strategy) \in strategies}}
    \cup UNION {{SubKey(topics(p)[i].subscriptions[j].name) :
                    j \in {j \in DOMAIN topics(p)[i].subscriptions :
                        EffectiveStrategy(topics(p)[i].subscriptions[j].strategy,
                                          cfg[p].strategy) \in strategies}} :
                i \in DOMAIN topics(p)}

Phase(pc) == IF pc \in Running THEN "running" ELSE pc

Declarations == [p \in Provisioners |-> Declares(p, {"create", "update"})]

Updatable == [p \in Provisioners |-> Declares(p, {"update"})]

Phases == [p \in Provisioners |-> Phase(run[p].pc)]

Reasons ==
    [p \in Provisioners |-> run[p].history \cap {"interrupted", "deleted"}]

Abstract == INSTANCE Reconciler WITH
    Runs      <- Provisioners,
    declares  <- Declarations,
    updatable <- Updatable,
    readonly  <- dryRun,
    store     <- live,
    phase     <- Phases,
    excuse    <- Reasons,
    outside   <- edits

\* Every behaviour of the section is one the reconciler allows: whatever the
\* runs do to each other, a run writes only what its file lets it, deletes
\* nothing, and succeeds only when every topic and subscription is there.
ImplementsReconciler == Abstract!Spec

-----------------------------------------------------------------------------
(* Liveness, under FairSpec. *)

\* Whatever happened to it, a provisioner that is scheduled and started again
\* after a failure ends in success: faults and edits are finitely many.
EventuallyProvisioned ==
    \A p \in Provisioners : run[p].pc # "ok" ~> run[p].pc = "ok"
=============================================================================
