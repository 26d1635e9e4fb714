--------------------------- MODULE PubSubSection ---------------------------
(***************************************************************************)
(* The Pub/Sub section of a provisioning run                               *)
(* (internal/provisioner/provisioner.go, topics.go, subscriptions.go,      *)
(* update.go): every topic is reconciled, then every subscription, each    *)
(* with a read, a decision and at most one create or one masked update     *)
(* that may have to be re-sent path by path.                               *)
(*                                                                         *)
(* Several provisioners run against one endpoint, as containers and jobs   *)
(* do.  One step is one call to the endpoint, or one turn of a loop.       *)
(* Between two calls of a run other runs take steps, somebody edits or     *)
(* deletes a resource by hand, the run is killed, or the reply to a call   *)
(* that took effect is lost; a run that failed is started again by its     *)
(* supervisor.                                                             *)
(***************************************************************************)
EXTENDS PubSubDiff, FiniteSets

CONSTANTS
    Provisioners,  \* the runs that may be active at the same time
    Fleets,        \* which config file each provisioner is given
    DryRuns,       \* which provisioners run with dry-run set
    Endpoints,     \* the kinds of endpoint there are
    Lives,         \* what the project may hold before the first run
    ByHand,        \* <<key, message>>: what out-of-band edits put in place
    MaxFaults,     \* bound on interrupted runs and lost replies
    MaxEdits,      \* bound on out-of-band edits and deletions
    MaxReruns      \* bound on runs started again after a success

Messages(key) == IF key \in TopicKeys THEN TopicProto ELSE SubscriptionProto

\* What a project can hold: messages of the right kind under their keys.
IsProject(l) ==
    /\ l = [k \in DOMAIN l |-> l[k]]
    /\ DOMAIN l \subseteq TopicKeys \cup SubKeys
    /\ \A k \in DOMAIN l : l[k] \in Messages(k)

\* The update paths an endpoint refuses for each kind of resource, and whether
\* it answers a read with the default wrapper it was given.
Endpoint ==
    [topic : SUBSET TopicPaths, sub : SUBSET SubscriptionPaths, echoes : BOOLEAN]

ASSUME SectionAssumption ==
    /\ Fleets \subseteq [Provisioners -> ConfigFile]
    /\ DryRuns \subseteq [Provisioners -> BOOLEAN]
    /\ Endpoints \subseteq Endpoint
    /\ \A l \in Lives : IsProject(l)
    /\ \A e \in ByHand :
          e[1] \in TopicKeys \cup SubKeys /\ e[2] \in Messages(e[1])
    /\ MaxFaults \in Nat /\ MaxEdits \in Nat /\ MaxReruns \in Nat

VARIABLES
    live,      \* the resources of the project at the endpoint
    endpoint,  \* what this endpoint refuses and echoes
    cfg,       \* the config file of each provisioner
    dryRun,    \* opts.DryRun of each provisioner
    run,       \* the progress of each provisioner's current run
    settled,   \* some real run has succeeded and nobody touched anything since
    faults, edits, reruns

vars == <<live, endpoint, cfg, dryRun, run, settled, faults, edits, reruns>>

(***************************************************************************)
(* A run: where it is, the message its last read returned and the paths    *)
(* still to send, what it warned about, and what happened to it:           *)
(*   "repeat"       it started when the project was settled                *)
(*   "edited"       a resource was changed by hand since it started        *)
(*   "deleted"      a resource was deleted by hand since it started        *)
(*   "interrupted"  it was killed, or a call failed for outside reasons    *)
(***************************************************************************)
Events == {"repeat", "edited", "deleted", "interrupted"}

Running == {"loop", "create", "batch", "split"}

RunState ==
    [pc      : {"idle", "ok", "failed"} \cup Running,
     pass    : {"topics", "subs"},
     ti      : Nat \ {0},
     si      : Nat \ {0},
     current : SUBSET (TopicProto \cup SubscriptionProto),
     todo    : Seq(TopicPaths \cup SubscriptionPaths),
     warned  : SUBSET ((TopicKeys \cup SubKeys)
                        \X (TopicPaths \cup SubscriptionPaths \cup ImmutablePaths)),
     history : SUBSET Events]

Fresh(pc, history) ==
    [pc |-> pc, pass |-> "topics", ti |-> 1, si |-> 1, current |-> {},
     todo |-> <<>>, warned |-> {}, history |-> history]

-----------------------------------------------------------------------------
(* The resource a run is at. *)

topics(p)  == cfg[p].topics
TopicAt(p) == topics(p)[run[p].ti]
SubAt(p)   == TopicAt(p).subscriptions[run[p].si]

AtTopic(p) == run[p].pass = "topics"

Key(p) == IF AtTopic(p) THEN TopicKey(TopicAt(p).name)
                        ELSE SubKey(SubAt(p).name)

Strategy(p) == EffectiveStrategy(IF AtTopic(p) THEN TopicAt(p).strategy
                                               ELSE SubAt(p).strategy,
                                 cfg[p].strategy)

Refused(p) == IF AtTopic(p) THEN endpoint.topic ELSE endpoint.sub

DesiredTopic(p) == buildTopic(TopicAt(p))
DesiredSub(p)   == buildSubscription(TopicAt(p).name, SubAt(p))

\* The message of a create, as the endpoint will answer it.
CreateRequest(p) ==
    IF AtTopic(p) THEN toProtoTopic(DesiredTopic(p))
    ELSE Answered(endpoint.echoes, toProtoSubscription(DesiredSub(p)))

\* The message of an update: desired, after the labels and push attributes
\* read were merged into it.
UpdateRequest(p) ==
    LET current == The(run[p].current)
    IN  IF AtTopic(p)
        THEN toProtoTopic(mergeTopic(fromProtoTopic(current), DesiredTopic(p)))
        ELSE Answered(endpoint.echoes, toProtoSubscription(
                mergeSubscription(fromProtoSubscription(current), DesiredSub(p))))

-----------------------------------------------------------------------------
(* How a run goes on. *)

\* This resource is done: the next turn of the loop over topics or over the
\* subscriptions of a topic.
Advance(r) ==
    [r EXCEPT !.pc = "loop", !.current = {}, !.todo = <<>>,
              !.ti = IF r.pass = "topics" THEN @ + 1 ELSE @,
              !.si = IF r.pass = "subs" THEN @ + 1 ELSE @]

Creating(r) == [r EXCEPT !.pc = "create"]

Updating(r, current, mask) ==
    [r EXCEPT !.pc = "batch", !.current = {current}, !.todo = mask]

Warn(r, key, fields) == [r EXCEPT !.warned = @ \cup ({key} \X fields)]

Fail(r) == [r EXCEPT !.pc = "failed", !.current = {}, !.todo = <<>>]

Note(r, event) == [r EXCEPT !.history = @ \cup {event}]

Become(p, r) == run' = [run EXCEPT ![p] = r]

-----------------------------------------------------------------------------
Init ==
    /\ live \in Lives
    /\ endpoint \in Endpoints
    /\ cfg \in {f \in Fleets : \A p \in Provisioners : validate(f[p])}
    /\ dryRun \in DryRuns
    /\ run = [p \in Provisioners |-> Fresh("idle", {})]
    /\ settled = FALSE
    /\ faults = 0 /\ edits = 0 /\ reruns = 0

inputs == <<endpoint, cfg, dryRun>>
bounds == <<faults, edits, reruns>>

\* The section is entered, with nothing left of an earlier run.
Begin(p) == Become(p, Fresh("loop", IF settled THEN {"repeat"} ELSE {}))

\* The process starts, or its supervisor starts it again after a failure.
Start(p) ==
    /\ run[p].pc \in {"idle", "failed"}
    /\ Begin(p)
    /\ UNCHANGED <<live, inputs, settled, bounds>>

\* Somebody runs the provisioner once more after it succeeded.
Rerun(p) ==
    /\ run[p].pc = "ok" /\ reruns < MaxReruns
    /\ reruns' = reruns + 1
    /\ Begin(p)
    /\ UNCHANGED <<live, inputs, settled, faults, edits>>

\* ensureTopic up to its first change: GetTopic and what follows from it.
ensureTopic(p) ==
    /\ run[p].pc = "loop" /\ AtTopic(p)
    /\ run[p].ti <= Len(topics(p))
    /\ \/ /\ Key(p) \notin DOMAIN live
          /\ Become(p, IF dryRun[p] THEN Advance(run[p]) ELSE Creating(run[p]))
       \/ /\ Key(p) \in DOMAIN live
          /\ LET mask == IF Strategy(p) = "create" THEN <<>>
                         ELSE diffTopic(fromProtoTopic(live[Key(p)]),
                                        DesiredTopic(p))
             IN  Become(p, IF mask = <<>> \/ dryRun[p]
                           THEN Advance(run[p])
                           ELSE Updating(run[p], live[Key(p)], mask))
    /\ UNCHANGED <<live, inputs, settled, bounds>>

\* ensureSubscription up to its first change.  Immutable drift is reported
\* before, and whether or not, anything is updated.
ensureSubscription(p) ==
    /\ run[p].pc = "loop" /\ ~AtTopic(p)
    /\ run[p].ti <= Len(topics(p))
    /\ run[p].si <= Len(TopicAt(p).subscriptions)
    /\ \/ /\ Key(p) \notin DOMAIN live
          /\ Become(p, IF dryRun[p] THEN Advance(run[p]) ELSE Creating(run[p]))
       \/ /\ Key(p) \in DOMAIN live /\ Strategy(p) = "create"
          /\ Become(p, Advance(run[p]))
       \/ /\ Key(p) \in DOMAIN live /\ Strategy(p) # "create"
          /\ LET current == fromProtoSubscription(live[Key(p)])
                 reported == Warn(run[p], Key(p),
                                  immutableDrift(current, DesiredSub(p)))
                 mask == diffSubscription(current, DesiredSub(p))
             IN  Become(p, IF mask = <<>> \/ dryRun[p]
                           THEN Advance(reported)
                           ELSE Updating(reported, live[Key(p)], mask))
    /\ UNCHANGED <<live, inputs, settled, bounds>>

CreateCall(p) == CreateReply(live, Key(p), CreateRequest(p))

\* Mutant: the loser of a race to create a resource fails.
create_ExistsIsAnError(p) ==
    /\ run[p].pc = "create"
    /\ \/ /\ CreateCall(p) = "ok"
          /\ live' = Put(live, Key(p), CreateRequest(p))
          /\ Become(p, Advance(run[p]))
       \/ /\ CreateCall(p) # "ok"
          /\ Become(p, Fail(run[p])) /\ UNCHANGED live
    /\ UNCHANGED <<inputs, settled, bounds>>

\* Mutant: the loser of the race goes back to the read.
create_ReadsAgain(p) ==
    /\ run[p].pc = "create"
    /\ \/ /\ CreateCall(p) = "ok"
          /\ live' = Put(live, Key(p), CreateRequest(p))
          /\ Become(p, Advance(run[p]))
       \/ /\ CreateCall(p) = "exists"
          /\ Become(p, [run[p] EXCEPT !.pc = "loop"]) /\ UNCHANGED live
       \/ /\ CreateCall(p) = "error"
          /\ Become(p, Fail(run[p])) /\ UNCHANGED live
    /\ UNCHANGED <<inputs, settled, bounds>>

\* CreateTopic and CreateSubscription: somebody else's create is a success.
create(p) ==
    /\ run[p].pc = "create"
    /\ \/ /\ CreateCall(p) = "ok"
          /\ live' = Put(live, Key(p), CreateRequest(p))
          /\ Become(p, Advance(run[p]))
       \/ /\ CreateCall(p) = "exists"
          /\ Become(p, Advance(run[p])) /\ UNCHANGED live
       \/ /\ CreateCall(p) = "error"
          /\ Become(p, Fail(run[p])) /\ UNCHANGED live
    /\ UNCHANGED <<inputs, settled, bounds>>

Mask(p) == IF run[p].pc = "split" THEN {Head(run[p].todo)}
           ELSE {run[p].todo[i] : i \in DOMAIN run[p].todo}

Reply(p) == UpdateReply(live, Refused(p), Key(p), UpdateRequest(p), Mask(p))

\* Mutant: a refused batch is given up, and only the refused paths reported.
applyBatch_GivesUp(p) ==
    /\ run[p].pc = "batch"
    /\ \/ /\ Reply(p) = "ok"
          /\ live' = UpdateEffect(live, Key(p), UpdateRequest(p), Mask(p))
          /\ Become(p, Advance(run[p]))
       \/ /\ Reply(p) = "error"
          /\ Become(p, Fail(run[p])) /\ UNCHANGED live
       \/ /\ Reply(p) = "unsupported"
          /\ Become(p, Advance(Warn(run[p], Key(p), Mask(p) \cap Refused(p))))
          /\ UNCHANGED live
    /\ UNCHANGED <<inputs, settled, bounds>>

\* Mutant: a refused batch is given up, and every path of it reported.
applyBatch_BlamesAll(p) ==
    /\ run[p].pc = "batch"
    /\ \/ /\ Reply(p) = "ok"
          /\ live' = UpdateEffect(live, Key(p), UpdateRequest(p), Mask(p))
          /\ Become(p, Advance(run[p]))
       \/ /\ Reply(p) = "error"
          /\ Become(p, Fail(run[p])) /\ UNCHANGED live
       \/ /\ Reply(p) = "unsupported"
          /\ Become(p, Advance(Warn(run[p], Key(p), Mask(p))))
          /\ UNCHANGED live
    /\ UNCHANGED <<inputs, settled, bounds>>

\* Mutant: a refusal is an error like any other.
applyBatch_RefusalIsFatal(p) ==
    /\ run[p].pc = "batch"
    /\ \/ /\ Reply(p) = "ok"
          /\ live' = UpdateEffect(live, Key(p), UpdateRequest(p), Mask(p))
          /\ Become(p, Advance(run[p]))
       \/ /\ Reply(p) = "error"
          /\ Become(p, Fail(run[p])) /\ UNCHANGED live
       \/ /\ Reply(p) = "unsupported"
          /\ Become(p, Fail(run[p]))
          /\ UNCHANGED live
    /\ UNCHANGED <<inputs, settled, bounds>>

\* applyPaths, first call: the whole mask.
applyBatch(p) ==
    /\ run[p].pc = "batch"
    /\ \/ /\ Reply(p) = "ok"
          /\ live' = UpdateEffect(live, Key(p), UpdateRequest(p), Mask(p))
          /\ Become(p, Advance(run[p]))
       \/ /\ Reply(p) = "error"
          /\ Become(p, Fail(run[p])) /\ UNCHANGED live
       \/ /\ Reply(p) = "unsupported"
          /\ Become(p, IF Len(run[p].todo) = 1
                       THEN Advance(Warn(run[p], Key(p), Mask(p)))
                       ELSE [run[p] EXCEPT !.pc = "split"])
          /\ UNCHANGED live
    /\ UNCHANGED <<inputs, settled, bounds>>

\* The path is dealt with: the next one, or the next resource.
NextPath(r) ==
    IF Len(r.todo) = 1 THEN Advance(r) ELSE [r EXCEPT !.todo = Tail(@)]

\* applyPaths, after the batch was refused: one path at a time.
applyPath(p) ==
    /\ run[p].pc = "split"
    /\ \/ /\ Reply(p) = "ok"
          /\ live' = UpdateEffect(live, Key(p), UpdateRequest(p), Mask(p))
          /\ Become(p, NextPath(run[p]))
       \/ /\ Reply(p) = "error"
          /\ Become(p, Fail(run[p])) /\ UNCHANGED live
       \/ /\ Reply(p) = "unsupported"
          /\ Become(p, NextPath(Warn(run[p], Key(p), Mask(p))))
          /\ UNCHANGED live
    /\ UNCHANGED <<inputs, settled, bounds>>

\* Mutant: the subscriptions are taken up after the first topic.
topicsDone_AfterTheFirst(p) ==
    /\ run[p].pc = "loop" /\ AtTopic(p) /\ run[p].ti > 1
    /\ Become(p, [run[p] EXCEPT !.pass = "subs", !.ti = 1, !.si = 1])
    /\ UNCHANGED <<live, inputs, settled, bounds>>

\* The end of the loop over the topics, and the start of the second one.
topicsDone(p) ==
    /\ run[p].pc = "loop" /\ AtTopic(p) /\ run[p].ti > Len(topics(p))
    /\ Become(p, [run[p] EXCEPT !.pass = "subs", !.ti = 1, !.si = 1])
    /\ UNCHANGED <<live, inputs, settled, bounds>>

\* The end of the inner loop over the subscriptions of one topic.
subscriptionsDone(p) ==
    /\ run[p].pc = "loop" /\ ~AtTopic(p)
    /\ run[p].ti <= Len(topics(p))
    /\ run[p].si > Len(TopicAt(p).subscriptions)
    /\ Become(p, [run[p] EXCEPT !.ti = @ + 1, !.si = 1])
    /\ UNCHANGED <<live, inputs, settled, bounds>>

\* ProvisionPubSub returns nil.
sectionDone(p) ==
    /\ run[p].pc = "loop" /\ ~AtTopic(p) /\ run[p].ti > Len(topics(p))
    /\ Become(p, [run[p] EXCEPT !.pc = "ok"])
    /\ settled' = (settled \/ (~dryRun[p] /\ run[p].history \subseteq {"repeat"}))
    /\ UNCHANGED <<live, inputs, bounds>>

ProvisionPubSub(p) ==
    \/ Start(p)
    \/ ensureTopic(p) \/ ensureSubscription(p)
    \/ create(p) \/ applyBatch(p) \/ applyPath(p)
    \/ topicsDone(p) \/ subscriptionsDone(p) \/ sectionDone(p)

-----------------------------------------------------------------------------
(* What happens around the runs. *)

\* A call returns an error with no effect, or the process is killed.
Interrupt(p) ==
    /\ run[p].pc \in Running /\ faults < MaxFaults
    /\ faults' = faults + 1
    /\ Become(p, Note(Fail(run[p]), "interrupted"))
    /\ UNCHANGED <<live, inputs, settled, edits, reruns>>

\* A call takes effect, but its reply is lost or the process dies before it.
LostReply(p) ==
    /\ faults < MaxFaults
    /\ \/ /\ run[p].pc = "create"
          /\ CreateCall(p) = "ok"
          /\ live' = Put(live, Key(p), CreateRequest(p))
       \/ /\ run[p].pc \in {"batch", "split"}
          /\ Reply(p) = "ok"
          /\ live' = UpdateEffect(live, Key(p), UpdateRequest(p), Mask(p))
    /\ faults' = faults + 1
    /\ Become(p, Note(Fail(run[p]), "interrupted"))
    /\ UNCHANGED <<inputs, settled, edits, reruns>>

EveryRunNotes(event) == run' = [p \in Provisioners |-> Note(run[p], event)]

EditByHand ==
    /\ edits < MaxEdits
    /\ edits' = edits + 1
    /\ \E e \in ByHand : live' = Put(live, e[1], e[2])
    /\ EveryRunNotes("edited")
    /\ settled' = FALSE
    /\ UNCHANGED <<inputs, faults, reruns>>

DeleteByHand ==
    /\ edits < MaxEdits
    /\ edits' = edits + 1
    /\ \E gone \in DOMAIN live :
          live' = [k \in DOMAIN live \ {gone} |-> live[k]]
    /\ EveryRunNotes("deleted")
    /\ settled' = FALSE
    /\ UNCHANGED <<inputs, faults, reruns>>

Next ==
    \/ \E p \in Provisioners :
          ProvisionPubSub(p) \/ Rerun(p) \/ Interrupt(p) \/ LostReply(p)
    \/ EditByHand
    \/ DeleteByHand

Spec == Init /\ [][Next]_vars

(***************************************************************************)
(* The scheduler lets a started process take its next step, and a failed   *)
(* one is started again (restartPolicy OnFailure, README).  Nothing makes  *)
(* faults, edits by hand or reruns happen.                                 *)
(***************************************************************************)
FairSpec == Spec /\ \A p \in Provisioners : WF_vars(ProvisionPubSub(p))
=============================================================================
