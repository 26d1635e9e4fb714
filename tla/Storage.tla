------------------------------ MODULE Storage ------------------------------
(***************************************************************************)
(* The Cloud Storage section of a provisioning run                         *)
(* (internal/provisioner/buckets.go and provisioner.go), its client        *)
(* (internal/client/storage.go) and its part of the config file.           *)
(*                                                                         *)
(* As in PubSubSection, several provisioners run against one endpoint and  *)
(* a step is one call or the end of the loop.  A call that fails is told   *)
(* apart here from a process that is killed, because CreateBucket decides  *)
(* from the text of an error whether it is one.                            *)
(***************************************************************************)
EXTENDS Common, FiniteSets

CONSTANTS
    BucketNames,   \* the texts that match bucketNamePattern
    Upper,         \* strings.ToUpper
    Provisioners,  \* the runs that may be active at the same time
    Fleets,        \* which config file each provisioner is given
    DryRuns,       \* which provisioners run with dry-run set
    Backends,      \* the endpoints
    Lives,         \* the buckets there may be before the first run
    ByHand,        \* <<name, bucket>>: what out-of-band edits put in place
    MaxFaults,     \* bound on failed calls and killed runs
    MaxEdits,      \* bound on out-of-band edits and deletions
    MaxReruns      \* bound on runs started again after a success

-----------------------------------------------------------------------------
(* The config file. *)

Bucket ==
    [name : Texts, strategy : Texts, versioning : Opt(BOOLEAN),
     location : Texts, storage_class : Texts]

StorageFile == [strategy : Texts, buckets : Seq(Bucket)]

validStorageClasses ==
    {"", "STANDARD", "NEARLINE", "COLDLINE", "ARCHIVE", "MULTI_REGIONAL",
     "REGIONAL", "DURABLE_REDUCED_AVAILABILITY"}

validateBuckets(buckets) ==
    /\ \A i \in DOMAIN buckets :
          /\ buckets[i].strategy \in validStrategies
          /\ buckets[i].name \in BucketNames
          /\ Upper[buckets[i].storage_class] \in validStorageClasses
    /\ \A i, k \in DOMAIN buckets : buckets[i].name = buckets[k].name => i = k

validate(c) == c.strategy \in validStrategies /\ validateBuckets(c.buckets)

-----------------------------------------------------------------------------
(* The client's bucket, without its name, and the endpoint.                *)

ClientBucket ==
    [VersioningEnabled : BOOLEAN, Location : Texts, StorageClass : Texts]

\* emulator    STORAGE_EMULATOR_HOST is set
\* versioning  it implements versioning (fake-gcs-server: in-memory backend)
\* says409     its address or the project id, which the text of a transport
\*             error repeats as part of the URL, contains "409"
Backend == [emulator : BOOLEAN, versioning : BOOLEAN, says409 : BOOLEAN]

IsProject(l) ==
    /\ l = [n \in DOMAIN l |-> l[n]]
    /\ DOMAIN l \subseteq BucketNames
    /\ \A n \in DOMAIN l : l[n] \in ClientBucket

ASSUME StorageAssumption ==
    /\ BucketNames \subseteq Texts \ {""}
    /\ Upper \in [Texts -> Texts]
    /\ \A t \in Texts : Upper[Upper[t]] = Upper[t] /\ (Upper[t] = "" <=> t = "")
    /\ \A t \in {"US", "US-CENTRAL1", "STANDARD"} : t \in Texts /\ Upper[t] = t
    /\ Fleets \subseteq [Provisioners -> StorageFile]
    /\ DryRuns \subseteq [Provisioners -> BOOLEAN]
    /\ Backends \subseteq Backend
    /\ \A l \in Lives : IsProject(l)
    /\ \A e \in ByHand : e[1] \in BucketNames /\ e[2] \in ClientBucket
    /\ MaxFaults \in Nat /\ MaxEdits \in Nat /\ MaxReruns \in Nat

\* What the endpoint keeps of a request.  Cloud Storage reports location and
\* class upper-cased and fills in its defaults; fake-gcs-server reports the
\* same two for every bucket.
Or(text, default) == IF text = "" THEN default ELSE Upper[text]

Stored(backend, b) ==
    [VersioningEnabled |-> b.VersioningEnabled,
     Location     |-> IF backend.emulator THEN "US-CENTRAL1"
                                          ELSE Or(b.Location, "US"),
     StorageClass |-> IF backend.emulator THEN "STANDARD"
                                          ELSE Or(b.StorageClass, "STANDARD")]

\* A request for versioning that the endpoint does not implement is answered
\* with an error the library retries until operationTimeout has passed.
CreateReply(live, backend, name, b) ==
    IF name \in DOMAIN live THEN "conflict"
    ELSE IF b.VersioningEnabled /\ ~backend.versioning THEN "unsupported" ELSE "ok"

UpdateReply(live, backend, name, enabled) ==
    IF name \notin DOMAIN live THEN "missing"
    ELSE IF enabled /\ ~backend.versioning THEN "unsupported" ELSE "ok"

\* The buckets an endpoint can hold: it keeps of them what it has kept.
Possible(backend, live) ==
    \A n \in DOMAIN live :
        /\ live[n].VersioningEnabled => backend.versioning
        /\ live[n] = Stored(backend, live[n])

Put(live, name, b) ==
    [n \in DOMAIN live \cup {name} |-> IF n = name THEN b ELSE live[n]]

EqualFold(a, b) == Upper[a] = Upper[b]

\* Mutant: the storage class is forgotten.
createOnlyDrift_LocationOnly(b, current) ==
    {f \in {"location"} :
        /\ b.location # "" /\ current.Location # ""
        /\ ~EqualFold(b.location, current.Location)}

createOnlyDrift(b, current) ==
    {f \in {"location", "storage_class"} :
        \/ /\ f = "location"
           /\ b.location # "" /\ current.Location # ""
           /\ ~EqualFold(b.location, current.Location)
        \/ /\ f = "storage_class"
           /\ b.storage_class # "" /\ current.StorageClass # ""
           /\ ~EqualFold(b.storage_class, current.StorageClass)}

\* Mutant: a conflict is an error like any other.
isBucketExistsError_Never(backend, reply) == FALSE

\* reply is "conflict", "unsupported" or "transport".
isBucketExistsError(backend, reply) ==
    reply = "conflict" \/ (reply = "transport" /\ backend.says409)

-----------------------------------------------------------------------------
VARIABLES
    live,     \* the buckets at the endpoint
    backend,  \* which endpoint it is
    cfg,      \* the config file of each provisioner
    dryRun,   \* opts.DryRun of each provisioner
    run,      \* the progress of each provisioner's current run
    settled,  \* some real run has succeeded and nobody touched anything since
    faults, edits, reruns

vars == <<live, backend, cfg, dryRun, run, settled, faults, edits, reruns>>

(***************************************************************************)
(* history as in PubSubSection; "unsupported": the run was refused because *)
(* the endpoint does not implement versioning.                             *)
(***************************************************************************)
Events == {"repeat", "edited", "deleted", "interrupted", "unsupported"}

Running == {"loop", "create", "version"}

RunState ==
    [pc      : {"idle", "ok", "failed"} \cup Running,
     bi      : Nat \ {0},
     warned  : SUBSET (BucketNames \X {"location", "storage_class"}),
     history : SUBSET Events]

Fresh(pc, history) == [pc |-> pc, bi |-> 1, warned |-> {}, history |-> history]

BucketAt(p) == cfg[p].buckets[run[p].bi]

Name(p) == BucketAt(p).name

\* Mutant: the file's strategy is ignored.
Strategy_OwnOnly(p) == EffectiveStrategy(BucketAt(p).strategy, "")

Strategy(p) == EffectiveStrategy(BucketAt(p).strategy, cfg[p].strategy)

\* strings.ToUpper of the class; an omitted versioning creates without.
Desired(p) ==
    [VersioningEnabled |-> TRUE \in BucketAt(p).versioning,
     Location          |-> BucketAt(p).location,
     StorageClass      |-> Upper[BucketAt(p).storage_class]]

\* Mutant: the loop starts over at the same bucket.
Advance_Same(r) == [r EXCEPT !.pc = "loop"]

Advance(r) == [r EXCEPT !.pc = "loop", !.bi = r.bi + 1]

Goto(r, pc) == [r EXCEPT !.pc = pc]

Note(r, event) == [r EXCEPT !.history = @ \cup {event}]

Fail(r, event) == Note(Goto(r, "failed"), event)

Warn(r, name, fields) == [r EXCEPT !.warned = @ \cup ({name} \X fields)]

Become(p, r) == run' = [run EXCEPT ![p] = r]

inputs == <<backend, cfg, dryRun>>
bounds == <<faults, edits, reruns>>

-----------------------------------------------------------------------------
Init ==
    /\ backend \in Backends
    /\ live \in {l \in Lives : Possible(backend, l)}
    /\ cfg \in {f \in Fleets : \A p \in Provisioners : validate(f[p])}
    /\ dryRun \in DryRuns
    /\ run = [p \in Provisioners |-> Fresh("idle", {})]
    /\ settled = FALSE
    /\ faults = 0 /\ edits = 0 /\ reruns = 0

Begin(p) == Become(p, Fresh("loop", IF settled THEN {"repeat"} ELSE {}))

\* The process starts, or its supervisor starts it again after a failure.
Start(p) ==
    /\ run[p].pc \in {"idle", "failed"}
    /\ Begin(p)
    /\ UNCHANGED <<live, inputs, settled, bounds>>

\* Somebody runs the provisioner once more after it succeeded.
Rerun(p) ==
    /\ run[p].pc = "ok" /\ reruns < MaxReruns
    /\ reruns' = reruns + 1
    /\ Begin(p)
    /\ UNCHANGED <<live, inputs, settled, faults, edits>>

\* Mutant: an omitted setting means no versioning.
ensureVersioning_OmittedIsFalse(p, r) ==
    IF dryRun[p] \/ live[Name(p)].VersioningEnabled = (TRUE \in BucketAt(p).versioning)
    THEN Advance(r) ELSE Goto(r, "version")

\* Mutant: versioning is sent whenever it is declared.
ensureVersioning_AlwaysSends(p, r) ==
    IF dryRun[p] \/ BucketAt(p).versioning = {} THEN Advance(r) ELSE Goto(r, "version")

\* ensureVersioning: an omitted setting, or the one there is, needs no call.
ensureVersioning(p, r) ==
    IF dryRun[p] \/ BucketAt(p).versioning \subseteq {live[Name(p)].VersioningEnabled}
    THEN Advance(r) ELSE Goto(r, "version")

\* Mutant: they are compared on every endpoint.
Drift_Everywhere(p) == createOnlyDrift(BucketAt(p), live[Name(p)])

\* Attributes fixed at creation are compared on Cloud Storage only.
Drift(p) ==
    IF backend.emulator THEN {} ELSE createOnlyDrift(BucketAt(p), live[Name(p)])

\* ensureBucket up to its first change: GetBucket and what follows from it.
ensureBucket(p) ==
    /\ run[p].pc = "loop" /\ run[p].bi <= Len(cfg[p].buckets)
    /\ \/ /\ Name(p) \notin DOMAIN live
          /\ Become(p, IF dryRun[p] THEN Advance(run[p]) ELSE Goto(run[p], "create"))
       \/ /\ Name(p) \in DOMAIN live /\ Strategy(p) = "create"
          /\ Become(p, Advance(run[p]))
       \/ /\ Name(p) \in DOMAIN live /\ Strategy(p) # "create"
          /\ Become(p, ensureVersioning(p, Warn(run[p], Name(p), Drift(p))))
    /\ UNCHANGED <<live, inputs, settled, bounds>>

CreateCall(p) == CreateReply(live, backend, Name(p), Desired(p))

\* CreateBucket.
createBucket(p) ==
    /\ run[p].pc = "create"
    /\ \/ /\ CreateCall(p) = "ok"
          /\ live' = Put(live, Name(p), Stored(backend, Desired(p)))
          /\ Become(p, Advance(run[p]))
       \/ /\ CreateCall(p) # "ok"
          /\ Become(p, IF isBucketExistsError(backend, CreateCall(p))
                       THEN Advance(run[p])
                       ELSE IF CreateCall(p) = "unsupported"
                            THEN Fail(run[p], "unsupported")
                            ELSE Goto(run[p], "failed"))
          /\ UNCHANGED live
    /\ UNCHANGED <<inputs, settled, bounds>>

UpdateCall(p) == UpdateReply(live, backend, Name(p), Desired(p).VersioningEnabled)

WithVersioning(p) ==
    [live EXCEPT ![Name(p)].VersioningEnabled = Desired(p).VersioningEnabled]

\* SetVersioning.
setVersioning(p) ==
    /\ run[p].pc = "version"
    /\ \/ /\ UpdateCall(p) = "ok"
          /\ live' = WithVersioning(p)
          /\ Become(p, Advance(run[p]))
       \/ /\ UpdateCall(p) = "missing"
          /\ Become(p, Goto(run[p], "failed")) /\ UNCHANGED live
       \/ /\ UpdateCall(p) = "unsupported"
          /\ Become(p, Fail(run[p], "unsupported")) /\ UNCHANGED live
    /\ UNCHANGED <<inputs, settled, bounds>>

\* ProvisionStorage returns nil.
sectionDone(p) ==
    /\ run[p].pc = "loop" /\ run[p].bi > Len(cfg[p].buckets)
    /\ Become(p, Goto(run[p], "ok"))
    /\ settled' = (settled \/ (~dryRun[p] /\ run[p].history \subseteq {"repeat"}))
    /\ UNCHANGED <<live, inputs, bounds>>

ProvisionStorage(p) ==
    \/ Start(p)
    \/ ensureBucket(p) \/ createBucket(p) \/ setVersioning(p)
    \/ sectionDone(p)

-----------------------------------------------------------------------------
(* What happens around the runs. *)

\* A call fails in transport, before or after it took effect at the endpoint.
CallFails(p) ==
    /\ run[p].pc \in Running /\ faults < MaxFaults
    /\ faults' = faults + 1
    /\ run[p].bi <= Len(cfg[p].buckets)
    /\ \/ UNCHANGED live
       \/ /\ run[p].pc = "create" /\ CreateCall(p) = "ok"
          /\ live' = Put(live, Name(p), Stored(backend, Desired(p)))
       \/ /\ run[p].pc = "version" /\ UpdateCall(p) = "ok"
          /\ live' = WithVersioning(p)
    /\ Become(p, IF run[p].pc = "create" /\ isBucketExistsError(backend, "transport")
                 THEN Advance(run[p])
                 ELSE Fail(run[p], "interrupted"))
    /\ UNCHANGED <<inputs, settled, edits, reruns>>

Killed(p) ==
    /\ run[p].pc \in Running /\ faults < MaxFaults
    /\ faults' = faults + 1
    /\ Become(p, Fail(run[p], "interrupted"))
    /\ UNCHANGED <<live, inputs, settled, edits, reruns>>

EditByHand ==
    /\ edits < MaxEdits
    /\ edits' = edits + 1
    /\ \E e \in ByHand : live' = Put(live, e[1], e[2])
    /\ Possible(backend, live')
    /\ run' = [p \in Provisioners |-> Note(run[p], "edited")]
    /\ settled' = FALSE
    /\ UNCHANGED <<inputs, faults, reruns>>

DeleteByHand ==
    /\ edits < MaxEdits
    /\ edits' = edits + 1
    /\ \E gone \in DOMAIN live : live' = [n \in DOMAIN live \ {gone} |-> live[n]]
    /\ run' = [p \in Provisioners |-> Note(run[p], "deleted")]
    /\ settled' = FALSE
    /\ UNCHANGED <<inputs, faults, reruns>>

Next ==
    \/ \E p \in Provisioners :
          ProvisionStorage(p) \/ Rerun(p) \/ CallFails(p) \/ Killed(p)
    \/ EditByHand
    \/ DeleteByHand

Spec == Init /\ [][Next]_vars

\* A started process is scheduled and a failed one started again.
FairSpec == Spec /\ \A p \in Provisioners : WF_vars(ProvisionStorage(p))
=============================================================================
