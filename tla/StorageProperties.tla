------------------------- MODULE StorageProperties -------------------------
(***************************************************************************)
(* What the Cloud Storage section promises.  As in PubSubProperties, what  *)
(* "as declared" means is defined from the config and the live bucket      *)
(* alone: an endpoint that is no emulator reports upper-case texts.        *)
(***************************************************************************)
EXTENDS Storage

\* Whether live bucket l has another value than bucket b of a file declares.
Differs(b, l) ==
    [location      |-> b.location # "" /\ l.Location # Upper[b.location],
     storage_class |-> b.storage_class # "" /\ l.StorageClass # Upper[b.storage_class]]

Differing(b, l) == {f \in {"location", "storage_class"} : Differs(b, l)[f]}

MayUpdate(p, i) ==
    EffectiveStrategy(cfg[p].buckets[i].strategy, cfg[p].strategy) = "update"

SameConfig(p) == \A q \in Provisioners : cfg[q] = cfg[p]

Undisturbed(p) == run[p].history \subseteq {"repeat"}

-----------------------------------------------------------------------------
(* Invariants. *)

\* Every variable has its type: live is a partial function from bucket names
\* to buckets, and the runs' positions and warnings are well formed.
TypeOK ==
    /\ IsProject(live)
    /\ backend \in Backend
    /\ cfg \in [Provisioners -> StorageFile]
    /\ dryRun \in [Provisioners -> BOOLEAN]
    /\ run \in [Provisioners -> RunState]
    /\ settled \in BOOLEAN
    /\ faults \in 0..MaxFaults /\ edits \in 0..MaxEdits
    /\ reruns \in 0..MaxReruns

\* What happened to a failed run that lets it fail.
HasReason(p) ==
    run[p].pc = "failed" =>
        run[p].history \cap {"interrupted", "deleted", "unsupported"} # {}

\* A run fails only when it was interrupted, when somebody deleted a bucket
\* under it, or when the endpoint does not implement versioning: two runs
\* that create the same bucket do not fight each other (CreateBucket).
OnlyFaultsFail == \A p \in Provisioners : HasReason(p)

\* Bucket i of p's file is there and, when p may update it, has the declared
\* versioning.
AsDeclared(p, i) ==
    LET b == cfg[p].buckets[i]
    IN  /\ b.name \in DOMAIN live
        /\ MayUpdate(p, i) => b.versioning \subseteq {live[b.name].VersioningEnabled}

\* p has warned of every attribute of bucket i that is not as declared.
Reported(p, i) ==
    LET b == cfg[p].buckets[i]
    IN  ~backend.emulator =>
            {b.name} \X Differing(b, live[b.name]) \subseteq run[p].warned

Handled(p, i) == AsDeclared(p, i) /\ (MayUpdate(p, i) => Reported(p, i))

\* When a run has succeeded, and every run is of its file and nobody else
\* changed anything, every bucket exists; one it may update has the declared
\* versioning and, on Cloud Storage, the declared location and class, unless
\* the run warned that it has not.
Converged ==
    \A p \in Provisioners :
        run[p].pc = "ok" /\ ~dryRun[p] /\ SameConfig(p) /\ Undisturbed(p) =>
            \A i \in DOMAIN cfg[p].buckets : Handled(p, i)

\* A run that starts when an earlier one of the same config has succeeded and
\* nothing changed since sends no create and no update.
RepeatSendsNothing ==
    \A p \in Provisioners :
        run[p].history = {"repeat"} /\ SameConfig(p) =>
            run[p].pc \notin {"create", "version"}

\* What p has warned of is so.
WarnsTruly(p) ==
    \A w \in run[p].warned :
        /\ ~backend.emulator
        /\ Undisturbed(p) =>
              \E i \in DOMAIN cfg[p].buckets :
                 LET b == cfg[p].buckets[i]
                 IN  /\ b.name = w[1] /\ b.name \in DOMAIN live
                     /\ w[2] \in Differing(b, live[b.name])

\* A warning is about a bucket that really is not as declared, and none is
\* given on an emulator, which reports the same two values for every bucket
\* (Options.CompareCreateOnlyBucketAttrs) - also when another run, with
\* another file, created the bucket in the meantime.
WarningsAreReal == \A p \in Provisioners : WarnsTruly(p)

-----------------------------------------------------------------------------
(* The inductive invariant. *)

\* Where a run stands.  It sends nothing in a dry run and nothing beyond its
\* list; it updates only what exists, unless somebody deleted it meanwhile.
Placed(p) ==
    /\ run[p].pc \in {"create", "version"} =>
          ~dryRun[p] /\ run[p].bi \in DOMAIN cfg[p].buckets
    /\ run[p].pc = "version" =>
          /\ Strategy(p) = "update" /\ BucketAt(p).versioning # {}
          /\ "deleted" \in run[p].history \/ Name(p) \in DOMAIN live
    /\ run[p].pc = "ok" => run[p].bi > Len(cfg[p].buckets)
    /\ run[p].history = {"repeat"} => settled

\* No transport error reads like a conflict (isBucketExistsError).
ErrorsAreTold == ~backend.says409

Under(p) == run[p].pc \in Running \cup {"ok"} /\ ~dryRun[p]

\* The buckets a run has passed exist until somebody deletes one.
Passed(p) ==
    Under(p) /\ "deleted" \notin run[p].history =>
        \A i \in DOMAIN cfg[p].buckets :
            i < run[p].bi => cfg[p].buckets[i].name \in DOMAIN live

\* Among runs of one file, the buckets that a run nobody disturbed has passed
\* are handled; so is one that appeared when the run was about to create it.
Kept(p) ==
    Under(p) /\ SameConfig(p) /\ Undisturbed(p) =>
        /\ \A i \in DOMAIN cfg[p].buckets : i < run[p].bi => Handled(p, i)
        /\ run[p].pc = "create" /\ Name(p) \in DOMAIN live => Handled(p, run[p].bi)
        /\ run[p].pc = "version" => Reported(p, run[p].bi)

\* Once a run of the common file has succeeded there is nothing left to send.
Rests(p) ==
    SameConfig(p) =>
        /\ settled => \A i \in DOMAIN cfg[p].buckets : AsDeclared(p, i)
        /\ run[p].history = {"repeat"} => run[p].pc \notin {"create", "version"}

\* All that holds of one run.  The last part needs that the endpoint's address
\* does not make CreateBucket take a failed call for a conflict.
RunInv(p) ==
    /\ validate(cfg[p]) /\ Placed(p) /\ HasReason(p) /\ WarnsTruly(p)
    /\ ErrorsAreTold => Passed(p) /\ Kept(p) /\ Rests(p)

\* The buckets and the runs are well formed, a run fails only for a reason
\* outside of it (a create that meets AlreadyExists is none), and what a run
\* has done so far stays done.
StorageInv ==
    /\ TypeOK
    /\ Possible(backend, live)
    /\ \A p \in Provisioners : RunInv(p)

-----------------------------------------------------------------------------
(* Action properties.  A run moves when its record changes other than by   *)
(* noting what happened around it.                                         *)

Moves(p) ==
    [run[p] EXCEPT !.history = {}] # [run[p] EXCEPT !.history = {}]'

\* The one thing a run ever changes on an existing bucket is its versioning,
\* and only to what its file declares under strategy update and no dry run.
\* It deletes no bucket, and creates only one that its file names.
OnlyVersioningChanges ==
    [][\A p \in Provisioners : Moves(p) /\ live' # live =>
         /\ ~dryRun[p]
         /\ DOMAIN live' \ DOMAIN live \subseteq {Name(p)}
         /\ \A n \in DOMAIN live :
              /\ n \in DOMAIN live'
              /\ live'[n] # live[n] =>
                   /\ n = Name(p) /\ Strategy(p) = "update"
                   /\ \E v \in BucketAt(p).versioning :
                         live'[n] = [live[n] EXCEPT !.VersioningEnabled = v]]_vars

-----------------------------------------------------------------------------
(* The section as an implementation of Reconciler. *)

Declares(p, strategies) ==
    {cfg[p].buckets[i].name : i \in {i \in DOMAIN cfg[p].buckets :
        EffectiveStrategy(cfg[p].buckets[i].strategy, cfg[p].strategy) \in strategies}}

Phase(pc) == IF pc \in Running THEN "running" ELSE pc

Declared == [p \in Provisioners |-> Declares(p, {"create", "update"})]

Updatable == [p \in Provisioners |-> Declares(p, {"update"})]

Phases == [p \in Provisioners |-> Phase(run[p].pc)]

Reasons ==
    [p \in Provisioners |->
        run[p].history \cap {"interrupted", "deleted", "unsupported"}]

Abstract == INSTANCE Reconciler WITH
    Runs      <- Provisioners,
    declares  <- Declared,
    updatable <- Updatable,
    readonly  <- dryRun,
    store     <- live,
    phase     <- Phases,
    excuse    <- Reasons,
    outside   <- edits

\* Every behaviour of the section is one the reconciler allows: whatever the
\* runs do to each other, a run writes only what its file lets it, deletes
\* nothing, and succeeds only when every bucket is there.
ImplementsReconciler == Abstract!Spec

-----------------------------------------------------------------------------
(* Liveness, under FairSpec. *)

\* Where versioning is implemented, a provisioner that is scheduled and
\* started again after a failure ends in success.
EventuallyProvisioned ==
    backend.versioning =>
        \A p \in Provisioners : run[p].pc # "ok" ~> run[p].pc = "ok"
=============================================================================
