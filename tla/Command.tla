------------------------------ MODULE Command ------------------------------
(***************************************************************************)
(* The provisioner as a process (cmd/gcp-emulator-provisioner/main.go and  *)
(* Provisioner.Run): flags and environment, loading, the connections, and  *)
(* the three sections, which are the modules PubSubSection, Storage and    *)
(* Credentials, each with its own part of the state and of the file.       *)
(*                                                                         *)
(* Connect models how a connection is retried; here it is made once the    *)
(* endpoint is up, or given up while it is not.                            *)
(***************************************************************************)
EXTENDS Common, FiniteSets

CONSTANTS
    LabelKeys, ResourceNames, BucketNames, Upper, Accounts, AbsoluteURIs,
    KeyFiles, Target, Pairs, LongPairs,   \* see the modules of the sections
    ProjectIDs,    \* the texts that match projectIDPattern
    Provisioners,  \* the processes
    Inputs,        \* flags, environment and config file of each process
    PubSubLives, StorageLives, Volumes, Endpoints, Backends,
    MaxFaults      \* bound on failed calls and killed processes

VARIABLES
    input,     \* what each process is started with
    stage,     \* where its main is
    todo,      \* the sections still to be run
    admins,    \* the clients that are not nil
    project,   \* projectID, the id the clients were made with
    ProjectID, \* cfg.ProjectID, the id the key files are made with
    dryRun,    \* opts.DryRun
    up,        \* the endpoints that answer
    faults,
    topics, endpoint, pubsubRun, pubsubSettled,
    buckets, backend, storageRun, storageSettled,
    files, loaded, hurt, credentialsRun

main == <<stage, todo, admins, project, ProjectID, dryRun>>
pubsub == <<topics, pubsubRun, pubsubSettled>>
storage == <<buckets, storageRun, storageSettled>>
credentials == <<files, loaded, hurt, credentialsRun>>
world == <<input, up, endpoint, backend>>

vars == <<main, pubsub, storage, credentials, world, faults>>

-----------------------------------------------------------------------------
(* The sections. *)

PubSub == INSTANCE PubSubProperties WITH
    live <- topics, run <- pubsubRun, settled <- pubsubSettled,
    cfg <- [p \in Provisioners |->
              [strategy |-> input[p].strategy, topics |-> input[p].topics]],
    Fleets <- {}, DryRuns <- {}, Lives <- PubSubLives, ByHand <- {},
    MaxEdits <- 0, MaxReruns <- 0, edits <- 0, reruns <- 0

Storage == INSTANCE StorageProperties WITH
    live <- buckets, run <- storageRun, settled <- storageSettled,
    cfg <- [p \in Provisioners |->
              [strategy |-> input[p].strategy, buckets |-> input[p].buckets]],
    Fleets <- {}, DryRuns <- {}, Lives <- StorageLives, ByHand <- {},
    MaxEdits <- 0, MaxReruns <- 0, edits <- 0, reruns <- 0

Keys == INSTANCE CredentialsProperties WITH
    run <- credentialsRun, Files <- KeyFiles,
    cfg <- [p \in Provisioners |->
              [project_id |-> ProjectID[p], credentials |-> input[p].credentials]],
    Fleets <- {}, DryRuns <- {}, MaxReruns <- 0, reruns <- 0

\* A flag that may be left out is a set of at most one element.
Input ==
    [sectionFlag : Texts, GCP_SECTION : Texts, dryRunFlag : Opt(BOOLEAN),
     DRY_RUN : Texts, GCP_PROJECT_ID : Texts,
     project_id : Texts, strategy : Texts, topics : Seq(PubSub!Topic),
     buckets : Seq(Storage!Bucket), credentials : Seq(Keys!Credential)]

ASSUME CommandAssumption ==
    /\ \A i \in Inputs : DOMAIN i = Provisioners /\ \A p \in Provisioners : i[p] \in Input
    /\ Target \in [Texts \ {""} -> KeyFiles]
    /\ Volumes \subseteq [KeyFiles -> Keys!Content]
    /\ MaxFaults \in Nat

Init ==
    /\ input \in Inputs
    /\ stage = [p \in Provisioners |-> "idle"]
    /\ todo = [p \in Provisioners |-> <<>>]
    /\ admins = [p \in Provisioners |-> {}]
    /\ project = [p \in Provisioners |-> ""]
    /\ ProjectID = [p \in Provisioners |-> ""]
    /\ dryRun = [p \in Provisioners |-> FALSE]
    /\ up = {} /\ faults = 0
    /\ topics \in PubSubLives /\ endpoint \in Endpoints
    /\ pubsubRun = [p \in Provisioners |-> PubSub!Fresh("idle", {})]
    /\ backend \in Backends
    /\ buckets \in {l \in StorageLives : Storage!Possible(backend, l)}
    /\ storageRun = [p \in Provisioners |-> Storage!Fresh("idle", {})]
    /\ pubsubSettled = FALSE /\ storageSettled = FALSE
    /\ files \in Volumes
    /\ loaded = [f \in KeyFiles |-> {}]
    /\ hurt = {f \in KeyFiles : files[f].state \notin {"absent", "whole"}}
    /\ credentialsRun = [p \in Provisioners |-> Keys!Fresh("idle")]

-----------------------------------------------------------------------------
(* main and run, up to the sections. *)

validSections == {"all", "pubsub", "storage", "credentials"}

section(p) ==
    IF input[p].sectionFlag # "" THEN input[p].sectionFlag
    ELSE IF input[p].GCP_SECTION # "" THEN input[p].GCP_SECTION ELSE "all"

\* strconv.ParseBool, for the texts there are.
ParseBool == [t \in {"true", "1", "false", "0"} |-> t \in {"true", "1"}]

\* Mutant: the flag's default hides the environment.
resolveDryRun_FlagOnly(p) == {TRUE \in input[p].dryRunFlag}

\* The setting, or no element for an error.
resolveDryRun(p) ==
    IF input[p].dryRunFlag # {} THEN input[p].dryRunFlag
    ELSE IF input[p].DRY_RUN = "" THEN {FALSE}
    ELSE {ParseBool[t] : t \in {input[p].DRY_RUN} \cap DOMAIN ParseBool}

\* Mutant: the id in the file is required.
resolveProjectID_InFile(p) ==
    IF input[p].GCP_PROJECT_ID # "" /\ input[p].project_id # ""
    THEN input[p].GCP_PROJECT_ID ELSE input[p].project_id

resolveProjectID(p) ==
    IF input[p].GCP_PROJECT_ID # "" THEN input[p].GCP_PROJECT_ID ELSE input[p].project_id

\* The process is started, by hand or again by its supervisor.
Start(p) ==
    /\ stage[p] \in {"idle", "exit 1"}
    /\ \/ /\ section(p) \in validSections /\ resolveDryRun(p) # {}
          /\ stage' = [stage EXCEPT ![p] = "load"]
          /\ dryRun' = [dryRun EXCEPT ![p] = The(resolveDryRun(p))]
       \/ /\ section(p) \notin validSections \/ resolveDryRun(p) = {}
          /\ stage' = [stage EXCEPT ![p] = "exit 1"]
          /\ UNCHANGED dryRun
    /\ admins' = [admins EXCEPT ![p] = {}]
    /\ UNCHANGED <<todo, project, ProjectID, pubsub, storage, credentials, world, faults>>

\* config.Load, which validates all of the file.
validate(p) ==
    /\ input[p].project_id \in ProjectIDs \cup {""}
    /\ PubSub!validate([strategy |-> input[p].strategy, topics |-> input[p].topics])
    /\ Storage!validate([strategy |-> input[p].strategy, buckets |-> input[p].buckets])
    /\ Keys!validateCredentials(input[p].credentials)

\* Mutant: the resolved id is not written back.
load_KeepsProjectID(p) ==
    /\ stage[p] = "load"
    /\ \/ /\ validate(p) /\ resolveProjectID(p) # ""
          /\ stage' = [stage EXCEPT ![p] = "connectPubSub"]
          /\ project' = [project EXCEPT ![p] = resolveProjectID(p)]
          /\ ProjectID' = [ProjectID EXCEPT ![p] = input[p].project_id]
       \/ /\ ~(validate(p) /\ resolveProjectID(p) # "")
          /\ stage' = [stage EXCEPT ![p] = "exit 1"]
          /\ UNCHANGED <<project, ProjectID>>
    /\ UNCHANGED <<todo, admins, dryRun, pubsub, storage, credentials, world, faults>>

load(p) ==
    /\ stage[p] = "load"
    /\ \/ /\ validate(p) /\ resolveProjectID(p) # ""
          /\ stage' = [stage EXCEPT ![p] = "connectPubSub"]
          /\ project' = [project EXCEPT ![p] = resolveProjectID(p)]
          /\ ProjectID' = [ProjectID EXCEPT ![p] = resolveProjectID(p)]
       \/ /\ ~(validate(p) /\ resolveProjectID(p) # "")
          /\ stage' = [stage EXCEPT ![p] = "exit 1"]
          /\ UNCHANGED <<project, ProjectID>>
    /\ UNCHANGED <<todo, admins, dryRun, pubsub, storage, credentials, world, faults>>

\* Mutant: "all" does not stand for every section.
wants_Exact(p, want) == section(p) = want

wants(p, want) == section(p) \in {"all", want}

\* The switch at the end of run, and the order in Run.
Sections(p) ==
    IF section(p) = "all" THEN <<"credentials", "pubsub", "storage">> ELSE <<section(p)>>

\* Mutant: a client is made also where the file has nothing for it.
Connecting_Always(p, service, resources, next) ==
    /\ \/ /\ service \in up
          /\ admins' = [admins EXCEPT ![p] = admins[p] \cup {service}]
          /\ stage' = [stage EXCEPT ![p] = next]
       \/ /\ service \notin up
          /\ stage' = [stage EXCEPT ![p] = "exit 1"]
          /\ UNCHANGED admins
    /\ UNCHANGED <<project, ProjectID, dryRun, pubsub, storage, credentials, world, faults>>

\* connectPubSub or connectStorage, where the section is wanted and not empty.
\* A probe (ListTopics, Buckets) is the first thing that is sent to an endpoint,
\* before any section begins; it reads, and the project is as it was.
Connecting(p, service, resources, next) ==
    /\ \/ /\ wants(p, service) /\ resources # <<>>
          /\ \/ /\ service \in up
                /\ admins' = [admins EXCEPT ![p] = admins[p] \cup {service}]
                /\ stage' = [stage EXCEPT ![p] = next]
             \/ /\ service \notin up
                /\ stage' = [stage EXCEPT ![p] = "exit 1"]
                /\ UNCHANGED admins
       \/ /\ ~(wants(p, service) /\ resources # <<>>)
          /\ stage' = [stage EXCEPT ![p] = next]
          /\ UNCHANGED admins
    /\ UNCHANGED <<project, ProjectID, dryRun, pubsub, storage, credentials, world, faults>>

connectPubSub(p) ==
    /\ stage[p] = "connectPubSub"
    /\ Connecting(p, "pubsub", input[p].topics, "connectStorage")
    /\ UNCHANGED todo

connectStorage(p) ==
    /\ stage[p] = "connectStorage"
    /\ Connecting(p, "storage", input[p].buckets, "sections")
    /\ todo' = [todo EXCEPT ![p] = Sections(p)]

-----------------------------------------------------------------------------
(* The sections, one after the other. *)

\* The next section is called, or there is none left.
Enter(p) ==
    /\ stage[p] = "sections"
    /\ \/ /\ todo[p] = <<>>
          /\ stage' = [stage EXCEPT ![p] = "exit 0"]
          /\ UNCHANGED <<todo, pubsub, storage, credentials>>
       \/ /\ todo[p] # <<>>
          /\ stage' = [stage EXCEPT ![p] = Head(todo[p])]
          /\ todo' = [todo EXCEPT ![p] = Tail(todo[p])]
          /\ IF Head(todo[p]) = "pubsub" THEN PubSub!Begin(p) ELSE UNCHANGED pubsubRun
          /\ IF Head(todo[p]) = "storage" THEN Storage!Begin(p) ELSE UNCHANGED storageRun
          /\ IF Head(todo[p]) = "credentials" THEN Keys!Begin(p)
                                              ELSE UNCHANGED credentialsRun
          /\ UNCHANGED <<topics, pubsubSettled, buckets, storageSettled,
                         files, loaded, hurt>>
    /\ UNCHANGED <<admins, project, ProjectID, dryRun, world, faults>>

pc(p) ==
    IF stage[p] = "pubsub" THEN pubsubRun[p].pc
    ELSE IF stage[p] = "storage" THEN storageRun[p].pc
    ELSE IF stage[p] = "credentials" THEN credentialsRun[p].pc ELSE "none"

\* Mutant: the error of a section is not returned.
Leave_IgnoresErrors(p) ==
    /\ pc(p) \in {"ok", "failed"}
    /\ stage' = [stage EXCEPT ![p] = "sections"]
    /\ UNCHANGED <<todo, admins, project, ProjectID, dryRun,
                   pubsub, storage, credentials, world, faults>>

\* A section returned nil or an error.
Leave(p) ==
    /\ pc(p) \in {"ok", "failed"}
    /\ stage' = [stage EXCEPT ![p] = IF pc(p) = "ok" THEN "sections" ELSE "exit 1"]
    /\ UNCHANGED <<todo, admins, project, ProjectID, dryRun,
                   pubsub, storage, credentials, world, faults>>

PubSubStep(p) ==
    /\ stage[p] = "pubsub" /\ pubsubRun[p].pc \in PubSub!Running
    /\ UNCHANGED <<main, world, storage, credentials>>
    /\ PubSub!ProvisionPubSub(p)

StorageStep(p) ==
    /\ stage[p] = "storage" /\ storageRun[p].pc \in Storage!Running
    /\ UNCHANGED <<main, world, pubsub, credentials>>
    /\ Storage!ProvisionStorage(p)

CredentialsStep(p) ==
    /\ stage[p] = "credentials" /\ credentialsRun[p].pc \in Keys!Running
    /\ UNCHANGED <<main, world, pubsub, storage>>
    /\ Keys!Work(p)

run(p) ==
    \/ Start(p) \/ load(p) \/ connectPubSub(p) \/ connectStorage(p)
    \/ Enter(p) \/ Leave(p)
    \/ PubSubStep(p) \/ StorageStep(p) \/ CredentialsStep(p)

-----------------------------------------------------------------------------
(* What happens around the processes. *)

\* A call of the current section fails, or the process is killed in it; the
\* call may have taken effect.
PubSubFault(p) ==
    /\ stage[p] = "pubsub"
    /\ UNCHANGED <<main, world, storage, credentials>>
    /\ PubSub!Interrupt(p) \/ PubSub!LostReply(p)

StorageFault(p) ==
    /\ stage[p] = "storage"
    /\ UNCHANGED <<main, world, pubsub, credentials>>
    /\ Storage!CallFails(p) \/ Storage!Killed(p)

CredentialsFault(p) ==
    /\ stage[p] = "credentials"
    /\ UNCHANGED <<main, world, pubsub, storage>>
    /\ Keys!CutShort(p)

\* A signal, or the end of the process, before the sections.
Stopped(p) ==
    /\ stage[p] \in {"load", "connectPubSub", "connectStorage"} /\ faults < MaxFaults
    /\ faults' = faults + 1
    /\ stage' = [stage EXCEPT ![p] = "exit 1"]
    /\ UNCHANGED <<todo, admins, project, ProjectID, dryRun,
                   pubsub, storage, credentials, world>>

ComesUp(service) ==
    /\ service \notin up
    /\ up' = up \cup {service}
    /\ UNCHANGED <<main, pubsub, storage, credentials, input, endpoint, backend, faults>>

Around(p) == PubSubFault(p) \/ StorageFault(p) \/ CredentialsFault(p) \/ Stopped(p)

Next ==
    \/ \E p \in Provisioners : run(p) \/ Around(p)
    \/ \E service \in {"pubsub", "storage"} : ComesUp(service)

Spec == Init /\ [][Next]_vars

\* A started process is scheduled and a failed one started again.
FairSpec == Spec /\ \A p \in Provisioners : WF_vars(run(p))

\* And the emulators do come up, sooner or later.
FairStack ==
    FairSpec /\ \A service \in {"pubsub", "storage"} : WF_vars(ComesUp(service))

-----------------------------------------------------------------------------
(* Properties. *)

Wanted(p, s) == section(p) \in {"all", s}

\* No section calls a client that is nil: neither one that was not connected
\* because another section was selected, nor one left over from a process
\* before it.
NeverNil ==
    \A p \in Provisioners :
        /\ pc(p) \in PubSub!Running /\ stage[p] = "pubsub" /\ input[p].topics # <<>>
              => "pubsub" \in admins[p]
        /\ pc(p) \in Storage!Running /\ stage[p] = "storage" /\ input[p].buckets # <<>>
              => "storage" \in admins[p]

\* A process that exits with 0 has done everything it was asked for: every
\* topic, subscription, bucket and key file of the selected sections is
\* there, whichever of them failed in earlier processes.
ExitZeroMeansDone ==
    \A p \in Provisioners : stage[p] = "exit 0" /\ ~dryRun[p] =>
        /\ Wanted(p, "pubsub") => PubSub!Declares(p, {"create", "update"}) \subseteq DOMAIN topics
        /\ Wanted(p, "storage") => Storage!Declares(p, {"create", "update"}) \subseteq DOMAIN buckets
        /\ Wanted(p, "credentials") =>
              \A i \in DOMAIN input[p].credentials :
                 files[Target[input[p].credentials[i].path]].state # "absent"

\* The key files are for the project the clients work on, wherever its id
\* came from.
OneProject ==
    \A p \in Provisioners : \A k \in credentialsRun[p].key :
        k.project_id = project[p] /\ k.project_id # ""

\* What is not selected, or only previewed, is left alone: the flag decides,
\* and the environment where there is no flag.
OnlyWhatIsAsked ==
    [][\A p \in Provisioners : stage[p] # "idle" =>
         LET dry == input[p].dryRunFlag = {TRUE} \/
                    (input[p].dryRunFlag = {} /\ input[p].DRY_RUN \in {"true", "1"})
         IN  /\ pubsubRun'[p] # pubsubRun[p] =>
                  Wanted(p, "pubsub") /\ (dry => topics' = topics)
             /\ storageRun'[p] # storageRun[p] =>
                  Wanted(p, "storage") /\ (dry => buckets' = buckets)
             /\ credentialsRun'[p] # credentialsRun[p] =>
                  Wanted(p, "credentials") /\ (dry => files' = files)]_vars

\* A section there is, a dry-run setting that parses, a valid file and a
\* project id from one place or the other.
Usable(p) ==
    /\ section(p) \in validSections
    /\ input[p].dryRunFlag # {} \/ input[p].DRY_RUN \in {""} \cup DOMAIN ParseBool
    /\ validate(p)
    /\ {input[p].GCP_PROJECT_ID, input[p].project_id} # {""}

\* A process that has failed, or is about to exit because its section has.
Down(p) == stage[p] = "exit 1" \/ pc(p) = "failed"

\* What may make a process fail in this step: a fault, an input it has to refuse,
\* an endpoint it needs that is not up when it connects, or an endpoint for buckets
\* that has no versioning.
Reason(p) ==
    \/ faults' = faults + 1
    \/ ~Usable(p)
    \/ /\ stage[p] = "connectPubSub" /\ "pubsub" \notin up
       /\ Wanted(p, "pubsub") /\ input[p].topics # <<>>
    \/ /\ stage[p] = "connectStorage" /\ "storage" \notin up
       /\ Wanted(p, "storage") /\ input[p].buckets # <<>>
    \/ stage[p] = "storage" /\ ~backend.versioning

\* No process fails without such a reason: not because an endpoint it has nothing
\* for is down, because another process creates what it was about to create, or
\* because of what an earlier process that failed half-way has left behind.
NeverFailsByItself ==
    [][\A p \in Provisioners : ~Down(p) /\ Down(p)' => Reason(p)]_vars

\* A process with usable input that is started again after a failure ends
\* with 0 once the emulators have come up, however it failed before.
EventuallyExitsZero ==
    \A p \in Provisioners : Usable(p) /\ backend.versioning ~> stage[p] = "exit 0"

\* A full run writes its key files, also while the emulators are down:
\* provisioner.go, "a stack whose emulators are slow to come up should still
\* get its key written".
KeyWrittenWhileDown ==
    \A p \in Provisioners :
        Usable(p) /\ section(p) = "all" /\ The(resolveDryRun(p)) = FALSE ~>
            \A i \in DOMAIN input[p].credentials :
                files[Target[input[p].credentials[i].path]].state # "absent"
=============================================================================
