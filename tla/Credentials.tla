---------------------------- MODULE Credentials ----------------------------
(***************************************************************************)
(* The credentials section of a provisioning run                           *)
(* (internal/provisioner/credentials.go), the key files it writes          *)
(* (internal/credentials) and its part of the config file.                 *)
(*                                                                         *)
(* Several provisioners may share the volume the files are on, and         *)
(* applications load the files from it at any time.  A step is one call    *)
(* of the file system: os.Stat, the open of os.WriteFile, which truncates, *)
(* and its write, which starts at offset 0.                                *)
(***************************************************************************)
EXTENDS Common, FiniteSets

CONSTANTS
    Accounts,      \* the texts that match accountPattern
    AbsoluteURIs,  \* the texts url.Parse finds a scheme and a host in
    Files,         \* the files on the volume
    Target,        \* the file each path leads to; two paths may lead to one
    Pairs,         \* RSA key pairs
    LongPairs,     \* the ones whose encoding is longer than that of the others
    Provisioners,  \* the runs that may be active at the same time
    Fleets,        \* which config file each provisioner is given
    DryRuns,       \* which provisioners run with dry-run set
    Volumes,       \* what there may be on the volume before the first run
    MaxFaults,     \* bound on failed calls and killed runs
    MaxReruns      \* bound on runs started again after a success

DefaultAccount == "local-emulator"

-----------------------------------------------------------------------------
(* The config file. *)

Credential == [path : Texts, strategy : Texts, account : Texts, token_uri : Texts]

\* project_id is the resolved one, which main writes back into the config.
CredentialsFile == [project_id : Texts, credentials : Seq(Credential)]

\* Mutant: the strategy defaults to update, as for every other resource.
EffectiveCredentialStrategy_Update(own) == IF own = "" THEN "update" ELSE own

EffectiveCredentialStrategy(own) == IF own = "" THEN "create" ELSE own

validateCredentials(creds) ==
    /\ \A i \in DOMAIN creds :
          /\ creds[i].strategy \in validStrategies
          /\ creds[i].path # ""
          /\ creds[i].account \in Accounts \cup {""}
          /\ creds[i].token_uri \in AbsoluteURIs \cup {""}
    /\ \A i, k \in DOMAIN creds : creds[i].path = creds[k].path => i = k

-----------------------------------------------------------------------------
(* The files. *)

\* The identifying fields of a key; every OAuth URL follows from token_uri.
Key == [project_id : Texts, account : Texts, token_uri : Texts, pair : Pairs]

googleTokenURI == "https://oauth2.googleapis.com/token"

\* Mutant: the account of the entry is not passed on.
Generate_DefaultAlways(projectID, account, tokenURI, pair) ==
    [project_id |-> projectID, account |-> DefaultAccount,
     token_uri  |-> IF tokenURI = "" THEN googleTokenURI ELSE tokenURI,
     pair       |-> pair]

Generate(projectID, account, tokenURI, pair) ==
    [project_id |-> projectID,
     account    |-> IF account = "" THEN DefaultAccount ELSE account,
     token_uri  |-> IF tokenURI = "" THEN googleTokenURI ELSE tokenURI,
     pair       |-> pair]

\* "whole" is the one content that parses.  "mixed" is a key followed by the
\* end of a longer one.
Content ==
    [state : {"absent", "empty", "cut", "mixed", "whole"}, key : Opt(Key)]

Is(state) == [state |-> state, key |-> {}]

Whole(key) == [state |-> "whole", key |-> {key}]

ASSUME CredentialsAssumption ==
    /\ {DefaultAccount, googleTokenURI} \cup Accounts \cup AbsoluteURIs \subseteq Texts
    /\ Target \in [Texts \ {""} -> Files]
    /\ LongPairs \subseteq Pairs
    /\ \A f \in Fleets : f \in [Provisioners -> CredentialsFile]
    /\ \A f \in Fleets : \A p \in Provisioners : f[p].project_id # ""
    /\ DryRuns \subseteq [Provisioners -> BOOLEAN]
    /\ Volumes \subseteq [Files -> Content]
    /\ MaxFaults \in Nat /\ MaxReruns \in Nat

\* What a write of key at offset 0 makes of a file.
Overwrite(content, key) ==
    IF \/ content.state = "mixed"
       \/ content.state = "whole" /\ \E k \in content.key :
             k.pair \in LongPairs /\ key.pair \notin LongPairs
    THEN Is("mixed") ELSE Whole(key)

-----------------------------------------------------------------------------
VARIABLES
    files,   \* what there is on the volume
    loaded,  \* the key the applications have loaded from each file, if any
    cfg,     \* the config file of each provisioner
    dryRun,  \* opts.DryRun of each provisioner
    run,     \* the progress of each provisioner's current run
    hurt,    \* the files whose last write was cut short
    faults, reruns

vars == <<files, loaded, cfg, dryRun, run, hurt, faults, reruns>>

(***************************************************************************)
(* pc     "loop": at the next credential; "open", "write": in WriteFile    *)
(* key    the generated key it is going to write                           *)
(***************************************************************************)
Running == {"loop", "open", "write"}

RunState ==
    [pc  : {"idle", "ok", "failed"} \cup Running,
     ci  : Nat \ {0},
     key : Opt(Key)]

Fresh(pc) == [pc |-> pc, ci |-> 1, key |-> {}]

creds(p) == cfg[p].credentials

CredentialAt(p) == creds(p)[run[p].ci]

FileAt(p) == Target[CredentialAt(p).path]

\* Mutant: every other credential is left out.
Advance_Twice(r) == [r EXCEPT !.pc = "loop", !.ci = r.ci + 2, !.key = {}]

Advance(r) == [r EXCEPT !.pc = "loop", !.ci = r.ci + 1, !.key = {}]

Become(p, r) == run' = [run EXCEPT ![p] = r]

inputs == <<cfg, dryRun>>
bounds == <<faults, reruns>>

-----------------------------------------------------------------------------
Init ==
    /\ files \in Volumes
    /\ loaded = [f \in Files |-> {}]
    /\ cfg \in {f \in Fleets : \A p \in Provisioners :
                                  validateCredentials(f[p].credentials)}
    /\ dryRun \in DryRuns
    /\ run = [p \in Provisioners |-> Fresh("idle")]
    /\ hurt = {f \in Files : files[f].state \notin {"absent", "whole"}}
    /\ faults = 0 /\ reruns = 0

Begin(p) == Become(p, Fresh("loop"))

\* The process starts, or its supervisor starts it again after a failure.
Start(p) ==
    /\ run[p].pc \in {"idle", "failed"}
    /\ Begin(p)
    /\ UNCHANGED <<files, loaded, inputs, hurt, bounds>>

\* Somebody runs the provisioner once more after it succeeded.
Rerun(p) ==
    /\ run[p].pc = "ok" /\ reruns < MaxReruns
    /\ reruns' = reruns + 1
    /\ Begin(p)
    /\ UNCHANGED <<files, loaded, inputs, hurt, faults>>

fileExists(f) == files[f].state # "absent"

\* The pairs that are nowhere yet: GenerateKey never returns one of another.
NewPairs ==
    Pairs \ {k.pair : k \in UNION ({files[f].key : f \in Files}
                                   \cup {loaded[f] : f \in Files}
                                   \cup {run[p].key : p \in Provisioners})}

Skips(p) ==
    /\ fileExists(FileAt(p))
    /\ EffectiveCredentialStrategy(CredentialAt(p).strategy) # "update"

\* ensureCredential up to the write: the stat and, in memory, the new key.
ensureCredential(p) ==
    /\ run[p].pc = "loop" /\ run[p].ci <= Len(creds(p))
    /\ \/ /\ Skips(p) \/ dryRun[p]
          /\ Become(p, Advance(run[p]))
       \/ /\ ~Skips(p) /\ ~dryRun[p]
          /\ \E pair \in NewPairs :
                LET c == CredentialAt(p)
                IN  Become(p, [run[p] EXCEPT !.pc = "open", !.key =
                       {Generate(cfg[p].project_id, c.account, c.token_uri, pair)}])
    /\ UNCHANGED <<files, loaded, inputs, hurt, bounds>>

\* Mutant: the open does not truncate.
openFile_Keeps(p) ==
    /\ run[p].pc = "open"
    /\ files' = [files EXCEPT ![FileAt(p)] = IF fileExists(FileAt(p)) THEN @
                                                                    ELSE Is("empty")]
    /\ Become(p, [run[p] EXCEPT !.pc = "write"])
    /\ UNCHANGED <<loaded, inputs, hurt, bounds>>

\* Write: MkdirAll and the O_CREATE|O_TRUNC open of os.WriteFile.
openFile(p) ==
    /\ run[p].pc = "open"
    /\ files' = [files EXCEPT ![FileAt(p)] = Is("empty")]
    /\ Become(p, [run[p] EXCEPT !.pc = "write"])
    /\ UNCHANGED <<loaded, inputs, hurt, bounds>>

\* Write: the write and the close of os.WriteFile.
writeFile(p) ==
    /\ run[p].pc = "write"
    /\ files' = [files EXCEPT ![FileAt(p)] = Overwrite(@, The(run[p].key))]
    /\ hurt' = hurt \ {FileAt(p)}
    /\ Become(p, Advance(run[p]))
    /\ UNCHANGED <<loaded, inputs, bounds>>

\* ProvisionCredentials returns nil.
sectionDone(p) ==
    /\ run[p].pc = "loop" /\ run[p].ci > Len(creds(p))
    /\ Become(p, [run[p] EXCEPT !.pc = "ok"])
    /\ UNCHANGED <<files, loaded, inputs, hurt, bounds>>

Work(p) == ensureCredential(p) \/ openFile(p) \/ writeFile(p) \/ sectionDone(p)

ProvisionCredentials(p) == Start(p) \/ Work(p)

-----------------------------------------------------------------------------
(* What happens around the runs. *)

\* The process is killed, or a call of the file system fails.  A write that
\* fails, on a full disk say, may have written part of the key.
CutShort(p) ==
    /\ run[p].pc \in Running /\ faults < MaxFaults
    /\ faults' = faults + 1
    /\ \/ UNCHANGED files
       \/ run[p].pc = "write" /\ files' = [files EXCEPT ![FileAt(p)] = Is("cut")]
    /\ hurt' = IF run[p].pc = "write" THEN hurt \cup {FileAt(p)} ELSE hurt
    /\ Become(p, [run[p] EXCEPT !.pc = "failed", !.key = {}])
    /\ UNCHANGED <<loaded, inputs, reruns>>

\* An application starts and loads the file; with any other content it does
\* not start, and tries again later.
Load(f) ==
    /\ files[f].state = "whole"
    /\ loaded' = [loaded EXCEPT ![f] = files[f].key]
    /\ UNCHANGED <<files, inputs, run, hurt, bounds>>

Next ==
    \/ \E p \in Provisioners : ProvisionCredentials(p) \/ Rerun(p) \/ CutShort(p)
    \/ \E f \in Files : Load(f)

Spec == Init /\ [][Next]_vars

\* A started process is scheduled and a failed one started again, and so is
\* an application that found no key.
FairSpec ==
    /\ Spec
    /\ \A p \in Provisioners : WF_vars(ProvisionCredentials(p))
    /\ \A f \in Files : WF_vars(Load(f))
=============================================================================
