--------------------------- MODULE Command_proofs ---------------------------
(***************************************************************************)
(* The command as a whole, for any number of processes with any flags,     *)
(* environment and config file: the order of its sections, the clients     *)
(* they use and the project they work on (CommandInv), and what they have  *)
(* left behind when the process exits (DoneInv); and that what they send   *)
(* can be carried out (SendInv), so that only the outside makes them fail. *)
(***************************************************************************)
EXTENDS Command, TLAPS, SequenceTheorems

SectionNames == {"pubsub", "storage", "credentials"}

InSections == {"sections"} \cup SectionNames

Stages ==
    {"idle", "load", "connectPubSub", "connectStorage", "exit 0", "exit 1"} \cup InSections

AfterLoad == {"connectPubSub", "connectStorage"} \cup InSections

\* Every key file of the config is there.
KeysThere(p) ==
    \A i \in DOMAIN input[p].credentials :
        files[Target[input[p].credentials[i].path]].state # "absent"

-----------------------------------------------------------------------------
(* The inductive invariant. *)

\* The shape of the progress of a credentials section.
IsRun(r) == DOMAIN r = {"pc", "ci", "key"} /\ r.ci \in Nat \ {0}

\* The types of the variables of main and of the credentials section.
CommandType ==
    /\ input \in Inputs
    /\ stage \in [Provisioners -> Stages]
    /\ DOMAIN todo = Provisioners /\ todo = [p \in Provisioners |-> todo[p]]
    /\ admins \in [Provisioners -> SUBSET {"pubsub", "storage"}]
    /\ DOMAIN project = Provisioners /\ project = [p \in Provisioners |-> project[p]]
    /\ DOMAIN ProjectID = Provisioners /\ ProjectID = [p \in Provisioners |-> ProjectID[p]]
    /\ DOMAIN dryRun = Provisioners /\ dryRun = [p \in Provisioners |-> dryRun[p]]
    /\ DOMAIN files = KeyFiles /\ files = [f \in KeyFiles |-> files[f]]
    /\ DOMAIN credentialsRun = Provisioners
    /\ credentialsRun = [p \in Provisioners |-> credentialsRun[p]]
    /\ \A p \in Provisioners : IsRun(credentialsRun[p])

\* After loading, the file is valid and the project the same everywhere.
LoadedInv(p) ==
    /\ stage[p] \in {"load"} \cup AfterLoad => section(p) \in validSections
    /\ stage[p] \in AfterLoad =>
          /\ Keys!validateCredentials(input[p].credentials)
          /\ project[p] = ProjectID[p] /\ project[p] # ""

\* The clients that the selected sections need have been made.
AdminsInv(p) ==
    /\ stage[p] \in {"connectStorage"} \cup InSections
          /\ Wanted(p, "pubsub") /\ input[p].topics # <<>> => "pubsub" \in admins[p]
    /\ stage[p] \in InSections
          /\ Wanted(p, "storage") /\ input[p].buckets # <<>> => "storage" \in admins[p]

\* What is still to be run is wanted, and the credentials come first.
TodoInv(p) ==
    stage[p] \in InSections =>
        /\ todo[p] \in Seq(SectionNames)
        /\ \A i \in DOMAIN todo[p] :
              /\ Wanted(p, todo[p][i])
              /\ todo[p][i] = "credentials" => i = 1 /\ stage[p] = "sections"
        /\ stage[p] # "sections" => Wanted(p, stage[p])

\* Once the credentials of a full run are no longer to be written, they are there.
KeysInv(p) ==
    /\ section(p) = "all" /\ ~dryRun[p] /\
       (\/ stage[p] \in {"pubsub", "storage"}
        \/ stage[p] = "sections" /\ \A i \in DOMAIN todo[p] : todo[p][i] # "credentials")
       => KeysThere(p)

\* In the credentials section: the entries that are passed have a file, and a
\* key in memory is for the project.
CredentialsPart(p) ==
    /\ stage[p] = "credentials" /\ ~dryRun[p] =>
          /\ credentialsRun[p].pc = "ok" => credentialsRun[p].ci > Len(input[p].credentials)
          /\ \A i \in DOMAIN input[p].credentials : i < credentialsRun[p].ci =>
                files[Target[input[p].credentials[i].path]].state # "absent"
    /\ credentialsRun[p].pc = "open" => credentialsRun[p].ci \in DOMAIN input[p].credentials
    /\ credentialsRun[p].pc = "write" => credentialsRun[p].ci \in DOMAIN input[p].credentials
    /\ credentialsRun[p].key # {} =>
          stage[p] = "credentials" /\ credentialsRun[p].pc \in {"open", "write"}
    /\ \A k \in credentialsRun[p].key : k.project_id = project[p]

ProcessInv(p) ==
    LoadedInv(p) /\ AdminsInv(p) /\ TodoInv(p) /\ KeysInv(p) /\ CredentialsPart(p)

CommandInv == CommandType /\ \A p \in Provisioners : ProcessInv(p)

-----------------------------------------------------------------------------
(* What follows from the input. *)

\* No step changes what the processes were started with.
LEMMA SameInput ==
    ASSUME [Next]_vars
    PROVE  /\ input' = input
           /\ \A p : section(p)' = section(p)
           /\ \A p, s : Wanted(p, s)' = Wanted(p, s)
  <1>1. input' = input
    BY DEF Next, vars, run, Around, Start, load, connectPubSub, connectStorage, Connecting,
           Enter, Leave, PubSubStep, StorageStep, CredentialsStep, PubSubFault,
           StorageFault, CredentialsFault, Stopped, ComesUp, world
  <1> QED
    BY <1>1 DEF section, Wanted

\* The entries of a credentials section, as the module Credentials sees them.
LEMMA Entries ==
    ASSUME NEW p \in Provisioners
    PROVE  Keys!creds(p) = input[p].credentials
  BY DEF Keys!creds

\* The file an entry leads to is one on the volume.
LEMMA EntryFile ==
    ASSUME CommandType, NEW p \in Provisioners,
           Keys!validateCredentials(input[p].credentials),
           NEW i \in DOMAIN input[p].credentials
    PROVE  Target[input[p].credentials[i].path] \in KeyFiles
  <1>1. input[p] \in Input
    BY CommandAssumption DEF CommandType
  <1>2. input[p].credentials \in Seq(Keys!Credential)
    BY <1>1 DEF Input
  <1>3. input[p].credentials[i] \in Keys!Credential
    BY <1>2
  <1>4. input[p].credentials[i].path \in Texts \ {""}
    BY <1>3 DEF Keys!Credential, Keys!validateCredentials
  <1> QED
    BY <1>4, CommandAssumption

\* The entries of a credentials section are numbered.
LEMMA EntryNumbers ==
    ASSUME CommandType, NEW p \in Provisioners
    PROVE  /\ Len(input[p].credentials) \in Nat
           /\ DOMAIN input[p].credentials = 1..Len(input[p].credentials)
  <1>1. input[p] \in Input
    BY CommandAssumption DEF CommandType
  <1>2. input[p].credentials \in Seq(Keys!Credential)
    BY <1>1 DEF Input
  <1> QED
    BY <1>2

\* The sections of a valid selection, with the credentials in front.
LEMMA SectionsFacts ==
    ASSUME NEW p, section(p) \in validSections
    PROVE  /\ Sections(p) \in Seq(SectionNames)
           /\ \A i \in DOMAIN Sections(p) :
                 /\ Wanted(p, Sections(p)[i])
                 /\ Sections(p)[i] = "credentials" => i = 1
           /\ section(p) = "all" => \E i \in DOMAIN Sections(p) : Sections(p)[i] = "credentials"
  <1>1. CASE section(p) = "all"
    <2>1. Sections(p) = <<"credentials", "pubsub", "storage">>
      BY <1>1 DEF Sections
    <2> QED
      BY <1>1, <2>1 DEF Wanted, SectionNames
  <1>2. CASE section(p) # "all"
    <2>1. Sections(p) = <<section(p)>> /\ section(p) \in SectionNames
      BY <1>2 DEF Sections, validSections, SectionNames
    <2> QED
      BY <1>2, <2>1 DEF Wanted
  <1> QED
    BY <1>1, <1>2

\* What is left to be run after the next section.
LEMMA TailFacts ==
    ASSUME NEW S, NEW s \in Seq(S), s # <<>>
    PROVE  /\ Tail(s) \in Seq(S) /\ Head(s) = s[1] /\ 1 \in DOMAIN s
           /\ \A i \in DOMAIN Tail(s) : i \in Nat \ {0} /\ i + 1 \in DOMAIN s /\ Tail(s)[i] = s[i + 1]
  <1>1. Len(s) \in Nat /\ Len(s) # 0 /\ DOMAIN s = 1..Len(s)
    BY EmptySeq, LenProperties
  <1>2. Tail(s) \in Seq(S) /\ Len(Tail(s)) = Len(s) - 1 /\ Head(s) = s[1]
    BY HeadTailProperties
  <1>3. \A i \in 1..Len(Tail(s)) : Tail(s)[i] = s[i + 1]
    BY <1>1, HeadTailProperties
  <1>4. DOMAIN Tail(s) = 1..Len(Tail(s))
    BY <1>2
  <1> QED
    BY <1>1, <1>2, <1>3, <1>4

-----------------------------------------------------------------------------
(* A step of the credentials section. *)

\* What a step of the section, or a fault in it, makes of its progress r.
Moves(p, r) ==
    /\ IsRun(r)
    /\ r.pc \in {"open", "write"} => r.ci \in DOMAIN input[p].credentials
    /\ r.key # {} => r.pc \in {"open", "write"}
    /\ \A k \in r.key : k.project_id = ProjectID[p] \/ k \in credentialsRun[p].key
    /\ ~dryRun[p] =>
          /\ r.pc = "ok" => r.ci > Len(input[p].credentials)
          /\ \A i \in DOMAIN input[p].credentials :
                i < r.ci => i < credentialsRun[p].ci \/
                            files'[Target[input[p].credentials[i].path]].state # "absent"

\* The progress once an entry is passed.
LEMMA RunFields ==
    ASSUME NEW r, IsRun(r), NEW s, s = Keys!Advance(r)
    PROVE  s.pc = "loop" /\ s.ci = r.ci + 1 /\ s.key = {} /\ IsRun(s)
  <1>1. r.ci + 1 \in Nat \ {0}
    BY DEF IsRun
  <1> QED
    BY <1>1 DEF IsRun, Keys!Advance

\* A step of the section moves its progress; a file that is there stays.
LEMMA CredentialsMove ==
    ASSUME CommandInv, NEW p \in Provisioners, stage[p] = "credentials",
           Keys!Work(p) \/ Keys!CutShort(p)
    PROVE  /\ DOMAIN files' = KeyFiles /\ files' = [f \in KeyFiles |-> files'[f]]
           /\ \A f \in KeyFiles : files[f].state # "absent" => files'[f].state # "absent"
           /\ \E r : credentialsRun' = [credentialsRun EXCEPT ![p] = r] /\ Moves(p, r)
  <1>1. CommandType /\ LoadedInv(p) /\ CredentialsPart(p)
    BY DEF CommandInv, ProcessInv
  <1>2. Keys!validateCredentials(input[p].credentials)
    BY <1>1 DEF LoadedInv, AfterLoad, InSections, SectionNames
  <1>3. DOMAIN files = KeyFiles /\ files = [f \in KeyFiles |-> files[f]]
    BY <1>1 DEF CommandType
  <1>4. Keys!creds(p) = input[p].credentials
    BY Entries
  <1>5. PICK c : c = credentialsRun[p]
    OBVIOUS
  <1>6. IsRun(c)
    BY <1>1, <1>5 DEF CommandType
  <1>7. Len(input[p].credentials) \in Nat
        /\ DOMAIN input[p].credentials = 1..Len(input[p].credentials)
    BY <1>1, EntryNumbers
  <1>8. CASE Keys!ensureCredential(p)
    <2>1. files' = files /\ c.pc = "loop" /\ c.ci <= Len(input[p].credentials)
      BY <1>4, <1>5, <1>8 DEF Keys!ensureCredential
    <2>2. c.ci \in DOMAIN input[p].credentials
      BY <1>6, <1>7, <2>1 DEF IsRun
    <2>3. c.key = {}
      BY <1>1, <1>5, <2>1 DEF CredentialsPart
    <2>4. CASE (Keys!Skips(p) \/ dryRun[p]) /\ Keys!Become(p, Keys!Advance(credentialsRun[p]))
      <3>1. PICK r : r = Keys!Advance(c)
        OBVIOUS
      <3>2. r.pc = "loop" /\ r.ci = c.ci + 1 /\ r.key = {} /\ IsRun(r)
        BY <1>6, <3>1, RunFields
      <3>3. credentialsRun' = [credentialsRun EXCEPT ![p] = r]
        BY <1>5, <2>4, <3>1 DEF Keys!Become
      <3>5. Keys!Skips(p) => files'[Target[input[p].credentials[c.ci].path]].state # "absent"
        BY <1>4, <1>5, <2>1 DEF Keys!Skips, Keys!fileExists, Keys!FileAt, Keys!CredentialAt
      <3>6. \A i \in DOMAIN input[p].credentials : i < r.ci => i < c.ci \/ i = c.ci
        BY <1>6, <1>7, <3>2 DEF IsRun
      <3>7. Moves(p, r)
        BY <1>5, <2>4, <3>2, <3>5, <3>6 DEF Moves
      <3> QED
        BY <1>3, <2>1, <3>3, <3>7
    <2>5. ASSUME NEW pair,
                 Keys!Become(p, [credentialsRun[p] EXCEPT !.pc = "open", !.key =
                       {Keys!Generate(ProjectID[p],
                                      Keys!CredentialAt(p).account,
                                      Keys!CredentialAt(p).token_uri, pair)}])
          PROVE  \E r : credentialsRun' = [credentialsRun EXCEPT ![p] = r] /\ Moves(p, r)
      <3>1. PICK k : k = Keys!Generate(ProjectID[p], Keys!CredentialAt(p).account,
                                       Keys!CredentialAt(p).token_uri, pair)
        OBVIOUS
      <3>2. k.project_id = ProjectID[p]
        BY <3>1 DEF Keys!Generate
      <3>3. PICK r : r = [c EXCEPT !.pc = "open", !.key = {k}]
        OBVIOUS
      <3>4. r.pc = "open" /\ r.ci = c.ci /\ r.key = {k} /\ IsRun(r)
        BY <1>6, <3>3 DEF IsRun
      <3>5. credentialsRun' = [credentialsRun EXCEPT ![p] = r]
        BY <1>5, <2>5, <3>1, <3>3 DEF Keys!Become
      <3>6. Moves(p, r)
        BY <1>5, <2>2, <3>2, <3>4 DEF Moves
      <3> QED
        BY <3>5, <3>6
    <2> QED
      <3>1. CASE (Keys!Skips(p) \/ dryRun[p]) /\ Keys!Become(p, Keys!Advance(credentialsRun[p]))
        BY <1>3, <2>1, <2>4, <3>1
      <3>2. CASE \E pair \in Keys!NewPairs :
                Keys!Become(p, [credentialsRun[p] EXCEPT !.pc = "open", !.key =
                       {Keys!Generate(ProjectID[p],
                                      Keys!CredentialAt(p).account,
                                      Keys!CredentialAt(p).token_uri, pair)}])
        BY <1>3, <2>1, <2>5, <3>2
      <3> QED
        BY <1>8, <3>1, <3>2 DEF Keys!ensureCredential
  <1>9. CASE Keys!openFile(p)
    <2>1. c.pc = "open" /\ files' = [files EXCEPT ![Keys!FileAt(p)] = Keys!Is("empty")]
      BY <1>5, <1>9 DEF Keys!openFile
    <2>2. Keys!Is("empty").state # "absent"
      BY DEF Keys!Is
    <2>3. PICK r : r = [c EXCEPT !.pc = "write"]
      OBVIOUS
    <2>3a. r.pc = "write" /\ r.ci = c.ci /\ r.key = c.key /\ IsRun(r)
      BY <1>6, <2>3 DEF IsRun
    <2>4. credentialsRun' = [credentialsRun EXCEPT ![p] = r]
      BY <1>5, <1>9, <2>3 DEF Keys!openFile, Keys!Become
    <2>5. Moves(p, r)
      BY <1>1, <1>5, <2>1, <2>3a DEF Moves, CredentialsPart
    <2> QED
      BY <1>3, <2>1, <2>2, <2>4, <2>5
  <1>10. CASE Keys!writeFile(p)
    <2>1. c.pc = "write"
      BY <1>5, <1>10 DEF Keys!writeFile
    <2>2. c.ci \in DOMAIN input[p].credentials
      BY <1>1, <1>5, <2>1 DEF CredentialsPart
    <2>3. Keys!FileAt(p) = Target[input[p].credentials[c.ci].path]
      BY <1>4, <1>5 DEF Keys!FileAt, Keys!CredentialAt
    <2>4. Keys!FileAt(p) \in KeyFiles
      BY <1>1, <1>2, <2>2, <2>3, EntryFile
    <2>5. PICK w : /\ files' = [files EXCEPT ![Keys!FileAt(p)] = w]
                   /\ w.state # "absent"
      <3>1. \A x : Keys!Overwrite(x, Keys!The(credentialsRun[p].key)).state # "absent"
        BY DEF Keys!Overwrite, Keys!Is, Keys!Whole
      <3> QED
        BY <1>10, <3>1 DEF Keys!writeFile
    <2>6. PICK r : r = Keys!Advance(c)
      OBVIOUS
    <2>7. r.pc = "loop" /\ r.ci = c.ci + 1 /\ r.key = {} /\ IsRun(r)
      BY <1>6, <2>6, RunFields
    <2>8. credentialsRun' = [credentialsRun EXCEPT ![p] = r]
      BY <1>5, <1>10, <2>6 DEF Keys!writeFile, Keys!Become
    <2>9. files'[Target[input[p].credentials[c.ci].path]].state # "absent"
      BY <1>3, <2>3, <2>4, <2>5
    <2>10. \A i \in DOMAIN input[p].credentials : i < r.ci => i < c.ci \/ i = c.ci
      BY <1>6, <1>7, <2>7 DEF IsRun
    <2>11. Moves(p, r)
      BY <1>5, <2>7, <2>9, <2>10 DEF Moves
    <2> QED
      BY <1>3, <2>5, <2>8, <2>11
  <1>11. CASE Keys!sectionDone(p)
    <2>1. files' = files /\ c.pc = "loop" /\ c.ci > Len(input[p].credentials)
      BY <1>4, <1>5, <1>11 DEF Keys!sectionDone
    <2>2. PICK r : r = [c EXCEPT !.pc = "ok"]
      OBVIOUS
    <2>2a. r.pc = "ok" /\ r.ci = c.ci /\ r.key = c.key /\ IsRun(r)
      BY <1>6, <2>2 DEF IsRun
    <2>3. credentialsRun' = [credentialsRun EXCEPT ![p] = r]
      BY <1>5, <1>11, <2>2 DEF Keys!sectionDone, Keys!Become
    <2>4. Moves(p, r)
      BY <1>1, <1>5, <2>1, <2>2a DEF Moves, CredentialsPart
    <2> QED
      BY <1>3, <2>1, <2>3, <2>4
  <1>12. CASE Keys!CutShort(p)
    <2>1. files' = files \/ files' = [files EXCEPT ![Keys!FileAt(p)] = Keys!Is("cut")]
      BY <1>12 DEF Keys!CutShort
    <2>2. Keys!Is("cut").state # "absent"
      BY DEF Keys!Is
    <2>3. PICK r : r = [c EXCEPT !.pc = "failed", !.key = {}]
      OBVIOUS
    <2>3a. r.pc = "failed" /\ r.ci = c.ci /\ r.key = {} /\ IsRun(r)
      BY <1>6, <2>3 DEF IsRun
    <2>4. credentialsRun' = [credentialsRun EXCEPT ![p] = r]
      BY <1>5, <1>12, <2>3 DEF Keys!CutShort, Keys!Become
    <2>5. Moves(p, r)
      BY <1>5, <2>3a DEF Moves
    <2> QED
      BY <1>3, <2>1, <2>2, <2>4, <2>5
  <1> QED
    BY <1>8, <1>9, <1>10, <1>11, <1>12 DEF Keys!Work

-----------------------------------------------------------------------------
(* The steps. *)

\* Only the credentials section touches the key files, and no step removes one.
LEMMA FilesStay ==
    ASSUME CommandInv, [Next]_vars
    PROVE  /\ DOMAIN files' = KeyFiles /\ files' = [f \in KeyFiles |-> files'[f]]
           /\ \A f \in KeyFiles : files[f].state # "absent" => files'[f].state # "absent"
  <1>1. DOMAIN files = KeyFiles /\ files = [f \in KeyFiles |-> files[f]]
    BY DEF CommandInv, CommandType
  <1>2. ASSUME NEW p \in Provisioners, CredentialsStep(p) \/ CredentialsFault(p)
        PROVE  /\ DOMAIN files' = KeyFiles /\ files' = [f \in KeyFiles |-> files'[f]]
               /\ \A f \in KeyFiles : files[f].state # "absent" => files'[f].state # "absent"
    <2>1. stage[p] = "credentials" /\ (Keys!Work(p) \/ Keys!CutShort(p))
      BY <1>2 DEF CredentialsStep, CredentialsFault
    <2> QED
      BY <2>1, CredentialsMove
  <1>3. CASE files' = files
    BY <1>1, <1>3
  <1>4. \/ files' = files
        \/ \E p \in Provisioners : CredentialsStep(p) \/ CredentialsFault(p)
    BY DEF Next, vars, run, Around, Start, load, connectPubSub, connectStorage, Connecting,
           Enter, Leave, PubSubStep, StorageStep, PubSubFault, StorageFault, Stopped,
           ComesUp, credentials
  <1> QED
    BY <1>2, <1>3, <1>4

\* The key files of a config that are there stay there.
LEMMA KeysStay ==
    ASSUME CommandInv, [Next]_vars, NEW p \in Provisioners, stage[p] \in AfterLoad
    PROVE  \A i \in DOMAIN input[p].credentials :
              files[Target[input[p].credentials[i].path]].state # "absent" =>
                files'[Target[input[p].credentials[i].path]].state # "absent"
  <1>1. Keys!validateCredentials(input[p].credentials)
    BY DEF CommandInv, ProcessInv, LoadedInv
  <1> QED
    BY <1>1, EntryFile, FilesStay DEF CommandInv

\* A process whose own state a step leaves alone.
Same(p) ==
    /\ stage'[p] = stage[p] /\ todo'[p] = todo[p] /\ admins'[p] = admins[p]
    /\ project'[p] = project[p] /\ ProjectID'[p] = ProjectID[p]
    /\ dryRun'[p] = dryRun[p] /\ credentialsRun'[p] = credentialsRun[p]

\* Its part of the invariant is kept, whatever the others do.
LEMMA ProcessStays ==
    ASSUME CommandInv, [Next]_vars, NEW p \in Provisioners, Same(p)
    PROVE  ProcessInv(p)'
  <1>1. ProcessInv(p)
    BY DEF CommandInv
  <1>2. input' = input /\ section(p)' = section(p) /\ \A x : Wanted(p, x)' = Wanted(p, x)
    BY SameInput
  <1>3. LoadedInv(p)'
    BY <1>1, <1>2 DEF ProcessInv, LoadedInv, Same, Keys!validateCredentials
  <1>4. AdminsInv(p)'
    BY <1>1, <1>2 DEF ProcessInv, AdminsInv, Same
  <1>5. TodoInv(p)'
    <2>1. CASE stage[p] \notin InSections
      BY <2>1 DEF TodoInv, Same
    <2>2. CASE stage[p] \in InSections
      BY <1>1, <1>2, <2>2 DEF ProcessInv, TodoInv, Same, Wanted
    <2> QED
      BY <2>1, <2>2
  <1>6. KeysInv(p)'
    <2>1. CASE stage[p] \notin AfterLoad
      BY <1>2, <2>1 DEF KeysInv, Same, AfterLoad, InSections, SectionNames
    <2>2. CASE stage[p] \in AfterLoad
      <3>1. KeysThere(p) => KeysThere(p)'
        BY <1>2, <2>2, KeysStay DEF KeysThere
      <3> QED
        BY <1>1, <1>2, <3>1 DEF ProcessInv, KeysInv, Same
    <2> QED
      BY <2>1, <2>2
  <1>7. CredentialsPart(p)'
    <2>1. CASE stage[p] # "credentials"
      BY <1>1, <1>2, <2>1 DEF ProcessInv, CredentialsPart, Same
    <2>2. CASE stage[p] = "credentials"
      <3>1. stage[p] \in AfterLoad
        BY <2>2 DEF AfterLoad, InSections, SectionNames
      <3> QED
        BY <1>1, <1>2, <2>2, <3>1, KeysStay DEF ProcessInv, CredentialsPart, Same
    <2> QED
      BY <2>1, <2>2
  <1> QED
    BY <1>3, <1>4, <1>5, <1>6, <1>7 DEF ProcessInv

\* Connecting adds a client, or gives up; it is left out where it is not needed.
LEMMA ConnectingFacts ==
    ASSUME CommandType, NEW p \in Provisioners, NEW service, NEW resources, NEW next,
           Connecting(p, service, resources, next)
    PROVE  /\ stage'[p] \in {next, "exit 1"}
           /\ project' = project /\ ProjectID' = ProjectID
           /\ admins[p] \subseteq admins'[p]
           /\ stage'[p] # "exit 1" /\ wants(p, service) /\ resources # <<>>
                 => service \in admins'[p]
  <1>1. DOMAIN admins = Provisioners /\ DOMAIN stage = Provisioners
    BY DEF CommandType
  <1>2. CASE admins' = [admins EXCEPT ![p] = admins[p] \cup {service}]
             /\ stage' = [stage EXCEPT ![p] = next]
    BY <1>1, <1>2 DEF Connecting
  <1>3. CASE admins' = admins /\ stage' = [stage EXCEPT ![p] = "exit 1"]
    BY <1>1, <1>3 DEF Connecting
  <1>4. CASE ~(wants(p, service) /\ resources # <<>>) /\ admins' = admins
             /\ stage' = [stage EXCEPT ![p] = next]
    BY <1>1, <1>4 DEF Connecting
  <1> QED
    BY <1>2, <1>3, <1>4 DEF Connecting

\* The steps of main up to the sections, and a stop in them.
LEMMA BeforeSections ==
    ASSUME CommandInv, [Next]_vars, NEW p \in Provisioners,
           Start(p) \/ load(p) \/ connectPubSub(p) \/ connectStorage(p) \/ Stopped(p)
    PROVE  ProcessInv(p)'
  <1>1. ProcessInv(p) /\ CommandType
    BY DEF CommandInv
  <1>2. input' = input /\ section(p)' = section(p) /\ \A x : Wanted(p, x)' = Wanted(p, x)
    BY SameInput
  <1>3. credentialsRun' = credentialsRun
    BY DEF Start, load, connectPubSub, connectStorage, Connecting, Stopped, credentials
  <1>4. credentialsRun[p].key = {}
    BY <1>1 DEF ProcessInv, CredentialsPart, Start, load, connectPubSub, connectStorage, Stopped
  <1>5. stage'[p] # "credentials" => CredentialsPart(p)'
    BY <1>1, <1>2, <1>3, <1>4 DEF ProcessInv, CredentialsPart
  <1>6. CASE Start(p)
    <2>1. stage'[p] \in {"load", "exit 1"} /\ (stage'[p] = "load" => section(p) \in validSections)
      BY <1>1, <1>6 DEF Start, CommandType
    <2> QED
      BY <1>2, <1>5, <2>1 DEF ProcessInv, LoadedInv, AdminsInv, TodoInv, KeysInv, AfterLoad,
                              InSections, SectionNames
  <1>7. CASE load(p)
    <2>1. /\ stage'[p] \in {"connectPubSub", "exit 1"}
          /\ stage'[p] = "connectPubSub" =>
                /\ Keys!validateCredentials(input[p].credentials)
                /\ project'[p] = ProjectID'[p] /\ project'[p] # ""
                /\ section(p) \in validSections
      BY <1>1, <1>7 DEF load, CommandType, validate, ProcessInv, LoadedInv
    <2>2. LoadedInv(p)'
      BY <1>2, <2>1 DEF LoadedInv, AfterLoad, InSections, SectionNames, Keys!validateCredentials
    <2> QED
      BY <1>5, <2>1, <2>2 DEF ProcessInv, AdminsInv, TodoInv, KeysInv, InSections, SectionNames
  <1>8. CASE connectPubSub(p)
    <2>1. /\ stage[p] = "connectPubSub" /\ stage'[p] \in {"connectStorage", "exit 1"}
          /\ project' = project /\ ProjectID' = ProjectID
          /\ stage'[p] = "connectStorage" /\ wants(p, "pubsub") /\ input[p].topics # <<>>
                => "pubsub" \in admins'[p]
      BY <1>1, <1>8, ConnectingFacts DEF connectPubSub
    <2>2. LoadedInv(p)'
      BY <1>1, <1>2, <2>1 DEF ProcessInv, LoadedInv, AfterLoad, InSections, SectionNames,
                              Keys!validateCredentials
    <2>3. AdminsInv(p)'
      BY <1>2, <2>1 DEF AdminsInv, wants, Wanted, InSections, SectionNames
    <2> QED
      BY <1>5, <2>1, <2>2, <2>3 DEF ProcessInv, TodoInv, KeysInv, InSections, SectionNames
  <1>9. CASE connectStorage(p)
    <2>1. /\ stage[p] = "connectStorage" /\ stage'[p] \in {"sections", "exit 1"}
          /\ project' = project /\ ProjectID' = ProjectID /\ todo'[p] = Sections(p)
          /\ admins[p] \subseteq admins'[p]
          /\ stage'[p] = "sections" /\ wants(p, "storage") /\ input[p].buckets # <<>>
                => "storage" \in admins'[p]
      BY <1>1, <1>9, ConnectingFacts DEF connectStorage, CommandType
    <2>2. LoadedInv(p)'
      BY <1>1, <1>2, <2>1 DEF ProcessInv, LoadedInv, AfterLoad, InSections, SectionNames,
                              Keys!validateCredentials
    <2>3. AdminsInv(p)'
      BY <1>1, <1>2, <2>1 DEF ProcessInv, AdminsInv, wants, Wanted, InSections, SectionNames
    <2>4. section(p) \in validSections
      BY <1>1, <2>1 DEF ProcessInv, LoadedInv, AfterLoad
    <2>5. TodoInv(p)' /\ KeysInv(p)'
      <3>1. /\ todo'[p] \in Seq(SectionNames)
            /\ \A i \in DOMAIN todo'[p] :
                  Wanted(p, todo'[p][i]) /\ (todo'[p][i] = "credentials" => i = 1)
            /\ section(p) = "all" => \E i \in DOMAIN todo'[p] : todo'[p][i] = "credentials"
        BY <2>1, <2>4, SectionsFacts
      <3> QED
        BY <1>2, <2>1, <3>1 DEF TodoInv, KeysInv, InSections, SectionNames, Wanted
    <2> QED
      BY <1>5, <2>1, <2>2, <2>3, <2>5 DEF ProcessInv
  <1>10. CASE Stopped(p)
    <2>1. stage'[p] = "exit 1"
      BY <1>1, <1>10 DEF Stopped, CommandType
    <2> QED
      BY <1>5, <2>1 DEF ProcessInv, LoadedInv, AdminsInv, TodoInv, KeysInv, AfterLoad,
                        InSections, SectionNames
  <1> QED
    BY <1>6, <1>7, <1>8, <1>9, <1>10

\* Calling the next section, or ending with success when there is none.
LEMMA EnterStep ==
    ASSUME CommandInv, [Next]_vars, NEW p \in Provisioners, Enter(p)
    PROVE  ProcessInv(p)'
  <1>1. ProcessInv(p) /\ CommandType
    BY DEF CommandInv
  <1>2. input' = input /\ section(p)' = section(p) /\ \A x : Wanted(p, x)' = Wanted(p, x)
    BY SameInput
  <1>3. /\ stage[p] = "sections" /\ credentialsRun[p].key = {}
        /\ admins' = admins /\ project' = project /\ ProjectID' = ProjectID
        /\ dryRun' = dryRun /\ files' = files
    BY <1>1 DEF Enter, ProcessInv, CredentialsPart, credentials
  <1>4. stage[p] \in InSections /\ stage[p] \in AfterLoad
    BY <1>3 DEF InSections, AfterLoad
  <1>5. CASE todo[p] = <<>>
    <2>1. stage'[p] = "exit 0" /\ credentialsRun' = credentialsRun
      BY <1>1, <1>3, <1>5 DEF Enter, CommandType, credentials
    <2>2. CredentialsPart(p)'
      BY <1>1, <1>2, <1>3, <2>1 DEF ProcessInv, CredentialsPart
    <2> QED
      BY <2>1, <2>2 DEF ProcessInv, LoadedInv, AdminsInv, TodoInv, KeysInv, AfterLoad,
                        InSections, SectionNames
  <1>6. CASE todo[p] # <<>>
    <2>1. todo[p] \in Seq(SectionNames)
      BY <1>1, <1>4 DEF ProcessInv, TodoInv
    <2>2. /\ Tail(todo[p]) \in Seq(SectionNames) /\ Head(todo[p]) = todo[p][1]
          /\ 1 \in DOMAIN todo[p]
          /\ \A i \in DOMAIN Tail(todo[p]) :
                i \in Nat \ {0} /\ i + 1 \in DOMAIN todo[p] /\ Tail(todo[p])[i] = todo[p][i + 1]
      BY <1>6, <2>1, TailFacts
    <2>3. Head(todo[p]) \in SectionNames
      BY <2>1, <2>2
    <2>4. stage'[p] = Head(todo[p]) /\ todo'[p] = Tail(todo[p])
      BY <1>1, <1>6 DEF Enter, CommandType
    <2>5. /\ Wanted(p, Head(todo[p]))
          /\ \A i \in DOMAIN Tail(todo[p]) :
                Wanted(p, Tail(todo[p])[i]) /\ Tail(todo[p])[i] # "credentials"
      <3>1. \A i \in DOMAIN todo[p] : Wanted(p, todo[p][i]) /\ (todo[p][i] = "credentials" => i = 1)
        BY <1>1, <1>4 DEF ProcessInv, TodoInv
      <3>2. ASSUME NEW i \in DOMAIN Tail(todo[p])
            PROVE  Wanted(p, Tail(todo[p])[i]) /\ Tail(todo[p])[i] # "credentials"
        <4>1. i \in Nat \ {0} /\ i + 1 \in DOMAIN todo[p] /\ Tail(todo[p])[i] = todo[p][i + 1]
          BY <2>2
        <4>2. i + 1 # 1
          BY <4>1
        <4> QED
          BY <3>1, <4>1, <4>2
      <3> QED
        BY <2>2, <3>1, <3>2
    <2>6. LoadedInv(p)'
      BY <1>1, <1>2, <1>3, <1>4
      DEF ProcessInv, LoadedInv, Keys!validateCredentials, AfterLoad, InSections, SectionNames
    <2>7. AdminsInv(p)'
      BY <1>1, <1>2, <1>3, <1>4 DEF ProcessInv, AdminsInv
    <2>8. TodoInv(p)'
      BY <1>2, <2>2, <2>4, <2>5 DEF TodoInv, Wanted
    <2>9. KeysInv(p)'
      <3>1. SUFFICES ASSUME section(p) = "all", ~dryRun[p], stage'[p] \in {"pubsub", "storage"}
                     PROVE  KeysThere(p)
        BY <1>2, <1>3, <2>3, <2>4 DEF KeysInv, SectionNames, KeysThere
      <3>2. \A i \in DOMAIN todo[p] : todo[p][i] # "credentials"
        <4>1. todo[p][1] # "credentials"
          BY <2>2, <2>4, <3>1
        <4> QED
          BY <1>1, <1>4, <4>1 DEF ProcessInv, TodoInv
      <3> QED
        BY <1>1, <1>3, <3>1, <3>2 DEF ProcessInv, KeysInv
    <2>10. CredentialsPart(p)'
      <3>1. CASE Head(todo[p]) = "credentials"
        <4>1. PICK r : r = Keys!Fresh("loop")
          OBVIOUS
        <4>2. r.pc = "loop" /\ r.ci = 1 /\ r.key = {}
          BY <4>1 DEF Keys!Fresh
        <4>3. credentialsRun'[p] = r
          BY <1>1, <1>6, <3>1, <4>1 DEF Enter, Keys!Begin, Keys!Become, CommandType
        <4>4. \A i \in DOMAIN input[p].credentials : ~(i < 1)
          BY <1>1, EntryNumbers
        <4> QED
          BY <1>2, <4>2, <4>3, <4>4 DEF CredentialsPart
      <3>2. CASE Head(todo[p]) # "credentials"
        <4>1. credentialsRun' = credentialsRun
          BY <1>6, <3>2 DEF Enter
        <4> QED
          BY <1>1, <1>2, <1>3, <2>4, <3>2, <4>1 DEF ProcessInv, CredentialsPart
      <3> QED
        BY <3>1, <3>2
    <2> QED
      BY <2>6, <2>7, <2>8, <2>9, <2>10 DEF ProcessInv
  <1> QED
    BY <1>5, <1>6

\* A section returned: the next one is due, or the process ends.
LEMMA LeaveStep ==
    ASSUME CommandInv, [Next]_vars, NEW p \in Provisioners, Leave(p)
    PROVE  ProcessInv(p)'
  <1>1. ProcessInv(p) /\ CommandType
    BY DEF CommandInv
  <1>2. input' = input /\ section(p)' = section(p) /\ \A x : Wanted(p, x)' = Wanted(p, x)
    BY SameInput
  <1>3. /\ stage[p] \in SectionNames /\ pc(p) \in {"ok", "failed"}
        /\ stage' = [stage EXCEPT ![p] = IF pc(p) = "ok" THEN "sections" ELSE "exit 1"]
        /\ todo' = todo /\ admins' = admins /\ project' = project /\ ProjectID' = ProjectID
        /\ dryRun' = dryRun /\ files' = files /\ credentialsRun' = credentialsRun
    BY DEF Leave, pc, SectionNames, credentials
  <1>4. stage[p] \in InSections /\ stage[p] \in AfterLoad
    BY <1>3 DEF InSections, AfterLoad
  <1>5. credentialsRun[p].key = {}
    BY <1>1, <1>3 DEF ProcessInv, CredentialsPart, pc
  <1>6. CredentialsPart(p)'
    <2>1. stage'[p] # "credentials"
      BY <1>1, <1>3 DEF CommandType
    <2> QED
      BY <1>1, <1>2, <1>3, <1>5, <2>1 DEF ProcessInv, CredentialsPart
  <1>7. CASE pc(p) = "failed"
    <2>1. stage'[p] = "exit 1"
      BY <1>1, <1>3, <1>7 DEF CommandType
    <2> QED
      BY <1>6, <2>1 DEF ProcessInv, LoadedInv, AdminsInv, TodoInv, KeysInv, AfterLoad,
                        InSections, SectionNames
  <1>8. CASE pc(p) = "ok"
    <2>1. stage'[p] = "sections"
      BY <1>1, <1>3, <1>8 DEF CommandType
    <2>2. LoadedInv(p)' /\ AdminsInv(p)'
      BY <1>1, <1>2, <1>3, <1>4, <2>1
      DEF ProcessInv, LoadedInv, AdminsInv, Keys!validateCredentials, AfterLoad, InSections
    <2>3. TodoInv(p)'
      BY <1>1, <1>2, <1>3, <1>4, <2>1 DEF ProcessInv, TodoInv, Wanted
    <2>4. KeysInv(p)'
      <3>1. SUFFICES ASSUME section(p) = "all", ~dryRun[p] PROVE KeysThere(p)
        BY <1>2, <1>3 DEF KeysInv, KeysThere
      <3>2. CASE stage[p] = "credentials"
        <4>1. credentialsRun[p].ci > Len(input[p].credentials)
          BY <1>1, <1>8, <3>1, <3>2 DEF ProcessInv, CredentialsPart, pc
        <4>2. \A i \in DOMAIN input[p].credentials : i < credentialsRun[p].ci
          BY <1>1, <4>1, EntryNumbers DEF CommandType, IsRun
        <4> QED
          BY <1>1, <3>1, <3>2, <4>2 DEF ProcessInv, CredentialsPart, KeysThere
      <3>3. CASE stage[p] # "credentials"
        BY <1>1, <1>3, <3>1, <3>3 DEF ProcessInv, KeysInv, SectionNames
      <3> QED
        BY <3>2, <3>3
    <2> QED
      BY <1>6, <2>2, <2>3, <2>4 DEF ProcessInv
  <1> QED
    BY <1>3, <1>7, <1>8

\* The credentials section itself, and a fault in it.
LEMMA CredentialsProcess ==
    ASSUME CommandInv, [Next]_vars, NEW p \in Provisioners,
           CredentialsStep(p) \/ CredentialsFault(p)
    PROVE  /\ ProcessInv(p)'
           /\ \E r : IsRun(r) /\ credentialsRun' = [credentialsRun EXCEPT ![p] = r]
  <1>1. ProcessInv(p) /\ CommandType
    BY DEF CommandInv
  <1>2. input' = input /\ section(p)' = section(p) /\ \A x : Wanted(p, x)' = Wanted(p, x)
    BY SameInput
  <1>3. /\ stage[p] = "credentials" /\ (Keys!Work(p) \/ Keys!CutShort(p))
        /\ stage' = stage /\ todo' = todo /\ admins' = admins /\ project' = project
        /\ ProjectID' = ProjectID /\ dryRun' = dryRun
    BY DEF CredentialsStep, CredentialsFault, main
  <1>4. stage[p] \in AfterLoad
    BY <1>3 DEF AfterLoad, InSections, SectionNames
  <1>5. PICK r : credentialsRun' = [credentialsRun EXCEPT ![p] = r] /\ Moves(p, r)
    BY <1>3, CredentialsMove
  <1>6. credentialsRun'[p] = r
    BY <1>1, <1>5 DEF CommandType
  <1>7. LoadedInv(p)' /\ AdminsInv(p)'
    BY <1>1, <1>2, <1>3 DEF ProcessInv, LoadedInv, AdminsInv, Keys!validateCredentials
  <1>8. TodoInv(p)'
    BY <1>1, <1>2, <1>3 DEF ProcessInv, TodoInv, Wanted
  <1>9. KeysInv(p)'
    BY <1>3 DEF KeysInv
  <1>10. CredentialsPart(p)'
    <2>1. project[p] = ProjectID[p]
      BY <1>1, <1>4 DEF ProcessInv, LoadedInv
    <2>2. \A k \in r.key : k.project_id = project[p]
      BY <1>1, <1>5, <2>1 DEF Moves, ProcessInv, CredentialsPart
    <2>3. ~dryRun[p] => \A i \in DOMAIN input[p].credentials : i < r.ci =>
                           files'[Target[input[p].credentials[i].path]].state # "absent"
      <3> SUFFICES ASSUME ~dryRun[p], NEW i \in DOMAIN input[p].credentials, i < r.ci
                   PROVE  files'[Target[input[p].credentials[i].path]].state # "absent"
        OBVIOUS
      <3>1. CASE i < credentialsRun[p].ci
        BY <1>1, <1>3, <1>4, <3>1, KeysStay DEF ProcessInv, CredentialsPart
      <3> QED
        BY <1>5, <3>1 DEF Moves
    <2> QED
      BY <1>2, <1>3, <1>5, <1>6, <2>2, <2>3 DEF CredentialsPart, Moves
  <1>11. IsRun(r)
    BY <1>5 DEF Moves
  <1> QED
    BY <1>5, <1>7, <1>8, <1>9, <1>10, <1>11 DEF ProcessInv

\* What a step of one process changes is its own, the key files apart.
LEMMA OthersSame ==
    ASSUME CommandInv, [Next]_vars
    PROVE  /\ CommandType'
           /\ \/ \A q \in Provisioners : Same(q)
              \/ \E p \in Provisioners :
                    /\ run(p) \/ Around(p)
                    /\ \A q \in Provisioners : q # p => Same(q)
  <1>1. CommandType
    BY DEF CommandInv
  <1>2. input' \in Inputs
    BY <1>1, SameInput DEF CommandType
  <1>3. DOMAIN files' = KeyFiles /\ files' = [f \in KeyFiles |-> files'[f]]
    BY FilesStay
  <1>4. CASE UNCHANGED <<main, credentialsRun>>
    BY <1>1, <1>2, <1>3, <1>4 DEF main, CommandType, Same
  <1>5. ASSUME NEW p \in Provisioners, Start(p) \/ load(p) \/ Stopped(p) \/ Leave(p)
        PROVE  CommandType' /\ \A q \in Provisioners : q # p => Same(q)
    <2>1. credentialsRun' = credentialsRun /\ todo' = todo
      BY <1>5 DEF Start, load, Stopped, Leave, credentials
    <2>2. CASE Start(p)
      BY <1>1, <1>2, <1>3, <2>1, <2>2 DEF Start, CommandType, Same, Stages, InSections, SectionNames
    <2>3. CASE load(p)
      BY <1>1, <1>2, <1>3, <2>1, <2>3 DEF load, CommandType, Same, Stages, InSections, SectionNames
    <2>4. CASE Stopped(p)
      BY <1>1, <1>2, <1>3, <2>1, <2>4 DEF Stopped, CommandType, Same, Stages, InSections, SectionNames
    <2>5. CASE Leave(p)
      BY <1>1, <1>2, <1>3, <2>1, <2>5 DEF Leave, CommandType, Same, Stages, InSections, SectionNames
    <2> QED
      BY <1>5, <2>2, <2>3, <2>4, <2>5
  <1>6. ASSUME NEW p \in Provisioners, connectPubSub(p) \/ connectStorage(p)
        PROVE  CommandType' /\ \A q \in Provisioners : q # p => Same(q)
    <2>1. /\ credentialsRun' = credentialsRun /\ project' = project /\ ProjectID' = ProjectID
          /\ dryRun' = dryRun
      BY <1>6 DEF connectPubSub, connectStorage, Connecting, credentials
    <2>2. todo' = todo \/ todo' = [todo EXCEPT ![p] = Sections(p)]
      BY <1>6 DEF connectPubSub, connectStorage
    <2>3. \E x \in {"connectStorage", "sections", "exit 1"} : stage' = [stage EXCEPT ![p] = x]
      BY <1>6 DEF connectPubSub, connectStorage, Connecting
    <2>4. admins' = admins \/ \E x \in {"pubsub", "storage"} :
                                 admins' = [admins EXCEPT ![p] = admins[p] \cup {x}]
      BY <1>6 DEF connectPubSub, connectStorage, Connecting
    <2>5. admins' \in [Provisioners -> SUBSET {"pubsub", "storage"}]
          /\ \A q \in Provisioners : q # p => admins'[q] = admins[q]
      BY <1>1, <2>4 DEF CommandType
    <2>6. stage' \in [Provisioners -> Stages] /\ \A q \in Provisioners : q # p => stage'[q] = stage[q]
      BY <1>1, <2>3 DEF CommandType, Stages, InSections
    <2>7. /\ DOMAIN todo' = Provisioners /\ todo' = [q \in Provisioners |-> todo'[q]]
          /\ \A q \in Provisioners : q # p => todo'[q] = todo[q]
      BY <1>1, <2>2 DEF CommandType
    <2> QED
      BY <1>1, <1>2, <1>3, <2>1, <2>5, <2>6, <2>7 DEF CommandType, Same
  <1>7. ASSUME NEW p \in Provisioners, Enter(p)
        PROVE  CommandType' /\ \A q \in Provisioners : q # p => Same(q)
    <2>1. UNCHANGED <<admins, project, ProjectID, dryRun>>
      BY <1>7 DEF Enter
    <2>2. \E x \in Stages : stage' = [stage EXCEPT ![p] = x]
      <3>1. CASE todo[p] = <<>>
        BY <1>7, <3>1 DEF Enter, Stages
      <3>2. CASE todo[p] # <<>>
        <4>1. stage[p] \in InSections
          BY <1>7 DEF Enter, InSections
        <4>2. todo[p] \in Seq(SectionNames)
          BY <4>1 DEF CommandInv, ProcessInv, TodoInv
        <4>3. Head(todo[p]) \in SectionNames
          BY <3>2, <4>2, HeadTailProperties
        <4> QED
          BY <1>7, <3>2, <4>3 DEF Enter, Stages, InSections
      <3> QED
        BY <3>1, <3>2
    <2>3. todo' = todo \/ todo' = [todo EXCEPT ![p] = Tail(todo[p])]
      BY <1>7 DEF Enter
    <2>4. credentialsRun' = credentialsRun \/ credentialsRun' = [credentialsRun EXCEPT ![p] = Keys!Fresh("loop")]
      BY <1>7 DEF Enter, Keys!Begin, Keys!Become, credentials
    <2>5. IsRun(Keys!Fresh("loop"))
      BY DEF IsRun, Keys!Fresh
    <2>6. stage' \in [Provisioners -> Stages] /\ \A q \in Provisioners : q # p => stage'[q] = stage[q]
      BY <1>1, <2>2 DEF CommandType
    <2>7. /\ DOMAIN todo' = Provisioners /\ todo' = [q \in Provisioners |-> todo'[q]]
          /\ \A q \in Provisioners : q # p => todo'[q] = todo[q]
      BY <1>1, <2>3 DEF CommandType
    <2>8. /\ DOMAIN credentialsRun' = Provisioners
          /\ credentialsRun' = [q \in Provisioners |-> credentialsRun'[q]]
          /\ \A q \in Provisioners : IsRun(credentialsRun'[q])
          /\ \A q \in Provisioners : q # p => credentialsRun'[q] = credentialsRun[q]
      <3>1. CASE credentialsRun' = credentialsRun
        BY <1>1, <3>1 DEF CommandType
      <3>2. CASE credentialsRun' = [credentialsRun EXCEPT ![p] = Keys!Fresh("loop")]
        BY <1>1, <2>5, <3>2 DEF CommandType
      <3> QED
        BY <2>4, <3>1, <3>2
    <2> QED
      BY <1>1, <1>2, <1>3, <2>1, <2>6, <2>7, <2>8 DEF CommandType, Same
  <1>8. ASSUME NEW p \in Provisioners, CredentialsStep(p) \/ CredentialsFault(p)
        PROVE  CommandType' /\ \A q \in Provisioners : q # p => Same(q)
    <2>1. PICK r : IsRun(r) /\ credentialsRun' = [credentialsRun EXCEPT ![p] = r]
      BY <1>8, CredentialsProcess
    <2>2. UNCHANGED <<stage, todo, admins, project, ProjectID, dryRun>>
      BY <1>8 DEF CredentialsStep, CredentialsFault, main
    <2>3. /\ DOMAIN credentialsRun' = Provisioners
          /\ credentialsRun' = [q \in Provisioners |-> credentialsRun'[q]]
          /\ \A q \in Provisioners : IsRun(credentialsRun'[q])
          /\ \A q \in Provisioners : q # p => credentialsRun'[q] = credentialsRun[q]
      BY <1>1, <2>1 DEF CommandType
    <2> QED
      BY <1>1, <1>2, <1>3, <2>2, <2>3 DEF CommandType, Same
  <1>9. ASSUME NEW p \in Provisioners,
               PubSubStep(p) \/ StorageStep(p) \/ PubSubFault(p) \/ StorageFault(p)
        PROVE  UNCHANGED <<main, credentialsRun>>
    BY <1>9 DEF PubSubStep, StorageStep, PubSubFault, StorageFault, credentials
  <1>10. ASSUME NEW service, ComesUp(service) PROVE UNCHANGED <<main, credentialsRun>>
    BY <1>10 DEF ComesUp, credentials
  <1>11. UNCHANGED vars => UNCHANGED <<main, credentialsRun>>
    BY DEF vars, credentials
  <1>12. CASE \E p \in Provisioners : run(p) \/ Around(p)
    <2>1. PICK p \in Provisioners : run(p) \/ Around(p)
      BY <1>12
    <2> QED
      BY <2>1, <1>4, <1>5, <1>6, <1>7, <1>8, <1>9 DEF run, Around
  <1> QED
    BY <1>4, <1>10, <1>11, <1>12 DEF Next

\* Every step keeps the invariant.
LEMMA CommandNext == CommandInv /\ [Next]_vars => CommandInv'
  <1> SUFFICES ASSUME CommandInv, [Next]_vars PROVE CommandInv'
    OBVIOUS
  <1>1. CommandType'
    BY OthersSame
  <1>2. CASE \A q \in Provisioners : Same(q)
    BY <1>1, <1>2, ProcessStays DEF CommandInv
  <1>3. ASSUME NEW p \in Provisioners, run(p) \/ Around(p),
               \A q \in Provisioners : q # p => Same(q)
        PROVE  CommandInv'
    <2>1. Same(p) \/ ProcessInv(p)'
      <3>1. CASE PubSubStep(p) \/ StorageStep(p) \/ PubSubFault(p) \/ StorageFault(p)
        BY <3>1 DEF PubSubStep, StorageStep, PubSubFault, StorageFault, main, credentials, Same
      <3> QED
        BY <1>3, <3>1, BeforeSections, EnterStep, LeaveStep, CredentialsProcess DEF run, Around
    <2> QED
      BY <1>1, <1>3, <2>1, ProcessStays DEF CommandInv
  <1> QED
    BY <1>2, <1>3, OthersSame

\* The processes begin in the invariant: none is started.
LEMMA CommandInit == Init => CommandInv
  <1> SUFFICES ASSUME Init PROVE CommandInv
    OBVIOUS
  <1>1. IsRun(Keys!Fresh("idle")) /\ Keys!Fresh("idle").pc = "idle" /\ Keys!Fresh("idle").key = {}
    BY DEF IsRun, Keys!Fresh
  <1>2. files \in [KeyFiles -> Keys!Content]
    BY CommandAssumption DEF Init
  <1>3. CommandType
    <2>1. stage \in [Provisioners -> Stages]
      BY DEF Init, Stages
    <2>2. admins \in [Provisioners -> SUBSET {"pubsub", "storage"}]
      BY DEF Init
    <2>3. /\ DOMAIN credentialsRun = Provisioners
          /\ credentialsRun = [p \in Provisioners |-> credentialsRun[p]]
          /\ \A p \in Provisioners : IsRun(credentialsRun[p])
      BY <1>1 DEF Init
    <2>4. DOMAIN files = KeyFiles /\ files = [f \in KeyFiles |-> files[f]]
      BY <1>2
    <2> QED
      BY <2>1, <2>2, <2>3, <2>4 DEF Init, CommandType
  <1>4. ASSUME NEW p \in Provisioners PROVE ProcessInv(p)
    <2>1. stage[p] = "idle" /\ credentialsRun[p].pc = "idle" /\ credentialsRun[p].key = {}
      BY <1>1 DEF Init
    <2> QED
      BY <2>1 DEF ProcessInv, LoadedInv, AdminsInv, TodoInv, KeysInv, CredentialsPart,
                  AfterLoad, InSections, SectionNames
  <1> QED
    BY <1>3, <1>4 DEF CommandInv

-----------------------------------------------------------------------------
(* What the sections leave behind.  The places of the Pub/Sub section of a   *)
(* file are its topics (j = 0) and their subscriptions.                      *)

\* The places at topic i: the topic itself, and its subscriptions.
Slots(p, i) == 0..Len(input[p].topics[i].subscriptions)

\* The resource at a place.
KeyAt(p, i, j) ==
    IF j = 0 THEN PubSub!TopicKey(input[p].topics[i].name)
             ELSE PubSub!SubKey(input[p].topics[i].subscriptions[j].name)

\* The shape of the progress of a Pub/Sub section.
IsPubSubRun(r) ==
    /\ DOMAIN r = {"pc", "pass", "ti", "si", "current", "todo", "warned", "history"}
    /\ r.pass \in {"topics", "subs"} /\ r.ti \in Nat \ {0} /\ r.si \in Nat \ {0}

\* The shape of the progress of a storage section.
IsStorageRun(r) ==
    DOMAIN r = {"pc", "bi", "warned", "history"} /\ r.bi \in Nat \ {0}

\* The resource a run with progress r stands at.
Here(p, r) == KeyAt(p, r.ti, IF r.pass = "topics" THEN 0 ELSE r.si)

\* Whether a run with progress r is past a place.
Behind(r, i, j) ==
    IF j = 0 THEN r.pass = "topics" => i < r.ti
    ELSE r.pass = "subs" /\ (i < r.ti \/ (i = r.ti /\ j < r.si))

\* Where a section is about to write.
Sends == {"create", "batch", "split", "version"}

\* A section writes nothing in a dry run; otherwise what is behind it is there,
\* and so is what it is about to update.
PubSubPart(p) ==
    LET r == pubsubRun[p]
    IN  stage[p] = "pubsub" =>
          /\ r.pc \in Sends => ~dryRun[p]
          /\ ~dryRun[p] /\ r.pc # "failed" =>
                /\ r.pc = "ok" => r.pass = "subs" /\ r.ti > Len(input[p].topics)
                /\ r.pc \in {"batch", "split"} => Here(p, r) \in DOMAIN topics
                /\ \A i \in DOMAIN input[p].topics : \A j \in Slots(p, i) :
                      Behind(r, i, j) => KeyAt(p, i, j) \in DOMAIN topics

\* The same for the storage section, where the endpoint tells its errors apart.
StoragePart(p) ==
    LET r == storageRun[p]
    IN  stage[p] = "storage" =>
          /\ r.pc \in Sends => ~dryRun[p]
          /\ Storage!ErrorsAreTold /\ ~dryRun[p] /\ r.pc # "failed" =>
                /\ r.pc = "ok" => r.bi > Len(input[p].buckets)
                /\ r.pc = "version" => input[p].buckets[r.bi].name \in DOMAIN buckets
                /\ \A i \in DOMAIN input[p].buckets :
                      i < r.bi => input[p].buckets[i].name \in DOMAIN buckets

\* The setting of a process that runs is the one it was started with.
DryRunPart(p) ==
    stage[p] \in {"load"} \cup AfterLoad => dryRun[p] = The(resolveDryRun(p))

\* The process is through with a section that it was asked to run.
Over(p, s) ==
    /\ Wanted(p, s)
    /\ \/ stage[p] = "exit 0"
       \/ stage[p] \in InSections /\ stage[p] # s
          /\ \A i \in DOMAIN todo[p] : todo[p][i] # s

\* Every topic and subscription of the file is there.
TopicsThere(p) ==
    \A i \in DOMAIN input[p].topics : \A j \in Slots(p, i) :
        KeyAt(p, i, j) \in DOMAIN topics

\* Every bucket of the file is there.
BucketsThere(p) ==
    \A i \in DOMAIN input[p].buckets : input[p].buckets[i].name \in DOMAIN buckets

\* What it was asked for is there; and its file was valid.
OverPart(p) ==
    /\ stage[p] = "exit 0" => Keys!validateCredentials(input[p].credentials)
    /\ ~dryRun[p] =>
          /\ Over(p, "pubsub") => TopicsThere(p)
          /\ Over(p, "storage") /\ Storage!ErrorsAreTold => BucketsThere(p)
          /\ Over(p, "credentials") => KeysThere(p)

\* The types of the progress of the two sections.
EffectType ==
    /\ DOMAIN pubsubRun = Provisioners
    /\ pubsubRun = [p \in Provisioners |-> pubsubRun[p]]
    /\ DOMAIN storageRun = Provisioners
    /\ storageRun = [p \in Provisioners |-> storageRun[p]]
    /\ \A p \in Provisioners : IsPubSubRun(pubsubRun[p]) /\ IsStorageRun(storageRun[p])

\* The credentials section opens no file in a dry run.
KeysPart(p) ==
    stage[p] = "credentials" /\ credentialsRun[p].pc \in {"open", "write"} => ~dryRun[p]

\* The effects of the sections, on top of CommandInv.
EffectInv(p) == PubSubPart(p) /\ StoragePart(p) /\ DryRunPart(p) /\ OverPart(p)

\* The inductive invariant of what processes have done.
DoneInv ==
    CommandInv /\ EffectType /\ \A p \in Provisioners : EffectInv(p) /\ KeysPart(p)

-----------------------------------------------------------------------------
(* A step of the Pub/Sub section. *)

\* The parts of a file are sequences.
LEMMA PartNumbers ==
    ASSUME CommandType, NEW p \in Provisioners
    PROVE  /\ Len(input[p].topics) \in Nat
           /\ DOMAIN input[p].topics = 1..Len(input[p].topics)
           /\ \A i \in DOMAIN input[p].topics :
                 /\ Len(input[p].topics[i].subscriptions) \in Nat
                 /\ DOMAIN input[p].topics[i].subscriptions
                       = 1..Len(input[p].topics[i].subscriptions)
           /\ Len(input[p].buckets) \in Nat
           /\ DOMAIN input[p].buckets = 1..Len(input[p].buckets)
  <1>1. input[p] \in Input
    BY CommandAssumption DEF CommandType
  <1>2. input[p].topics \in Seq(PubSub!Topic) /\ input[p].buckets \in Seq(Storage!Bucket)
    BY <1>1 DEF Input
  <1>3. ASSUME NEW i \in DOMAIN input[p].topics
        PROVE  input[p].topics[i].subscriptions \in Seq(PubSub!Subscription)
    <2>1. input[p].topics[i] \in PubSub!Topic
      BY <1>2
    <2> QED
      BY <2>1 DEF PubSub!Topic
  <1> QED
    BY <1>2, <1>3

\* What a step of the section, or a fault in it, makes of its progress r.
PubSubMoves(p, r) ==
    /\ IsPubSubRun(r)
    /\ r.pc \in Sends => ~dryRun[p]
    /\ ~dryRun[p] /\ r.pc # "failed" =>
          /\ r.pc = "ok" => r.pass = "subs" /\ r.ti > Len(input[p].topics)
          /\ r.pc \in {"batch", "split"} => Here(p, r) \in DOMAIN topics'
          /\ \A i \in DOMAIN input[p].topics : \A j \in Slots(p, i) :
                Behind(r, i, j) => Behind(pubsubRun[p], i, j) \/ KeyAt(p, i, j) \in DOMAIN topics'

\* A run at the same place as another one.
SamePlace(r, c) == r.pass = c.pass /\ r.ti = c.ti /\ r.si = c.si

\* Going on to the next resource, where this one is there or in a dry run.
LEMMA PubSubAdvance ==
    ASSUME CommandType, NEW p \in Provisioners, NEW c, IsPubSubRun(c),
           SamePlace(c, pubsubRun[p]),
           dryRun[p] \/ Here(p, c) \in DOMAIN topics',
           NEW r, r = PubSub!Advance(c)
    PROVE  PubSubMoves(p, r)
  <1>1. IsPubSubRun(r) /\ r.pc = "loop" /\ r.pass = c.pass
    BY DEF IsPubSubRun, PubSub!Advance
  <1>2. CASE c.pass = "topics"
    <2>1. r.ti = c.ti + 1 /\ r.si = c.si
      BY <1>2 DEF IsPubSubRun, PubSub!Advance
    <2>2. ASSUME NEW i \in DOMAIN input[p].topics, NEW j \in Slots(p, i), Behind(r, i, j)
          PROVE  Behind(c, i, j) \/ (i = c.ti /\ j = 0)
      BY <1>1, <1>2, <2>1, <2>2, PartNumbers DEF Behind, IsPubSubRun
    <2>3. Here(p, c) = KeyAt(p, c.ti, 0)
      BY <1>2 DEF Here
    <2> QED
      BY <1>1, <2>2, <2>3 DEF PubSubMoves, Sends, SamePlace, Behind
  <1>3. CASE c.pass = "subs"
    <2>1. r.ti = c.ti /\ r.si = c.si + 1
      BY <1>3 DEF IsPubSubRun, PubSub!Advance
    <2>2. ASSUME NEW i \in DOMAIN input[p].topics, NEW j \in Slots(p, i), Behind(r, i, j)
          PROVE  Behind(c, i, j) \/ (i = c.ti /\ j = c.si)
      BY <1>1, <1>3, <2>1, <2>2, PartNumbers DEF Behind, IsPubSubRun, Slots
    <2>3. Here(p, c) = KeyAt(p, c.ti, c.si)
      BY <1>3 DEF Here
    <2> QED
      BY <1>1, <2>2, <2>3 DEF PubSubMoves, Sends, SamePlace, Behind
  <1> QED
    BY <1>2, <1>3 DEF IsPubSubRun

\* Going on to send something for this resource, or failing.
LEMMA PubSubSend ==
    ASSUME NEW p \in Provisioners, NEW r, IsPubSubRun(r), SamePlace(r, pubsubRun[p]),
           \/ r.pc = "create" /\ ~dryRun[p]
           \/ r.pc \in {"batch", "split"} /\ ~dryRun[p] /\ Here(p, r) \in DOMAIN topics'
           \/ r.pc = "failed"
    PROVE  PubSubMoves(p, r)
  BY DEF PubSubMoves, SamePlace, Behind, Sends

\* A run that goes on to create stays at its resource.
LEMMA CreatingFields ==
    ASSUME NEW c, IsPubSubRun(c), NEW r, r = PubSub!Creating(c)
    PROVE  r.pc = "create" /\ IsPubSubRun(r) /\ SamePlace(r, c)
  BY DEF IsPubSubRun, SamePlace, PubSub!Creating

\* A run that fails, or is interrupted, stays at its resource.
LEMMA FailFields ==
    ASSUME NEW c, IsPubSubRun(c), NEW r,
           r = PubSub!Fail(c) \/ r = PubSub!Note(PubSub!Fail(c), "interrupted")
    PROVE  r.pc = "failed" /\ IsPubSubRun(r) /\ SamePlace(r, c)
  BY DEF IsPubSubRun, SamePlace, PubSub!Fail, PubSub!Note

\* A run whose update is split stays at its resource.
LEMMA SplitFields ==
    ASSUME NEW c, IsPubSubRun(c), NEW r, r = [c EXCEPT !.pc = "split"]
    PROVE  r.pc = "split" /\ IsPubSubRun(r) /\ SamePlace(r, c)
  BY DEF IsPubSubRun, SamePlace

\* A run that goes on to update stays at its resource.
LEMMA UpdatingFields ==
    ASSUME NEW c, IsPubSubRun(c), NEW m, NEW mask, NEW r, r = PubSub!Updating(c, m, mask)
    PROVE  r.pc = "batch" /\ IsPubSubRun(r) /\ SamePlace(r, c)
  BY DEF IsPubSubRun, SamePlace, PubSub!Updating

\* A run that warns stays at its resource.
LEMMA WarnFields ==
    ASSUME NEW c, IsPubSubRun(c), NEW k, NEW fs, NEW r, r = PubSub!Warn(c, k, fs)
    PROVE  r.pc = c.pc /\ IsPubSubRun(r) /\ SamePlace(r, c)
  BY DEF IsPubSubRun, SamePlace, PubSub!Warn

\* A run that goes on to the next field stays at its resource.
LEMMA TailFields ==
    ASSUME NEW c, IsPubSubRun(c), NEW r, r = [c EXCEPT !.todo = Tail(@)]
    PROVE  r.pc = c.pc /\ IsPubSubRun(r) /\ SamePlace(r, c)
  BY DEF IsPubSubRun, SamePlace

\* Sending a create, or failing, moves the run as it may.
LEMMA PubSubGoesOn ==
    ASSUME NEW p \in Provisioners, IsPubSubRun(pubsubRun[p]), NEW r,
           \/ r = PubSub!Creating(pubsubRun[p]) /\ ~dryRun[p]
           \/ r = PubSub!Fail(pubsubRun[p])
           \/ r = PubSub!Note(PubSub!Fail(pubsubRun[p]), "interrupted")
    PROVE  PubSubMoves(p, r)
  <1>1. CASE r = PubSub!Creating(pubsubRun[p]) /\ ~dryRun[p]
    <2>1. r.pc = "create" /\ IsPubSubRun(r) /\ SamePlace(r, pubsubRun[p])
      BY <1>1, CreatingFields
    <2> QED
      BY <1>1, <2>1, PubSubSend
  <1>2. CASE \/ r = PubSub!Fail(pubsubRun[p])
             \/ r = PubSub!Note(PubSub!Fail(pubsubRun[p]), "interrupted")
    <2>1. r.pc = "failed" /\ IsPubSubRun(r) /\ SamePlace(r, pubsubRun[p])
      BY <1>2, FailFields
    <2> QED
      BY <2>1, PubSubSend
  <1> QED
    BY <1>1, <1>2

\* Places do not change on the way.
LEMMA PlacesAgree ==
    ASSUME NEW p, NEW r, NEW c, SamePlace(r, c)
    PROVE  Here(p, r) = Here(p, c)
  BY DEF SamePlace, Here

\* The resource a run is at, as the section names it.
LEMMA KeyIsHere ==
    ASSUME NEW p \in Provisioners, IsPubSubRun(pubsubRun[p])
    PROVE  PubSub!Key(p) = Here(p, pubsubRun[p])
  BY DEF PubSub!Key, PubSub!AtTopic, PubSub!TopicAt, PubSub!SubAt, PubSub!topics, Here, KeyAt,
         IsPubSubRun

\* A step of the section moves its progress; what is there stays there, and a
\* dry run writes nothing.
LEMMA PubSubMove ==
    ASSUME CommandType, EffectType, NEW p \in Provisioners, stage[p] = "pubsub", PubSubPart(p),
           \/ pubsubRun[p].pc \in PubSub!Running /\ PubSub!ProvisionPubSub(p)
           \/ PubSub!Interrupt(p) \/ PubSub!LostReply(p)
    PROVE  /\ DOMAIN topics \subseteq DOMAIN topics'
           /\ dryRun[p] => topics' = topics
           /\ \E r : pubsubRun' = [pubsubRun EXCEPT ![p] = r] /\ PubSubMoves(p, r)
  <1>1. PICK c : c = pubsubRun[p]
    OBVIOUS
  <1>2. IsPubSubRun(c) /\ SamePlace(c, c)
    BY <1>1 DEF EffectType, SamePlace
  <1>3. PubSub!Key(p) = Here(p, c)
    BY <1>1, <1>2, KeyIsHere
  <1>4. PubSub!topics(p) = input[p].topics
    BY DEF PubSub!topics
  <1>5. /\ Len(input[p].topics) \in Nat
        /\ DOMAIN input[p].topics = 1..Len(input[p].topics)
        /\ \A i \in DOMAIN input[p].topics : Len(input[p].topics[i].subscriptions) \in Nat
    BY PartNumbers
  <1>6. \A r : PubSub!Become(p, r) => pubsubRun' = [pubsubRun EXCEPT ![p] = r]
    BY DEF PubSub!Become
  <1>7. \A x, m : DOMAIN topics \subseteq DOMAIN PubSub!Put(topics, x, m)
                 /\ x \in DOMAIN PubSub!Put(topics, x, m)
    BY DEF PubSub!Put
  <1>8. /\ c.pc \in {"batch", "split"} => ~dryRun[p] /\ Here(p, c) \in DOMAIN topics
        /\ c.pc = "create" => ~dryRun[p]
    BY <1>1 DEF PubSubPart, Sends
  <1>9. ASSUME NEW d, IsPubSubRun(d), SamePlace(d, c),
               dryRun[p] \/ Here(p, c) \in DOMAIN topics'
        PROVE  PubSubMoves(p, PubSub!Advance(d))
    BY <1>1, <1>9, PubSubAdvance, PlacesAgree
  <1>10. CASE PubSub!ensureTopic(p)
    <2>1. topics' = topics
      BY <1>10 DEF PubSub!ensureTopic
    <2>2. CASE PubSub!Become(p, PubSub!Advance(pubsubRun[p]))
               /\ (dryRun[p] \/ PubSub!Key(p) \in DOMAIN topics)
      BY <1>1, <1>2, <1>3, <1>6, <1>9, <2>1, <2>2
    <2>3. CASE PubSub!Become(p, PubSub!Creating(pubsubRun[p])) /\ ~dryRun[p]
      BY <1>1, <1>2, <1>6, <2>1, <2>3, PubSubGoesOn
    <2>4. ASSUME NEW m, NEW mask, PubSub!Become(p, PubSub!Updating(pubsubRun[p], m, mask)),
                 ~dryRun[p], PubSub!Key(p) \in DOMAIN topics
          PROVE  \E r : pubsubRun' = [pubsubRun EXCEPT ![p] = r] /\ PubSubMoves(p, r)
      <3>1. PICK r : r = PubSub!Updating(c, m, mask)
        OBVIOUS
      <3>2. r.pc = "batch" /\ IsPubSubRun(r) /\ SamePlace(r, c)
        BY <1>2, <3>1, UpdatingFields
      <3>3. PubSubMoves(p, r)
        BY <1>1, <1>3, <2>1, <2>4, <3>2, PlacesAgree, PubSubSend
      <3> QED
        BY <1>1, <1>6, <2>4, <3>1, <3>3
    <2>5. \/ PubSub!Become(p, PubSub!Advance(pubsubRun[p]))
             /\ (dryRun[p] \/ PubSub!Key(p) \in DOMAIN topics)
          \/ PubSub!Become(p, PubSub!Creating(pubsubRun[p])) /\ ~dryRun[p]
          \/ \E m, mask : /\ PubSub!Become(p, PubSub!Updating(pubsubRun[p], m, mask))
                          /\ ~dryRun[p] /\ PubSub!Key(p) \in DOMAIN topics
      BY <1>10 DEF PubSub!ensureTopic
    <2> QED
      BY <2>1, <2>2, <2>3, <2>4, <2>5
  <1>11. CASE PubSub!ensureSubscription(p)
    <2>1. topics' = topics
      BY <1>11 DEF PubSub!ensureSubscription
    <2>2. ASSUME NEW d, d = pubsubRun[p] \/ \E fs : d = PubSub!Warn(pubsubRun[p], PubSub!Key(p), fs),
                 PubSub!Become(p, PubSub!Advance(d)),
                 dryRun[p] \/ PubSub!Key(p) \in DOMAIN topics
          PROVE  \E r : pubsubRun' = [pubsubRun EXCEPT ![p] = r] /\ PubSubMoves(p, r)
      <3>1. IsPubSubRun(d) /\ SamePlace(d, c)
        BY <1>1, <1>2, <2>2, WarnFields
      <3> QED
        BY <1>3, <1>6, <1>9, <2>1, <2>2, <3>1
    <2>3. CASE PubSub!Become(p, PubSub!Creating(pubsubRun[p])) /\ ~dryRun[p]
      BY <1>1, <1>2, <1>6, <2>1, <2>3, PubSubGoesOn
    <2>4. ASSUME NEW fs, NEW m, NEW mask,
                 PubSub!Become(p, PubSub!Updating(
                     PubSub!Warn(pubsubRun[p], PubSub!Key(p), fs), m, mask)),
                 ~dryRun[p], PubSub!Key(p) \in DOMAIN topics
          PROVE  \E r : pubsubRun' = [pubsubRun EXCEPT ![p] = r] /\ PubSubMoves(p, r)
      <3>1. PICK d : d = PubSub!Warn(c, PubSub!Key(p), fs)
        OBVIOUS
      <3>2. IsPubSubRun(d) /\ SamePlace(d, c)
        BY <1>2, <3>1, WarnFields
      <3>3. PICK r : r = PubSub!Updating(d, m, mask)
        OBVIOUS
      <3>4. r.pc = "batch" /\ IsPubSubRun(r) /\ SamePlace(r, d)
        BY <3>2, <3>3, UpdatingFields
      <3>5. SamePlace(r, c)
        BY <3>2, <3>4 DEF SamePlace
      <3>6. PubSubMoves(p, r)
        BY <1>1, <1>3, <2>1, <2>4, <3>4, <3>5, PlacesAgree, PubSubSend
      <3> QED
        BY <1>1, <1>6, <2>4, <3>1, <3>3, <3>6
    <2>5. \/ /\ dryRun[p] \/ PubSub!Key(p) \in DOMAIN topics
             /\ \/ PubSub!Become(p, PubSub!Advance(pubsubRun[p]))
                \/ \E fs : PubSub!Become(p, PubSub!Advance(
                               PubSub!Warn(pubsubRun[p], PubSub!Key(p), fs)))
          \/ PubSub!Become(p, PubSub!Creating(pubsubRun[p])) /\ ~dryRun[p]
          \/ \E fs, m, mask :
                /\ PubSub!Become(p, PubSub!Updating(
                       PubSub!Warn(pubsubRun[p], PubSub!Key(p), fs), m, mask))
                /\ ~dryRun[p] /\ PubSub!Key(p) \in DOMAIN topics
      BY <1>11 DEF PubSub!ensureSubscription
    <2> QED
      BY <2>1, <2>2, <2>3, <2>4, <2>5
  <1>12. CASE PubSub!create(p)
    <2>1. c.pc = "create" /\ ~dryRun[p]
      BY <1>1, <1>8, <1>12 DEF PubSub!create
    <2>2. CASE topics' = PubSub!Put(topics, PubSub!Key(p), PubSub!CreateRequest(p))
               /\ PubSub!Become(p, PubSub!Advance(pubsubRun[p]))
      BY <1>1, <1>2, <1>3, <1>6, <1>7, <1>9, <2>1, <2>2
    <2>3. CASE PubSub!CreateCall(p) = "exists" /\ topics' = topics
               /\ PubSub!Become(p, PubSub!Advance(pubsubRun[p]))
      <3>1. PubSub!Key(p) \in DOMAIN topics
        BY <2>3 DEF PubSub!CreateCall, PubSub!CreateReply
      <3> QED
        BY <1>1, <1>2, <1>3, <1>6, <1>9, <2>1, <2>3, <3>1
    <2>4. CASE topics' = topics /\ PubSub!Become(p, PubSub!Fail(pubsubRun[p]))
      BY <1>1, <1>2, <1>6, <2>1, <2>4, PubSubGoesOn
    <2> QED
      BY <1>12, <2>2, <2>3, <2>4 DEF PubSub!create
  <1>13. \A m, mask : DOMAIN topics \subseteq DOMAIN PubSub!UpdateEffect(topics, PubSub!Key(p), m, mask)
                     /\ PubSub!Key(p) \in DOMAIN PubSub!UpdateEffect(topics, PubSub!Key(p), m, mask)
    BY <1>7 DEF PubSub!UpdateEffect
  <1>14. CASE PubSub!applyBatch(p)
    <2>1. c.pc = "batch" /\ ~dryRun[p] /\ Here(p, c) \in DOMAIN topics
      BY <1>1, <1>8, <1>14 DEF PubSub!applyBatch
    <2>2. topics' = topics \/ topics' = PubSub!UpdateEffect(topics, PubSub!Key(p),
                                          PubSub!UpdateRequest(p), PubSub!Mask(p))
      BY <1>14 DEF PubSub!applyBatch
    <2>3. DOMAIN topics \subseteq DOMAIN topics' /\ Here(p, c) \in DOMAIN topics'
      BY <1>3, <1>13, <2>1, <2>2
    <2>4. ASSUME NEW d, d = pubsubRun[p] \/ \E fs : d = PubSub!Warn(pubsubRun[p], PubSub!Key(p), fs),
                 PubSub!Become(p, PubSub!Advance(d))
          PROVE  \E r : pubsubRun' = [pubsubRun EXCEPT ![p] = r] /\ PubSubMoves(p, r)
      <3>1. IsPubSubRun(d) /\ SamePlace(d, c)
        BY <1>1, <1>2, <2>4, WarnFields
      <3> QED
        BY <1>6, <1>9, <2>3, <2>4, <3>1
    <2>5. CASE PubSub!Become(p, PubSub!Fail(pubsubRun[p]))
      BY <1>1, <1>2, <1>6, <2>1, <2>3, <2>5, PubSubGoesOn
    <2>6. CASE PubSub!Become(p, [pubsubRun[p] EXCEPT !.pc = "split"])
      <3>1. PICK r : r = [c EXCEPT !.pc = "split"]
        OBVIOUS
      <3>2. r.pc = "split" /\ IsPubSubRun(r) /\ SamePlace(r, c)
        BY <1>2, <3>1, SplitFields
      <3>3. PubSubMoves(p, r)
        BY <1>1, <2>1, <2>3, <3>2, PlacesAgree, PubSubSend
      <3> QED
        BY <1>1, <1>6, <2>1, <2>3, <2>6, <3>1, <3>3
    <2> QED
      BY <1>14, <2>1, <2>3, <2>4, <2>5, <2>6 DEF PubSub!applyBatch
  <1>15. CASE PubSub!applyPath(p)
    <2>1. c.pc = "split" /\ ~dryRun[p] /\ Here(p, c) \in DOMAIN topics
      BY <1>1, <1>8, <1>15 DEF PubSub!applyPath
    <2>2. topics' = topics \/ topics' = PubSub!UpdateEffect(topics, PubSub!Key(p),
                                          PubSub!UpdateRequest(p), PubSub!Mask(p))
      BY <1>15 DEF PubSub!applyPath
    <2>3. DOMAIN topics \subseteq DOMAIN topics' /\ Here(p, c) \in DOMAIN topics'
      BY <1>3, <1>13, <2>1, <2>2
    <2>4. ASSUME NEW d, d = pubsubRun[p] \/ \E fs : d = PubSub!Warn(pubsubRun[p], PubSub!Key(p), fs),
                 PubSub!Become(p, PubSub!NextPath(d))
          PROVE  \E r : pubsubRun' = [pubsubRun EXCEPT ![p] = r] /\ PubSubMoves(p, r)
      <3>1. IsPubSubRun(d) /\ SamePlace(d, c) /\ d.pc = "split"
        BY <1>1, <1>2, <2>1, <2>4, WarnFields
      <3>2. CASE PubSub!NextPath(d) = PubSub!Advance(d)
        BY <1>6, <1>9, <2>3, <2>4, <3>1, <3>2
      <3>3. CASE PubSub!NextPath(d) = [d EXCEPT !.todo = Tail(@)]
        <4>1. PICK r : r = [d EXCEPT !.todo = Tail(@)]
          OBVIOUS
        <4>2. r.pc = "split" /\ IsPubSubRun(r) /\ SamePlace(r, d)
          BY <3>1, <4>1, TailFields
        <4>3. SamePlace(r, c)
          BY <3>1, <4>2 DEF SamePlace
        <4>4. PubSubMoves(p, r)
          BY <1>1, <2>1, <2>3, <4>2, <4>3, PlacesAgree, PubSubSend
        <4> QED
          BY <1>6, <2>4, <3>3, <4>1, <4>4
      <3> QED
        BY <3>2, <3>3 DEF PubSub!NextPath
    <2>5. CASE PubSub!Become(p, PubSub!Fail(pubsubRun[p]))
      BY <1>1, <1>2, <1>6, <2>1, <2>3, <2>5, PubSubGoesOn
    <2> QED
      BY <1>15, <2>1, <2>3, <2>4, <2>5 DEF PubSub!applyPath
  <1>16. CASE PubSub!topicsDone(p)
    <2>1. topics' = topics /\ c.pc = "loop" /\ c.pass = "topics" /\ c.ti > Len(input[p].topics)
      BY <1>1, <1>4, <1>16 DEF PubSub!topicsDone, PubSub!AtTopic
    <2>2. PICK r : r = [c EXCEPT !.pass = "subs", !.ti = 1, !.si = 1]
      OBVIOUS
    <2>3. IsPubSubRun(r) /\ r.pc = "loop" /\ r.pass = "subs" /\ r.ti = 1 /\ r.si = 1
      BY <1>2, <2>1, <2>2 DEF IsPubSubRun
    <2>4. \A i \in DOMAIN input[p].topics : \A j \in Slots(p, i) :
             Behind(r, i, j) => Behind(c, i, j)
      BY <1>2, <1>5, <2>1, <2>3 DEF Behind, Slots, IsPubSubRun
    <2>5. PubSubMoves(p, r)
      BY <1>1, <2>3, <2>4 DEF PubSubMoves, Sends
    <2> QED
      BY <1>1, <1>6, <1>16, <2>1, <2>2, <2>5 DEF PubSub!topicsDone
  <1>17. CASE PubSub!subscriptionsDone(p)
    <2>1. /\ topics' = topics /\ c.pc = "loop" /\ c.pass = "subs"
          /\ c.ti <= Len(input[p].topics)
          /\ c.si > Len(input[p].topics[c.ti].subscriptions)
      BY <1>1, <1>2, <1>4, <1>17
      DEF PubSub!subscriptionsDone, PubSub!AtTopic, PubSub!TopicAt, IsPubSubRun
    <2>2. PICK r : r = [c EXCEPT !.ti = @ + 1, !.si = 1]
      OBVIOUS
    <2>3. IsPubSubRun(r) /\ r.pc = "loop" /\ r.pass = "subs" /\ r.ti = c.ti + 1 /\ r.si = 1
      BY <1>2, <2>1, <2>2 DEF IsPubSubRun
    <2>4. ASSUME NEW i \in DOMAIN input[p].topics, NEW j \in Slots(p, i), Behind(r, i, j)
          PROVE  Behind(c, i, j)
      BY <1>2, <1>5, <2>1, <2>3, <2>4 DEF Behind, Slots, IsPubSubRun
    <2>5. PubSubMoves(p, r)
      BY <1>1, <2>3, <2>4 DEF PubSubMoves, Sends
    <2> QED
      BY <1>1, <1>6, <1>17, <2>1, <2>2, <2>5 DEF PubSub!subscriptionsDone
  <1>18. CASE PubSub!sectionDone(p)
    <2>1. topics' = topics /\ c.pc = "loop" /\ c.pass = "subs" /\ c.ti > Len(input[p].topics)
      BY <1>1, <1>2, <1>4, <1>18 DEF PubSub!sectionDone, PubSub!AtTopic, IsPubSubRun
    <2>2. PICK r : r = [c EXCEPT !.pc = "ok"]
      OBVIOUS
    <2>3. IsPubSubRun(r) /\ r.pc = "ok" /\ SamePlace(r, c)
      BY <1>2, <2>1, <2>2 DEF IsPubSubRun, SamePlace
    <2>4. PubSubMoves(p, r)
      BY <1>1, <2>1, <2>3 DEF PubSubMoves, Sends, SamePlace, Behind
    <2> QED
      BY <1>1, <1>6, <1>18, <2>1, <2>2, <2>4 DEF PubSub!sectionDone
  <1>19. CASE PubSub!Interrupt(p)
    <2>1. topics' = topics /\ PubSub!Become(p, PubSub!Note(PubSub!Fail(pubsubRun[p]), "interrupted"))
      BY <1>19 DEF PubSub!Interrupt
    <2> QED
      BY <1>1, <1>2, <1>6, <2>1, PubSubGoesOn
  <1>20. CASE PubSub!LostReply(p)
    <2>1. /\ c.pc \in {"create", "batch", "split"}
          /\ PubSub!Become(p, PubSub!Note(PubSub!Fail(pubsubRun[p]), "interrupted"))
          /\ \/ topics' = PubSub!Put(topics, PubSub!Key(p), PubSub!CreateRequest(p))
             \/ topics' = PubSub!UpdateEffect(topics, PubSub!Key(p),
                                              PubSub!UpdateRequest(p), PubSub!Mask(p))
      BY <1>1, <1>20 DEF PubSub!LostReply
    <2>2. DOMAIN topics \subseteq DOMAIN topics' /\ ~dryRun[p]
      BY <1>7, <1>8, <1>13, <2>1
    <2> QED
      BY <1>1, <1>2, <1>6, <2>1, <2>2, PubSubGoesOn
  <1>21. ~PubSub!Start(p) \/ pubsubRun[p].pc \notin PubSub!Running
    BY DEF PubSub!Start, PubSub!Running
  <1> QED
    BY <1>10, <1>11, <1>12, <1>14, <1>15, <1>16, <1>17, <1>18, <1>19, <1>20, <1>21
    DEF PubSub!ProvisionPubSub

-----------------------------------------------------------------------------
(* A step of the storage section. *)

\* What a step of the section, or a fault in it, makes of its progress r.
StorageMoves(p, r) ==
    /\ IsStorageRun(r)
    /\ r.pc \in Sends => ~dryRun[p]
    /\ Storage!ErrorsAreTold /\ ~dryRun[p] /\ r.pc # "failed" =>
          /\ r.pc = "ok" => r.bi > Len(input[p].buckets)
          /\ r.pc = "version" => input[p].buckets[r.bi].name \in DOMAIN buckets'
          /\ \A i \in DOMAIN input[p].buckets :
                i < r.bi => i < storageRun[p].bi
                            \/ input[p].buckets[i].name \in DOMAIN buckets'

\* Going on to the next bucket, where this one is there or in a dry run - or
\* was taken for one that is there.
LEMMA StorageAdvance ==
    ASSUME CommandType, NEW p \in Provisioners, NEW c, IsStorageRun(c), c.bi = storageRun[p].bi,
           \/ dryRun[p] \/ ~Storage!ErrorsAreTold
           \/ input[p].buckets[c.bi].name \in DOMAIN buckets',
           NEW r, r = Storage!Advance(c)
    PROVE  StorageMoves(p, r)
  <1>1. IsStorageRun(r) /\ r.pc = "loop" /\ r.bi = c.bi + 1
    BY DEF IsStorageRun, Storage!Advance
  <1>2. ASSUME NEW i \in DOMAIN input[p].buckets, i < r.bi
        PROVE  i < c.bi \/ i = c.bi
    BY <1>1, <1>2, PartNumbers DEF IsStorageRun
  <1> QED
    BY <1>1, <1>2 DEF StorageMoves, Sends

\* Going on to send something for this bucket, or failing.
LEMMA StorageSend ==
    ASSUME NEW p \in Provisioners, NEW r, IsStorageRun(r), r.bi = storageRun[p].bi,
           \/ r.pc = "create" /\ ~dryRun[p]
           \/ r.pc = "version" /\ ~dryRun[p] /\ input[p].buckets[r.bi].name \in DOMAIN buckets'
           \/ r.pc = "failed"
    PROVE  StorageMoves(p, r)
  BY DEF StorageMoves, Sends

\* A storage run that goes on in the code stays at its bucket.
LEMMA GotoFields ==
    ASSUME NEW c, IsStorageRun(c), NEW x, NEW r, r = Storage!Goto(c, x)
    PROVE  r.pc = x /\ IsStorageRun(r) /\ r.bi = c.bi
  BY DEF IsStorageRun, Storage!Goto

\* A storage run that fails stays at its bucket.
LEMMA StorageFailFields ==
    ASSUME NEW c, IsStorageRun(c), NEW x, NEW r, r = Storage!Fail(c, x)
    PROVE  r.pc = "failed" /\ IsStorageRun(r) /\ r.bi = c.bi
  BY DEF IsStorageRun, Storage!Fail, Storage!Note, Storage!Goto

\* A storage run that warns stays at its bucket.
LEMMA StorageWarnFields ==
    ASSUME NEW c, IsStorageRun(c), NEW n, NEW fs, NEW r, r = Storage!Warn(c, n, fs)
    PROVE  r.pc = c.pc /\ IsStorageRun(r) /\ r.bi = c.bi
  BY DEF IsStorageRun, Storage!Warn

\* A step of the section moves its progress; what is there stays there, and a
\* dry run writes nothing.
LEMMA StorageMove ==
    ASSUME CommandType, EffectType, NEW p \in Provisioners, stage[p] = "storage", StoragePart(p),
           \/ storageRun[p].pc \in Storage!Running /\ Storage!ProvisionStorage(p)
           \/ Storage!CallFails(p) \/ Storage!Killed(p)
    PROVE  /\ DOMAIN buckets \subseteq DOMAIN buckets'
           /\ dryRun[p] => buckets' = buckets
           /\ \E r : storageRun' = [storageRun EXCEPT ![p] = r] /\ StorageMoves(p, r)
  <1>1. PICK c : c = storageRun[p]
    OBVIOUS
  <1>2. IsStorageRun(c)
    BY <1>1 DEF EffectType
  <1>3. Storage!Name(p) = input[p].buckets[c.bi].name
    BY <1>1 DEF Storage!Name, Storage!BucketAt
  <1>4. \A r : Storage!Become(p, r) => storageRun' = [storageRun EXCEPT ![p] = r]
    BY DEF Storage!Become
  <1>5. c.pc \in {"create", "version"} => ~dryRun[p]
    BY <1>1 DEF StoragePart, Sends
  <1>6. \A n, b : DOMAIN buckets \subseteq DOMAIN Storage!Put(buckets, n, b)
                 /\ n \in DOMAIN Storage!Put(buckets, n, b)
    BY DEF Storage!Put
  <1>7. DOMAIN Storage!WithVersioning(p) = DOMAIN buckets
    BY DEF Storage!WithVersioning
  <1>8. ASSUME NEW d, IsStorageRun(d), d.bi = c.bi, Storage!Become(p, Storage!Advance(d)),
               dryRun[p] \/ ~Storage!ErrorsAreTold \/ Storage!Name(p) \in DOMAIN buckets'
        PROVE  \E r : storageRun' = [storageRun EXCEPT ![p] = r] /\ StorageMoves(p, r)
    <2>1. StorageMoves(p, Storage!Advance(d))
      BY <1>1, <1>3, <1>8, StorageAdvance
    <2> QED
      BY <1>4, <1>8, <2>1
  <1>9. ASSUME NEW x, \/ Storage!Become(p, Storage!Fail(storageRun[p], x))
                      \/ Storage!Become(p, Storage!Goto(storageRun[p], "failed"))
        PROVE  \E r : storageRun' = [storageRun EXCEPT ![p] = r] /\ StorageMoves(p, r)
    <2>1. PICK r : /\ storageRun' = [storageRun EXCEPT ![p] = r]
                   /\ r = Storage!Fail(c, x) \/ r = Storage!Goto(c, "failed")
      BY <1>1, <1>4, <1>9
    <2>2. r.pc = "failed" /\ IsStorageRun(r) /\ r.bi = c.bi
      BY <1>2, <2>1, GotoFields, StorageFailFields
    <2> QED
      BY <1>1, <2>1, <2>2, StorageSend
  <1>10. CASE Storage!ensureBucket(p)
    <2>1. buckets' = buckets
      BY <1>10 DEF Storage!ensureBucket
    <2>2. PICK w : w = Storage!Warn(c, Storage!Name(p), Storage!Drift(p))
      OBVIOUS
    <2>3. IsStorageRun(w) /\ w.bi = c.bi
      BY <1>2, <2>2, StorageWarnFields
    <2>4. CASE Storage!Become(p, Storage!Advance(c))
               /\ (dryRun[p] \/ Storage!Name(p) \in DOMAIN buckets)
      BY <1>2, <1>8, <2>1, <2>4
    <2>5. CASE Storage!Become(p, Storage!Advance(w)) /\ Storage!Name(p) \in DOMAIN buckets
      BY <1>8, <2>1, <2>3, <2>5
    <2>6. CASE Storage!Become(p, Storage!Goto(c, "create")) /\ ~dryRun[p]
      <3>1. PICK r : r = Storage!Goto(c, "create")
        OBVIOUS
      <3>2. r.pc = "create" /\ IsStorageRun(r) /\ r.bi = c.bi
        BY <1>2, <3>1, GotoFields
      <3> QED
        BY <1>1, <1>4, <2>1, <2>6, <3>1, <3>2, StorageSend
    <2>7. CASE /\ Storage!Become(p, Storage!Goto(w, "version")) /\ ~dryRun[p]
               /\ Storage!Name(p) \in DOMAIN buckets
      <3>1. PICK r : r = Storage!Goto(w, "version")
        OBVIOUS
      <3>2. r.pc = "version" /\ IsStorageRun(r) /\ r.bi = c.bi
        BY <2>3, <3>1, GotoFields
      <3>3. StorageMoves(p, r)
        BY <1>1, <1>3, <2>1, <2>7, <3>2, StorageSend
      <3> QED
        BY <1>4, <2>1, <2>7, <3>1, <3>3
    <2>8. \/ /\ Storage!Become(p, Storage!Advance(c))
             /\ dryRun[p] \/ Storage!Name(p) \in DOMAIN buckets
          \/ Storage!Become(p, Storage!Goto(c, "create")) /\ ~dryRun[p]
          \/ /\ Storage!Become(p, Storage!ensureVersioning(p, w))
             /\ Storage!Name(p) \in DOMAIN buckets
      BY <1>1, <1>10, <2>2 DEF Storage!ensureBucket
    <2>9. \/ Storage!ensureVersioning(p, w) = Storage!Advance(w)
          \/ Storage!ensureVersioning(p, w) = Storage!Goto(w, "version") /\ ~dryRun[p]
      BY DEF Storage!ensureVersioning
    <2> QED
      BY <2>1, <2>4, <2>5, <2>6, <2>7, <2>8, <2>9
  <1>11. CASE Storage!createBucket(p)
    <2>1. ~dryRun[p]
      BY <1>1, <1>5, <1>11 DEF Storage!createBucket
    <2>2. CASE buckets' = Storage!Put(buckets, Storage!Name(p), Storage!Stored(backend, Storage!Desired(p)))
               /\ Storage!Become(p, Storage!Advance(storageRun[p]))
      BY <1>1, <1>2, <1>6, <1>8, <2>1, <2>2
    <2>3. CASE buckets' = buckets /\ Storage!isBucketExistsError(backend, Storage!CreateCall(p))
               /\ Storage!Become(p, Storage!Advance(storageRun[p]))
      <3>1. Storage!ErrorsAreTold => Storage!Name(p) \in DOMAIN buckets
        BY <2>3 DEF Storage!isBucketExistsError, Storage!ErrorsAreTold, Storage!CreateCall,
                    Storage!CreateReply
      <3> QED
        BY <1>1, <1>2, <1>8, <2>1, <2>3, <3>1
    <2>4. CASE buckets' = buckets
               /\ (\/ Storage!Become(p, Storage!Fail(storageRun[p], "unsupported"))
                   \/ Storage!Become(p, Storage!Goto(storageRun[p], "failed")))
      BY <1>9, <2>1, <2>4
    <2> QED
      BY <1>11, <2>2, <2>3, <2>4 DEF Storage!createBucket
  <1>12. CASE Storage!setVersioning(p)
    <2>1. ~dryRun[p]
      BY <1>1, <1>5, <1>12 DEF Storage!setVersioning
    <2>2. CASE Storage!UpdateCall(p) = "ok" /\ buckets' = Storage!WithVersioning(p)
               /\ Storage!Become(p, Storage!Advance(storageRun[p]))
      <3>1. Storage!Name(p) \in DOMAIN buckets
        BY <2>2 DEF Storage!UpdateCall, Storage!UpdateReply
      <3> QED
        BY <1>1, <1>2, <1>7, <1>8, <2>1, <2>2, <3>1
    <2>3. CASE buckets' = buckets
               /\ (\/ Storage!Become(p, Storage!Fail(storageRun[p], "unsupported"))
                   \/ Storage!Become(p, Storage!Goto(storageRun[p], "failed")))
      BY <1>9, <2>1, <2>3
    <2> QED
      BY <1>12, <2>2, <2>3 DEF Storage!setVersioning
  <1>13. CASE Storage!sectionDone(p)
    <2>1. /\ buckets' = buckets /\ c.bi > Len(input[p].buckets)
          /\ Storage!Become(p, Storage!Goto(c, "ok"))
      BY <1>1, <1>13 DEF Storage!sectionDone
    <2>2. PICK r : r = Storage!Goto(c, "ok")
      OBVIOUS
    <2>3. r.pc = "ok" /\ IsStorageRun(r) /\ r.bi = c.bi
      BY <1>2, <2>2, GotoFields
    <2>4. StorageMoves(p, r)
      BY <1>1, <2>1, <2>3 DEF StorageMoves, Sends
    <2> QED
      BY <1>4, <2>1, <2>2, <2>4
  <1>14. CASE Storage!CallFails(p)
    <2>1. \/ buckets' = buckets
          \/ /\ c.pc = "create"
             /\ buckets' = Storage!Put(buckets, Storage!Name(p), Storage!Stored(backend, Storage!Desired(p)))
          \/ c.pc = "version" /\ buckets' = Storage!WithVersioning(p)
      BY <1>1, <1>14 DEF Storage!CallFails
    <2>2. DOMAIN buckets \subseteq DOMAIN buckets' /\ (dryRun[p] => buckets' = buckets)
      BY <1>5, <1>6, <1>7, <2>1
    <2>3. CASE Storage!isBucketExistsError(backend, "transport")
               /\ Storage!Become(p, Storage!Advance(storageRun[p]))
      <3>1. ~Storage!ErrorsAreTold
        BY <2>3 DEF Storage!isBucketExistsError, Storage!ErrorsAreTold
      <3> QED
        BY <1>1, <1>2, <1>8, <2>2, <2>3, <3>1
    <2>4. CASE Storage!Become(p, Storage!Fail(storageRun[p], "interrupted"))
      BY <1>9, <2>2, <2>4
    <2> QED
      BY <1>14, <2>3, <2>4 DEF Storage!CallFails
  <1>15. CASE Storage!Killed(p)
    BY <1>9, <1>15 DEF Storage!Killed
  <1>16. ~Storage!Start(p) \/ storageRun[p].pc \notin Storage!Running
    BY DEF Storage!Start, Storage!Running
  <1> QED
    BY <1>10, <1>11, <1>12, <1>13, <1>14, <1>15, <1>16 DEF Storage!ProvisionStorage

-----------------------------------------------------------------------------
(* The steps of a process, and what they leave of the sections' effects. *)

\* Every section that is asked for is to be run.
LEMMA SectionsComplete ==
    ASSUME NEW p, section(p) \in validSections, NEW s \in SectionNames, Wanted(p, s)
    PROVE  \E i \in DOMAIN Sections(p) : Sections(p)[i] = s
  <1>1. CASE section(p) = "all"
    <2>1. Sections(p) = <<"credentials", "pubsub", "storage">>
      BY <1>1 DEF Sections
    <2> QED
      BY <2>1 DEF SectionNames
  <1>2. CASE section(p) # "all"
    <2>1. Sections(p) = <<s>>
      BY <1>2 DEF Sections, Wanted
    <2> QED
      BY <2>1
  <1> QED
    BY <1>1, <1>2

\* What is to be run is the next section and what comes after it.
LEMMA TailComplete ==
    ASSUME NEW S, NEW s \in Seq(S), s # <<>>, NEW i \in DOMAIN s
    PROVE  s[i] = Head(s) \/ \E k \in DOMAIN Tail(s) : Tail(s)[k] = s[i]
  <1>1. Len(s) \in Nat /\ Len(s) # 0 /\ DOMAIN s = 1..Len(s)
    BY EmptySeq, LenProperties
  <1>2. Tail(s) \in Seq(S) /\ Len(Tail(s)) = Len(s) - 1 /\ Head(s) = s[1]
    BY HeadTailProperties
  <1>3. \A k \in 1..Len(Tail(s)) : Tail(s)[k] = s[k + 1]
    BY <1>1, HeadTailProperties
  <1>4. DOMAIN Tail(s) = 1..Len(Tail(s))
    BY <1>2
  <1>5. CASE i # 1
    <2>1. i - 1 \in 1..Len(Tail(s)) /\ (i - 1) + 1 = i
      BY <1>1, <1>2, <1>5
    <2> QED
      BY <1>3, <1>4, <2>1
  <1> QED
    BY <1>2, <1>5

\* The settings of a process follow from its input.
LEMMA SameSetting ==
    ASSUME [Next]_vars
    PROVE  \A p : /\ resolveDryRun(p)' = resolveDryRun(p)
                  /\ \A i, j : KeyAt(p, i, j)' = KeyAt(p, i, j)
                  /\ \A i : Slots(p, i)' = Slots(p, i)
  BY SameInput DEF resolveDryRun, KeyAt, Slots, PubSub!TopicKey, PubSub!SubKey

\* The kind of storage endpoint does not change.
LEMMA SameBackend ==
    ASSUME [Next]_vars
    PROVE  backend' = backend /\ Storage!ErrorsAreTold' = Storage!ErrorsAreTold
  <1>1. backend' = backend
    BY DEF Next, vars, run, Around, Start, load, connectPubSub, connectStorage, Connecting,
           Enter, Leave, PubSubStep, StorageStep, CredentialsStep, PubSubFault,
           StorageFault, CredentialsFault, Stopped, ComesUp, world
  <1> QED
    BY <1>1 DEF Storage!ErrorsAreTold

\* A step of the Pub/Sub section, or a fault in it.
LEMMA PubSubSectionStep ==
    ASSUME DoneInv, NEW p \in Provisioners, PubSubStep(p) \/ PubSubFault(p)
    PROVE  /\ stage[p] = "pubsub"
           /\ UNCHANGED <<main, storage, credentials>>
           /\ DOMAIN topics \subseteq DOMAIN topics'
           /\ dryRun[p] => topics' = topics
           /\ \E r : pubsubRun' = [pubsubRun EXCEPT ![p] = r] /\ PubSubMoves(p, r)
  <1>1. CommandType /\ EffectType /\ PubSubPart(p)
    BY DEF DoneInv, CommandInv, EffectInv
  <1>2. stage[p] = "pubsub" /\ UNCHANGED <<main, storage, credentials>>
    BY DEF PubSubStep, PubSubFault
  <1>3. \/ pubsubRun[p].pc \in PubSub!Running /\ PubSub!ProvisionPubSub(p)
        \/ PubSub!Interrupt(p) \/ PubSub!LostReply(p)
    BY DEF PubSubStep, PubSubFault
  <1> QED
    BY <1>1, <1>2, <1>3, PubSubMove

\* A step of the storage section, or a fault in it.
LEMMA StorageSectionStep ==
    ASSUME DoneInv, NEW p \in Provisioners, StorageStep(p) \/ StorageFault(p)
    PROVE  /\ stage[p] = "storage"
           /\ UNCHANGED <<main, pubsub, credentials>>
           /\ DOMAIN buckets \subseteq DOMAIN buckets'
           /\ dryRun[p] => buckets' = buckets
           /\ \E r : storageRun' = [storageRun EXCEPT ![p] = r] /\ StorageMoves(p, r)
  <1>1. CommandType /\ EffectType /\ StoragePart(p)
    BY DEF DoneInv, CommandInv, EffectInv
  <1>2. stage[p] = "storage" /\ UNCHANGED <<main, pubsub, credentials>>
    BY DEF StorageStep, StorageFault
  <1>3. \/ storageRun[p].pc \in Storage!Running /\ Storage!ProvisionStorage(p)
        \/ Storage!CallFails(p) \/ Storage!Killed(p)
    BY DEF StorageStep, StorageFault
  <1> QED
    BY <1>1, <1>2, <1>3, StorageMove

\* No step takes a resource away.
LEMMA ResourcesStay ==
    ASSUME DoneInv, [Next]_vars
    PROVE  DOMAIN topics \subseteq DOMAIN topics' /\ DOMAIN buckets \subseteq DOMAIN buckets'
  <1>1. ASSUME NEW p \in Provisioners, PubSubStep(p) \/ PubSubFault(p)
        PROVE  DOMAIN topics \subseteq DOMAIN topics' /\ buckets' = buckets
    BY <1>1, PubSubSectionStep DEF storage
  <1>2. ASSUME NEW p \in Provisioners, StorageStep(p) \/ StorageFault(p)
        PROVE  DOMAIN buckets \subseteq DOMAIN buckets' /\ topics' = topics
    BY <1>2, StorageSectionStep DEF pubsub
  <1>3. \/ topics' = topics /\ buckets' = buckets
        \/ \E p \in Provisioners : \/ PubSubStep(p) \/ PubSubFault(p)
                                   \/ StorageStep(p) \/ StorageFault(p)
    BY DEF Next, vars, run, Around, Start, load, connectPubSub, connectStorage, Connecting,
           Enter, Leave, CredentialsStep, CredentialsFault, Stopped, ComesUp, pubsub, storage
  <1> QED
    BY <1>1, <1>2, <1>3

\* A Pub/Sub section that a step leaves alone keeps its part of the invariant.
LEMMA PubSubStays ==
    ASSUME DoneInv, [Next]_vars, NEW p \in Provisioners,
           stage'[p] # "pubsub"
           \/ (stage'[p] = stage[p] /\ dryRun'[p] = dryRun[p] /\ pubsubRun'[p] = pubsubRun[p])
    PROVE  PubSubPart(p)'
  <1>1. PubSubPart(p)
    BY DEF DoneInv, EffectInv
  <1>2. CASE stage'[p] # "pubsub"
    BY <1>2 DEF PubSubPart
  <1>3. CASE stage'[p] = stage[p] /\ dryRun'[p] = dryRun[p] /\ pubsubRun'[p] = pubsubRun[p]
    <2>1. Here(p, pubsubRun[p])' = Here(p, pubsubRun[p])
      BY <1>3, SameSetting DEF Here
    <2>2. \A i, j : Behind(pubsubRun[p], i, j)' = Behind(pubsubRun[p], i, j)
      BY <1>3 DEF Behind
    <2>3. input' = input /\ DOMAIN topics \subseteq DOMAIN topics'
      BY SameInput, ResourcesStay
    <2>4. ASSUME stage[p] = "pubsub", ~dryRun[p], pubsubRun[p].pc # "failed",
                 NEW i \in DOMAIN input[p].topics, NEW j \in Slots(p, i)',
                 Behind(pubsubRun[p], i, j)'
          PROVE  KeyAt(p, i, j)' \in DOMAIN topics'
      BY <1>1, <2>2, <2>3, <2>4, SameSetting DEF PubSubPart
    <2> QED
      BY <1>1, <1>3, <2>1, <2>3, <2>4 DEF PubSubPart
  <1> QED
    BY <1>2, <1>3

\* So does a storage section.
LEMMA StorageStays ==
    ASSUME DoneInv, [Next]_vars, NEW p \in Provisioners,
           stage'[p] # "storage"
           \/ (stage'[p] = stage[p] /\ dryRun'[p] = dryRun[p] /\ storageRun'[p] = storageRun[p])
    PROVE  StoragePart(p)'
  <1>1. StoragePart(p)
    BY DEF DoneInv, EffectInv
  <1>2. CASE stage'[p] # "storage"
    BY <1>2 DEF StoragePart
  <1>3. CASE stage'[p] = stage[p] /\ dryRun'[p] = dryRun[p] /\ storageRun'[p] = storageRun[p]
    BY <1>1, <1>3, SameInput, SameBackend, ResourcesStay DEF StoragePart
  <1> QED
    BY <1>2, <1>3

\* The setting stays the one the process was started with.
LEMMA DryRunStays ==
    ASSUME DoneInv, [Next]_vars, NEW p \in Provisioners,
           \/ stage'[p] \notin {"load"} \cup AfterLoad
           \/ stage[p] \in {"load"} \cup AfterLoad /\ dryRun'[p] = dryRun[p]
    PROVE  DryRunPart(p)'
  <1>1. DryRunPart(p)
    BY DEF DoneInv, EffectInv
  <1> QED
    BY <1>1, SameSetting DEF DryRunPart

\* What a process has done stays done.
LEMMA DoneStays ==
    ASSUME DoneInv, [Next]_vars, NEW p \in Provisioners
    PROVE  /\ TopicsThere(p) => TopicsThere(p)'
           /\ BucketsThere(p) => BucketsThere(p)'
           /\ Keys!validateCredentials(input[p].credentials) /\ KeysThere(p) => KeysThere(p)'
  <1>1. TopicsThere(p) => TopicsThere(p)'
    BY SameInput, SameSetting, ResourcesStay DEF TopicsThere
  <1>2. BucketsThere(p) => BucketsThere(p)'
    BY SameInput, ResourcesStay DEF BucketsThere
  <1>3. ASSUME Keys!validateCredentials(input[p].credentials), KeysThere(p)
        PROVE  KeysThere(p)'
    <2>1. CommandInv /\ CommandType
      BY DEF DoneInv, CommandInv
    <2>2. \A i \in DOMAIN input[p].credentials : Target[input[p].credentials[i].path] \in KeyFiles
      BY <1>3, <2>1, EntryFile
    <2> QED
      BY <1>3, <2>1, <2>2, SameInput, FilesStay DEF KeysThere
  <1> QED
    BY <1>1, <1>2, <1>3

\* A process that is through with nothing new.
LEMMA OverStays ==
    ASSUME DoneInv, [Next]_vars, NEW p \in Provisioners,
           dryRun'[p] = dryRun[p] \/ \A s : ~Over(p, s)',
           \A s \in SectionNames : Over(p, s)' => Over(p, s),
           stage'[p] = "exit 0" => stage[p] \in {"exit 0", "sections"}
    PROVE  OverPart(p)'
  <1>1. OverPart(p) /\ LoadedInv(p)
    BY DEF DoneInv, EffectInv, CommandInv, ProcessInv
  <1>2. \A s : Over(p, s) => stage[p] = "exit 0" \/ stage[p] \in AfterLoad
    BY DEF Over, AfterLoad
  <1>3. stage[p] = "exit 0" \/ stage[p] \in AfterLoad =>
           Keys!validateCredentials(input[p].credentials)
    BY <1>1 DEF OverPart, LoadedInv
  <1>4. stage'[p] = "exit 0" => Keys!validateCredentials(input[p].credentials)
    BY <1>3 DEF AfterLoad, InSections
  <1>5. input' = input
    BY SameInput
  <1>6. (stage[p] = "exit 0" => Keys!validateCredentials(input[p].credentials))'
    BY <1>4, <1>5 DEF Keys!validateCredentials
  <1>7. ASSUME ~dryRun'[p] PROVE
           /\ Over(p, "pubsub")' => TopicsThere(p)'
           /\ Over(p, "storage")' /\ Storage!ErrorsAreTold' => BucketsThere(p)'
           /\ Over(p, "credentials")' => KeysThere(p)'
    <2>1. ASSUME NEW s \in SectionNames, Over(p, s)'
          PROVE  Over(p, s) /\ ~dryRun[p] /\ Keys!validateCredentials(input[p].credentials)
      BY <1>2, <1>3, <1>7, <2>1
    <2>2. Over(p, "pubsub")' => TopicsThere(p)'
      BY <1>1, <2>1, DoneStays DEF OverPart, SectionNames
    <2>3. Over(p, "storage")' /\ Storage!ErrorsAreTold' => BucketsThere(p)'
      BY <1>1, <2>1, DoneStays, SameBackend DEF OverPart, SectionNames
    <2>4. Over(p, "credentials")' => KeysThere(p)'
      BY <1>1, <2>1, DoneStays DEF OverPart, SectionNames
    <2> QED
      BY <2>2, <2>3, <2>4
  <1> QED
    BY <1>6, <1>7 DEF OverPart

\* Before its sections a process has done nothing.
LEMMA BeforeEffect ==
    ASSUME DoneInv, [Next]_vars, NEW p \in Provisioners,
           Start(p) \/ load(p) \/ connectPubSub(p) \/ connectStorage(p) \/ Stopped(p)
    PROVE  EffectInv(p)'
  <1>1. CommandType /\ LoadedInv(p)
    BY DEF DoneInv, CommandInv, ProcessInv
  <1>2. input' = input /\ section(p)' = section(p) /\ \A x : Wanted(p, x)' = Wanted(p, x)
    BY SameInput
  <1>3. CASE Start(p)
    <2>1. /\ stage'[p] \in {"load", "exit 1"}
          /\ stage'[p] = "load" => dryRun'[p] = The(resolveDryRun(p))
      BY <1>1, <1>3 DEF Start, CommandType
    <2>2. \A s : ~Over(p, s)'
      BY <2>1 DEF Over, InSections, SectionNames
    <2>3. DryRunPart(p)'
      BY <2>1, SameSetting DEF DryRunPart, AfterLoad, InSections, SectionNames
    <2>4. PubSubPart(p)' /\ StoragePart(p)' /\ OverPart(p)'
      BY <2>1, <2>2, PubSubStays, StorageStays, OverStays
    <2> QED
      BY <2>3, <2>4 DEF EffectInv
  <1>4. CASE load(p) \/ connectPubSub(p) \/ Stopped(p)
    <2>1. /\ stage[p] \in {"load"} \cup AfterLoad /\ dryRun' = dryRun
          /\ stage'[p] \in {"connectPubSub", "connectStorage", "exit 1"}
      <3>1. CASE load(p)
        BY <1>1, <3>1 DEF load, CommandType
      <3>2. CASE connectPubSub(p)
        <4>1. stage[p] = "connectPubSub" /\ dryRun' = dryRun
          BY <3>2 DEF connectPubSub, Connecting
        <4>2. stage'[p] \in {"connectStorage", "exit 1"}
          BY <1>1, <3>2, ConnectingFacts DEF connectPubSub
        <4> QED
          BY <4>1, <4>2 DEF AfterLoad
      <3>3. CASE Stopped(p)
        BY <1>1, <3>3 DEF Stopped, CommandType, AfterLoad
      <3> QED
        BY <1>4, <3>1, <3>2, <3>3
    <2>2. \A s : ~Over(p, s)'
      BY <2>1 DEF Over, InSections, SectionNames
    <2>3. DryRunPart(p)'
      BY <2>1, DryRunStays
    <2>4. PubSubPart(p)' /\ StoragePart(p)' /\ OverPart(p)'
      BY <2>1, <2>2, PubSubStays, StorageStays, OverStays
    <2> QED
      BY <2>3, <2>4 DEF EffectInv
  <1>5. CASE connectStorage(p)
    <2>1. /\ stage[p] = "connectStorage" /\ stage'[p] \in {"sections", "exit 1"}
          /\ todo'[p] = Sections(p) /\ dryRun' = dryRun
      BY <1>1, <1>5, ConnectingFacts DEF connectStorage, Connecting, CommandType
    <2>2. section(p) \in validSections
      BY <1>1, <2>1 DEF LoadedInv, AfterLoad
    <2>3. ASSUME NEW s \in SectionNames, Over(p, s)' PROVE FALSE
      <3>1. Wanted(p, s) /\ \A i \in DOMAIN Sections(p) : Sections(p)[i] # s
        BY <1>2, <2>1, <2>3 DEF Over, InSections, SectionNames
      <3> QED
        BY <2>2, <3>1, SectionsComplete
    <2>4. DryRunPart(p)'
      BY <2>1, DryRunStays DEF AfterLoad
    <2>5. PubSubPart(p)' /\ StoragePart(p)' /\ OverPart(p)'
      BY <2>1, <2>3, PubSubStays, StorageStays, OverStays
    <2> QED
      BY <2>4, <2>5 DEF EffectInv
  <1> QED
    BY <1>3, <1>4, <1>5

\* The next section begins with nothing behind it, or the process ends.
LEMMA EnterEffect ==
    ASSUME DoneInv, [Next]_vars, NEW p \in Provisioners, Enter(p)
    PROVE  /\ EffectInv(p)'
           /\ topics' = topics /\ buckets' = buckets /\ files' = files
           /\ \/ pubsubRun' = pubsubRun
              \/ /\ Wanted(p, "pubsub")
                 /\ \E r : IsPubSubRun(r) /\ pubsubRun' = [pubsubRun EXCEPT ![p] = r]
           /\ \/ storageRun' = storageRun
              \/ /\ Wanted(p, "storage")
                 /\ \E r : IsStorageRun(r) /\ storageRun' = [storageRun EXCEPT ![p] = r]
           /\ \/ credentialsRun' = credentialsRun
              \/ /\ Wanted(p, "credentials")
                 /\ \E r : credentialsRun' = [credentialsRun EXCEPT ![p] = r]
  <1>1. CommandType /\ TodoInv(p) /\ EffectType
    BY DEF DoneInv, CommandInv, ProcessInv
  <1>2. input' = input /\ \A x : Wanted(p, x)' = Wanted(p, x)
    BY SameInput
  <1>3. /\ stage[p] = "sections" /\ dryRun' = dryRun /\ topics' = topics
        /\ buckets' = buckets /\ files' = files
    BY DEF Enter, pubsub, storage, credentials
  <1>4. /\ stage[p] \in InSections /\ stage[p] \in AfterLoad
        /\ todo[p] \in Seq(SectionNames) /\ \A i \in DOMAIN todo[p] : Wanted(p, todo[p][i])
    BY <1>1, <1>3 DEF InSections, AfterLoad, TodoInv
  <1>5. DryRunPart(p)'
    BY <1>3, <1>4, DryRunStays
  <1>6. CASE todo[p] = <<>>
    <2>1. stage'[p] = "exit 0" /\ UNCHANGED <<pubsub, storage, credentials>>
      BY <1>1, <1>6 DEF Enter, CommandType
    <2>2. ASSUME NEW s \in SectionNames, Over(p, s)' PROVE Over(p, s)
      <3>1. Wanted(p, s)
        BY <1>2, <2>2 DEF Over
      <3>2. DOMAIN todo[p] = {}
        BY <1>6
      <3>3. stage[p] # s
        BY <1>3 DEF SectionNames
      <3> QED
        BY <1>4, <3>1, <3>2, <3>3 DEF Over
    <2>3. PubSubPart(p)' /\ StoragePart(p)' /\ OverPart(p)'
      BY <1>3, <2>1, <2>2, PubSubStays, StorageStays, OverStays
    <2> QED
      BY <1>3, <1>5, <2>1, <2>3 DEF EffectInv, pubsub, storage, credentials
  <1>7. CASE todo[p] # <<>>
    <2>1. /\ stage'[p] = Head(todo[p]) /\ todo'[p] = Tail(todo[p])
          /\ IF Head(todo[p]) = "pubsub" THEN PubSub!Begin(p) ELSE UNCHANGED pubsubRun
          /\ IF Head(todo[p]) = "storage" THEN Storage!Begin(p) ELSE UNCHANGED storageRun
          /\ IF Head(todo[p]) = "credentials" THEN Keys!Begin(p) ELSE UNCHANGED credentialsRun
      BY <1>1, <1>7 DEF Enter, CommandType
    <2>2. Head(todo[p]) = todo[p][1] /\ 1 \in DOMAIN todo[p]
      BY <1>4, <1>7, TailFacts
    <2>3. Head(todo[p]) \in SectionNames /\ Wanted(p, Head(todo[p]))
      BY <1>4, <2>2
    <2>4. ASSUME NEW s \in SectionNames, Over(p, s)' PROVE Over(p, s)
      <3>1. /\ Wanted(p, s) /\ Head(todo[p]) # s
            /\ \A i \in DOMAIN Tail(todo[p]) : Tail(todo[p])[i] # s
        BY <1>2, <2>1, <2>3, <2>4 DEF Over, SectionNames
      <3>2. \A i \in DOMAIN todo[p] : todo[p][i] # s
        BY <1>4, <1>7, <3>1, TailComplete
      <3> QED
        BY <1>3, <1>4, <3>1, <3>2 DEF Over, SectionNames
    <2>5. OverPart(p)'
      <3>1. stage'[p] # "exit 0"
        BY <2>1, <2>3 DEF SectionNames
      <3> QED
        BY <1>3, <2>4, <3>1, OverStays
    <2>6. PubSubPart(p)' /\ (Head(todo[p]) = "pubsub" =>
             \E r : IsPubSubRun(r) /\ pubsubRun' = [pubsubRun EXCEPT ![p] = r])
      <3>1. CASE Head(todo[p]) # "pubsub"
        BY <2>1, <3>1, PubSubStays
      <3>2. CASE Head(todo[p]) = "pubsub"
        <4>1. PICK r : /\ r = PubSub!Fresh("loop", IF pubsubSettled THEN {"repeat"} ELSE {})
                       /\ pubsubRun' = [pubsubRun EXCEPT ![p] = r]
          BY <2>1, <3>2 DEF PubSub!Begin, PubSub!Become
        <4>2. r.pc = "loop" /\ IsPubSubRun(r) /\ r.pass = "topics" /\ r.ti = 1
          BY <4>1 DEF PubSub!Fresh, IsPubSubRun
        <4>3. pubsubRun'[p] = r
          BY <1>1, <4>1 DEF EffectType
        <4>4. \A i \in DOMAIN input[p].topics : \A j : ~Behind(r, i, j)
          BY <1>1, <4>2, PartNumbers DEF Behind
        <4> QED
          BY <1>2, <4>1, <4>2, <4>3, <4>4 DEF PubSubPart, Sends, Behind
      <3> QED
        BY <3>1, <3>2
    <2>7. StoragePart(p)' /\ (Head(todo[p]) = "storage" =>
             \E r : IsStorageRun(r) /\ storageRun' = [storageRun EXCEPT ![p] = r])
      <3>1. CASE Head(todo[p]) # "storage"
        BY <2>1, <3>1, StorageStays
      <3>2. CASE Head(todo[p]) = "storage"
        <4>1. PICK r : /\ r = Storage!Fresh("loop", IF storageSettled THEN {"repeat"} ELSE {})
                       /\ storageRun' = [storageRun EXCEPT ![p] = r]
          BY <2>1, <3>2 DEF Storage!Begin, Storage!Become
        <4>2. r.pc = "loop" /\ IsStorageRun(r) /\ r.bi = 1
          BY <4>1 DEF Storage!Fresh, IsStorageRun
        <4>3. storageRun'[p] = r
          BY <1>1, <4>1 DEF EffectType
        <4>4. \A i \in DOMAIN input[p].buckets : ~(i < r.bi)
          BY <1>1, <4>2, PartNumbers
        <4> QED
          BY <1>2, <4>1, <4>2, <4>3, <4>4 DEF StoragePart, Sends
      <3> QED
        BY <3>1, <3>2
    <2>8. Head(todo[p]) = "credentials" =>
             \E r : credentialsRun' = [credentialsRun EXCEPT ![p] = r]
      BY <2>1 DEF Keys!Begin, Keys!Become
    <2> QED
      BY <1>3, <1>5, <2>1, <2>3, <2>5, <2>6, <2>7, <2>8 DEF EffectInv
  <1> QED
    BY <1>6, <1>7

\* A section that returned nil has done what it was called for.
LEMMA LeaveEffect ==
    ASSUME DoneInv, [Next]_vars, NEW p \in Provisioners, Leave(p)
    PROVE  EffectInv(p)'
  <1>1. CommandType /\ EffectType /\ PubSubPart(p) /\ StoragePart(p) /\ OverPart(p)
        /\ LoadedInv(p) /\ CredentialsPart(p)
    BY DEF DoneInv, CommandInv, ProcessInv, EffectInv
  <1>2. input' = input /\ \A x : Wanted(p, x)' = Wanted(p, x)
    BY SameInput
  <1>3. /\ stage[p] \in SectionNames /\ todo' = todo /\ dryRun' = dryRun
        /\ stage' = [stage EXCEPT ![p] = IF pc(p) = "ok" THEN "sections" ELSE "exit 1"]
    BY DEF Leave, pc, SectionNames
  <1>4. stage'[p] = (IF pc(p) = "ok" THEN "sections" ELSE "exit 1")
    BY <1>1, <1>3 DEF CommandType
  <1>5. stage[p] \in InSections /\ stage[p] \in AfterLoad
    BY <1>3 DEF InSections, AfterLoad
  <1>6. DryRunPart(p)' /\ PubSubPart(p)' /\ StoragePart(p)'
    <2>1. stage'[p] \in {"sections", "exit 1"} /\ dryRun'[p] = dryRun[p]
      BY <1>3, <1>4
    <2>2. DryRunPart(p)'
      BY <1>5, <2>1, DryRunStays
    <2> QED
      BY <2>1, <2>2, PubSubStays, StorageStays
  <1>7. CASE pc(p) # "ok"
    <2>1. \A s : ~Over(p, s)'
      BY <1>4, <1>7 DEF Over, InSections, SectionNames
    <2>2. stage'[p] # "exit 0"
      BY <1>4, <1>7
    <2>3. OverPart(p)'
      BY <2>1, <2>2, OverStays
    <2> QED
      BY <1>6, <2>3 DEF EffectInv
  <1>8. CASE pc(p) = "ok"
    <2>1. stage'[p] = "sections"
      BY <1>4, <1>8
    <2>2. ASSUME NEW s \in SectionNames, Over(p, s)', stage[p] # s PROVE Over(p, s)
      <3>1. Wanted(p, s) /\ \A i \in DOMAIN todo[p] : todo[p][i] # s
        BY <1>2, <1>3, <2>1, <2>2 DEF Over
      <3> QED
        BY <1>5, <2>2, <3>1 DEF Over
    <2>3. Keys!validateCredentials(input[p].credentials)
      BY <1>1, <1>5 DEF LoadedInv
    <2>4. ASSUME ~dryRun[p], stage[p] = "pubsub" PROVE TopicsThere(p)
      <3>1. pubsubRun[p].pc = "ok"
        BY <1>8, <2>4 DEF pc
      <3>2. /\ pubsubRun[p].pass = "subs" /\ pubsubRun[p].ti > Len(input[p].topics)
            /\ \A i \in DOMAIN input[p].topics : \A j \in Slots(p, i) :
                  Behind(pubsubRun[p], i, j) => KeyAt(p, i, j) \in DOMAIN topics
        BY <1>1, <2>4, <3>1 DEF PubSubPart
      <3>3. \A i \in DOMAIN input[p].topics : \A j \in Slots(p, i) : Behind(pubsubRun[p], i, j)
        BY <1>1, <3>2, PartNumbers DEF Behind, EffectType, IsPubSubRun
      <3> QED
        BY <3>2, <3>3 DEF TopicsThere
    <2>5. ASSUME ~dryRun[p], stage[p] = "storage", Storage!ErrorsAreTold PROVE BucketsThere(p)
      <3>1. storageRun[p].pc = "ok"
        BY <1>8, <2>5 DEF pc
      <3>2. /\ storageRun[p].bi > Len(input[p].buckets)
            /\ \A i \in DOMAIN input[p].buckets :
                  i < storageRun[p].bi => input[p].buckets[i].name \in DOMAIN buckets
        BY <1>1, <2>5, <3>1 DEF StoragePart
      <3>3. \A i \in DOMAIN input[p].buckets : i < storageRun[p].bi
        BY <1>1, <3>2, PartNumbers DEF EffectType, IsStorageRun
      <3> QED
        BY <3>2, <3>3 DEF BucketsThere
    <2>6. ASSUME ~dryRun[p], stage[p] = "credentials" PROVE KeysThere(p)
      <3>1. credentialsRun[p].ci > Len(input[p].credentials)
        BY <1>1, <1>8, <2>6 DEF CredentialsPart, pc
      <3>2. \A i \in DOMAIN input[p].credentials : i < credentialsRun[p].ci
        BY <1>1, <3>1, EntryNumbers DEF CommandType, IsRun
      <3> QED
        BY <1>1, <2>6, <3>2 DEF CredentialsPart, KeysThere
    <2>7. ASSUME ~dryRun'[p] PROVE
             /\ Over(p, "pubsub")' => TopicsThere(p)'
             /\ Over(p, "storage")' /\ Storage!ErrorsAreTold' => BucketsThere(p)'
             /\ Over(p, "credentials")' => KeysThere(p)'
      <3>1. ~dryRun[p]
        BY <1>3, <2>7
      <3>2. Over(p, "pubsub")' => TopicsThere(p)'
        BY <1>1, <2>2, <2>4, <3>1, DoneStays DEF OverPart, SectionNames
      <3>3. Over(p, "storage")' /\ Storage!ErrorsAreTold' => BucketsThere(p)'
        BY <1>1, <2>2, <2>5, <3>1, DoneStays, SameBackend DEF OverPart, SectionNames
      <3>4. Over(p, "credentials")' => KeysThere(p)'
        BY <1>1, <2>2, <2>3, <2>6, <3>1, DoneStays DEF OverPart, SectionNames
      <3> QED
        BY <3>2, <3>3, <3>4
    <2>8. OverPart(p)'
      BY <2>1, <2>7 DEF OverPart
    <2> QED
      BY <1>6, <2>8 DEF EffectInv
  <1> QED
    BY <1>7, <1>8

\* The sections themselves, and faults in them.
LEMMA SectionEffect ==
    ASSUME DoneInv, [Next]_vars, NEW p \in Provisioners,
           \/ PubSubStep(p) \/ PubSubFault(p) \/ StorageStep(p) \/ StorageFault(p)
           \/ CredentialsStep(p) \/ CredentialsFault(p)
    PROVE  EffectInv(p)'
  <1>1. CommandType /\ EffectType /\ PubSubPart(p) /\ StoragePart(p)
    BY DEF DoneInv, CommandInv, EffectInv
  <1>2. input' = input /\ \A x : Wanted(p, x)' = Wanted(p, x)
    BY SameInput
  <1>3. stage' = stage /\ todo' = todo /\ dryRun' = dryRun /\ stage[p] \in SectionNames
    BY DEF PubSubStep, PubSubFault, StorageStep, StorageFault, CredentialsStep, CredentialsFault,
           main, SectionNames
  <1>4. stage[p] \in AfterLoad
    BY <1>3 DEF AfterLoad, InSections
  <1>5. \A s : Over(p, s)' => Over(p, s)
    BY <1>2, <1>3 DEF Over
  <1>6. DryRunPart(p)' /\ OverPart(p)'
    BY <1>3, <1>4, <1>5, DryRunStays, OverStays
  <1>7. CASE PubSubStep(p) \/ PubSubFault(p)
    <2>1. storageRun' = storageRun
      BY <1>7, PubSubSectionStep DEF storage
    <2>2. PICK r : pubsubRun' = [pubsubRun EXCEPT ![p] = r] /\ PubSubMoves(p, r)
      BY <1>7, PubSubSectionStep
    <2>3. pubsubRun'[p] = r
      BY <1>1, <2>2 DEF EffectType
    <2>4. stage[p] = "pubsub" /\ DOMAIN topics \subseteq DOMAIN topics'
      BY <1>7, PubSubSectionStep
    <2>5. Here(p, pubsubRun[p])' = Here(p, r)
      BY <2>3, SameSetting DEF Here
    <2>6. \A i, j : Behind(pubsubRun[p], i, j)' = Behind(r, i, j)
      BY <2>3 DEF Behind
    <2>7. ASSUME ~dryRun[p], r.pc # "failed", NEW i \in DOMAIN input[p].topics,
                 NEW j \in Slots(p, i)', Behind(pubsubRun[p], i, j)'
          PROVE  KeyAt(p, i, j)' \in DOMAIN topics'
      <3>1. j \in Slots(p, i) /\ KeyAt(p, i, j)' = KeyAt(p, i, j) /\ Behind(r, i, j)
        BY <2>6, <2>7, SameSetting
      <3>2. Behind(pubsubRun[p], i, j) \/ KeyAt(p, i, j) \in DOMAIN topics'
        BY <2>2, <2>7, <3>1 DEF PubSubMoves
      <3>3. CASE Behind(pubsubRun[p], i, j)
        <4>1. pubsubRun[p].pc # "failed"
          <5>1. CASE PubSubStep(p)
            BY <5>1 DEF PubSubStep, PubSub!Running
          <5>2. CASE PubSub!Interrupt(p)
            BY <5>2 DEF PubSub!Interrupt, PubSub!Running
          <5>3. CASE PubSub!LostReply(p)
            BY <5>3 DEF PubSub!LostReply
          <5> QED
            BY <1>7, <5>1, <5>2, <5>3 DEF PubSubFault
        <4> QED
          BY <1>1, <2>4, <2>7, <3>1, <3>3, <4>1 DEF PubSubPart
      <3> QED
        BY <3>1, <3>2, <3>3
    <2>8. PubSubPart(p)'
      BY <1>2, <1>3, <2>2, <2>3, <2>5, <2>7 DEF PubSubPart, PubSubMoves
    <2>9. StoragePart(p)'
      BY <1>3, <2>1, StorageStays
    <2> QED
      BY <1>6, <2>8, <2>9 DEF EffectInv
  <1>8. CASE StorageStep(p) \/ StorageFault(p)
    <2>1. pubsubRun' = pubsubRun
      BY <1>8, StorageSectionStep DEF pubsub
    <2>2. PICK r : storageRun' = [storageRun EXCEPT ![p] = r] /\ StorageMoves(p, r)
      BY <1>8, StorageSectionStep
    <2>3. storageRun'[p] = r
      BY <1>1, <2>2 DEF EffectType
    <2>4. stage[p] = "storage" /\ DOMAIN buckets \subseteq DOMAIN buckets'
      BY <1>8, StorageSectionStep
    <2>5. ASSUME Storage!ErrorsAreTold, ~dryRun[p], r.pc # "failed",
                 NEW i \in DOMAIN input[p].buckets, i < r.bi
          PROVE  input[p].buckets[i].name \in DOMAIN buckets'
      <3>1. CASE i < storageRun[p].bi
        <4>1. storageRun[p].pc # "failed"
          BY <1>8 DEF StorageStep, StorageFault, Storage!CallFails, Storage!Killed, Storage!Running
        <4> QED
          BY <1>1, <2>4, <2>5, <3>1, <4>1 DEF StoragePart
      <3> QED
        BY <2>2, <2>5, <3>1 DEF StorageMoves
    <2>6. StoragePart(p)'
      BY <1>2, <1>3, <2>2, <2>3, <2>5, SameBackend DEF StoragePart, StorageMoves
    <2>7. PubSubPart(p)'
      BY <1>3, <2>1, PubSubStays
    <2> QED
      BY <1>6, <2>6, <2>7 DEF EffectInv
  <1>9. CASE CredentialsStep(p) \/ CredentialsFault(p)
    <2>1. pubsubRun' = pubsubRun /\ storageRun' = storageRun
      BY <1>9 DEF CredentialsStep, CredentialsFault, pubsub, storage
    <2> QED
      BY <1>3, <1>6, <2>1, PubSubStays, StorageStays DEF EffectInv
  <1> QED
    BY <1>7, <1>8, <1>9

\* A step of the credentials section in a dry run writes nothing.
LEMMA KeysMove ==
    ASSUME DoneInv, NEW p \in Provisioners, CredentialsStep(p) \/ CredentialsFault(p)
    PROVE  /\ stage[p] = "credentials" /\ UNCHANGED <<main, pubsub, storage>>
           /\ dryRun[p] => files' = files
           /\ \E r : /\ credentialsRun' = [credentialsRun EXCEPT ![p] = r]
                     /\ r.pc \in {"open", "write"} => ~dryRun[p]
  <1>1. /\ stage[p] = "credentials" /\ UNCHANGED <<main, pubsub, storage>>
        /\ Keys!Work(p) \/ Keys!CutShort(p)
    BY DEF CredentialsStep, CredentialsFault
  <1>2. PICK c : c = credentialsRun[p]
    OBVIOUS
  <1>3. IsRun(c) /\ (c.pc \in {"open", "write"} => ~dryRun[p])
    BY <1>1, <1>2 DEF DoneInv, CommandInv, CommandType, KeysPart
  <1>4. \A r : Keys!Become(p, r) => credentialsRun' = [credentialsRun EXCEPT ![p] = r]
    BY DEF Keys!Become
  <1>5. CASE Keys!ensureCredential(p)
    <2>1. files' = files
      BY <1>5 DEF Keys!ensureCredential
    <2>2. CASE Keys!Become(p, Keys!Advance(credentialsRun[p]))
      <3>1. Keys!Advance(c).pc = "loop"
        BY <1>3, RunFields
      <3> QED
        BY <1>1, <1>2, <1>4, <2>1, <2>2, <3>1
    <2>3. CASE ~dryRun[p] /\ \E r : Keys!Become(p, r)
      BY <1>1, <1>4, <2>1, <2>3
    <2> QED
      BY <1>5, <2>2, <2>3 DEF Keys!ensureCredential
  <1>6. CASE Keys!openFile(p) \/ Keys!writeFile(p)
    <2>1. ~dryRun[p]
      BY <1>2, <1>3, <1>6 DEF Keys!openFile, Keys!writeFile
    <2>2. \E r : Keys!Become(p, r)
      BY <1>6 DEF Keys!openFile, Keys!writeFile
    <2> QED
      BY <1>1, <1>4, <2>1, <2>2
  <1>7. CASE Keys!sectionDone(p)
    <2>1. files' = files /\ Keys!Become(p, [c EXCEPT !.pc = "ok"])
      BY <1>2, <1>7 DEF Keys!sectionDone
    <2>2. [c EXCEPT !.pc = "ok"].pc = "ok"
      BY <1>3 DEF IsRun
    <2> QED
      BY <1>1, <1>4, <2>1, <2>2
  <1>8. CASE Keys!CutShort(p)
    <2>1. /\ files' = files \/ c.pc = "write"
          /\ Keys!Become(p, [c EXCEPT !.pc = "failed", !.key = {}])
      BY <1>2, <1>8 DEF Keys!CutShort
    <2>2. [c EXCEPT !.pc = "failed", !.key = {}].pc = "failed"
      BY <1>3 DEF IsRun
    <2> QED
      BY <1>1, <1>3, <1>4, <2>1, <2>2
  <1> QED
    BY <1>1, <1>5, <1>6, <1>7, <1>8 DEF Keys!Work

\* So a dry run never gets to open a file.
LEMMA KeysPartStep ==
    ASSUME DoneInv, [Next]_vars, NEW p \in Provisioners,
           Same(p) \/ run(p) \/ Around(p)
    PROVE  KeysPart(p)'
  <1>1. CommandType /\ KeysPart(p)
    BY DEF DoneInv, CommandInv
  <1>2. CASE Same(p)
    BY <1>1, <1>2 DEF Same, KeysPart
  <1>3. CASE Start(p) \/ load(p) \/ Stopped(p)
    <2>1. stage'[p] # "credentials"
      BY <1>1, <1>3 DEF Start, load, Stopped, CommandType
    <2> QED
      BY <2>1 DEF KeysPart
  <1>4. CASE connectPubSub(p) \/ connectStorage(p)
    <2>1. connectPubSub(p) => stage'[p] \in {"connectStorage", "exit 1"}
      BY <1>1, ConnectingFacts DEF connectPubSub
    <2>2. connectStorage(p) => stage'[p] \in {"sections", "exit 1"}
      BY <1>1, ConnectingFacts DEF connectStorage
    <2>3. stage'[p] \in {"connectStorage", "sections", "exit 1"}
      BY <1>4, <2>1, <2>2
    <2> QED
      BY <2>3 DEF KeysPart
  <1>5. CASE Leave(p)
    <2>1. stage'[p] = (IF pc(p) = "ok" THEN "sections" ELSE "exit 1")
      BY <1>1, <1>5 DEF Leave, CommandType
    <2> QED
      BY <2>1 DEF KeysPart
  <1>6. CASE Enter(p)
    <2>1. CASE todo[p] = <<>>
      <3>1. stage'[p] = "exit 0"
        BY <1>1, <1>6, <2>1 DEF Enter, CommandType
      <3> QED
        BY <3>1 DEF KeysPart
    <2>2. CASE todo[p] # <<>> /\ Head(todo[p]) = "credentials"
      <3>1. credentialsRun' = [credentialsRun EXCEPT ![p] = Keys!Fresh("loop")]
        BY <1>6, <2>2 DEF Enter, Keys!Begin, Keys!Become
      <3>2. credentialsRun'[p] = Keys!Fresh("loop")
        BY <1>1, <3>1 DEF CommandType
      <3>3. Keys!Fresh("loop").pc = "loop"
        BY DEF Keys!Fresh
      <3> QED
        BY <3>2, <3>3 DEF KeysPart
    <2>3. CASE todo[p] # <<>> /\ Head(todo[p]) # "credentials"
      <3>1. stage'[p] = Head(todo[p])
        BY <1>1, <1>6, <2>3 DEF Enter, CommandType
      <3> QED
        BY <2>3, <3>1 DEF KeysPart
    <2> QED
      BY <2>1, <2>2, <2>3
  <1>7. CASE CredentialsStep(p) \/ CredentialsFault(p)
    <2>1. dryRun' = dryRun
      BY <1>7 DEF CredentialsStep, CredentialsFault, main
    <2>2. PICK r : /\ credentialsRun' = [credentialsRun EXCEPT ![p] = r]
                   /\ r.pc \in {"open", "write"} => ~dryRun[p]
      BY <1>7, KeysMove
    <2>3. credentialsRun'[p] = r
      BY <1>1, <2>2 DEF CommandType
    <2> QED
      BY <2>1, <2>2, <2>3 DEF KeysPart
  <1>8. CASE PubSubStep(p) \/ StorageStep(p) \/ PubSubFault(p) \/ StorageFault(p)
    <2>1. stage' = stage /\ dryRun' = dryRun /\ credentialsRun' = credentialsRun
      BY <1>8 DEF PubSubStep, StorageStep, PubSubFault, StorageFault, main, credentials
    <2> QED
      BY <1>1, <2>1 DEF KeysPart
  <1> QED
    BY <1>2, <1>3, <1>4, <1>5, <1>6, <1>7, <1>8 DEF run, Around

-----------------------------------------------------------------------------
(* The invariant. *)

\* The progress of the sections of one process only changes.
LEMMA RunsChange ==
    ASSUME DoneInv, [Next]_vars, NEW p \in Provisioners, run(p) \/ Around(p)
    PROVE  /\ \/ pubsubRun' = pubsubRun
              \/ /\ Wanted(p, "pubsub") /\ (dryRun[p] => topics' = topics)
                 /\ \E r : IsPubSubRun(r) /\ pubsubRun' = [pubsubRun EXCEPT ![p] = r]
           /\ \/ storageRun' = storageRun
              \/ /\ Wanted(p, "storage") /\ (dryRun[p] => buckets' = buckets)
                 /\ \E r : IsStorageRun(r) /\ storageRun' = [storageRun EXCEPT ![p] = r]
           /\ \/ credentialsRun' = credentialsRun
              \/ /\ Wanted(p, "credentials") /\ (dryRun[p] => files' = files)
                 /\ \E r : credentialsRun' = [credentialsRun EXCEPT ![p] = r]
  <1>1. stage[p] \in SectionNames => Wanted(p, stage[p])
    BY DEF DoneInv, CommandInv, ProcessInv, TodoInv, InSections, SectionNames
  <1>2. CASE Start(p) \/ load(p) \/ connectPubSub(p) \/ connectStorage(p) \/ Stopped(p) \/ Leave(p)
    BY <1>2 DEF Start, load, connectPubSub, connectStorage, Connecting, Stopped, Leave,
                pubsub, storage, credentials
  <1>3. CASE Enter(p)
    BY <1>3, EnterEffect
  <1>4. CASE PubSubStep(p) \/ PubSubFault(p)
    <2>1. /\ stage[p] = "pubsub" /\ storageRun' = storageRun /\ credentialsRun' = credentialsRun
          /\ dryRun[p] => topics' = topics
          /\ \E r : pubsubRun' = [pubsubRun EXCEPT ![p] = r] /\ PubSubMoves(p, r)
      BY <1>4, PubSubSectionStep DEF storage, credentials
    <2> QED
      BY <1>1, <2>1 DEF PubSubMoves, SectionNames
  <1>5. CASE StorageStep(p) \/ StorageFault(p)
    <2>1. /\ stage[p] = "storage" /\ pubsubRun' = pubsubRun /\ credentialsRun' = credentialsRun
          /\ dryRun[p] => buckets' = buckets
          /\ \E r : storageRun' = [storageRun EXCEPT ![p] = r] /\ StorageMoves(p, r)
      BY <1>5, StorageSectionStep DEF pubsub, credentials
    <2> QED
      BY <1>1, <2>1 DEF StorageMoves, SectionNames
  <1>6. CASE CredentialsStep(p) \/ CredentialsFault(p)
    <2>1. /\ stage[p] = "credentials" /\ pubsubRun' = pubsubRun /\ storageRun' = storageRun
          /\ dryRun[p] => files' = files
          /\ \E r : credentialsRun' = [credentialsRun EXCEPT ![p] = r]
      BY <1>6, KeysMove DEF pubsub, storage
    <2> QED
      BY <1>1, <2>1 DEF SectionNames
  <1> QED
    BY <1>2, <1>3, <1>4, <1>5, <1>6 DEF run, Around

\* A process whose state and sections a step leaves alone keeps its part.
LEMMA EffectStays ==
    ASSUME DoneInv, [Next]_vars, NEW p \in Provisioners, Same(p),
           pubsubRun'[p] = pubsubRun[p], storageRun'[p] = storageRun[p]
    PROVE  EffectInv(p)'
  <1>1. \A s : Over(p, s)' => Over(p, s)
    BY SameInput DEF Over, Same
  <1>2. DryRunPart(p)'
    BY DryRunStays DEF Same
  <1>3. OverPart(p)'
    BY <1>1, OverStays DEF Same
  <1>4. PubSubPart(p)' /\ StoragePart(p)'
    BY PubSubStays, StorageStays DEF Same
  <1> QED
    BY <1>2, <1>3, <1>4 DEF EffectInv

\* Every step keeps the invariant.
LEMMA DoneNext == DoneInv /\ [Next]_vars => DoneInv'
  <1> SUFFICES ASSUME DoneInv, [Next]_vars PROVE DoneInv'
    OBVIOUS
  <1>1. CommandInv /\ EffectType
    BY DEF DoneInv
  <1>2. CommandInv'
    BY <1>1, CommandNext
  <1>3. CASE pubsubRun' = pubsubRun /\ storageRun' = storageRun /\ \A q \in Provisioners : Same(q)
    <2>1. EffectType'
      BY <1>1, <1>3 DEF EffectType
    <2>2. \A q \in Provisioners : EffectInv(q)' /\ KeysPart(q)'
      BY <1>3, EffectStays, KeysPartStep
    <2> QED
      BY <1>2, <2>1, <2>2 DEF DoneInv
  <1>4. ASSUME NEW p \in Provisioners, run(p) \/ Around(p),
               \A q \in Provisioners : q # p => Same(q)
        PROVE  DoneInv'
    <2>1. /\ pubsubRun' = pubsubRun
             \/ \E r : IsPubSubRun(r) /\ pubsubRun' = [pubsubRun EXCEPT ![p] = r]
          /\ storageRun' = storageRun
             \/ \E r : IsStorageRun(r) /\ storageRun' = [storageRun EXCEPT ![p] = r]
      BY <1>4, RunsChange
    <2>2. /\ DOMAIN pubsubRun' = Provisioners
          /\ pubsubRun' = [q \in Provisioners |-> pubsubRun'[q]]
          /\ \A q \in Provisioners : IsPubSubRun(pubsubRun'[q])
          /\ \A q \in Provisioners : q # p => pubsubRun'[q] = pubsubRun[q]
      BY <1>1, <2>1 DEF EffectType
    <2>3. /\ DOMAIN storageRun' = Provisioners
          /\ storageRun' = [q \in Provisioners |-> storageRun'[q]]
          /\ \A q \in Provisioners : IsStorageRun(storageRun'[q])
          /\ \A q \in Provisioners : q # p => storageRun'[q] = storageRun[q]
      BY <1>1, <2>1 DEF EffectType
    <2>4. EffectType'
      BY <2>2, <2>3 DEF EffectType, IsPubSubRun, IsStorageRun
    <2>5. EffectInv(p)'
      BY <1>4, BeforeEffect, EnterEffect, LeaveEffect, SectionEffect DEF run, Around
    <2>6. \A q \in Provisioners : q # p => EffectInv(q)'
      BY <1>4, <2>2, <2>3, EffectStays
    <2>7. \A q \in Provisioners : KeysPart(q)'
      BY <1>4, KeysPartStep
    <2> QED
      BY <1>2, <2>4, <2>5, <2>6, <2>7 DEF DoneInv
  <1>5. CASE \A q \in Provisioners : Same(q)
    <2>1. \/ pubsubRun' = pubsubRun /\ storageRun' = storageRun
          \/ \E p \in Provisioners : run(p) \/ Around(p)
      BY DEF Next, vars, ComesUp, pubsub, storage
    <2> QED
      BY <1>3, <1>4, <1>5, <2>1
  <1> QED
    BY <1>1, <1>4, <1>5, OthersSame

\* It holds before any process is started.
LEMMA DoneInit == Init => DoneInv
  <1> SUFFICES ASSUME Init PROVE DoneInv
    OBVIOUS
  <1>1. CommandInv
    BY CommandInit
  <1>2. IsPubSubRun(PubSub!Fresh("idle", {})) /\ IsStorageRun(Storage!Fresh("idle", {}))
    BY DEF IsPubSubRun, IsStorageRun, PubSub!Fresh, Storage!Fresh
  <1>3. EffectType
    BY <1>2 DEF Init, EffectType
  <1>4. ASSUME NEW p \in Provisioners PROVE EffectInv(p) /\ KeysPart(p)
    <2>1. stage[p] = "idle"
      BY DEF Init
    <2> QED
      BY <2>1 DEF EffectInv, KeysPart, PubSubPart, StoragePart, DryRunPart, OverPart, Over,
                  AfterLoad, InSections, SectionNames
  <1> QED
    BY <1>1, <1>3, <1>4 DEF DoneInv

-----------------------------------------------------------------------------
(* What a process was asked to do. *)

\* The progress of a section changes only in a process that is at its sections.
LEMMA OnlyInSections ==
    ASSUME [Next]_vars, NEW p \in Provisioners, run(p) \/ Around(p), stage[p] \notin InSections
    PROVE  UNCHANGED <<pubsubRun, storageRun, credentialsRun>>
  <1>1. CASE Start(p) \/ load(p) \/ connectPubSub(p) \/ connectStorage(p) \/ Stopped(p) \/ Leave(p)
    BY <1>1 DEF Start, load, connectPubSub, connectStorage, Connecting, Stopped, Leave,
                pubsub, storage, credentials
  <1>2. CASE ~(Start(p) \/ load(p) \/ connectPubSub(p) \/ connectStorage(p) \/ Stopped(p) \/ Leave(p))
    BY <1>2 DEF run, Around, Enter, PubSubStep, StorageStep, CredentialsStep, PubSubFault,
                StorageFault, CredentialsFault, InSections, SectionNames
  <1> QED
    BY <1>1, <1>2

\* A dry run asked for with the flag, or in the environment where there is no flag.
AskedDry(p) ==
    input[p].dryRunFlag = {TRUE} \/
        (input[p].dryRunFlag = {} /\ input[p].DRY_RUN \in {"true", "1"})

\* It is what run resolves the two to.
LEMMA DryIsDry ==
    ASSUME NEW p \in Provisioners, DryRunPart(p), stage[p] \in InSections, AskedDry(p)
    PROVE  dryRun[p]
  <1>1. dryRun[p] = The(resolveDryRun(p))
    BY DEF DryRunPart, AfterLoad
  <1>2. resolveDryRun(p) = {TRUE}
    <2>1. CASE input[p].dryRunFlag = {TRUE}
      BY <2>1 DEF resolveDryRun
    <2>2. CASE input[p].dryRunFlag = {} /\ input[p].DRY_RUN \in {"true", "1"}
      <3>1. PICK t : t = input[p].DRY_RUN
        OBVIOUS
      <3>2. t \in DOMAIN ParseBool /\ ParseBool[t] = TRUE /\ t # ""
        BY <2>2, <3>1 DEF ParseBool
      <3>3. resolveDryRun(p) = {ParseBool[x] : x \in {t} \cap DOMAIN ParseBool}
        BY <2>2, <3>1, <3>2 DEF resolveDryRun
      <3>4. {t} \cap DOMAIN ParseBool = {t}
        BY <3>2
      <3>5. {ParseBool[x] : x \in {t}} = {ParseBool[t]}
        OBVIOUS
      <3> QED
        BY <3>2, <3>3, <3>4, <3>5
    <2> QED
      BY <2>1, <2>2 DEF AskedDry
  <1>3. \E x \in {TRUE} : TRUE
    OBVIOUS
  <1>4. The({TRUE}) \in {TRUE}
    BY <1>3 DEF The
  <1> QED
    BY <1>1, <1>2, <1>4

\* A process whose file is done with has every resource of the file.
LEMMA DoneMeansDeclared ==
    ASSUME DoneInv, NEW p \in Provisioners
    PROVE  /\ TopicsThere(p) => PubSub!Declares(p, {"create", "update"}) \subseteq DOMAIN topics
           /\ BucketsThere(p) => Storage!Declares(p, {"create", "update"}) \subseteq DOMAIN buckets
  <1>1. PubSub!topics(p) = input[p].topics
    BY DEF PubSub!topics
  <1>2. CommandType
    BY DEF DoneInv, CommandInv
  <1>3. ASSUME TopicsThere(p), NEW i \in DOMAIN input[p].topics
        PROVE  PubSub!TopicKey(input[p].topics[i].name) \in DOMAIN topics
    <2>1. 0 \in Slots(p, i)
      BY <1>2, PartNumbers DEF Slots
    <2>2. KeyAt(p, i, 0) \in DOMAIN topics
      BY <1>3, <2>1 DEF TopicsThere
    <2> QED
      BY <2>2 DEF KeyAt
  <1>4. ASSUME TopicsThere(p), NEW i \in DOMAIN input[p].topics,
               NEW j \in DOMAIN input[p].topics[i].subscriptions
        PROVE  PubSub!SubKey(input[p].topics[i].subscriptions[j].name) \in DOMAIN topics
    <2>1. j \in Slots(p, i) /\ j # 0
      BY <1>2, PartNumbers DEF Slots
    <2>2. KeyAt(p, i, j) \in DOMAIN topics
      BY <1>4, <2>1 DEF TopicsThere
    <2> QED
      BY <2>1, <2>2 DEF KeyAt
  <1>5. TopicsThere(p) => PubSub!Declares(p, {"create", "update"}) \subseteq DOMAIN topics
    BY <1>1, <1>3, <1>4 DEF PubSub!Declares
  <1>6. BucketsThere(p) => Storage!Declares(p, {"create", "update"}) \subseteq DOMAIN buckets
    BY DEF BucketsThere, Storage!Declares
  <1> QED
    BY <1>5, <1>6

-----------------------------------------------------------------------------
(* Nothing but the outside makes a process fail. *)

\* The paths an update may name where a run with progress r is.
PathsAt(r) == IF r.pass = "topics" THEN PubSub!TopicPaths ELSE PubSub!SubscriptionPaths

\* A run with progress r stands at a resource of its file.
InPlace(p, r) ==
    /\ r.ti \in DOMAIN input[p].topics
    /\ r.pass = "subs" => r.si \in DOMAIN input[p].topics[r.ti].subscriptions

\* What is sent is for a resource of the file, and an update names some paths of
\* its kind, mutable ones.
SendsWell(p, r) ==
    /\ r.pc \in {"create", "batch", "split"} => InPlace(p, r)
    /\ r.pc \in {"batch", "split"} => r.todo # <<>> /\ r.todo \in Seq(PathsAt(r))

\* The same for the process; and versioning is set on a bucket that is there.
SendPart(p) ==
    /\ stage[p] = "pubsub" => SendsWell(p, pubsubRun[p])
    /\ stage[p] = "storage" /\ storageRun[p].pc = "version" =>
          input[p].buckets[storageRun[p].bi].name \in DOMAIN buckets

\* All that is sent has a chance to succeed.
SendInv == DoneInv /\ \A p \in Provisioners : SendPart(p)

\* A mask with one path, or none.
LEMMA WhenPath ==
    ASSUME NEW S, NEW f \in S, NEW c
    PROVE  PubSub!When(c, f) \in Seq(S)
  BY DEF PubSub!When

\* Masks put one after the other.
LEMMA MasksJoin ==
    ASSUME NEW S, NEW a \in Seq(S), NEW b \in Seq(S)
    PROVE  a \o b \in Seq(S)
  OBVIOUS

\* What is left of a mask with several paths.
LEMMA PathsLeft ==
    ASSUME NEW S, NEW a \in Seq(S), a # <<>>, Len(a) # 1
    PROVE  Tail(a) \in Seq(S) /\ Tail(a) # <<>>
  <1>1. Len(a) \in Nat /\ Len(a) # 0
    BY EmptySeq, LenProperties
  <1>2. Tail(a) \in Seq(S) /\ Len(Tail(a)) = Len(a) - 1
    BY HeadTailProperties
  <1>3. Len(Tail(a)) # 0
    BY <1>1, <1>2
  <1>4. Len(<<>>) = 0
    BY EmptySeq
  <1> QED
    BY <1>2, <1>3, <1>4, Zenon

\* The comparisons name paths of their kind only.
LEMMA MaskKinds ==
    ASSUME NEW c, NEW d
    PROVE  /\ PubSub!diffTopic(c, d) \in Seq(PubSub!TopicPaths)
           /\ PubSub!diffSubscription(c, d) \in Seq(PubSub!SubscriptionPaths)
  <1>1. "message_retention_duration" \in PubSub!TopicPaths /\ "labels" \in PubSub!TopicPaths
    BY DEF PubSub!TopicPaths
  <1>2. PubSub!diffTopic(c, d) \in Seq(PubSub!TopicPaths)
    BY <1>1, WhenPath, MasksJoin, Zenon DEF PubSub!diffTopic
  <1>3. /\ "ack_deadline_seconds" \in PubSub!SubscriptionPaths
        /\ "message_retention_duration" \in PubSub!SubscriptionPaths
        /\ "retain_acked_messages" \in PubSub!SubscriptionPaths
        /\ "enable_exactly_once_delivery" \in PubSub!SubscriptionPaths
        /\ "expiration_policy" \in PubSub!SubscriptionPaths
        /\ "labels" \in PubSub!SubscriptionPaths
        /\ "push_config" \in PubSub!SubscriptionPaths
        /\ "dead_letter_policy" \in PubSub!SubscriptionPaths
        /\ "retry_policy" \in PubSub!SubscriptionPaths
    BY DEF PubSub!SubscriptionPaths
  <1>4. PubSub!diffScalars(c, d) \in Seq(PubSub!SubscriptionPaths)
    BY <1>3, WhenPath, MasksJoin, Zenon DEF PubSub!diffScalars
  <1>5. PubSub!diffMessages(c, d) \in Seq(PubSub!SubscriptionPaths)
    BY <1>3, WhenPath, MasksJoin, Zenon DEF PubSub!diffMessages
  <1>6. PubSub!diffSubscription(c, d) \in Seq(PubSub!SubscriptionPaths)
    BY <1>4, <1>5, MasksJoin DEF PubSub!diffSubscription
  <1> QED
    BY <1>2, <1>6

\* A run that is through with a resource, or has failed, sends nothing.
LEMMA QuietFields ==
    ASSUME NEW c, IsPubSubRun(c), NEW r,
           \/ r = PubSub!Advance(c) \/ r = PubSub!Fail(c)
           \/ r = PubSub!Note(PubSub!Fail(c), "interrupted")
    PROVE  r.pc \in {"loop", "failed"}
  BY DEF IsPubSubRun, PubSub!Advance, PubSub!Fail, PubSub!Note

\* Whoever stands at the same place stands at a resource of the file as well.
LEMMA PlaceKept ==
    ASSUME NEW p, NEW c, InPlace(p, c), NEW r, SamePlace(r, c)
    PROVE  InPlace(p, r) /\ PathsAt(r) = PathsAt(c)
  BY DEF InPlace, SamePlace, PathsAt

\* A step of the Pub/Sub section only goes on to send what it may.
LEMMA PubSubSends ==
    ASSUME CommandType, EffectType, NEW p \in Provisioners, SendsWell(p, pubsubRun[p]),
           \/ pubsubRun[p].pc \in PubSub!Running /\ PubSub!ProvisionPubSub(p)
           \/ PubSub!Interrupt(p) \/ PubSub!LostReply(p)
    PROVE  SendsWell(p, pubsubRun'[p])
  <1>1. PICK c : c = pubsubRun[p]
    OBVIOUS
  <1>2. IsPubSubRun(c) /\ SamePlace(c, c) /\ SendsWell(p, c)
    BY <1>1 DEF EffectType, SamePlace
  <1>3. \A r : PubSub!Become(p, r) => pubsubRun'[p] = r
    BY DEF PubSub!Become, EffectType
  <1>4. PubSub!topics(p) = input[p].topics /\ (PubSub!AtTopic(p) <=> c.pass = "topics")
    BY <1>1 DEF PubSub!topics, PubSub!AtTopic
  <1>5. /\ Len(input[p].topics) \in Nat
        /\ DOMAIN input[p].topics = 1..Len(input[p].topics)
        /\ \A i \in DOMAIN input[p].topics :
              /\ Len(input[p].topics[i].subscriptions) \in Nat
              /\ DOMAIN input[p].topics[i].subscriptions
                    = 1..Len(input[p].topics[i].subscriptions)
    BY PartNumbers
  <1>6. \A r : r.pc \in {"loop", "ok", "failed"} => SendsWell(p, r)
    BY DEF SendsWell
  <1>7. ASSUME NEW d, IsPubSubRun(d), NEW r, PubSub!Become(p, r),
               \/ r = PubSub!Advance(d) \/ r = PubSub!Fail(d)
               \/ r = PubSub!Note(PubSub!Fail(d), "interrupted")
        PROVE  SendsWell(p, pubsubRun'[p])
    <2>1. r.pc \in {"loop", "failed"}
      BY <1>7, QuietFields
    <2> QED
      BY <1>3, <1>6, <1>7, <2>1
  <1>8. ASSUME InPlace(p, c), PubSub!Become(p, PubSub!Creating(c))
        PROVE  SendsWell(p, pubsubRun'[p])
    <2>1. PICK r : r = PubSub!Creating(c)
      OBVIOUS
    <2>2. r.pc = "create" /\ SamePlace(r, c)
      BY <1>2, <2>1, CreatingFields
    <2>3. InPlace(p, r)
      BY <1>8, <2>2, PlaceKept
    <2> QED
      BY <1>3, <1>8, <2>1, <2>2, <2>3 DEF SendsWell
  <1>9. ASSUME InPlace(p, c), NEW d, IsPubSubRun(d), SamePlace(d, c), NEW m, NEW mask,
               mask # <<>>, mask \in Seq(PathsAt(c)), PubSub!Become(p, PubSub!Updating(d, m, mask))
        PROVE  SendsWell(p, pubsubRun'[p])
    <2>1. PICK r : r = PubSub!Updating(d, m, mask)
      OBVIOUS
    <2>2. r.pc = "batch" /\ SamePlace(r, d)
      BY <1>9, <2>1, UpdatingFields
    <2>3. r.todo = mask
      BY <1>9, <2>1 DEF IsPubSubRun, PubSub!Updating
    <2>4. SamePlace(r, c)
      BY <1>9, <2>2 DEF SamePlace
    <2>5. InPlace(p, r) /\ PathsAt(r) = PathsAt(c)
      BY <1>9, <2>4, PlaceKept
    <2> QED
      BY <1>3, <1>9, <2>1, <2>2, <2>3, <2>5 DEF SendsWell
  <1>10. CASE PubSub!ensureTopic(p)
    <2>1. c.pc = "loop" /\ c.pass = "topics" /\ c.ti \in DOMAIN input[p].topics
      BY <1>1, <1>2, <1>4, <1>5, <1>10 DEF PubSub!ensureTopic, IsPubSubRun
    <2>2. InPlace(p, c) /\ PathsAt(c) = PubSub!TopicPaths
      BY <2>1 DEF InPlace, PathsAt
    <2>3. \/ PubSub!Become(p, PubSub!Advance(c))
          \/ PubSub!Become(p, PubSub!Creating(c))
          \/ \E m, x, y : /\ PubSub!diffTopic(x, y) # <<>>
                          /\ PubSub!Become(p, PubSub!Updating(c, m, PubSub!diffTopic(x, y)))
      <3>1. CASE PubSub!Key(p) \notin DOMAIN topics
        BY <1>1, <1>10, <3>1 DEF PubSub!ensureTopic
      <3>2. CASE PubSub!Key(p) \in DOMAIN topics
        <4>1. PICK mask, x, y :
                 /\ mask = <<>> \/ mask = PubSub!diffTopic(x, y)
                 /\ PubSub!Become(p, IF mask = <<>> \/ dryRun[p] THEN PubSub!Advance(c)
                                     ELSE PubSub!Updating(c, topics[PubSub!Key(p)], mask))
          BY <1>1, <1>10, <3>2 DEF PubSub!ensureTopic
        <4> QED
          BY <4>1
      <3> QED
        BY <3>1, <3>2
    <2> QED
      BY <1>2, <1>7, <1>8, <1>9, <2>2, <2>3, MaskKinds
  <1>11. CASE PubSub!ensureSubscription(p)
    <2>1. /\ c.pc = "loop" /\ c.pass = "subs" /\ c.ti \in DOMAIN input[p].topics
          /\ c.si \in DOMAIN input[p].topics[c.ti].subscriptions
      BY <1>1, <1>2, <1>4, <1>5, <1>11
      DEF PubSub!ensureSubscription, PubSub!TopicAt, IsPubSubRun
    <2>2. InPlace(p, c) /\ PathsAt(c) = PubSub!SubscriptionPaths
      BY <2>1 DEF InPlace, PathsAt
    <2>3. \/ PubSub!Become(p, PubSub!Advance(c))
          \/ PubSub!Become(p, PubSub!Creating(c))
          \/ \E fs : PubSub!Become(p, PubSub!Advance(PubSub!Warn(c, PubSub!Key(p), fs)))
          \/ \E fs, m, x, y :
                /\ PubSub!diffSubscription(x, y) # <<>>
                /\ PubSub!Become(p, PubSub!Updating(PubSub!Warn(c, PubSub!Key(p), fs), m,
                                                    PubSub!diffSubscription(x, y)))
      <3>1. CASE PubSub!Key(p) \notin DOMAIN topics \/ PubSub!Strategy(p) = "create"
        BY <1>1, <1>11, <3>1 DEF PubSub!ensureSubscription
      <3>2. CASE PubSub!Key(p) \in DOMAIN topics /\ PubSub!Strategy(p) # "create"
        <4>1. PICK w, mask, x, y :
                 /\ \E fs : w = PubSub!Warn(c, PubSub!Key(p), fs)
                 /\ mask = PubSub!diffSubscription(x, y)
                 /\ PubSub!Become(p, IF mask = <<>> \/ dryRun[p] THEN PubSub!Advance(w)
                                     ELSE PubSub!Updating(w, topics[PubSub!Key(p)], mask))
          BY <1>1, <1>11, <3>2 DEF PubSub!ensureSubscription
        <4> QED
          BY <4>1
      <3> QED
        BY <3>1, <3>2
    <2>4. \A fs : /\ IsPubSubRun(PubSub!Warn(c, PubSub!Key(p), fs))
                  /\ SamePlace(PubSub!Warn(c, PubSub!Key(p), fs), c)
      BY <1>2, WarnFields
    <2> QED
      BY <1>2, <1>7, <1>8, <1>9, <2>2, <2>3, <2>4, MaskKinds
  <1>12. CASE PubSub!create(p)
    BY <1>1, <1>2, <1>7, <1>12 DEF PubSub!create
  <1>13. ASSUME NEW d, IsPubSubRun(d), SamePlace(d, c), d.todo = c.todo, d.pc = "split",
                c.pc \in {"batch", "split"},
                NEW r, PubSub!Become(p, r),
                \/ r = d
                \/ r = [d EXCEPT !.todo = Tail(@)] /\ Len(d.todo) # 1
         PROVE  SendsWell(p, pubsubRun'[p])
    <2>1. InPlace(p, c) /\ c.todo # <<>> /\ c.todo \in Seq(PathsAt(c))
      BY <1>2, <1>13 DEF SendsWell
    <2>2. r.pc = "split" /\ SamePlace(r, d)
      BY <1>13, TailFields DEF SamePlace
    <2>3. SamePlace(r, c)
      BY <1>13, <2>2 DEF SamePlace
    <2>4. InPlace(p, r) /\ PathsAt(r) = PathsAt(c)
      BY <2>1, <2>3, PlaceKept
    <2>5. r.todo = c.todo \/ (r.todo = Tail(c.todo) /\ Len(c.todo) # 1)
      BY <1>13 DEF IsPubSubRun
    <2>6. r.todo # <<>> /\ r.todo \in Seq(PathsAt(c))
      BY <2>1, <2>5, PathsLeft
    <2> QED
      BY <1>3, <1>13, <2>2, <2>4, <2>6 DEF SendsWell
  <1>14. \A fs : /\ IsPubSubRun(PubSub!Warn(c, PubSub!Key(p), fs))
                 /\ SamePlace(PubSub!Warn(c, PubSub!Key(p), fs), c)
                 /\ PubSub!Warn(c, PubSub!Key(p), fs).pc = c.pc
    BY <1>2, WarnFields
  <1>15. \A fs : PubSub!Warn(c, PubSub!Key(p), fs).todo = c.todo
    BY <1>2 DEF PubSub!Warn, IsPubSubRun
  <1>16. CASE PubSub!applyBatch(p)
    <2>1. c.pc = "batch"
      BY <1>1, <1>16 DEF PubSub!applyBatch
    <2>2. CASE PubSub!Become(p, PubSub!Advance(c)) \/ PubSub!Become(p, PubSub!Fail(c))
      BY <1>2, <1>7, <2>2
    <2>3. CASE \E fs : PubSub!Become(p, PubSub!Advance(PubSub!Warn(c, PubSub!Key(p), fs)))
      BY <1>7, <1>14, <2>3
    <2>4. CASE PubSub!Become(p, [c EXCEPT !.pc = "split"])
      <3>1. PICK r : r = [c EXCEPT !.pc = "split"]
        OBVIOUS
      <3>2. r.pc = "split" /\ IsPubSubRun(r) /\ SamePlace(r, c)
        BY <1>2, <3>1, SplitFields
      <3>3. r.todo = c.todo
        BY <1>2, <3>1 DEF IsPubSubRun
      <3> QED
        BY <1>13, <2>1, <2>4, <3>1, <3>2, <3>3
    <2> QED
      BY <1>1, <1>16, <2>2, <2>3, <2>4 DEF PubSub!applyBatch
  <1>17. CASE PubSub!applyPath(p)
    <2>1. c.pc = "split"
      BY <1>1, <1>17 DEF PubSub!applyPath
    <2>2. CASE PubSub!Become(p, PubSub!Fail(c))
      BY <1>2, <1>7, <2>2
    <2>3. ASSUME NEW d, d = c \/ \E fs : d = PubSub!Warn(c, PubSub!Key(p), fs),
                 PubSub!Become(p, PubSub!NextPath(d))
          PROVE  SendsWell(p, pubsubRun'[p])
      <3>1. IsPubSubRun(d) /\ SamePlace(d, c) /\ d.todo = c.todo /\ d.pc = "split"
        BY <1>2, <1>14, <1>15, <2>1, <2>3
      <3>2. CASE Len(d.todo) = 1
        BY <1>7, <2>3, <3>1, <3>2 DEF PubSub!NextPath
      <3>3. CASE Len(d.todo) # 1
        <4>1. PICK r : r = [d EXCEPT !.todo = Tail(@)]
          OBVIOUS
        <4> QED
          BY <1>13, <2>1, <2>3, <3>1, <3>3, <4>1 DEF PubSub!NextPath
      <3> QED
        BY <3>2, <3>3
    <2> QED
      BY <1>1, <1>17, <2>2, <2>3 DEF PubSub!applyPath
  <1>18. CASE PubSub!topicsDone(p) \/ PubSub!subscriptionsDone(p) \/ PubSub!sectionDone(p)
    <2>1. PICK r : /\ PubSub!Become(p, r)
                   /\ \/ r = [c EXCEPT !.pass = "subs", !.ti = 1, !.si = 1]
                      \/ r = [c EXCEPT !.ti = @ + 1, !.si = 1]
                      \/ r = [c EXCEPT !.pc = "ok"]
      BY <1>1, <1>18 DEF PubSub!topicsDone, PubSub!subscriptionsDone, PubSub!sectionDone
    <2>2. c.pc = "loop"
      BY <1>1, <1>18 DEF PubSub!topicsDone, PubSub!subscriptionsDone, PubSub!sectionDone
    <2>3. r.pc \in {"loop", "ok"}
      BY <1>2, <2>1, <2>2 DEF IsPubSubRun
    <2> QED
      BY <1>3, <1>6, <2>1, <2>3
  <1>19. CASE PubSub!Interrupt(p) \/ PubSub!LostReply(p)
    BY <1>1, <1>2, <1>7, <1>19 DEF PubSub!Interrupt, PubSub!LostReply
  <1>20. ~PubSub!Start(p) \/ pubsubRun[p].pc \notin PubSub!Running
    BY DEF PubSub!Start, PubSub!Running
  <1> QED
    BY <1>10, <1>11, <1>12, <1>16, <1>17, <1>18, <1>19, <1>20 DEF PubSub!ProvisionPubSub

\* In the second pass, the topics a request names are there: its own topic and the
\* dead letter topics, which a valid file declares.
LEMMA NamedAreThere ==
    ASSUME CommandType, EffectType, NEW p \in Provisioners, stage[p] = "pubsub", PubSubPart(p),
           SendsWell(p, pubsubRun[p]), pubsubRun[p].pc \in {"create", "batch", "split"},
           pubsubRun[p].pass = "subs", validate(p)
    PROVE  PubSub!NamedTopics(PubSub!CreateRequest(p)) \subseteq DOMAIN topics
  <1>1. PICK c : c = pubsubRun[p]
    OBVIOUS
  <1>2. /\ c.pass = "subs" /\ c.ti \in DOMAIN input[p].topics
        /\ c.si \in DOMAIN input[p].topics[c.ti].subscriptions
    BY <1>1 DEF SendsWell, InPlace
  <1>3. ASSUME NEW i \in DOMAIN input[p].topics
        PROVE  PubSub!TopicKey(input[p].topics[i].name) \in DOMAIN topics
    <2>1. ~dryRun[p] /\ c.pc # "failed"
      BY <1>1 DEF PubSubPart, Sends
    <2>2. 0 \in Slots(p, i) /\ Behind(c, i, 0)
      BY <1>2, PartNumbers DEF Slots, Behind
    <2>3. KeyAt(p, i, 0) \in DOMAIN topics
      BY <1>1, <2>1, <2>2 DEF PubSubPart
    <2> QED
      BY <2>3 DEF KeyAt
  <1>4. /\ PubSub!TopicAt(p) = input[p].topics[c.ti]
        /\ PubSub!SubAt(p) = input[p].topics[c.ti].subscriptions[c.si]
        /\ ~PubSub!AtTopic(p)
    BY <1>1, <1>2 DEF PubSub!TopicAt, PubSub!SubAt, PubSub!AtTopic, PubSub!topics
  <1>5. /\ PubSub!CreateRequest(p).topic = input[p].topics[c.ti].name
        /\ PubSub!CreateRequest(p).dead_letter_policy =
              {[dead_letter_topic     |-> x.Topic,
                max_delivery_attempts |-> x.MaxDeliveryAttempts] :
                  x \in {[Topic |-> d.topic,
                          MaxDeliveryAttempts |-> d.max_delivery_attempts] :
                            d \in PubSub!SubAt(p).dead_letter}}
    BY <1>4 DEF PubSub!CreateRequest, PubSub!DesiredSub, PubSub!buildSubscription,
                PubSub!toProtoSubscription, PubSub!Answered
  <1>6. ASSUME NEW d \in PubSub!SubAt(p).dead_letter
        PROVE  PubSub!TopicKey(d.topic) \in DOMAIN topics
    <2>1. PubSub!validateDeadLetterTargets(input[p].topics)
      BY DEF validate, PubSub!validate, PubSub!validateTopics
    <2>2. \E k \in DOMAIN input[p].topics : input[p].topics[k].name = d.topic
      BY <1>2, <1>4, <2>1 DEF PubSub!validateDeadLetterTargets
    <2> QED
      BY <1>3, <2>2
  <1>7. \A x \in PubSub!CreateRequest(p).dead_letter_policy :
           \E d \in PubSub!SubAt(p).dead_letter : x.dead_letter_topic = d.topic
    BY <1>5
  <1> QED
    BY <1>2, <1>3, <1>5, <1>6, <1>7 DEF PubSub!NamedTopics, PubSub!DeadLetterTopics

\* No create of a valid file is answered with an error.
LEMMA CreatesSucceed ==
    ASSUME CommandType, EffectType, NEW p \in Provisioners, stage[p] = "pubsub", PubSubPart(p),
           SendsWell(p, pubsubRun[p]), pubsubRun[p].pc = "create", validate(p)
    PROVE  PubSub!CreateCall(p) # "error"
  <1> SUFFICES ASSUME PubSub!CreateCall(p) = "error" PROVE FALSE
    OBVIOUS
  <1>1. /\ PubSub!Key(p) \in PubSub!SubKeys
        /\ ~(PubSub!NamedTopics(PubSub!CreateRequest(p)) \subseteq DOMAIN topics)
    BY DEF PubSub!CreateCall, PubSub!CreateReply
  <1>2. PubSub!Key(p)[1] = "sub"
    BY <1>1 DEF PubSub!SubKeys, PubSub!SubKey
  <1>3. pubsubRun[p].pass = "subs"
    BY <1>2 DEF PubSub!Key, PubSub!AtTopic, PubSub!TopicKey, EffectType, IsPubSubRun
  <1> QED
    BY <1>1, <1>3, NamedAreThere

\* Nor is an update.
LEMMA UpdatesSucceed ==
    ASSUME CommandType, EffectType, NEW p \in Provisioners, stage[p] = "pubsub", PubSubPart(p),
           SendsWell(p, pubsubRun[p]), pubsubRun[p].pc \in {"batch", "split"}, validate(p)
    PROVE  PubSub!Reply(p) # "error"
  <1> SUFFICES ASSUME PubSub!Reply(p) = "error" PROVE FALSE
    OBVIOUS
  <1>1. PICK c : c = pubsubRun[p]
    OBVIOUS
  <1>2. IsPubSubRun(c) /\ PubSub!Key(p) = Here(p, c)
    BY <1>1, KeyIsHere DEF EffectType
  <1>3. PubSub!Key(p) \in DOMAIN topics
    BY <1>1, <1>2 DEF PubSubPart, Sends
  <1>4. PubSub!Mask(p) \subseteq PathsAt(c)
    <2>1. c.todo # <<>> /\ c.todo \in Seq(PathsAt(c))
      BY <1>1 DEF SendsWell
    <2>2. Head(c.todo) \in PathsAt(c) /\ \A i \in DOMAIN c.todo : c.todo[i] \in PathsAt(c)
      BY <2>1
    <2> QED
      BY <1>1, <2>2 DEF PubSub!Mask
  <1>5. PubSub!Mask(p) \cap PubSub!ImmutablePaths = {}
    BY <1>4 DEF PathsAt, PubSub!TopicPaths, PubSub!SubscriptionPaths, PubSub!ImmutablePaths
  <1>6. /\ "dead_letter_policy" \in PubSub!Mask(p)
        /\ ~(PubSub!DeadLetterTopics(PubSub!UpdateRequest(p)) \subseteq DOMAIN topics)
    BY <1>3, <1>5 DEF PubSub!Reply, PubSub!UpdateReply
  <1>7. c.pass = "subs" /\ ~PubSub!AtTopic(p)
    BY <1>1, <1>2, <1>4, <1>6 DEF PathsAt, PubSub!TopicPaths, IsPubSubRun, PubSub!AtTopic
  <1>8. PubSub!UpdateRequest(p).dead_letter_policy = PubSub!CreateRequest(p).dead_letter_policy
    BY <1>7 DEF PubSub!UpdateRequest, PubSub!CreateRequest, PubSub!mergeSubscription,
                PubSub!toProtoSubscription, PubSub!DesiredSub, PubSub!buildSubscription,
                PubSub!Answered
  <1>9. PubSub!DeadLetterTopics(PubSub!UpdateRequest(p)) \subseteq DOMAIN topics
    BY <1>1, <1>7, <1>8, NamedAreThere DEF PubSub!NamedTopics, PubSub!DeadLetterTopics
  <1> QED
    BY <1>6, <1>9

\* So a step of the Pub/Sub section of a valid file never makes it fail.
LEMMA PubSubNeverFails ==
    ASSUME CommandType, EffectType, NEW p \in Provisioners, PubSubPart(p),
           SendsWell(p, pubsubRun[p]), PubSubStep(p), validate(p)
    PROVE  pubsubRun'[p].pc # "failed"
  <1>1. PICK c : c = pubsubRun[p]
    OBVIOUS
  <1>2. /\ IsPubSubRun(c) /\ SamePlace(c, c) /\ stage[p] = "pubsub"
        /\ c.pc \in PubSub!Running /\ PubSub!ProvisionPubSub(p)
    BY <1>1 DEF EffectType, PubSubStep, SamePlace
  <1>3. \A r : PubSub!Become(p, r) => pubsubRun'[p] = r
    BY DEF PubSub!Become, EffectType
  <1>4. \A d : IsPubSubRun(d) => PubSub!Advance(d).pc = "loop"
    BY DEF IsPubSubRun, PubSub!Advance
  <1>5. \A fs : /\ IsPubSubRun(PubSub!Warn(c, PubSub!Key(p), fs))
                /\ PubSub!Warn(c, PubSub!Key(p), fs).pc = c.pc
    BY <1>2, WarnFields
  <1>6. \A d, m, mask : IsPubSubRun(d) => PubSub!Updating(d, m, mask).pc = "batch"
    BY UpdatingFields
  <1>7. PubSub!Creating(c).pc = "create"
    BY <1>2, CreatingFields
  <1>8. CASE PubSub!ensureTopic(p)
    <2>1. \/ PubSub!Become(p, PubSub!Advance(c))
          \/ PubSub!Become(p, PubSub!Creating(c))
          \/ \E m, mask : PubSub!Become(p, PubSub!Updating(c, m, mask))
      BY <1>1, <1>8 DEF PubSub!ensureTopic
    <2> QED
      BY <1>2, <1>3, <1>4, <1>6, <1>7, <2>1
  <1>9. CASE PubSub!ensureSubscription(p)
    <2>1. \/ PubSub!Become(p, PubSub!Advance(c))
          \/ PubSub!Become(p, PubSub!Creating(c))
          \/ \E fs : \/ PubSub!Become(p, PubSub!Advance(PubSub!Warn(c, PubSub!Key(p), fs)))
                     \/ \E m, mask : PubSub!Become(p,
                           PubSub!Updating(PubSub!Warn(c, PubSub!Key(p), fs), m, mask))
      BY <1>1, <1>9 DEF PubSub!ensureSubscription
    <2> QED
      BY <1>2, <1>3, <1>4, <1>5, <1>6, <1>7, <2>1
  <1>10. CASE PubSub!create(p)
    <2>1. PubSub!CreateCall(p) # "error"
      BY <1>2, <1>10, CreatesSucceed DEF PubSub!create
    <2>2. PubSub!Become(p, PubSub!Advance(c))
      BY <1>1, <1>10, <2>1 DEF PubSub!create
    <2> QED
      BY <1>2, <1>3, <1>4, <2>2
  <1>11. CASE PubSub!applyBatch(p)
    <2>1. PubSub!Reply(p) # "error"
      BY <1>2, <1>11, UpdatesSucceed DEF PubSub!applyBatch
    <2>2. \/ PubSub!Become(p, PubSub!Advance(c))
          \/ \E fs : PubSub!Become(p, PubSub!Advance(PubSub!Warn(c, PubSub!Key(p), fs)))
          \/ PubSub!Become(p, [c EXCEPT !.pc = "split"])
      BY <1>1, <1>11, <2>1 DEF PubSub!applyBatch
    <2>3. [c EXCEPT !.pc = "split"].pc = "split"
      BY <1>2 DEF IsPubSubRun
    <2> QED
      BY <1>2, <1>3, <1>4, <1>5, <2>2, <2>3
  <1>12. CASE PubSub!applyPath(p)
    <2>1. PubSub!Reply(p) # "error"
      BY <1>2, <1>12, UpdatesSucceed DEF PubSub!applyPath
    <2>2. PICK d : /\ d = c \/ \E fs : d = PubSub!Warn(c, PubSub!Key(p), fs)
                   /\ PubSub!Become(p, PubSub!NextPath(d))
      BY <1>1, <1>12, <2>1 DEF PubSub!applyPath
    <2>3. IsPubSubRun(d) /\ d.pc = "split"
      BY <1>1, <1>2, <1>5, <1>12, <2>2 DEF PubSub!applyPath
    <2>4. [d EXCEPT !.todo = Tail(@)].pc = "split"
      BY <2>3 DEF IsPubSubRun
    <2> QED
      BY <1>3, <1>4, <2>2, <2>3, <2>4 DEF PubSub!NextPath
  <1>13. CASE PubSub!topicsDone(p) \/ PubSub!subscriptionsDone(p) \/ PubSub!sectionDone(p)
    <2>1. PICK r : /\ PubSub!Become(p, r)
                   /\ \/ r = [c EXCEPT !.pass = "subs", !.ti = 1, !.si = 1]
                      \/ r = [c EXCEPT !.ti = @ + 1, !.si = 1]
                      \/ r = [c EXCEPT !.pc = "ok"]
      BY <1>1, <1>13 DEF PubSub!topicsDone, PubSub!subscriptionsDone, PubSub!sectionDone
    <2>2. c.pc = "loop"
      BY <1>1, <1>13 DEF PubSub!topicsDone, PubSub!subscriptionsDone, PubSub!sectionDone
    <2>3. r.pc \in {"loop", "ok"}
      BY <1>2, <2>1, <2>2 DEF IsPubSubRun
    <2> QED
      BY <1>3, <2>1, <2>3
  <1>14. ~PubSub!Start(p)
    BY <1>1, <1>2 DEF PubSub!Start, PubSub!Running
  <1> QED
    BY <1>2, <1>8, <1>9, <1>10, <1>11, <1>12, <1>13, <1>14 DEF PubSub!ProvisionPubSub

\* A step of the storage section goes on to set versioning on a bucket that is there,
\* and makes the section fail only where there is no versioning.
LEMMA StorageSends ==
    ASSUME CommandType, EffectType, NEW p \in Provisioners, SendPart(p), stage[p] = "storage",
           storageRun[p].pc \in Storage!Running /\ Storage!ProvisionStorage(p)
    PROVE  /\ storageRun'[p].pc = "failed" => ~backend.versioning
           /\ storageRun'[p].pc = "version" =>
                 input[p].buckets[storageRun'[p].bi].name \in DOMAIN buckets'
  <1>1. PICK c : c = storageRun[p]
    OBVIOUS
  <1>2. IsStorageRun(c)
    BY <1>1 DEF EffectType
  <1>3. Storage!Name(p) = input[p].buckets[c.bi].name
    BY <1>1 DEF Storage!Name, Storage!BucketAt
  <1>4. \A r : Storage!Become(p, r) => storageRun'[p] = r
    BY DEF Storage!Become, EffectType
  <1>5. \A d : IsStorageRun(d) => Storage!Advance(d).pc = "loop"
    BY DEF IsStorageRun, Storage!Advance
  <1>6. CASE Storage!ensureBucket(p)
    <2>1. buckets' = buckets
      BY <1>6 DEF Storage!ensureBucket
    <2>2. PICK w : w = Storage!Warn(c, Storage!Name(p), Storage!Drift(p))
      OBVIOUS
    <2>3. IsStorageRun(w) /\ w.bi = c.bi
      BY <1>2, <2>2, StorageWarnFields
    <2>4. \/ Storage!Become(p, Storage!Advance(c))
          \/ Storage!Become(p, Storage!Goto(c, "create"))
          \/ /\ Storage!Become(p, Storage!ensureVersioning(p, w))
             /\ Storage!Name(p) \in DOMAIN buckets
      BY <1>1, <1>6, <2>2 DEF Storage!ensureBucket
    <2>5. \/ Storage!ensureVersioning(p, w) = Storage!Advance(w)
          \/ Storage!ensureVersioning(p, w) = Storage!Goto(w, "version")
      BY DEF Storage!ensureVersioning
    <2>6. /\ Storage!Goto(c, "create").pc = "create"
          /\ Storage!Goto(w, "version").pc = "version" /\ Storage!Goto(w, "version").bi = c.bi
      BY <1>2, <2>3, GotoFields
    <2> QED
      BY <1>2, <1>3, <1>4, <1>5, <2>1, <2>3, <2>4, <2>5, <2>6
  <1>7. CASE Storage!createBucket(p)
    <2>1. CASE Storage!Become(p, Storage!Advance(c))
      BY <1>2, <1>4, <1>5, <2>1
    <2>2. CASE ~Storage!Become(p, Storage!Advance(c))
      <3>1. /\ Storage!CreateCall(p) # "ok"
            /\ ~Storage!isBucketExistsError(backend, Storage!CreateCall(p))
        BY <1>1, <1>7, <2>2 DEF Storage!createBucket
      <3>2. ~backend.versioning /\ Storage!CreateCall(p) = "unsupported"
        BY <3>1 DEF Storage!CreateCall, Storage!CreateReply, Storage!isBucketExistsError
      <3>3. Storage!Become(p, Storage!Fail(c, "unsupported"))
        BY <1>1, <1>7, <3>1, <3>2 DEF Storage!createBucket
      <3>4. Storage!Fail(c, "unsupported").pc = "failed"
        BY <1>2, StorageFailFields
      <3> QED
        BY <1>4, <3>2, <3>3, <3>4
    <2> QED
      BY <2>1, <2>2
  <1>8. CASE Storage!setVersioning(p)
    <2>1. Storage!Name(p) \in DOMAIN buckets
      BY <1>1, <1>3, <1>8 DEF Storage!setVersioning, SendPart
    <2>2. Storage!UpdateCall(p) # "missing"
      BY <2>1 DEF Storage!UpdateCall, Storage!UpdateReply
    <2>3. Storage!UpdateCall(p) = "unsupported" => ~backend.versioning
      BY DEF Storage!UpdateCall, Storage!UpdateReply
    <2>4. \/ Storage!Become(p, Storage!Advance(c))
          \/ ~backend.versioning /\ Storage!Become(p, Storage!Fail(c, "unsupported"))
      BY <1>1, <1>8, <2>2, <2>3 DEF Storage!setVersioning
    <2>5. Storage!Fail(c, "unsupported").pc = "failed"
      BY <1>2, StorageFailFields
    <2> QED
      BY <1>2, <1>4, <1>5, <2>4, <2>5
  <1>9. CASE Storage!sectionDone(p)
    <2>1. Storage!Become(p, Storage!Goto(c, "ok"))
      BY <1>1, <1>9 DEF Storage!sectionDone
    <2>2. Storage!Goto(c, "ok").pc = "ok"
      BY <1>2, GotoFields
    <2> QED
      BY <1>4, <2>1, <2>2
  <1>10. ~Storage!Start(p)
    BY DEF Storage!Start, Storage!Running
  <1> QED
    BY <1>6, <1>7, <1>8, <1>9, <1>10 DEF Storage!ProvisionStorage

\* A fault in the storage section fails it, or takes it to the next bucket.
LEMMA StorageFaultQuiet ==
    ASSUME EffectType, NEW p \in Provisioners, Storage!CallFails(p) \/ Storage!Killed(p)
    PROVE  storageRun'[p].pc \in {"loop", "failed"} /\ faults' = faults + 1
  <1>1. PICK c : c = storageRun[p]
    OBVIOUS
  <1>2. IsStorageRun(c)
    BY <1>1 DEF EffectType
  <1>3. \A r : Storage!Become(p, r) => storageRun'[p] = r
    BY DEF Storage!Become, EffectType
  <1>4. \/ Storage!Become(p, Storage!Advance(c))
        \/ Storage!Become(p, Storage!Fail(c, "interrupted"))
    BY <1>1 DEF Storage!CallFails, Storage!Killed
  <1>5. Storage!Advance(c).pc = "loop" /\ Storage!Fail(c, "interrupted").pc = "failed"
    BY <1>2, StorageFailFields DEF IsStorageRun, Storage!Advance
  <1>6. faults' = faults + 1
    BY DEF Storage!CallFails, Storage!Killed
  <1> QED
    BY <1>3, <1>4, <1>5, <1>6

\* The credentials section fails only where it is cut short.
LEMMA KeysNeverFail ==
    ASSUME CommandType, NEW p \in Provisioners, Keys!Work(p)
    PROVE  credentialsRun'[p].pc # "failed"
  <1>1. PICK c : c = credentialsRun[p]
    OBVIOUS
  <1>2. IsRun(c)
    BY <1>1 DEF CommandType
  <1>3. \A r : Keys!Become(p, r) => credentialsRun'[p] = r
    BY DEF Keys!Become, CommandType
  <1>4. Keys!Advance(c).pc = "loop"
    BY <1>2, RunFields
  <1>5. \/ Keys!Become(p, Keys!Advance(c))
        \/ \E k : Keys!Become(p, [c EXCEPT !.pc = "open", !.key = k])
        \/ Keys!Become(p, [c EXCEPT !.pc = "write"])
        \/ Keys!Become(p, [c EXCEPT !.pc = "ok"])
    BY <1>1 DEF Keys!Work, Keys!ensureCredential, Keys!openFile, Keys!writeFile, Keys!sectionDone
  <1>6. /\ \A k : [c EXCEPT !.pc = "open", !.key = k].pc = "open"
        /\ [c EXCEPT !.pc = "write"].pc = "write" /\ [c EXCEPT !.pc = "ok"].pc = "ok"
    BY <1>2 DEF IsRun
  <1> QED
    BY <1>3, <1>4, <1>5, <1>6

\* A process whose sections a step leaves alone keeps its part.
LEMMA SendStays ==
    ASSUME SendInv, [Next]_vars, NEW p \in Provisioners,
           stage'[p] \in {"pubsub", "storage"} =>
              /\ stage'[p] = stage[p]
              /\ pubsubRun'[p] = pubsubRun[p] /\ storageRun'[p] = storageRun[p]
    PROVE  SendPart(p)'
  <1>1. SendPart(p) /\ DoneInv
    BY DEF SendInv
  <1>2. input' = input /\ DOMAIN buckets \subseteq DOMAIN buckets'
    BY <1>1, SameInput, ResourcesStay
  <1>3. stage'[p] = "pubsub" => SendsWell(p, pubsubRun'[p])
    BY <1>1 DEF SendPart
  <1>4. stage'[p] = "pubsub" => SendsWell(p, pubsubRun[p])'
    BY <1>2, <1>3 DEF SendsWell, InPlace, PathsAt, PubSub!TopicPaths, PubSub!SubscriptionPaths
  <1>5. (stage[p] = "storage" /\ storageRun[p].pc = "version" =>
            input[p].buckets[storageRun[p].bi].name \in DOMAIN buckets)'
    BY <1>1, <1>2 DEF SendPart
  <1> QED
    BY <1>4, <1>5 DEF SendPart

\* A step of a process keeps its part.
LEMMA SendStep ==
    ASSUME SendInv, [Next]_vars, NEW p \in Provisioners, run(p) \/ Around(p)
    PROVE  SendPart(p)'
  <1>1. SendPart(p) /\ DoneInv /\ CommandType /\ EffectType
    BY DEF SendInv, DoneInv, CommandInv
  <1>2. input' = input
    BY SameInput
  <1>3. ASSUME NEW r, pubsubRun'[p] = r, SendsWell(p, r)
        PROVE  SendsWell(p, pubsubRun[p])'
    BY <1>2, <1>3 DEF SendsWell, InPlace, PathsAt, PubSub!TopicPaths, PubSub!SubscriptionPaths
  <1>4. CASE Start(p) \/ load(p) \/ Stopped(p)
    <2>1. stage'[p] \notin {"pubsub", "storage"}
      BY <1>1, <1>4 DEF Start, load, Stopped, CommandType
    <2> QED
      BY <2>1, SendStays
  <1>5. CASE connectPubSub(p) \/ connectStorage(p)
    <2>1. connectPubSub(p) => stage'[p] \in {"connectStorage", "exit 1"}
      BY <1>1, ConnectingFacts DEF connectPubSub
    <2>2. connectStorage(p) => stage'[p] \in {"sections", "exit 1"}
      BY <1>1, ConnectingFacts DEF connectStorage
    <2> QED
      BY <1>5, <2>1, <2>2, SendStays
  <1>6. CASE Leave(p)
    <2>1. stage'[p] = (IF pc(p) = "ok" THEN "sections" ELSE "exit 1")
      BY <1>1, <1>6 DEF Leave, CommandType
    <2> QED
      BY <2>1, SendStays
  <1>7. CASE Enter(p)
    <2>1. CASE todo[p] = <<>>
      <3>1. stage'[p] = "exit 0"
        BY <1>1, <1>7, <2>1 DEF Enter, CommandType
      <3> QED
        BY <3>1, SendStays
    <2>2. CASE todo[p] # <<>>
      <3>1. stage'[p] = Head(todo[p])
        BY <1>1, <1>7, <2>2 DEF Enter, CommandType
      <3>2. Head(todo[p]) = "pubsub" => SendsWell(p, pubsubRun'[p])
        <4>1. SUFFICES ASSUME Head(todo[p]) = "pubsub" PROVE SendsWell(p, pubsubRun'[p])
          OBVIOUS
        <4>2. PICK h : pubsubRun' = [pubsubRun EXCEPT ![p] = PubSub!Fresh("loop", h)]
          BY <1>7, <2>2, <4>1 DEF Enter, PubSub!Begin, PubSub!Become
        <4>3. pubsubRun'[p].pc = "loop"
          BY <1>1, <4>2 DEF EffectType, PubSub!Fresh
        <4> QED
          BY <4>3 DEF SendsWell
      <3>3. Head(todo[p]) = "storage" => storageRun'[p].pc # "version"
        <4>1. SUFFICES ASSUME Head(todo[p]) = "storage" PROVE storageRun'[p].pc # "version"
          OBVIOUS
        <4>2. PICK h : storageRun' = [storageRun EXCEPT ![p] = Storage!Fresh("loop", h)]
          BY <1>7, <2>2, <4>1 DEF Enter, Storage!Begin, Storage!Become
        <4> QED
          BY <1>1, <4>2 DEF EffectType, Storage!Fresh
      <3> QED
        BY <1>3, <3>1, <3>2, <3>3 DEF SendPart
    <2> QED
      BY <2>1, <2>2
  <1>8. CASE PubSubStep(p) \/ PubSubFault(p)
    <2>1. /\ stage[p] = "pubsub" /\ stage' = stage
          /\ \/ pubsubRun[p].pc \in PubSub!Running /\ PubSub!ProvisionPubSub(p)
             \/ PubSub!Interrupt(p) \/ PubSub!LostReply(p)
      BY <1>8 DEF PubSubStep, PubSubFault, main
    <2>2. SendsWell(p, pubsubRun'[p])
      BY <1>1, <2>1, PubSubSends DEF SendPart
    <2> QED
      BY <1>3, <2>1, <2>2 DEF SendPart
  <1>9. CASE StorageStep(p) \/ StorageFault(p)
    <2>1. stage[p] = "storage" /\ stage' = stage
      BY <1>9 DEF StorageStep, StorageFault, main
    <2>2. storageRun'[p].pc = "version" =>
             input[p].buckets[storageRun'[p].bi].name \in DOMAIN buckets'
      BY <1>1, <1>9, StorageSends, StorageFaultQuiet DEF StorageStep, StorageFault
    <2> QED
      BY <1>2, <2>1, <2>2 DEF SendPart
  <1>10. CASE CredentialsStep(p) \/ CredentialsFault(p)
    <2>1. stage'[p] = "credentials"
      BY <1>10 DEF CredentialsStep, CredentialsFault, main
    <2> QED
      BY <2>1, SendStays
  <1> QED
    BY <1>4, <1>5, <1>6, <1>7, <1>8, <1>9, <1>10 DEF run, Around

\* What a step of one process changes of the sections is its own.
LEMMA OneMoves ==
    ASSUME DoneInv, [Next]_vars
    PROVE  \/ \A q \in Provisioners : /\ Same(q) /\ pubsubRun'[q] = pubsubRun[q]
                                      /\ storageRun'[q] = storageRun[q]
           \/ \E p \in Provisioners :
                 /\ run(p) \/ Around(p)
                 /\ \A q \in Provisioners : q # p =>
                       /\ Same(q) /\ pubsubRun'[q] = pubsubRun[q]
                       /\ storageRun'[q] = storageRun[q]
  <1>1. CommandInv /\ EffectType
    BY DEF DoneInv
  <1>2. ASSUME NEW p \in Provisioners, run(p) \/ Around(p), NEW q \in Provisioners, q # p
        PROVE  pubsubRun'[q] = pubsubRun[q] /\ storageRun'[q] = storageRun[q]
    <2>1. /\ pubsubRun' = pubsubRun \/ \E r : pubsubRun' = [pubsubRun EXCEPT ![p] = r]
          /\ storageRun' = storageRun \/ \E r : storageRun' = [storageRun EXCEPT ![p] = r]
      BY <1>2, RunsChange
    <2> QED
      BY <1>1, <1>2, <2>1 DEF EffectType
  <1>3. CASE \A q \in Provisioners : Same(q)
    <2>1. \/ pubsubRun' = pubsubRun /\ storageRun' = storageRun
          \/ \E p \in Provisioners : run(p) \/ Around(p)
      BY DEF Next, vars, ComesUp, pubsub, storage
    <2> QED
      BY <1>2, <1>3, <2>1
  <1>4. CASE \E p \in Provisioners :
                /\ run(p) \/ Around(p)
                /\ \A q \in Provisioners : q # p => Same(q)
    BY <1>2, <1>4
  <1> QED
    BY <1>1, <1>3, <1>4, OthersSame

\* The invariant is inductive.
LEMMA SendNext == SendInv /\ [Next]_vars => SendInv'
  <1> SUFFICES ASSUME SendInv, [Next]_vars PROVE SendInv'
    OBVIOUS
  <1>1. DoneInv /\ DoneInv'
    BY DoneNext DEF SendInv
  <1>2. ASSUME NEW q \in Provisioners, Same(q), pubsubRun'[q] = pubsubRun[q],
               storageRun'[q] = storageRun[q]
        PROVE  SendPart(q)'
    BY <1>2, SendStays DEF Same
  <1>3. \A q \in Provisioners : SendPart(q)'
    BY <1>1, <1>2, OneMoves, SendStep
  <1> QED
    BY <1>1, <1>3 DEF SendInv

\* It holds before any process is started.
LEMMA SendInit == Init => SendInv
  <1> SUFFICES ASSUME Init PROVE SendInv
    OBVIOUS
  <1>1. DoneInv
    BY DoneInit
  <1>2. \A p \in Provisioners : stage[p] = "idle"
    BY DEF Init
  <1> QED
    BY <1>1, <1>2 DEF SendInv, SendPart

\* A usable input is neither refused when the process starts nor when it is loaded.
LEMMA UsableIsTaken ==
    ASSUME NEW p, Usable(p)
    PROVE  /\ section(p) \in validSections /\ resolveDryRun(p) # {}
           /\ validate(p) /\ resolveProjectID(p) # ""
  <1>1. resolveDryRun(p) # {}
    <2>1. CASE input[p].dryRunFlag # {} \/ input[p].DRY_RUN = ""
      BY <2>1 DEF resolveDryRun
    <2>2. CASE input[p].dryRunFlag = {} /\ input[p].DRY_RUN # ""
      <3>1. input[p].DRY_RUN \in DOMAIN ParseBool
        BY <2>2 DEF Usable
      <3>2. ParseBool[input[p].DRY_RUN] \in resolveDryRun(p)
        BY <2>2, <3>1 DEF resolveDryRun
      <3> QED
        BY <3>2
    <2> QED
      BY <2>1, <2>2
  <1> QED
    BY <1>1 DEF Usable, resolveProjectID

\* A step of a process makes it fail only for a reason.
LEMMA FailsForAReason ==
    ASSUME SendInv, [Next]_vars, NEW p \in Provisioners, run(p) \/ Around(p),
           ~Down(p), Down(p)'
    PROVE  Reason(p)
  <1>1. SendPart(p) /\ DoneInv /\ CommandType /\ EffectType /\ PubSubPart(p)
    BY DEF SendInv, DoneInv, CommandInv, EffectInv
  <1> SUFFICES ASSUME Usable(p) PROVE Reason(p)
    BY DEF Reason
  <1>2. /\ section(p) \in validSections /\ resolveDryRun(p) # {}
        /\ validate(p) /\ resolveProjectID(p) # ""
    BY UsableIsTaken
  <1>3. CASE Start(p)
    <2>1. stage'[p] = "load"
      BY <1>1, <1>2, <1>3 DEF Start, CommandType
    <2> QED
      BY <2>1 DEF Down, pc
  <1>4. CASE load(p)
    <2>1. stage'[p] = "connectPubSub"
      BY <1>1, <1>2, <1>4 DEF load, CommandType
    <2> QED
      BY <2>1 DEF Down, pc
  <1>5. CASE connectPubSub(p)
    <2>1. stage[p] = "connectPubSub"
      BY <1>5 DEF connectPubSub
    <2>2. CASE "pubsub" \in up \/ ~(wants(p, "pubsub") /\ input[p].topics # <<>>)
      <3>1. stage'[p] = "connectStorage"
        BY <1>1, <1>5, <2>2 DEF connectPubSub, Connecting, CommandType
      <3> QED
        BY <3>1 DEF Down, pc
    <2> QED
      BY <2>1, <2>2 DEF Reason, wants, Wanted
  <1>6. CASE connectStorage(p)
    <2>1. stage[p] = "connectStorage"
      BY <1>6 DEF connectStorage
    <2>2. CASE "storage" \in up \/ ~(wants(p, "storage") /\ input[p].buckets # <<>>)
      <3>1. stage'[p] = "sections"
        BY <1>1, <1>6, <2>2 DEF connectStorage, Connecting, CommandType
      <3> QED
        BY <3>1 DEF Down, pc
    <2> QED
      BY <2>1, <2>2 DEF Reason, wants, Wanted
  <1>7. CASE Leave(p)
    <2>1. pc(p) = "ok"
      BY <1>7 DEF Leave, Down
    <2>2. stage'[p] = "sections"
      BY <1>1, <1>7, <2>1 DEF Leave, CommandType
    <2> QED
      BY <2>2 DEF Down, pc
  <1>8. CASE Enter(p)
    <2>1. CASE todo[p] = <<>>
      <3>1. stage'[p] = "exit 0"
        BY <1>1, <1>8, <2>1 DEF Enter, CommandType
      <3> QED
        BY <3>1 DEF Down, pc
    <2>2. CASE todo[p] # <<>>
      <3>1. stage'[p] = Head(todo[p])
        BY <1>1, <1>8, <2>2 DEF Enter, CommandType
      <3>2. Head(todo[p]) \in SectionNames
        <4>1. stage[p] \in InSections /\ TodoInv(p)
          BY <1>1, <1>8 DEF Enter, InSections, DoneInv, CommandInv, ProcessInv
        <4>2. todo[p] \in Seq(SectionNames)
          BY <4>1 DEF TodoInv
        <4> QED
          BY <2>2, <4>2
      <3>3. Head(todo[p]) = "pubsub" => pubsubRun'[p].pc = "loop"
        <4>1. SUFFICES ASSUME Head(todo[p]) = "pubsub" PROVE pubsubRun'[p].pc = "loop"
          OBVIOUS
        <4>2. PICK h : pubsubRun' = [pubsubRun EXCEPT ![p] = PubSub!Fresh("loop", h)]
          BY <1>8, <2>2, <4>1 DEF Enter, PubSub!Begin, PubSub!Become
        <4> QED
          BY <1>1, <4>2 DEF EffectType, PubSub!Fresh
      <3>4. Head(todo[p]) = "storage" => storageRun'[p].pc = "loop"
        <4>1. SUFFICES ASSUME Head(todo[p]) = "storage" PROVE storageRun'[p].pc = "loop"
          OBVIOUS
        <4>2. PICK h : storageRun' = [storageRun EXCEPT ![p] = Storage!Fresh("loop", h)]
          BY <1>8, <2>2, <4>1 DEF Enter, Storage!Begin, Storage!Become
        <4> QED
          BY <1>1, <4>2 DEF EffectType, Storage!Fresh
      <3>5. Head(todo[p]) = "credentials" => credentialsRun'[p].pc = "loop"
        <4>1. SUFFICES ASSUME Head(todo[p]) = "credentials" PROVE credentialsRun'[p].pc = "loop"
          OBVIOUS
        <4>2. credentialsRun' = [credentialsRun EXCEPT ![p] = Keys!Fresh("loop")]
          BY <1>8, <2>2, <4>1 DEF Enter, Keys!Begin, Keys!Become
        <4> QED
          BY <1>1, <4>2 DEF CommandType, Keys!Fresh
      <3> QED
        BY <3>1, <3>2, <3>3, <3>4, <3>5 DEF Down, pc, SectionNames
    <2> QED
      BY <2>1, <2>2
  <1>9. CASE PubSubStep(p)
    <2>1. stage'[p] = "pubsub" /\ stage[p] = "pubsub"
      BY <1>9 DEF PubSubStep, main
    <2>2. pubsubRun'[p].pc # "failed"
      BY <1>1, <1>2, <1>9, <2>1, PubSubNeverFails DEF SendPart
    <2> QED
      BY <2>1, <2>2 DEF Down, pc
  <1>10. CASE StorageStep(p)
    <2>1. stage'[p] = "storage" /\ stage[p] = "storage"
      BY <1>10 DEF StorageStep, main
    <2>2. storageRun'[p].pc = "failed" => ~backend.versioning
      BY <1>1, <1>10, <2>1, StorageSends DEF StorageStep
    <2> QED
      BY <2>1, <2>2 DEF Down, pc, Reason
  <1>11. CASE CredentialsStep(p)
    <2>1. stage'[p] = "credentials"
      BY <1>11 DEF CredentialsStep, main
    <2>2. credentialsRun'[p].pc # "failed"
      BY <1>1, <1>11, KeysNeverFail DEF CredentialsStep
    <2> QED
      BY <2>1, <2>2 DEF Down, pc
  <1>12. CASE Around(p)
    <2>1. faults' = faults + 1
      BY <1>12 DEF Around, PubSubFault, StorageFault, CredentialsFault, Stopped,
                   PubSub!Interrupt, PubSub!LostReply, Storage!CallFails, Storage!Killed,
                   Keys!CutShort
    <2> QED
      BY <2>1 DEF Reason
  <1> QED
    BY <1>3, <1>4, <1>5, <1>6, <1>7, <1>8, <1>9, <1>10, <1>11, <1>12 DEF run

-----------------------------------------------------------------------------
(* The theorems. *)

\* No section calls a client that was not made, whichever sections are selected
\* and however often the process is started.
THEOREM NoNilClient == Spec => []NeverNil
  <1>1. CommandInv => NeverNil
    BY DEF CommandInv, ProcessInv, AdminsInv, TodoInv, NeverNil, InSections, SectionNames
  <1> QED
    BY <1>1, CommandInit, CommandNext, PTL DEF Spec

\* Every key is for the project the clients work on.
THEOREM KeysForTheProject == Spec => []OneProject
  <1>1. CommandInv => OneProject
    BY DEF CommandInv, ProcessInv, LoadedInv, CredentialsPart, OneProject, AfterLoad,
           InSections, SectionNames
  <1> QED
    BY <1>1, CommandInit, CommandNext, PTL DEF Spec

\* A process that exits with 0 has done everything it was asked for, however
\* often it failed before and whatever other processes do; as for the storage
\* section alone, where the endpoint does not answer 409 for its own errors.
THEOREM ExitZeroIsDone == Spec /\ Storage!ErrorsAreTold => []ExitZeroMeansDone
  <1>1. ASSUME DoneInv, Storage!ErrorsAreTold PROVE ExitZeroMeansDone
    <2>1. ASSUME NEW p \in Provisioners, stage[p] = "exit 0", ~dryRun[p]
          PROVE  /\ Wanted(p, "pubsub") => TopicsThere(p)
                 /\ Wanted(p, "storage") => BucketsThere(p)
                 /\ Wanted(p, "credentials") => KeysThere(p)
      BY <1>1, <2>1 DEF DoneInv, EffectInv, OverPart, Over
    <2> QED
      BY <1>1, <2>1, DoneMeansDeclared DEF ExitZeroMeansDone, KeysThere
  <1>2. Storage!ErrorsAreTold /\ [Next]_vars => Storage!ErrorsAreTold'
    BY SameBackend
  <1> QED
    BY <1>1, <1>2, DoneInit, DoneNext, PTL DEF Spec

\* What is not selected, or only previewed, is left alone, wherever the setting
\* came from.
THEOREM AskedOnly == Spec => OnlyWhatIsAsked
  <1>1. ASSUME DoneInv, [Next]_vars, NEW p \in Provisioners
        PROVE  /\ pubsubRun'[p] # pubsubRun[p] =>
                     Wanted(p, "pubsub") /\ (AskedDry(p) => topics' = topics)
               /\ storageRun'[p] # storageRun[p] =>
                     Wanted(p, "storage") /\ (AskedDry(p) => buckets' = buckets)
               /\ credentialsRun'[p] # credentialsRun[p] =>
                     Wanted(p, "credentials") /\ (AskedDry(p) => files' = files)
    <2>1. CASE UNCHANGED <<pubsubRun, storageRun, credentialsRun>>
      BY <2>1
    <2>2. CASE run(p) \/ Around(p)
      <3>1. CASE stage[p] \in InSections
        <4>1. DryRunPart(p)
          BY <1>1 DEF DoneInv, EffectInv
        <4>2. AskedDry(p) => dryRun[p]
          BY <3>1, <4>1, DryIsDry
        <4> QED
          BY <1>1, <2>2, <4>2, RunsChange
      <3> QED
        BY <1>1, <2>1, <2>2, <3>1, OnlyInSections
    <2>3. ASSUME NEW q \in Provisioners, q # p, run(q) \/ Around(q)
          PROVE  /\ pubsubRun'[p] = pubsubRun[p] /\ storageRun'[p] = storageRun[p]
                 /\ credentialsRun'[p] = credentialsRun[p]
      <3>1. /\ pubsubRun' = pubsubRun \/ \E r : pubsubRun' = [pubsubRun EXCEPT ![q] = r]
            /\ storageRun' = storageRun \/ \E r : storageRun' = [storageRun EXCEPT ![q] = r]
            /\ credentialsRun' = credentialsRun
               \/ \E r : credentialsRun' = [credentialsRun EXCEPT ![q] = r]
        BY <1>1, <2>3, RunsChange
      <3>2. /\ DOMAIN pubsubRun = Provisioners /\ DOMAIN storageRun = Provisioners
            /\ DOMAIN credentialsRun = Provisioners
        BY <1>1 DEF DoneInv, EffectType, CommandInv, CommandType
      <3> QED
        BY <2>3, <3>1, <3>2
    <2>4. \/ UNCHANGED <<pubsubRun, storageRun, credentialsRun>>
          \/ \E q \in Provisioners : run(q) \/ Around(q)
      BY <1>1 DEF Next, vars, ComesUp, pubsub, storage, credentials
    <2> QED
      BY <2>1, <2>2, <2>3, <2>4
  <1>2. DoneInv /\ [Next]_vars =>
          [\A p \in Provisioners : stage[p] # "idle" =>
             LET dry == input[p].dryRunFlag = {TRUE} \/
                        (input[p].dryRunFlag = {} /\ input[p].DRY_RUN \in {"true", "1"})
             IN  /\ pubsubRun'[p] # pubsubRun[p] =>
                      Wanted(p, "pubsub") /\ (dry => topics' = topics)
                 /\ storageRun'[p] # storageRun[p] =>
                      Wanted(p, "storage") /\ (dry => buckets' = buckets)
                 /\ credentialsRun'[p] # credentialsRun[p] =>
                      Wanted(p, "credentials") /\ (dry => files' = files)]_vars
    BY <1>1 DEF AskedDry
  <1> QED
    BY <1>2, DoneInit, DoneNext, PTL DEF Spec, OnlyWhatIsAsked

\* A process with a usable input fails only when a call fails or it is killed, when
\* an endpoint it needs is not up as it connects, or when it has no versioning: never
\* because of what another process does, of where an earlier one stopped, or of what
\* is in the project.
THEOREM OnlyOutsideFails == Spec => NeverFailsByItself
  <1>1. ASSUME SendInv, [Next]_vars, NEW p \in Provisioners, ~Down(p), Down(p)'
        PROVE  Reason(p)
    <2>1. ASSUME Same(p), pubsubRun'[p] = pubsubRun[p], storageRun'[p] = storageRun[p]
          PROVE  FALSE
      BY <1>1, <2>1 DEF Same, Down, pc
    <2>2. DoneInv
      BY <1>1 DEF SendInv
    <2>3. run(p) \/ Around(p)
      BY <1>1, <2>1, <2>2, OneMoves
    <2> QED
      BY <1>1, <2>3, FailsForAReason
  <1>2. SendInv /\ [Next]_vars =>
          [\A p \in Provisioners : ~Down(p) /\ Down(p)' => Reason(p)]_vars
    BY <1>1
  <1> QED
    BY <1>2, SendInit, SendNext, PTL DEF Spec, NeverFailsByItself
=============================================================================
