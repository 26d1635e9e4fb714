------------------------- MODULE Credentials_proofs -------------------------
(***************************************************************************)
(* The credentials section, for every set of config files, volumes and     *)
(* bounds, and any number of provisioners that do not run at the same      *)
(* time: what it leaves in the key files.                                  *)
(***************************************************************************)
EXTENDS CredentialsProperties, TLAPS

-----------------------------------------------------------------------------
(* The values the model is built from. *)

\* The value of an optional that has one.
LEMMA TheOnly ==
    ASSUME NEW S, NEW o \in Opt(S), o # {}
    PROVE  The(o) \in S /\ o = {The(o)}
  <1>1. PICK x \in o : TRUE
    OBVIOUS
  <1>2. The(o) \in o
    BY <1>1 DEF The
  <1> QED
    BY <1>2 DEF Opt

\* One value, or none, is an optional.
LEMMA OptMember ==
    ASSUME NEW S, NEW x \in S
    PROVE  {x} \in Opt(S) /\ {} \in Opt(S)
  BY DEF Opt

\* The entry a run is at, and the file its path leads to (validateCredentials:
\* an entry without a path is refused).
LEMMA AtEntry ==
    ASSUME TypeOK, NEW p \in Provisioners, validateCredentials(creds(p)),
           NEW i \in DOMAIN creds(p)
    PROVE  /\ creds(p)[i] \in Credential
           /\ Target[creds(p)[i].path] \in Files
  <1>1. creds(p) \in Seq(Credential)
    BY DEF TypeOK, creds, CredentialsFile
  <1>2. creds(p)[i] \in Credential
    BY <1>1
  <1>3. creds(p)[i].path \in Texts \ {""}
    BY <1>2 DEF validateCredentials, Credential
  <1>4. Target \in [Texts \ {""} -> Files]
    BY CredentialsAssumption
  <1> QED
    BY <1>2, <1>3, <1>4

\* A run that has not passed its last credential is at one of them.
LEMMA InRange ==
    ASSUME TypeOK, NEW p \in Provisioners
    PROVE  /\ run[p].ci \in Nat \ {0} /\ Len(creds(p)) \in Nat
           /\ DOMAIN creds(p) = 1..Len(creds(p))
           /\ run[p].ci <= Len(creds(p)) => run[p].ci \in DOMAIN creds(p)
  <1>1. creds(p) \in Seq(Credential)
    BY DEF TypeOK, creds, CredentialsFile
  <1>2. Len(creds(p)) \in Nat /\ DOMAIN creds(p) = 1..Len(creds(p))
    BY <1>1
  <1>3. run[p].ci \in Nat \ {0}
    BY DEF TypeOK, RunState
  <1> QED
    BY <1>2, <1>3

\* A generated key is a key, and for the project, account and token endpoint
\* that the entry declares (Generate).
LEMMA GeneratedAsDeclared ==
    ASSUME TypeOK, NEW p \in Provisioners, NEW i \in DOMAIN creds(p),
           creds(p)[i] \in Credential, NEW pair \in Pairs,
           NEW k, k = Generate(cfg[p].project_id, creds(p)[i].account,
                               creds(p)[i].token_uri, pair)
    PROVE  k \in Key /\ AsDeclared(p, i, k)
  <1>1. cfg[p].project_id \in Texts
    BY DEF TypeOK, CredentialsFile
  <1>2. creds(p)[i].account \in Texts /\ creds(p)[i].token_uri \in Texts
    BY DEF Credential
  <1>3. DefaultAccount \in Texts /\ googleTokenURI \in Texts
    BY CredentialsAssumption
  <1>4. k \in Key
    BY <1>1, <1>2, <1>3 DEF Generate, Key
  <1>5. AsDeclared(p, i, k)
    BY DEF Generate, AsDeclared
  <1> QED
    BY <1>4, <1>5

\* The contents a write leaves are contents.
LEMMA Contents ==
    /\ \A s \in {"absent", "empty", "cut", "mixed"} : Is(s) \in Content
    /\ \A k \in Key : Whole(k) \in Content
  <1>1. {} \in Opt(Key) /\ \A k \in Key : {k} \in Opt(Key)
    BY DEF Opt
  <1> QED
    BY <1>1 DEF Is, Whole, Content

\* A write to a file that the open has just truncated leaves the whole key.
LEMMA OverwriteEmpty ==
    ASSUME NEW k PROVE Overwrite(Is("empty"), k) = Whole(k)
  BY DEF Overwrite, Is

-----------------------------------------------------------------------------
(* Steps. *)

\* No step changes what the provisioners were given.
LEMMA Given ==
    ASSUME [Next]_vars
    PROVE  /\ cfg' = cfg /\ dryRun' = dryRun
           /\ \A p \in Provisioners : creds(p)' = creds(p)
  <1>1. cfg' = cfg /\ dryRun' = dryRun
    BY DEF Next, vars, ProvisionCredentials, Start, Rerun, Work, ensureCredential,
           openFile, writeFile, sectionDone, CutShort, Load, inputs
  <1> QED
    BY <1>1 DEF creds

\* What the properties say of the config file stays as it is.
LEMMA GivenNames ==
    ASSUME cfg' = cfg
    PROVE  /\ \A p : creds(p)' = creds(p)
           /\ \A p, f : Entries(p, f)' = Entries(p, f)
           /\ \A p, i : Rotates(p, i)' = Rotates(p, i)
           /\ \A p, i, k : AsDeclared(p, i, k)' = AsDeclared(p, i, k)
           /\ \A f : MayReplace(f)' = MayReplace(f)
  <1>1. \A p : creds(p)' = creds(p)
    BY DEF creds
  <1>2. /\ \A p, f : Entries(p, f)' = Entries(p, f)
        /\ \A p, i : Rotates(p, i)' = Rotates(p, i)
    BY <1>1 DEF Entries, Rotates
  <1>3. \A p, i, k : AsDeclared(p, i, k)' = AsDeclared(p, i, k)
    BY <1>1 DEF AsDeclared
  <1> QED
    BY <1>1, <1>2, <1>3 DEF MayReplace

\* The effects of Advance on a run.
LEMMA AdvanceFields ==
    ASSUME NEW r \in RunState
    PROVE  /\ Advance(r) \in RunState
           /\ Advance(r).pc = "loop" /\ Advance(r).ci = r.ci + 1
           /\ Advance(r).key = {}
  <1>1. {} \in Opt(Key)
    BY DEF Opt
  <1>2. r.ci + 1 \in Nat \ {0}
    BY DEF RunState
  <1> QED
    BY <1>1, <1>2 DEF Advance, RunState, Running

\* The other runs are not on their way while one is.
LEMMA OthersRest ==
    ASSUME TypeOK, OneAtATime, NEW p \in Provisioners, run[p].pc \in Running,
           NEW q \in Provisioners, q # p
    PROVE  run[q].pc \notin Running /\ run[q].pc \notin {"open", "write"}
  BY DEF OneAtATime, Running

\* The types: a step of a run puts a run state in its place, and writes leave
\* contents in the files.
LEMMA TypeStep == CredentialsInv /\ [Next]_vars => TypeOK'
  <1> SUFFICES ASSUME CredentialsInv, [Next]_vars PROVE TypeOK'
    OBVIOUS
  <1>1. /\ files \in [Files -> Content] /\ loaded \in [Files -> Opt(Key)]
        /\ cfg \in [Provisioners -> CredentialsFile]
        /\ dryRun \in [Provisioners -> BOOLEAN]
        /\ run \in [Provisioners -> RunState]
        /\ \A p \in Provisioners : run[p].pc \in {"open", "write"} <=> run[p].key # {}
        /\ hurt \subseteq Files
        /\ faults \in 0..MaxFaults /\ reruns \in 0..MaxReruns
    BY DEF CredentialsInv, TypeOK
  <1>2. cfg' = cfg /\ dryRun' = dryRun
    BY Given
  <1>3. {} \in Opt(Key)
    BY DEF Opt
  <1>4. MaxFaults \in Nat /\ MaxReruns \in Nat
    BY CredentialsAssumption
  <1>5. ASSUME NEW p \in Provisioners, NEW r \in RunState, Become(p, r),
               r.pc \in {"open", "write"} <=> r.key # {}
        PROVE  /\ run' \in [Provisioners -> RunState]
               /\ \A q \in Provisioners : run'[q].pc \in {"open", "write"} <=> run'[q].key # {}
    BY <1>1, <1>5 DEF Become
  <1>6. Fresh("loop") \in RunState /\ Fresh("loop").pc = "loop" /\ Fresh("loop").key = {}
    BY <1>3 DEF Fresh, RunState, Running
  <1>7. ASSUME NEW p \in Provisioners, Start(p) PROVE TypeOK'
    BY <1>1, <1>2, <1>5, <1>6, <1>7 DEF Start, Begin, TypeOK, bounds
  <1>8. ASSUME NEW p \in Provisioners, Rerun(p) PROVE TypeOK'
    <2>1. reruns' \in 0..MaxReruns
      BY <1>1, <1>4, <1>8 DEF Rerun
    <2> QED
      BY <1>1, <1>2, <1>5, <1>6, <1>8, <2>1 DEF Rerun, Begin, TypeOK
  <1>9. ASSUME NEW p \in Provisioners, ensureCredential(p) PROVE TypeOK'
    <2>1. CASE Become(p, Advance(run[p]))
      BY <1>1, <1>2, <1>5, <1>9, <2>1, AdvanceFields DEF ensureCredential, TypeOK, bounds
    <2>2. CASE ~Become(p, Advance(run[p]))
      <3>1. run[p].ci \in DOMAIN creds(p)
        BY <1>9, InRange DEF ensureCredential, CredentialsInv
      <3>2. PICK pair \in Pairs :
                Become(p, [run[p] EXCEPT !.pc = "open", !.key =
                       {Generate(cfg[p].project_id, CredentialAt(p).account,
                                 CredentialAt(p).token_uri, pair)}])
        BY <1>9, <2>2 DEF ensureCredential, NewPairs
      <3>3. PICK k : k = Generate(cfg[p].project_id, CredentialAt(p).account,
                                  CredentialAt(p).token_uri, pair)
        OBVIOUS
      <3>4. k \in Key
        BY <3>1, <3>3, AtEntry, GeneratedAsDeclared DEF CredentialsInv, CredentialAt
      <3>5. {k} \in Opt(Key)
        BY <3>4 DEF Opt
      <3>6. [run[p] EXCEPT !.pc = "open", !.key = {k}] \in RunState
        BY <1>1, <3>5 DEF RunState, Running
      <3>7. Become(p, [run[p] EXCEPT !.pc = "open", !.key = {k}])
        BY <3>2, <3>3
      <3>8. /\ [run[p] EXCEPT !.pc = "open", !.key = {k}].pc = "open"
            /\ [run[p] EXCEPT !.pc = "open", !.key = {k}].key # {}
        BY <1>1 DEF RunState
      <3> QED
        BY <1>1, <1>2, <1>5, <1>9, <3>6, <3>7, <3>8 DEF ensureCredential, TypeOK, bounds
    <2> QED
      BY <2>1, <2>2
  <1>10. ASSUME NEW p \in Provisioners, openFile(p) PROVE TypeOK'
    <2>1. Is("empty") \in Content
      BY Contents
    <2>2. files' \in [Files -> Content]
      BY <1>1, <1>10, <2>1 DEF openFile
    <2>3. /\ [run[p] EXCEPT !.pc = "write"] \in RunState
          /\ [run[p] EXCEPT !.pc = "write"].pc = "write"
          /\ [run[p] EXCEPT !.pc = "write"].key = run[p].key
      BY <1>1 DEF RunState, Running
    <2>4. run[p].key # {}
      BY <1>1, <1>10 DEF openFile
    <2> QED
      BY <1>1, <1>2, <1>5, <1>10, <2>2, <2>3, <2>4 DEF openFile, TypeOK, bounds
  <1>11. ASSUME NEW p \in Provisioners, writeFile(p) PROVE TypeOK'
    <2>1. The(run[p].key) \in Key
      <3>1. run[p].key \in Opt(Key) /\ run[p].key # {}
        BY <1>1, <1>11 DEF writeFile, RunState
      <3> QED
        BY <3>1, TheOnly
    <2>2. \A c : Overwrite(c, The(run[p].key)) \in Content
      BY <2>1, Contents DEF Overwrite
    <2>3. files' \in [Files -> Content]
      BY <1>1, <1>11, <2>2 DEF writeFile
    <2>4. hurt' \subseteq Files
      BY <1>1, <1>11 DEF writeFile
    <2> QED
      BY <1>1, <1>2, <1>5, <1>11, <2>3, <2>4, AdvanceFields DEF writeFile, TypeOK, bounds
  <1>12. ASSUME NEW p \in Provisioners, sectionDone(p) PROVE TypeOK'
    <2>1. /\ [run[p] EXCEPT !.pc = "ok"] \in RunState
          /\ [run[p] EXCEPT !.pc = "ok"].pc = "ok"
          /\ [run[p] EXCEPT !.pc = "ok"].key = {}
      BY <1>1, <1>12 DEF sectionDone, RunState, Running
    <2> QED
      BY <1>1, <1>2, <1>5, <1>12, <2>1 DEF sectionDone, TypeOK, bounds
  <1>13. ASSUME NEW p \in Provisioners, CutShort(p) PROVE TypeOK'
    <2>1. /\ [run[p] EXCEPT !.pc = "failed", !.key = {}] \in RunState
          /\ [run[p] EXCEPT !.pc = "failed", !.key = {}].pc = "failed"
          /\ [run[p] EXCEPT !.pc = "failed", !.key = {}].key = {}
      BY <1>1, <1>3 DEF RunState, Running
    <2>2. files' \in [Files -> Content]
      BY <1>1, <1>13, Contents DEF CutShort
    <2>3. hurt' \subseteq Files
      <3>1. run[p].pc = "write" => FileAt(p) \in Files
        BY AtEntry DEF CredentialsInv, WritesAsDeclared, FileAt, CredentialAt
      <3> QED
        BY <1>1, <1>13, <3>1 DEF CutShort
    <2>4. faults' \in 0..MaxFaults
      BY <1>1, <1>4, <1>13 DEF CutShort
    <2> QED
      BY <1>1, <1>2, <1>5, <1>13, <2>1, <2>2, <2>3, <2>4 DEF CutShort, TypeOK
  <1>14. ASSUME NEW f \in Files, Load(f) PROVE TypeOK'
    <2>1. loaded' \in [Files -> Opt(Key)]
      BY <1>1, <1>14 DEF Load, Content
    <2> QED
      BY <1>1, <1>2, <1>14, <2>1 DEF Load, TypeOK, bounds
  <1>15. CASE UNCHANGED vars
    BY <1>1, <1>15 DEF vars, TypeOK
  <1> QED
    BY <1>7, <1>8, <1>9, <1>10, <1>11, <1>12, <1>13, <1>14, <1>15
    DEF Next, ProvisionCredentials, Work

\* What a run is about to write: set up with the key, and true until the write
\* as long as no other run writes in between.
LEMMA WritesStep ==
    CredentialsInv /\ OneAtATime /\ [Next]_vars
        => \A p \in Provisioners : WritesAsDeclared(p)'
  <1> SUFFICES ASSUME CredentialsInv, OneAtATime, [Next]_vars, NEW q \in Provisioners
               PROVE  WritesAsDeclared(q)'
    OBVIOUS
  <1>1. TypeOK /\ WritesAsDeclared(q) /\ \A p \in Provisioners : validateCredentials(creds(p))
    BY DEF CredentialsInv
  <1>2. run \in [Provisioners -> RunState] /\ files \in [Files -> Content]
    BY <1>1 DEF TypeOK
  <1>3. cfg' = cfg /\ dryRun' = dryRun
    BY Given
  <1>4. /\ creds(q)' = creds(q)
        /\ \A i : Rotates(q, i)' = Rotates(q, i)
        /\ \A i, k : AsDeclared(q, i, k)' = AsDeclared(q, i, k)
    BY <1>3, GivenNames
  <1>5. CASE run'[q] = run[q] /\ files' = files
    <2>1. FileAt(q)' = FileAt(q) /\ fileExists(FileAt(q))' = fileExists(FileAt(q))
      BY <1>4, <1>5 DEF FileAt, CredentialAt, fileExists
    <2> QED
      BY <1>1, <1>3, <1>4, <1>5, <2>1 DEF WritesAsDeclared
  <1>6. CASE run'[q].pc \notin {"open", "write"}
    BY <1>6 DEF WritesAsDeclared
  <1>7. ASSUME NEW p \in Provisioners, Start(p) \/ Rerun(p) \/ sectionDone(p)
        PROVE  WritesAsDeclared(q)'
    <2>1. files' = files /\ \E pc \in {"loop", "ok"} : \E r : run' = [run EXCEPT ![p] = r] /\ r.pc = pc
      BY <1>2, <1>7 DEF Start, Rerun, sectionDone, Begin, Become, Fresh, RunState
    <2> QED
      BY <1>2, <1>5, <1>6, <2>1
  <1>8. ASSUME NEW p \in Provisioners, ensureCredential(p)
        PROVE  WritesAsDeclared(q)'
    <2>1. files' = files
      BY <1>8 DEF ensureCredential
    <2>2. CASE Become(p, Advance(run[p]))
      <3>1. Advance(run[p]).pc = "loop"
        BY <1>2, AdvanceFields
      <3> QED
        BY <1>2, <1>5, <1>6, <2>1, <2>2, <3>1 DEF Become
    <2>3. CASE ~Become(p, Advance(run[p]))
      <3>1. run[p].ci \in DOMAIN creds(p)
        BY <1>1, <1>8, InRange DEF ensureCredential
      <3>2. PICK pair \in Pairs :
                Become(p, [run[p] EXCEPT !.pc = "open", !.key =
                       {Generate(cfg[p].project_id, CredentialAt(p).account,
                                 CredentialAt(p).token_uri, pair)}])
        BY <1>8, <2>3 DEF ensureCredential, NewPairs
      <3>3. PICK k : k = Generate(cfg[p].project_id, CredentialAt(p).account,
                                  CredentialAt(p).token_uri, pair)
        OBVIOUS
      <3>4. AsDeclared(p, run[p].ci, k)
        BY <1>1, <3>1, <3>3, AtEntry, GeneratedAsDeclared DEF CredentialAt
      <3>5. Become(p, [run[p] EXCEPT !.pc = "open", !.key = {k}])
        BY <3>2, <3>3
      <3>6. CASE q # p
        BY <1>2, <1>5, <2>1, <3>5, <3>6 DEF Become
      <3>7. CASE q = p
        <4>1. run'[q].pc = "open" /\ run'[q].ci = run[q].ci /\ run'[q].key = {k}
          BY <1>2, <3>5, <3>7 DEF Become, RunState
        <4>2. FileAt(q)' = FileAt(q) /\ fileExists(FileAt(q))' = fileExists(FileAt(q))
          BY <1>4, <2>1, <4>1 DEF FileAt, CredentialAt, fileExists
        <4>3. ~Skips(q) /\ ~dryRun[q]
          BY <1>8, <2>3, <3>7 DEF ensureCredential
        <4>4. ~fileExists(FileAt(q)) \/ Rotates(q, run[q].ci)
          BY <4>3 DEF Skips, EffectiveCredentialStrategy, Rotates, CredentialAt
        <4>5. ~dryRun'[q] /\ run'[q].ci \in DOMAIN creds(q)'
          BY <1>3, <1>4, <3>1, <3>7, <4>1, <4>3
        <4>6. PICK i : i = run[q].ci
          OBVIOUS
        <4>7. (\A x \in run[q].key : AsDeclared(q, i, x))' /\ run[q].ci' = i
          BY <1>4, <3>4, <3>7, <4>1, <4>6
        <4>8. (~fileExists(FileAt(q)) \/ Rotates(q, i))'
          BY <1>4, <4>2, <4>4, <4>6
        <4> QED
          BY <4>1, <4>5, <4>7, <4>8 DEF WritesAsDeclared
      <3> QED
        BY <3>6, <3>7
    <2> QED
      BY <2>2, <2>3
  <1>9. ASSUME NEW p \in Provisioners, openFile(p)
        PROVE  WritesAsDeclared(q)'
    <2>1. run[p].pc = "open"
      BY <1>9 DEF openFile
    <2>2. CASE q # p
      <3>1. run[q].pc \notin {"open", "write"}
        BY <1>1, <2>1, <2>2, OthersRest DEF Running
      <3> QED
        BY <1>2, <1>6, <1>9, <2>2, <3>1 DEF openFile, Become
    <2>3. CASE q = p
      <3>1. run'[q].pc = "write" /\ run'[q].ci = run[q].ci /\ run'[q].key = run[q].key
        BY <1>2, <1>9, <2>3 DEF openFile, Become, RunState
      <3>2. ~dryRun[q] /\ run[q].ci \in DOMAIN creds(q)
            /\ \A k \in run[q].key : AsDeclared(q, run[q].ci, k)
        BY <1>1, <2>1, <2>3 DEF WritesAsDeclared
      <3>3. FileAt(q) \in Files /\ FileAt(q)' = FileAt(q)
        <4>1. FileAt(q) \in Files
          BY <1>1, <3>2, AtEntry DEF FileAt, CredentialAt
        <4> QED
          BY <1>4, <3>1, <4>1 DEF FileAt, CredentialAt
      <3>4. files'[FileAt(q)'] = Is("empty")
        BY <1>2, <1>9, <2>3, <3>3 DEF openFile
      <3>5. PICK i : i = run[q].ci
        OBVIOUS
      <3>6. /\ ~dryRun'[q] /\ run'[q].ci = i /\ i \in DOMAIN creds(q)'
            /\ (\A k \in run[q].key : AsDeclared(q, i, k))'
        BY <1>3, <1>4, <3>1, <3>2, <3>5
      <3> QED
        BY <3>1, <3>4, <3>6 DEF WritesAsDeclared, Is
    <2> QED
      BY <2>2, <2>3
  <1>10. ASSUME NEW p \in Provisioners, writeFile(p) \/ CutShort(p)
         PROVE  WritesAsDeclared(q)'
    <2>1. run[p].pc \in Running
      BY <1>10 DEF writeFile, CutShort, Running
    <2>2. CASE q # p
      <3>1. run[q].pc \notin {"open", "write"}
        BY <1>1, <2>1, <2>2, OthersRest
      <3> QED
        BY <1>2, <1>6, <1>10, <2>2, <3>1 DEF writeFile, CutShort, Become
    <2>3. CASE q = p
      <3>1. run'[q].pc \in {"loop", "failed"}
        <4>1. Advance(run[p]).pc = "loop"
          BY <1>2, AdvanceFields
        <4>2. CASE writeFile(p)
          BY <1>2, <2>3, <4>1, <4>2 DEF writeFile, Become
        <4>3. CASE CutShort(p)
          BY <1>2, <2>3, <4>3 DEF CutShort, Become, RunState
        <4> QED
          BY <1>10, <4>2, <4>3
      <3> QED
        BY <1>6, <3>1
    <2> QED
      BY <2>2, <2>3
  <1>11. CASE (\E f \in Files : Load(f)) \/ UNCHANGED vars
    BY <1>5, <1>11 DEF Load, vars
  <1> QED
    BY <1>7, <1>8, <1>9, <1>10, <1>11 DEF Next, ProvisionCredentials, Work

\* A file without a whole key: the open leaves one that is being written, a
\* write into the truncated file makes it whole, and only a write that is cut
\* short leaves it behind.
LEMMA BrokenStep ==
    CredentialsInv /\ OneAtATime /\ [Next]_vars => BrokenOnlyByFaults'
  <1> SUFFICES ASSUME CredentialsInv, OneAtATime, [Next]_vars, NEW f \in Files,
                      files'[f].state \notin {"absent", "whole"}
               PROVE  BeingWritten(f)' \/ f \in hurt'
    BY DEF BrokenOnlyByFaults
  <1>1. TypeOK /\ BrokenOnlyByFaults
    BY DEF CredentialsInv
  <1>2. run \in [Provisioners -> RunState] /\ files \in [Files -> Content]
    BY <1>1 DEF TypeOK
  <1>3. cfg' = cfg /\ \A p : creds(p)' = creds(p)
    BY Given, GivenNames
  <1>4. ASSUME NEW q \in Provisioners, run'[q] = run[q] PROVE FileAt(q)' = FileAt(q)
    BY <1>3, <1>4 DEF FileAt, CredentialAt
  <1>5. ASSUME files'[f] = files[f] PROVE BeingWritten(f) \/ f \in hurt
    BY <1>1, <1>5 DEF BrokenOnlyByFaults
  <1>6. ASSUME NEW p \in Provisioners, run[p].pc \in Running, BeingWritten(f)
        PROVE  run[p].pc = "write" /\ FileAt(p) = f
    BY <1>1, <1>6, OthersRest DEF BeingWritten
  <1>7. ASSUME NEW p \in Provisioners, Start(p) \/ Rerun(p)
        PROVE  BeingWritten(f)' \/ f \in hurt'
    <2>1. files' = files /\ hurt' = hurt /\ run[p].pc # "write"
      BY <1>7 DEF Start, Rerun
    <2>2. \A q \in Provisioners : q # p => run'[q] = run[q]
      BY <1>2, <1>7 DEF Start, Rerun, Begin, Become
    <2>3. CASE BeingWritten(f)
      <3>1. PICK q \in Provisioners : run[q].pc = "write" /\ FileAt(q) = f
        BY <2>3 DEF BeingWritten
      <3>2. run'[q] = run[q]
        BY <2>1, <2>2, <3>1
      <3> QED
        BY <1>4, <3>1, <3>2 DEF BeingWritten
    <2> QED
      BY <1>5, <2>1, <2>3
  <1>8. ASSUME NEW p \in Provisioners, ensureCredential(p) \/ sectionDone(p)
        PROVE  BeingWritten(f)' \/ f \in hurt'
    <2>1. files' = files /\ hurt' = hurt /\ run[p].pc = "loop"
      BY <1>8 DEF ensureCredential, sectionDone
    <2> QED
      BY <1>5, <1>6, <2>1 DEF Running
  <1>9. ASSUME NEW p \in Provisioners, openFile(p)
        PROVE  BeingWritten(f)' \/ f \in hurt'
    <2>1. run[p].pc = "open" /\ hurt' = hurt
      BY <1>9 DEF openFile
    <2>2. CASE f = FileAt(p)
      <3>1. run'[p].pc = "write" /\ run'[p].ci = run[p].ci
        BY <1>2, <1>9 DEF openFile, Become, RunState
      <3>2. FileAt(p)' = f
        BY <1>3, <2>2, <3>1 DEF FileAt, CredentialAt
      <3> QED
        BY <3>1, <3>2 DEF BeingWritten
    <2>3. CASE f # FileAt(p)
      <3>1. files'[f] = files[f]
        BY <1>2, <1>9, <2>3 DEF openFile
      <3> QED
        BY <1>5, <1>6, <2>1, <3>1 DEF Running
    <2> QED
      BY <2>2, <2>3
  <1>10. ASSUME NEW p \in Provisioners, writeFile(p)
         PROVE  BeingWritten(f)' \/ f \in hurt'
    <2>1. run[p].pc = "write"
      BY <1>10 DEF writeFile
    <2>2. f # FileAt(p)
      <3>1. files[FileAt(p)] = Is("empty")
        BY <2>1 DEF CredentialsInv, WritesAsDeclared
      <3>2. ASSUME f = FileAt(p) PROVE files'[f] = Whole(The(run[p].key))
        BY <1>2, <1>10, <3>1, <3>2, OverwriteEmpty DEF writeFile
      <3> QED
        BY <3>2 DEF Whole
    <2>3. files'[f] = files[f]
      BY <1>2, <1>10, <2>2 DEF writeFile
    <2>4. f \in hurt
      BY <1>5, <1>6, <2>1, <2>2, <2>3 DEF Running
    <2> QED
      BY <1>10, <2>2, <2>4 DEF writeFile
  <1>11. ASSUME NEW p \in Provisioners, CutShort(p)
         PROVE  BeingWritten(f)' \/ f \in hurt'
    <2>1. run[p].pc \in Running
      BY <1>11 DEF CutShort
    <2>2. CASE run[p].pc = "write" /\ f = FileAt(p)
      BY <1>11, <2>2 DEF CutShort
    <2>3. CASE ~(run[p].pc = "write" /\ f = FileAt(p))
      <3>1. files'[f] = files[f]
        BY <1>2, <1>11, <2>3 DEF CutShort
      <3>2. f \in hurt
        BY <1>5, <1>6, <2>1, <2>3, <3>1
      <3> QED
        BY <1>11, <3>2 DEF CutShort
    <2> QED
      BY <2>2, <2>3
  <1>12. CASE (\E g \in Files : Load(g)) \/ UNCHANGED vars
    <2>1. files' = files /\ hurt' = hurt /\ run' = run
      BY <1>12 DEF Load, vars
    <2> QED
      BY <1>4, <1>5, <2>1 DEF BeingWritten
  <1> QED
    BY <1>7, <1>8, <1>9, <1>10, <1>11, <1>12 DEF Next, ProvisionCredentials, Work

\* A file with a key that nobody may replace keeps it: what a run opens was not
\* there when the run looked, and nobody else has written since.
LEMMA KeyStays ==
    ASSUME CredentialsInv, [Next]_vars, NEW f \in Files, ~MayReplace(f),
           files[f].state = "whole"
    PROVE  files'[f] = files[f]
  <1>1. files \in [Files -> Content] /\ run \in [Provisioners -> RunState]
    BY DEF CredentialsInv, TypeOK
  <1>2. ASSUME NEW p \in Provisioners, run[p].pc \in {"open", "write"} PROVE FileAt(p) # f
    <2>1. WritesAsDeclared(p)
      BY DEF CredentialsInv
    <2>2. CASE run[p].pc = "write"
      BY <2>1, <2>2 DEF WritesAsDeclared, Is
    <2>3. CASE run[p].pc = "open"
      <3>1. SUFFICES ASSUME FileAt(p) = f PROVE FALSE
        OBVIOUS
      <3>2. run[p].ci \in Entries(p, f)
        BY <2>1, <2>3, <3>1 DEF WritesAsDeclared, Entries, FileAt, CredentialAt
      <3>3. ~Rotates(p, run[p].ci)
        BY <3>2 DEF MayReplace
      <3> QED
        BY <2>1, <2>3, <3>1, <3>3 DEF WritesAsDeclared, fileExists
    <2> QED
      BY <1>2, <2>2, <2>3
  <1>3. ASSUME NEW p \in Provisioners, openFile(p) \/ writeFile(p) \/ CutShort(p)
        PROVE  files'[f] = files[f]
    <2>1. CASE openFile(p)
      BY <1>1, <1>2, <2>1 DEF openFile
    <2>2. CASE writeFile(p)
      BY <1>1, <1>2, <2>2 DEF writeFile
    <2>3. CASE CutShort(p)
      BY <1>1, <1>2, <2>3 DEF CutShort
    <2> QED
      BY <1>3, <2>1, <2>2, <2>3
  <1> QED
    BY <1>3 DEF Next, vars, ProvisionCredentials, Start, Rerun, Work, ensureCredential,
                sectionDone, Load

\* A key that was loaded is the one in the file.
LEMMA LoadedStep ==
    CredentialsInv /\ LoadedKeyKept /\ [Next]_vars => LoadedKeyKept'
  <1> SUFFICES ASSUME CredentialsInv, LoadedKeyKept, [Next]_vars, NEW f \in Files,
                      loaded'[f] # {}, ~MayReplace(f)'
               PROVE  files'[f] = Whole(The(loaded'[f]))
    BY DEF LoadedKeyKept, Whole, The
  <1>1. ~MayReplace(f)
    BY Given, GivenNames
  <1>2. loaded \in [Files -> Opt(Key)] /\ files \in [Files -> Content]
    BY DEF CredentialsInv, TypeOK
  <1>3. CASE loaded'[f] = loaded[f]
    <2>1. files[f] = Whole(The(loaded[f]))
      BY <1>1, <1>3 DEF LoadedKeyKept
    <2>2. files'[f] = files[f]
      BY <1>1, <2>1, KeyStays DEF Whole
    <2> QED
      BY <1>3, <2>1, <2>2
  <1>4. CASE loaded'[f] # loaded[f]
    <2>1. Load(f)
      BY <1>2, <1>4 DEF Next, vars, ProvisionCredentials, Start, Rerun, Work, CutShort,
                        ensureCredential, openFile, writeFile, sectionDone, Load
    <2>2. files' = files /\ files[f].state = "whole" /\ loaded'[f] = files[f].key
      BY <1>2, <2>1 DEF Load
    <2>3. files[f].key = {The(files[f].key)}
      <3>1. files[f].key \in Opt(Key) /\ files[f].key # {}
        BY <1>2, <2>2 DEF Content
      <3> QED
        BY <3>1, TheOnly
    <2>4. files[f] = [state |-> "whole", key |-> files[f].key]
      BY <1>2, <2>2 DEF Content
    <2> QED
      BY <2>2, <2>3, <2>4 DEF Whole
  <1> QED
    BY <1>3, <1>4

\* A provisioner on its own is one at a time.
LEMMA AloneIsOne == Alone => OneAtATime
  BY DEF Alone, OneAtATime

\* What a run has passed stays served: nobody else touches the files, and the
\* entry it is at is passed only with a key in its file.
LEMMA ServedStep ==
    ASSUME Alone
    PROVE  CredentialsInv /\ AllServedSoFar /\ [Next]_vars => AllServedSoFar'
  <1> SUFFICES ASSUME CredentialsInv, AllServedSoFar, [Next]_vars,
                      NEW p \in Provisioners,
                      run'[p].pc \in Running \cup {"ok"}, ~dryRun'[p]
               PROVE  /\ run'[p].pc = "ok" => run'[p].ci > Len(creds(p)')
                      /\ \A f \in Files \ hurt' : \A i \in Entries(p, f)' : i < run'[p].ci =>
                            /\ files'[f].state = "whole" \/ (run'[p].pc = "write" /\ FileAt(p)' = f)
                            /\ Rotates(p, i)' /\ Entries(p, f)' = {i} =>
                                  \A k \in files'[f].key : AsDeclared(p, i, k)'
    BY DEF AllServedSoFar, ServedSoFar
  <1>1. TypeOK /\ validateCredentials(creds(p)) /\ WritesAsDeclared(p) /\ BrokenOnlyByFaults
    BY DEF CredentialsInv
  <1>2. run \in [Provisioners -> RunState] /\ files \in [Files -> Content]
    BY <1>1 DEF TypeOK
  <1>3. cfg' = cfg /\ dryRun' = dryRun
    BY Given
  <1>4. /\ creds(p)' = creds(p)
        /\ \A f : Entries(p, f)' = Entries(p, f)
        /\ \A i : Rotates(p, i)' = Rotates(p, i)
        /\ \A i, k : AsDeclared(p, i, k)' = AsDeclared(p, i, k)
    BY <1>3, GivenNames
  <1>5. /\ run[p].ci \in Nat \ {0} /\ Len(creds(p)) \in Nat
        /\ DOMAIN creds(p) = 1..Len(creds(p))
        /\ \A f : Entries(p, f) \subseteq Nat \ {0}
    BY <1>1, InRange DEF Entries
  <1> DEFINE Served(f, i) ==
          /\ files[f].state = "whole"
          /\ Rotates(p, i) /\ Entries(p, f) = {i} =>
                \A k \in files[f].key : AsDeclared(p, i, k)
  <1>6. ASSUME run[p].pc \in Running \cup {"ok"}
        PROVE  /\ run[p].pc = "ok" => run[p].ci > Len(creds(p))
               /\ \A f \in Files \ hurt : \A i \in Entries(p, f) : i < run[p].ci =>
                     /\ files[f].state = "whole" \/ (run[p].pc = "write" /\ FileAt(p) = f)
                     /\ Rotates(p, i) /\ Entries(p, f) = {i} =>
                           \A k \in files[f].key : AsDeclared(p, i, k)
    BY <1>3, <1>6 DEF AllServedSoFar, ServedSoFar
  <1>7. CASE Start(p) \/ Rerun(p)
    <2>1. run'[p].ci = 1 /\ run'[p].pc = "loop"
      BY <1>2, <1>7 DEF Start, Rerun, Begin, Become, Fresh
    <2> QED
      BY <1>4, <1>5, <2>1
  <1>8. CASE ensureCredential(p)
    <2>1. /\ run[p].pc = "loop" /\ files' = files /\ hurt' = hurt
          /\ run[p].ci <= Len(creds(p)) /\ run[p].ci \in DOMAIN creds(p)
      BY <1>1, <1>8, InRange DEF ensureCredential
    <2>2. CASE Become(p, Advance(run[p]))
      <3>1. run'[p].pc = "loop" /\ run'[p].ci = run[p].ci + 1
        <4>1. Advance(run[p]).pc = "loop" /\ Advance(run[p]).ci = run[p].ci + 1
          BY <1>2, AdvanceFields
        <4> QED
          BY <1>2, <2>2, <4>1 DEF Become
      <3>2. Skips(p)
        <4>1. SUFFICES ASSUME ~Skips(p) PROVE FALSE
          OBVIOUS
        <4>2. PICK pair \in Pairs :
                Become(p, [run[p] EXCEPT !.pc = "open", !.key =
                       {Generate(cfg[p].project_id, CredentialAt(p).account,
                                 CredentialAt(p).token_uri, pair)}])
          BY <1>3, <1>8, <4>1 DEF ensureCredential, NewPairs
        <4>3. run'[p].pc = "open"
          BY <1>2, <4>2 DEF Become, RunState
        <4> QED
          BY <3>1, <4>3
      <3>3. ~Rotates(p, run[p].ci)
        BY <3>2 DEF Skips, EffectiveCredentialStrategy, Rotates, CredentialAt
      <3>4. FileAt(p) \notin hurt => files[FileAt(p)].state = "whole"
        <4>1. FileAt(p) \in Files
          BY <1>1, <2>1, AtEntry DEF FileAt, CredentialAt
        <4>2. ~BeingWritten(FileAt(p))
          BY <2>1 DEF BeingWritten, Alone
        <4> QED
          BY <1>1, <3>2, <4>1, <4>2 DEF BrokenOnlyByFaults, Skips, fileExists
      <3>5. ASSUME NEW f \in Files \ hurt, NEW i \in Entries(p, f), i < run[p].ci + 1
            PROVE  Served(f, i)
        <4>1. CASE i < run[p].ci
          BY <1>6, <2>1, <4>1 DEF Running
        <4>2. CASE i = run[p].ci
          <5>1. FileAt(p) = f
            BY <4>2 DEF Entries, FileAt, CredentialAt
          <5> QED
            BY <3>3, <3>4, <4>2, <5>1
        <4> QED
          BY <1>5, <3>5, <4>1, <4>2
      <3> QED
        BY <1>4, <2>1, <3>1, <3>5
    <2>3. CASE ~Become(p, Advance(run[p]))
      <3>1. PICK pair \in Pairs :
                Become(p, [run[p] EXCEPT !.pc = "open", !.key =
                       {Generate(cfg[p].project_id, CredentialAt(p).account,
                                 CredentialAt(p).token_uri, pair)}])
        BY <1>8, <2>3 DEF ensureCredential, NewPairs
      <3>2. run'[p].pc = "open" /\ run'[p].ci = run[p].ci
        BY <1>2, <3>1 DEF Become, RunState
      <3> QED
        BY <1>4, <1>6, <2>1, <3>2 DEF Running
    <2> QED
      BY <2>2, <2>3
  <1>9. CASE openFile(p)
    <2>1. run[p].pc = "open" /\ run[p].ci \in DOMAIN creds(p) /\ hurt' = hurt
      BY <1>1, <1>9 DEF openFile, WritesAsDeclared
    <2>2. run'[p].pc = "write" /\ run'[p].ci = run[p].ci
      BY <1>2, <1>9 DEF openFile, Become, RunState
    <2>3. FileAt(p)' = FileAt(p) /\ run[p].ci \in Entries(p, FileAt(p))
      BY <1>4, <2>1, <2>2 DEF FileAt, CredentialAt, Entries
    <2>4. \A f \in Files : f # FileAt(p) => files'[f] = files[f]
      BY <1>2, <1>9 DEF openFile
    <2>5. ASSUME NEW f \in Files \ hurt, NEW i \in Entries(p, f), i < run[p].ci
          PROVE  /\ files'[f].state = "whole" \/ FileAt(p) = f
                 /\ Rotates(p, i) /\ Entries(p, f) = {i} =>
                       \A k \in files'[f].key : AsDeclared(p, i, k)
      <3>1. CASE f # FileAt(p)
        BY <1>6, <2>1, <2>4, <2>5, <3>1 DEF Running
      <3>2. CASE f = FileAt(p)
        BY <1>5, <2>3, <2>5, <3>2
      <3> QED
        BY <3>1, <3>2
    <2> QED
      BY <1>4, <2>1, <2>2, <2>3, <2>5
  <1>10. CASE writeFile(p)
    <2>1. /\ run[p].pc = "write" /\ run[p].ci \in DOMAIN creds(p)
          /\ files[FileAt(p)] = Is("empty")
          /\ \A k \in run[p].key : AsDeclared(p, run[p].ci, k)
      BY <1>1, <1>10 DEF writeFile, WritesAsDeclared
    <2>2. run'[p].pc = "loop" /\ run'[p].ci = run[p].ci + 1
      <3>1. Advance(run[p]).pc = "loop" /\ Advance(run[p]).ci = run[p].ci + 1
        BY <1>2, AdvanceFields
      <3> QED
        BY <1>2, <1>10, <3>1 DEF writeFile, Become
    <2>3. run[p].ci \in Entries(p, FileAt(p))
      BY <2>1 DEF FileAt, CredentialAt, Entries
    <2>4. \A f \in Files : f # FileAt(p) => files'[f] = files[f]
      BY <1>2, <1>10 DEF writeFile
    <2>5. FileAt(p) \in Files
      BY <1>1, <2>1, AtEntry DEF FileAt, CredentialAt
    <2>6. The(run[p].key) \in run[p].key
      <3>1. run[p].key \in Opt(Key) /\ run[p].key # {}
        BY <1>1, <1>2, <2>1 DEF RunState, TypeOK
      <3> QED
        BY <3>1, TheOnly
    <2>7. files'[FileAt(p)] = Whole(The(run[p].key))
      BY <1>2, <1>10, <2>1, <2>5, OverwriteEmpty DEF writeFile
    <2>8. /\ files'[FileAt(p)].state = "whole"
          /\ \A k \in files'[FileAt(p)].key : AsDeclared(p, run[p].ci, k)
      BY <2>1, <2>6, <2>7 DEF Whole
    <2>9. ASSUME NEW f \in Files \ hurt', NEW i \in Entries(p, f), i < run[p].ci + 1
          PROVE  /\ files'[f].state = "whole"
                 /\ Rotates(p, i) /\ Entries(p, f) = {i} =>
                       \A k \in files'[f].key : AsDeclared(p, i, k)
      <3>1. CASE f = FileAt(p)
        BY <2>3, <2>8, <3>1
      <3>2. CASE f # FileAt(p)
        <4>1. f \notin hurt
          BY <1>10, <2>9, <3>2 DEF writeFile
        <4>2. i # run[p].ci
          BY <3>2 DEF Entries, FileAt, CredentialAt
        <4>3. i < run[p].ci
          BY <1>5, <2>9, <4>2
        <4> QED
          BY <1>6, <2>1, <2>4, <3>2, <4>1, <4>3 DEF Running
      <3> QED
        BY <3>1, <3>2
    <2> QED
      BY <1>4, <2>2, <2>9
  <1>11. CASE sectionDone(p)
    <2>1. /\ run[p].pc = "loop" /\ files' = files /\ hurt' = hurt
          /\ run[p].ci > Len(creds(p))
      BY <1>11 DEF sectionDone
    <2>2. run'[p].pc = "ok" /\ run'[p].ci = run[p].ci
      BY <1>2, <1>11 DEF sectionDone, Become, RunState
    <2> QED
      BY <1>4, <1>6, <2>1, <2>2 DEF Running
  <1>12. CASE CutShort(p)
    <2>1. run'[p].pc = "failed"
      BY <1>2, <1>12 DEF CutShort, Become, RunState
    <2> QED
      BY <2>1 DEF Running
  <1>13. CASE (\E f \in Files : Load(f)) \/ UNCHANGED vars
    <2>1. files' = files /\ hurt' = hurt /\ run' = run
      BY <1>13 DEF Load, vars
    <2>2. FileAt(p)' = FileAt(p)
      BY <1>4, <2>1 DEF FileAt, CredentialAt
    <2> QED
      BY <1>4, <1>6, <2>1, <2>2
  <1> QED
    BY <1>7, <1>8, <1>9, <1>10, <1>11, <1>12, <1>13
    DEF Next, ProvisionCredentials, Work, Alone

-----------------------------------------------------------------------------
(* The theorems. *)

\* A volume is in order before the first run: what is broken on it is known to
\* have been cut short.
LEMMA CredentialsInit == Init => CredentialsInv /\ LoadedKeyKept /\ AllServedSoFar
  <1> SUFFICES ASSUME Init PROVE CredentialsInv /\ LoadedKeyKept /\ AllServedSoFar
    OBVIOUS
  <1>1. {} \in Opt(Key)
    BY DEF Opt
  <1>2. Fresh("idle") \in RunState /\ Fresh("idle").pc = "idle" /\ Fresh("idle").key = {}
    BY <1>1 DEF Fresh, RunState, Running
  <1>3. files \in [Files -> Content] /\ loaded \in [Files -> Opt(Key)]
    BY <1>1, CredentialsAssumption DEF Init
  <1>4. cfg \in [Provisioners -> CredentialsFile] /\ dryRun \in [Provisioners -> BOOLEAN]
    BY CredentialsAssumption DEF Init
  <1>5. run \in [Provisioners -> RunState]
    BY <1>2 DEF Init
  <1>6. \A p \in Provisioners : run[p].pc = "idle" /\ run[p].key = {}
    BY <1>2 DEF Init
  <1>7. hurt \subseteq Files
    BY DEF Init
  <1>8. faults \in 0..MaxFaults /\ reruns \in 0..MaxReruns
    <2>1. MaxFaults \in Nat /\ MaxReruns \in Nat
      BY CredentialsAssumption
    <2> QED
      BY <2>1 DEF Init
  <1>9. TypeOK
    BY <1>3, <1>4, <1>5, <1>6, <1>7, <1>8 DEF TypeOK
  <1>10. \A p \in Provisioners : validateCredentials(creds(p)) /\ WritesAsDeclared(p)
    BY <1>6 DEF Init, creds, WritesAsDeclared
  <1>11. BrokenOnlyByFaults
    BY DEF Init, BrokenOnlyByFaults
  <1>12. LoadedKeyKept
    BY DEF Init, LoadedKeyKept
  <1>13. AllServedSoFar
    BY <1>6 DEF AllServedSoFar, ServedSoFar, Running
  <1> QED
    BY <1>9, <1>10, <1>11, <1>12, <1>13 DEF CredentialsInv

\* The invariant is inductive as long as no two runs overlap.
LEMMA CredentialsStep ==
    CredentialsInv /\ OneAtATime /\ [Next]_vars => CredentialsInv'
  <1> SUFFICES ASSUME CredentialsInv, OneAtATime, [Next]_vars PROVE CredentialsInv'
    OBVIOUS
  <1>1. TypeOK' /\ BrokenOnlyByFaults' /\ \A p \in Provisioners : WritesAsDeclared(p)'
    BY TypeStep, WritesStep, BrokenStep
  <1>2. \A p \in Provisioners : validateCredentials(creds(p))'
    BY Given DEF CredentialsInv, validateCredentials
  <1> QED
    BY <1>1, <1>2 DEF CredentialsInv

\* Runs that do not overlap, however many provisioners there are and wherever
\* they are killed, leave no file without a whole key but one whose write was
\* cut short.
THEOREM CredentialsInvariant == Spec /\ []OneAtATime => []CredentialsInv
  BY CredentialsInit, CredentialsStep, PTL DEF Spec

\* A key that an application has loaded stays in the file unless an entry says
\* strategy: update, as long as no two runs overlap.
THEOREM LoadedKeyIsKept == Spec /\ []OneAtATime => []LoadedKeyKept
  BY CredentialsInit, CredentialsStep, LoadedStep, PTL DEF Spec

\* A provisioner on its own leaves, when it succeeds, a key that parses in every
\* file whose write was not cut short, and the declared key where the entry
\* says update.
THEOREM KeyFilesAreServed == Alone => (Spec => []KeyFilesServed)
  <1> SUFFICES ASSUME Alone PROVE Spec => []KeyFilesServed
    OBVIOUS
  <1>1. CredentialsInv /\ AllServedSoFar => KeyFilesServed
    <2> SUFFICES ASSUME CredentialsInv, AllServedSoFar, NEW p \in Provisioners,
                        run[p].pc = "ok", ~dryRun[p],
                        NEW f \in Files \ hurt, NEW i \in Entries(p, f)
                 PROVE  /\ files[f].state = "whole"
                        /\ Rotates(p, i) /\ Entries(p, f) = {i} =>
                              \A k \in files[f].key : AsDeclared(p, i, k)
      BY DEF KeyFilesServed
    <2>1. i < run[p].ci
      <3>1. run[p].ci > Len(creds(p))
        BY DEF AllServedSoFar, ServedSoFar
      <3>2. i \in 1..Len(creds(p)) /\ run[p].ci \in Nat /\ Len(creds(p)) \in Nat
        BY InRange DEF CredentialsInv, Entries
      <3> QED
        BY <3>1, <3>2
    <2> QED
      BY <2>1 DEF AllServedSoFar, ServedSoFar
  <1>2. CredentialsInv /\ AllServedSoFar /\ [Next]_vars => (CredentialsInv /\ AllServedSoFar)'
    BY AloneIsOne, CredentialsStep, ServedStep
  <1> QED
    BY <1>1, <1>2, CredentialsInit, PTL DEF Spec
=============================================================================
