----------------------- MODULE CredentialsProperties -----------------------
(***************************************************************************)
(* What the credentials section promises to the applications that load the *)
(* key files.                                                              *)
(***************************************************************************)
EXTENDS Credentials

Entries(p, f) == {i \in DOMAIN creds(p) : Target[creds(p)[i].path] = f}

Rotates(p, i) == creds(p)[i].strategy = "update"

\* Some file lets a run replace this key file.
MayReplace(f) == \E p \in Provisioners : \E i \in Entries(p, f) : Rotates(p, i)

\* Whether key k is what entry i of p's file declares.
AsDeclared(p, i, k) ==
    LET c == creds(p)[i]
    IN  /\ k.project_id = cfg[p].project_id
        /\ k.account = (IF c.account = "" THEN DefaultAccount ELSE c.account)
        /\ k.token_uri = (IF c.token_uri = "" THEN googleTokenURI ELSE c.token_uri)

BeingWritten(f) == \E p \in Provisioners : run[p].pc = "write" /\ FileAt(p) = f

-----------------------------------------------------------------------------
(* Invariants. *)

\* Every variable has its type, and a run that writes has a key to write.
TypeOK ==
    /\ files \in [Files -> Content]
    /\ loaded \in [Files -> Opt(Key)]
    /\ cfg \in [Provisioners -> CredentialsFile]
    /\ dryRun \in [Provisioners -> BOOLEAN]
    /\ run \in [Provisioners -> RunState]
    /\ \A p \in Provisioners : run[p].pc \in {"open", "write"} <=> run[p].key # {}
    /\ hurt \subseteq Files
    /\ faults \in 0..MaxFaults /\ reruns \in 0..MaxReruns

\* A key that an application has loaded stays the key in the file, unless an
\* entry for that file says strategy: update; README, "The file is never
\* rewritten once it exists".
LoadedKeyKept ==
    \A f \in Files :
        loaded[f] # {} /\ ~MayReplace(f) => files[f] = Whole(The(loaded[f]))

\* When a run has succeeded, every file it names holds a key that parses, if
\* no write to it was cut short; and where the entry says update and is the
\* only one for the file, the key is for the declared project, account and
\* token endpoint.
KeyFilesServed ==
    \A p \in Provisioners : run[p].pc = "ok" /\ ~dryRun[p] =>
        \A f \in Files \ hurt : \A i \in Entries(p, f) :
            /\ files[f].state = "whole"
            /\ Rotates(p, i) /\ Entries(p, f) = {i} =>
                  \A k \in files[f].key : AsDeclared(p, i, k)

\* When a run has succeeded, every file it names holds a key that parses:
\* config.go says of a credential that it exists so that libraries "have a
\* parseable file".
KeyFilesParse ==
    \A p \in Provisioners : run[p].pc = "ok" /\ ~dryRun[p] =>
        \A i \in DOMAIN creds(p) : files[Target[creds(p)[i].path]].state = "whole"

\* A file without a whole key is one that was never there, that is being
\* written, or whose write was cut short: no sequence of runs leaves one
\* behind otherwise.
BrokenOnlyByFaults ==
    \A f \in Files :
        files[f].state \notin {"absent", "whole"} => BeingWritten(f) \/ f \in hurt

\* A run that writes is at a valid entry, with a key that is what the entry
\* declares; it opens only a file that is not there, or that the entry lets it
\* replace, and the file is empty until it writes.
WritesAsDeclared(p) ==
    run[p].pc \in {"open", "write"} =>
        /\ ~dryRun[p] /\ run[p].ci \in DOMAIN creds(p)
        /\ \A k \in run[p].key : AsDeclared(p, run[p].ci, k)
        /\ run[p].pc = "open" => ~fileExists(FileAt(p)) \/ Rotates(p, run[p].ci)
        /\ run[p].pc = "write" => files[FileAt(p)] = Is("empty")

\* The volume and the runs are well formed, and os.WriteFile alone, however
\* runs follow each other, leaves no file without a whole key.
CredentialsInv ==
    /\ TypeOK
    /\ \A p \in Provisioners : validateCredentials(creds(p)) /\ WritesAsDeclared(p)
    /\ BrokenOnlyByFaults

\* What holds of the entries a run has passed, see KeyFilesServed.
ServedSoFar(p) ==
    run[p].pc \in Running \cup {"ok"} /\ ~dryRun[p] =>
        /\ run[p].pc = "ok" => run[p].ci > Len(creds(p))
        /\ \A f \in Files \ hurt : \A i \in Entries(p, f) : i < run[p].ci =>
              /\ files[f].state = "whole" \/ (run[p].pc = "write" /\ FileAt(p) = f)
              /\ Rotates(p, i) /\ Entries(p, f) = {i} =>
                    \A k \in files[f].key : AsDeclared(p, i, k)

AllServedSoFar == \A p \in Provisioners : ServedSoFar(p)

\* The conditions under which the guarantees hold: os.WriteFile is not atomic,
\* so two runs at once may interleave their writes, and a run for another
\* config file may replace the key.
OneAtATime ==
    \A p, q \in Provisioners :
        run[p].pc \in Running /\ run[q].pc \in Running => p = q

Alone == \A p, q \in Provisioners : p = q

-----------------------------------------------------------------------------
(* Liveness, under FairSpec. *)

\* The applications that need a file get to load its key, unless a write of
\* it is cut short.
ApplicationsStart ==
    \A p \in Provisioners : \A f \in Files :
        ~dryRun[p] /\ Entries(p, f) # {} ~> loaded[f] # {} \/ f \in hurt
=============================================================================
