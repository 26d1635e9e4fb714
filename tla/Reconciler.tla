----------------------------- MODULE Reconciler -----------------------------
(***************************************************************************)
(* What a section of the provisioner promises, whatever the resources are: *)
(* runs of it share a store of resources with the rest of the world.  A    *)
(* run creates what its file declares and is missing, changes only what    *)
(* its file declares and lets it change, deletes nothing, succeeds only    *)
(* when everything declared is there, and fails only with an excuse.       *)
(* The Pub/Sub section and the Cloud Storage section both implement it.    *)
(***************************************************************************)
EXTENDS Naturals

CONSTANT Runs

VARIABLES
    declares,   \* the resources each run's file declares
    updatable,  \* the ones among them with strategy update
    readonly,   \* whether the run is a dry run
    store,      \* the resources there are, a partial function from keys
    phase,      \* of each run: "idle", "running", "ok" or "failed"
    excuse,     \* what happened to each run since it began
    outside     \* how many changes somebody else has made

files == <<declares, updatable, readonly>>

vars == <<files, store, phase, excuse, outside>>

Excuses == {"interrupted", "deleted", "unsupported"}

Init ==
    /\ \A p \in Runs : updatable[p] \subseteq declares[p]
    /\ phase = [p \in Runs |-> "idle"]
    /\ excuse = [p \in Runs |-> {}]
    /\ outside = 0

Begin(p) ==
    /\ phase[p] # "running"
    /\ phase' = [phase EXCEPT ![p] = "running"]
    /\ excuse' = [excuse EXCEPT ![p] = {}]
    /\ UNCHANGED <<files, store, outside>>

\* Nothing else is touched: the others are as before, with k or without it.
Only(k) ==
    /\ DOMAIN store' = DOMAIN store \cup {k}
    /\ \A j \in DOMAIN store \ {k} : store'[j] = store[j]

Write(p) ==
    /\ ~readonly[p]
    /\ \E k \in declares[p] :
          /\ k \in DOMAIN store => k \in updatable[p]
          /\ Only(k)

Fail(p) ==
    /\ phase' = [phase EXCEPT ![p] = "failed"]
    /\ \E why \in SUBSET Excuses :
          /\ excuse[p] \cup why # {}
          /\ excuse' = [excuse EXCEPT ![p] = @ \cup why]

\* A run writes one resource or none, and goes on or fails.
Work(p) ==
    /\ phase[p] = "running"
    /\ Write(p) \/ UNCHANGED store
    /\ Fail(p) \/ UNCHANGED <<phase, excuse>>
    /\ UNCHANGED <<files, outside>>

Succeed(p) ==
    /\ phase[p] = "running"
    /\ readonly[p] \/ "deleted" \in excuse[p] \/ declares[p] \subseteq DOMAIN store
    /\ phase' = [phase EXCEPT ![p] = "ok"]
    /\ UNCHANGED <<files, store, excuse, outside>>

\* Somebody else adds or changes a resource, or deletes one.
Edit ==
    /\ outside' = outside + 1
    /\ DOMAIN store \subseteq DOMAIN store'
    /\ UNCHANGED <<files, phase, excuse>>

Delete ==
    /\ outside' = outside + 1
    /\ DOMAIN store' \subseteq DOMAIN store
    /\ excuse' = [p \in Runs |-> excuse[p] \cup {"deleted"}]
    /\ UNCHANGED <<files, phase>>

Next == (\E p \in Runs : Begin(p) \/ Work(p) \/ Succeed(p)) \/ Edit \/ Delete

Spec == Init /\ [][Next]_vars
=============================================================================
