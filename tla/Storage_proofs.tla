--------------------------- MODULE Storage_proofs ---------------------------
(***************************************************************************)
(* The Cloud Storage section for any number of provisioners, any config    *)
(* files and any endpoint: what a run writes, when it fails, what holds    *)
(* when it has succeeded, and that it implements Reconciler.               *)
(***************************************************************************)
EXTENDS StorageProperties, TLAPS

-----------------------------------------------------------------------------
(* The config file and the endpoint. *)

\* What StorageInv says of the variables, for one provisioner.
LEMMA Given ==
    ASSUME StorageInv, NEW p \in Provisioners
    PROVE  /\ run[p] \in RunState /\ run \in [Provisioners -> RunState]
           /\ cfg[p] \in StorageFile /\ validate(cfg[p])
           /\ backend \in Backend /\ dryRun[p] \in BOOLEAN
           /\ Placed(p) /\ HasReason(p) /\ WarnsTruly(p)
           /\ ErrorsAreTold => Passed(p) /\ Kept(p) /\ Rests(p)
  BY DEF StorageInv, TypeOK, RunInv

\* A bucket of a file that validate accepts.
LEMMA Entry ==
    ASSUME StorageInv, NEW p \in Provisioners, NEW i \in DOMAIN cfg[p].buckets
    PROVE  /\ cfg[p].buckets[i] \in Bucket
           /\ cfg[p].buckets[i].name \in BucketNames
           /\ EffectiveStrategy(cfg[p].buckets[i].strategy, cfg[p].strategy)
                \in {"create", "update"}
           /\ \A k \in DOMAIN cfg[p].buckets :
                cfg[p].buckets[k].name = cfg[p].buckets[i].name => k = i
  <1>1. cfg[p].buckets \in Seq(Bucket)
    BY Given DEF StorageFile
  <1>2. cfg[p].buckets[i] \in Bucket
    BY <1>1
  <1>3. cfg[p].buckets[i].strategy \in validStrategies /\ cfg[p].strategy \in validStrategies
    BY Given DEF validate, validateBuckets
  <1> QED
    BY <1>2, <1>3, Given DEF validate, validateBuckets, EffectiveStrategy, validStrategies

\* DOMAIN of a list of buckets.
LEMMA Positions ==
    ASSUME StorageInv, NEW p \in Provisioners
    PROVE  /\ Len(cfg[p].buckets) \in Nat
           /\ DOMAIN cfg[p].buckets = 1..Len(cfg[p].buckets)
           /\ run[p].bi \in Nat \ {0}
  BY Given DEF StorageFile, RunState

\* An endpoint keeps well-formed texts, and keeps them once it has kept them.
LEMMA OrText ==
    ASSUME NEW t \in Texts, NEW d \in {"US", "US-CENTRAL1", "STANDARD"}
    PROVE  /\ Or(t, d) \in Texts \ {""}
           /\ Upper[Or(t, d)] = Or(t, d)
           /\ Or(Or(t, d), d) = Or(t, d)
           /\ t # "" => Or(t, d) = Upper[t]
  <1>1. "" \notin {"US", "US-CENTRAL1", "STANDARD"} /\ d \in Texts /\ Upper[d] = d
    BY StorageAssumption
  <1>2. Or(t, d) \in Texts \ {""} /\ Upper[Or(t, d)] = Or(t, d)
    BY <1>1, StorageAssumption DEF Or
  <1> QED
    BY <1>2, <1>1 DEF Or

\* The bucket an endpoint makes of a request.
LEMMA StoredBucket ==
    ASSUME NEW e \in Backend, NEW b \in ClientBucket
    PROVE  /\ Stored(e, b) \in ClientBucket
           /\ Stored(e, b).VersioningEnabled = b.VersioningEnabled
           /\ Stored(e, Stored(e, b)) = Stored(e, b)
  <1>1. Or(b.Location, "US") \in Texts /\ Or(b.StorageClass, "STANDARD") \in Texts
    BY OrText DEF ClientBucket
  <1>2. /\ Or(Or(b.Location, "US"), "US") = Or(b.Location, "US")
        /\ Or(Or(b.StorageClass, "STANDARD"), "STANDARD") = Or(b.StorageClass, "STANDARD")
    BY OrText DEF ClientBucket
  <1> QED
    BY <1>1, <1>2, StorageAssumption DEF Stored, ClientBucket

\* On Cloud Storage a live bucket's texts are upper-case and not empty.
LEMMA CloudTexts ==
    ASSUME StorageInv, ~backend.emulator, NEW n \in DOMAIN live
    PROVE  /\ live[n] \in ClientBucket
           /\ live[n].Location # "" /\ Upper[live[n].Location] = live[n].Location
           /\ live[n].StorageClass # ""
           /\ Upper[live[n].StorageClass] = live[n].StorageClass
  <1>1. live[n] \in ClientBucket
    BY DEF StorageInv, TypeOK, IsProject
  <1>2. live[n].Location \in Texts /\ live[n].StorageClass \in Texts
    BY <1>1 DEF ClientBucket
  <1>3. /\ live[n].Location = Or(live[n].Location, "US")
        /\ live[n].StorageClass = Or(live[n].StorageClass, "STANDARD")
    <2>1. live[n] = Stored(backend, live[n])
      BY DEF StorageInv, Possible
    <2> QED
      BY <2>1 DEF Stored
  <1> QED
    BY <1>1, <1>2, <1>3, OrText

\* The attributes that differ, one by one.
LEMMA DifferingFields ==
    ASSUME NEW b, NEW l
    PROVE  /\ Differing(b, l) \subseteq {"location", "storage_class"}
           /\ "location" \in Differing(b, l)
                 <=> b.location # "" /\ l.Location # Upper[b.location]
           /\ "storage_class" \in Differing(b, l)
                 <=> b.storage_class # "" /\ l.StorageClass # Upper[b.storage_class]
  <1>1. /\ Differs(b, l)["location"] <=> b.location # "" /\ l.Location # Upper[b.location]
        /\ Differs(b, l)["storage_class"]
              <=> b.storage_class # "" /\ l.StorageClass # Upper[b.storage_class]
    BY DEF Differs
  <1> QED
    BY <1>1 DEF Differing

\* Then comparing without regard to case finds exactly what differs.
LEMMA DriftIsReal ==
    ASSUME StorageInv, ~backend.emulator, NEW n \in DOMAIN live, NEW b \in Bucket
    PROVE  createOnlyDrift(b, live[n]) = Differing(b, live[n])
  <1>1. b.location \in Texts /\ b.storage_class \in Texts
    BY DEF Bucket
  <1> DEFINE l == live[n]
  <1>2. /\ l.Location # "" /\ Upper[l.Location] = l.Location
        /\ l.StorageClass # "" /\ Upper[l.StorageClass] = l.StorageClass
    BY CloudTexts
  <1> HIDE DEF l
  <1>3. ASSUME NEW f \in {"location", "storage_class"}
        PROVE  f \in createOnlyDrift(b, l) <=> f \in Differing(b, l)
    BY <1>2, DifferingFields DEF createOnlyDrift, EqualFold
  <1>4. createOnlyDrift(b, l) = Differing(b, l)
    BY <1>3, DifferingFields DEF createOnlyDrift
  <1> QED
    BY <1>4 DEF l

-----------------------------------------------------------------------------
(* What a run does to the endpoint. *)

Created(p) ==
    /\ run[p].pc = "create" /\ CreateCall(p) = "ok"
    /\ live' = Put(live, Name(p), Stored(backend, Desired(p)))

Versioned(p) ==
    /\ run[p].pc = "version" /\ UpdateCall(p) = "ok"
    /\ live' = WithVersioning(p)

\* A step of p's run: p's record becomes r, and at most one bucket is written.
StepOf(p, r) ==
    /\ Become(p, r) /\ r \in RunState
    /\ UNCHANGED inputs
    /\ settled' \in BOOLEAN /\ (settled => settled')
    /\ faults' \in 0..MaxFaults /\ edits' = edits /\ reruns' \in 0..MaxReruns
    /\ Created(p) \/ Versioned(p) \/ UNCHANGED live

\* The request a run makes of a bucket of its file.
LEMMA DesiredType ==
    ASSUME StorageInv, NEW p \in Provisioners, run[p].bi \in DOMAIN cfg[p].buckets
    PROVE  /\ Desired(p) \in ClientBucket
           /\ BucketAt(p) \in Bucket /\ Name(p) \in BucketNames
           /\ BucketAt(p).versioning \in SUBSET BOOLEAN
           /\ BucketAt(p).versioning \subseteq {Desired(p).VersioningEnabled}
  <1>1. BucketAt(p) \in Bucket /\ Name(p) \in BucketNames
    BY Entry DEF BucketAt, Name
  <1>2. /\ BucketAt(p).versioning \in SUBSET BOOLEAN
        /\ \A x, y \in BucketAt(p).versioning : x = y
    BY <1>1 DEF Bucket, Opt
  <1>3. BucketAt(p).location \in Texts /\ Upper[BucketAt(p).storage_class] \in Texts
    BY <1>1, StorageAssumption DEF Bucket
  <1>4. Desired(p) \in ClientBucket
    BY <1>3 DEF Desired, ClientBucket
  <1>5. BucketAt(p).versioning \subseteq {Desired(p).VersioningEnabled}
    <2> DEFINE S == BucketAt(p).versioning
    <2>1. Desired(p).VersioningEnabled = (TRUE \in S)
      BY DEF Desired
    <2>2. S = {} \/ S = {TRUE} \/ S = {FALSE}
      BY <1>2
    <2> HIDE DEF S
    <2>3. ASSUME TRUE \in S PROVE S \subseteq {Desired(p).VersioningEnabled}
      BY <2>1, <2>2, <2>3
    <2>4. ASSUME TRUE \notin S PROVE S \subseteq {Desired(p).VersioningEnabled}
      <3>1. Desired(p).VersioningEnabled = FALSE
        <4>1. Desired(p).VersioningEnabled \in BOOLEAN
          BY <1>4 DEF ClientBucket
        <4>2. ~Desired(p).VersioningEnabled
          BY <2>1, <2>4, Zenon
        <4> QED
          BY <4>1, <4>2
      <3>2. S \subseteq {FALSE}
        BY <2>2, <2>4
      <3> QED
        BY <3>1, <3>2
    <2> QED
      BY <2>3, <2>4 DEF S
  <1> QED
    BY <1>1, <1>2, <1>4, <1>5

\* What CreateBucket does to the endpoint when it answers or its answer is lost.
LEMMA CreatedLive ==
    ASSUME StorageInv, NEW p \in Provisioners, Created(p)
    PROVE  /\ run[p].bi \in DOMAIN cfg[p].buckets /\ ~dryRun[p]
           /\ Name(p) \in BucketNames /\ Name(p) \notin DOMAIN live
           /\ DOMAIN live' = DOMAIN live \cup {Name(p)}
           /\ live' = [n \in DOMAIN live' |-> live'[n]]
           /\ live'[Name(p)] = Stored(backend, Desired(p))
           /\ live'[Name(p)] \in ClientBucket
           /\ live'[Name(p)].VersioningEnabled = Desired(p).VersioningEnabled
           /\ live'[Name(p)].VersioningEnabled => backend.versioning
           /\ Stored(backend, live'[Name(p)]) = live'[Name(p)]
           /\ \A n \in DOMAIN live : live'[n] = live[n]
  <1>1. run[p].bi \in DOMAIN cfg[p].buckets /\ ~dryRun[p] /\ backend \in Backend
    BY Given DEF Created, Placed
  <1> DEFINE b == Desired(p)
             new == Stored(backend, b)
  <1>2. /\ b \in ClientBucket /\ new \in ClientBucket /\ Name(p) \in BucketNames
        /\ new.VersioningEnabled = b.VersioningEnabled
        /\ Stored(backend, new) = new
    BY <1>1, DesiredType, StoredBucket
  <1>3. /\ Name(p) \notin DOMAIN live
        /\ b.VersioningEnabled => backend.versioning
    BY DEF Created, CreateCall, CreateReply
  <1>4. live' = Put(live, Name(p), new)
    BY DEF Created
  <1> HIDE DEF b, new
  <1>5. /\ live' = [n \in DOMAIN live' |-> live'[n]]
        /\ DOMAIN live' = DOMAIN live \cup {Name(p)}
        /\ live'[Name(p)] = new
        /\ \A n \in DOMAIN live : live'[n] = live[n]
    BY <1>3, <1>4 DEF Put
  <1> QED
    BY <1>1, <1>2, <1>3, <1>5 DEF b, new

\* What SetVersioning does to the endpoint.
LEMMA VersionedLive ==
    ASSUME StorageInv, NEW p \in Provisioners, Versioned(p)
    PROVE  /\ run[p].bi \in DOMAIN cfg[p].buckets /\ ~dryRun[p]
           /\ Name(p) \in DOMAIN live /\ DOMAIN live' = DOMAIN live
           /\ live' = [n \in DOMAIN live' |-> live'[n]]
           /\ \A n \in DOMAIN live : n # Name(p) => live'[n] = live[n]
           /\ live'[Name(p)]
                = [live[Name(p)] EXCEPT !.VersioningEnabled = Desired(p).VersioningEnabled]
           /\ live'[Name(p)] \in ClientBucket
           /\ live'[Name(p)].VersioningEnabled = Desired(p).VersioningEnabled
           /\ live'[Name(p)].VersioningEnabled => backend.versioning
           /\ live'[Name(p)].Location = live[Name(p)].Location
           /\ live'[Name(p)].StorageClass = live[Name(p)].StorageClass
           /\ Stored(backend, live'[Name(p)]) = live'[Name(p)]
  <1>1. run[p].bi \in DOMAIN cfg[p].buckets /\ ~dryRun[p] /\ IsProject(live)
    BY Given DEF Versioned, Placed, StorageInv, TypeOK
  <1> DEFINE k == Name(p)
             v == Desired(p).VersioningEnabled
  <1>2. v \in BOOLEAN
    BY <1>1, DesiredType DEF ClientBucket
  <1>3. k \in DOMAIN live /\ (v => backend.versioning)
    BY DEF Versioned, UpdateCall, UpdateReply
  <1>4. live' = [live EXCEPT ![k].VersioningEnabled = v]
    BY DEF Versioned, WithVersioning
  <1>5. live[k] = Stored(backend, live[k])
    BY <1>3 DEF StorageInv, Possible
  <1> HIDE DEF k, v
  <1>6. DOMAIN live' = DOMAIN live /\ \A n \in DOMAIN live : n # k => live'[n] = live[n]
    BY <1>3, <1>4, <1>1 DEF IsProject
  <1>7. live'[k] = [live[k] EXCEPT !.VersioningEnabled = v] /\ live[k] \in ClientBucket
    BY <1>3, <1>4, <1>1 DEF IsProject
  <1>8. /\ live'[k] \in ClientBucket /\ live'[k].VersioningEnabled = v
        /\ live'[k].Location = live[k].Location
        /\ live'[k].StorageClass = live[k].StorageClass
    BY <1>2, <1>7 DEF ClientBucket
  <1>9. live' = [n \in DOMAIN live' |-> live'[n]]
    BY <1>4, <1>6
  <1>10. Stored(backend, live'[k]) = live'[k]
    <2>1. /\ live[k].Location = Stored(backend, live[k]).Location
          /\ live[k].StorageClass = Stored(backend, live[k]).StorageClass
      BY <1>5
    <2> QED
      BY <2>1, <1>8 DEF Stored, ClientBucket
  <1> QED
    BY <1>1, <1>3, <1>6, <1>7, <1>8, <1>9, <1>10 DEF k, v

\* Nothing is deleted, and location and class of a bucket stay as they are.
LEMMA LiveStep ==
    ASSUME StorageInv, NEW p \in Provisioners, NEW r, StepOf(p, r)
    PROVE  /\ IsProject(live') /\ Possible(backend, live)'
           /\ DOMAIN live \subseteq DOMAIN live'
           /\ \A n \in DOMAIN live :
                /\ live'[n].Location = live[n].Location
                /\ live'[n].StorageClass = live[n].StorageClass
  <1>1. IsProject(live) /\ Possible(backend, live) /\ backend' = backend
    BY DEF StorageInv, TypeOK, StepOf, inputs
  <1>2. CASE UNCHANGED live
    BY <1>1, <1>2 DEF Possible
  <1>3. CASE Created(p)
    <2>1. IsProject(live')
      BY <1>1, <1>3, CreatedLive DEF IsProject
    <2>2. Possible(backend, live)'
      BY <1>1, <1>3, CreatedLive DEF Possible
    <2> QED
      BY <2>1, <2>2, <1>3, CreatedLive
  <1>4. CASE Versioned(p)
    <2>1. IsProject(live')
      BY <1>1, <1>4, VersionedLive DEF IsProject
    <2>2. Possible(backend, live)'
      BY <1>1, <1>4, VersionedLive DEF Possible
    <2> QED
      BY <2>1, <2>2, <1>4, VersionedLive
  <1> QED
    BY <1>2, <1>3, <1>4 DEF StepOf

\* What a run of the same file does leaves what is as declared so.
LEMMA DeclaredStep ==
    ASSUME StorageInv, NEW p \in Provisioners, NEW r, StepOf(p, r),
           NEW q \in Provisioners, cfg[q] = cfg[p],
           NEW i \in DOMAIN cfg[q].buckets, AsDeclared(q, i)
    PROVE  AsDeclared(q, i)'
  <1> DEFINE b == cfg[q].buckets[i]
  <1>1. cfg' = cfg
    BY DEF StepOf, inputs
  <1>2. MayUpdate(q, i)' <=> MayUpdate(q, i)
    BY <1>1 DEF MayUpdate
  <1>3. /\ b.name \in DOMAIN live
        /\ MayUpdate(q, i) => b.versioning \subseteq {live[b.name].VersioningEnabled}
    BY DEF AsDeclared
  <1>4. b.name \in DOMAIN live'
    BY <1>3, LiveStep
  <1>5. ASSUME MayUpdate(q, i) PROVE b.versioning \subseteq {live'[b.name].VersioningEnabled}
    <2>1. CASE live'[b.name] = live[b.name]
      BY <1>3, <1>5, <2>1
    <2>2. CASE Versioned(p) /\ b.name = Name(p)
      <3>1. run[p].bi \in DOMAIN cfg[p].buckets
        BY <2>2, VersionedLive
      <3>2. run[p].bi = i
        BY <2>2, <3>1, Entry DEF Name, BucketAt
      <3>3. BucketAt(p) = b
        BY <3>2 DEF BucketAt
      <3> QED
        BY <2>2, <3>1, <3>3, VersionedLive, DesiredType
    <2> QED
      BY <2>1, <2>2, <1>3, CreatedLive, VersionedLive DEF StepOf
  <1> QED
    BY <1>1, <1>2, <1>4, <1>5 DEF AsDeclared

\* Nor does it make wrong what another run has warned of, or has not.
LEMMA ReportedStep ==
    ASSUME StorageInv, NEW p \in Provisioners, NEW r, StepOf(p, r),
           NEW q \in Provisioners, run[q].warned \subseteq run'[q].warned,
           NEW i \in DOMAIN cfg[q].buckets, cfg[q].buckets[i].name \in DOMAIN live,
           Reported(q, i)
    PROVE  Reported(q, i)'
  <1> DEFINE b == cfg[q].buckets[i]
  <1>1. cfg' = cfg /\ backend' = backend
    BY DEF StepOf, inputs
  <1>2. /\ live'[b.name].Location = live[b.name].Location
        /\ live'[b.name].StorageClass = live[b.name].StorageClass
    BY LiveStep
  <1>3. Differs(b, live[b.name]) = Differs(b, live'[b.name])
    BY <1>2 DEF Differs
  <1>4. Differing(b, live[b.name]) = Differing(b, live'[b.name])
    BY <1>3 DEF Differing
  <1> QED
    BY <1>1, <1>4 DEF Reported

\* The bucket a run creates is as the file declares, and nothing of it is to be
\* warned of.
LEMMA CreatedHandled ==
    ASSUME StorageInv, NEW p \in Provisioners, NEW r, StepOf(p, r), Created(p),
           NEW q \in Provisioners, cfg[q] = cfg[p],
           NEW i \in DOMAIN cfg[q].buckets, cfg[q].buckets[i].name = Name(p)
    PROVE  Handled(q, i)'
  <1> DEFINE b == cfg[q].buckets[i]
             l == live'[b.name]
  <1>1. cfg' = cfg /\ backend' = backend
    BY DEF StepOf, inputs
  <1>2. run[p].bi \in DOMAIN cfg[p].buckets
    BY CreatedLive
  <1>3. BucketAt(p) = b
    BY <1>2, Entry DEF Name, BucketAt
  <1>4. b.name \in DOMAIN live' /\ b.versioning \subseteq {l.VersioningEnabled}
    BY <1>2, <1>3, CreatedLive, DesiredType
  <1>5. ASSUME ~backend.emulator PROVE Differing(b, l) = {}
    <2>1. /\ b.location \in Texts /\ b.storage_class \in Texts
          /\ Upper[b.storage_class] \in Texts
      BY Entry, StorageAssumption DEF Bucket
    <2>2. /\ l.Location = Or(b.location, "US")
          /\ l.StorageClass = Or(Upper[b.storage_class], "STANDARD")
      <3>1. /\ Desired(p).Location = b.location
            /\ Desired(p).StorageClass = Upper[b.storage_class]
        BY <1>3 DEF Desired
      <3>2. l = Stored(backend, Desired(p))
        BY CreatedLive
      <3> QED
        BY <1>5, <3>1, <3>2 DEF Stored
    <2>3. b.location # "" => l.Location = Upper[b.location]
      BY <2>1, <2>2, OrText
    <2>4. b.storage_class # "" => l.StorageClass = Upper[b.storage_class]
      <3>1. ASSUME b.storage_class # "" PROVE Upper[b.storage_class] # ""
        BY <3>1, <2>1, StorageAssumption
      <3> QED
        BY <2>1, <2>2, <3>1, OrText, StorageAssumption
    <2> HIDE DEF b, l
    <2>5. Differing(b, l) = {}
      BY <2>3, <2>4, DifferingFields
    <2> QED
      BY <2>5 DEF b, l
  <1>6. Reported(q, i)'
    BY <1>1, <1>5 DEF Reported
  <1>7. AsDeclared(q, i)'
    BY <1>1, <1>4 DEF AsDeclared
  <1> QED
    BY <1>6, <1>7 DEF Handled

-----------------------------------------------------------------------------
(* A step of one run, seen from the runs. *)

\* A run's success may settle the endpoint only when all is as declared.
SettlesRightly(p) ==
    settled' /\ ~settled /\ ErrorsAreTold /\ SameConfig(p) =>
        \A i \in DOMAIN cfg[p].buckets : AsDeclared(p, i)'

\* SameConfig is about the files, which nothing changes.
LEMMA SameFiles ==
    ASSUME NEW p \in Provisioners, UNCHANGED inputs
    PROVE  /\ SameConfig(p)' <=> SameConfig(p)
           /\ validate(cfg[p])' <=> validate(cfg[p])
           /\ backend' = backend /\ dryRun' = dryRun /\ cfg' = cfg
  BY DEF SameConfig, inputs, validate, validateBuckets

\* A settled endpoint stays as the common file declares.
LEMMA RestsStep ==
    ASSUME StorageInv, NEW p \in Provisioners, NEW r, StepOf(p, r), SettlesRightly(p),
           ErrorsAreTold, NEW q \in Provisioners, SameConfig(q), settled',
           NEW i \in DOMAIN cfg[q].buckets
    PROVE  AsDeclared(q, i)'
  <1>1. cfg[q] = cfg[p] /\ cfg' = cfg
    BY DEF SameConfig, StepOf, inputs
  <1>2. CASE settled
    BY <1>1, <1>2, Given, DeclaredStep DEF Rests
  <1>3. CASE ~settled
    <2>1. AsDeclared(p, i)' /\ SameConfig(p)
      BY <1>1, <1>3 DEF SettlesRightly, SameConfig
    <2> QED
      BY <1>1, <2>1 DEF AsDeclared, MayUpdate
  <1> QED
    BY <1>2, <1>3

\* Warnings stay true: the attributes they are about do not change.
LEMMA WarningsStep ==
    ASSUME StorageInv, NEW p \in Provisioners, NEW r, StepOf(p, r),
           NEW q \in Provisioners, NEW w \in run[q].warned,
           run'[q].history = run[q].history
    PROVE  /\ ~backend.emulator
           /\ Undisturbed(q)' =>
                \E i \in DOMAIN cfg'[q].buckets :
                   LET b == cfg'[q].buckets[i]
                   IN  /\ b.name = w[1] /\ b.name \in DOMAIN live'
                       /\ w[2] \in Differing(b, live'[b.name])
  <1>1. cfg' = cfg /\ (Undisturbed(q)' <=> Undisturbed(q))
    BY DEF StepOf, inputs, Undisturbed
  <1>2. /\ ~backend.emulator
        /\ Undisturbed(q) =>
                \E i \in DOMAIN cfg[q].buckets :
                   LET b == cfg[q].buckets[i]
                   IN  /\ b.name = w[1] /\ b.name \in DOMAIN live
                       /\ w[2] \in Differing(b, live[b.name])
    BY Given DEF WarnsTruly
  <1>3. ASSUME Undisturbed(q)
        PROVE  \E i \in DOMAIN cfg[q].buckets :
                   LET b == cfg[q].buckets[i]
                   IN  /\ b.name = w[1] /\ b.name \in DOMAIN live'
                       /\ w[2] \in Differing(b, live'[b.name])
    <2>1. PICK i \in DOMAIN cfg[q].buckets :
                /\ cfg[q].buckets[i].name = w[1]
                /\ cfg[q].buckets[i].name \in DOMAIN live
                /\ w[2] \in Differing(cfg[q].buckets[i], live[cfg[q].buckets[i].name])
      BY <1>2, <1>3
    <2> DEFINE b == cfg[q].buckets[i]
    <2>2. /\ b.name \in DOMAIN live'
          /\ live'[b.name].Location = live[b.name].Location
          /\ live'[b.name].StorageClass = live[b.name].StorageClass
      BY <2>1, LiveStep
    <2>3. Differs(b, live[b.name]) = Differs(b, live'[b.name])
      BY <2>2 DEF Differs
    <2>4. w[2] \in Differing(b, live'[b.name])
      BY <2>1, <2>3 DEF Differing
    <2> QED
      BY <2>1, <2>2, <2>4
  <1> QED
    BY <1>1, <1>2, <1>3

\* The run of another provisioner keeps its invariant.
LEMMA OthersKeep ==
    ASSUME StorageInv, NEW p \in Provisioners, NEW r, StepOf(p, r), SettlesRightly(p),
           NEW q \in Provisioners, q # p
    PROVE  RunInv(q)'
  <1>1. /\ run'[q] = run[q] /\ UNCHANGED inputs /\ (settled => settled')
    BY Given DEF StepOf, Become
  <1>2. /\ cfg' = cfg /\ backend' = backend /\ dryRun' = dryRun
        /\ SameConfig(q)' = SameConfig(q)
        /\ BucketAt(q)' = BucketAt(q) /\ Name(q)' = Name(q) /\ Strategy(q)' = Strategy(q)
        /\ Undisturbed(q)' = Undisturbed(q) /\ Under(q)' = Under(q)
    BY <1>1 DEF inputs, SameConfig, BucketAt, Name, Strategy, Undisturbed, Under
  <1>3. validate(cfg[q])' /\ HasReason(q)'
    BY <1>1, SameFiles, Given DEF HasReason
  <1>4. Placed(q)'
    BY <1>1, <1>2, Given, LiveStep DEF Placed
  <1>5. WarnsTruly(q)'
    BY <1>1, <1>2, WarningsStep DEF WarnsTruly
  <1>6. ASSUME ErrorsAreTold PROVE Passed(q)'
    BY <1>1, <1>2, <1>6, Given, LiveStep DEF Passed
  <1>7. ASSUME ErrorsAreTold PROVE Kept(q)'
    <2> SUFFICES ASSUME Under(q), SameConfig(q), Undisturbed(q), NEW i \in DOMAIN cfg[q].buckets
                 PROVE  /\ i < run[q].bi => Handled(q, i)'
                        /\ run[q].pc = "create" /\ i = run[q].bi /\ Name(q) \in DOMAIN live'
                              => Handled(q, i)'
                        /\ run[q].pc = "version" /\ i = run[q].bi => Reported(q, i)'
      <3>1. run[q].pc \in {"create", "version"} => run[q].bi \in DOMAIN cfg[q].buckets
        BY Given DEF Placed
      <3> QED
        BY <3>1, <1>1, <1>2 DEF Kept
    <2>1. cfg[q] = cfg[p]
      BY DEF SameConfig
    <2>2. ASSUME Handled(q, i) PROVE Handled(q, i)'
      <3>1. AsDeclared(q, i)'
        BY <2>1, <2>2, DeclaredStep DEF Handled
      <3>2. MayUpdate(q, i)' = MayUpdate(q, i)
        BY <1>2 DEF MayUpdate
      <3>3. MayUpdate(q, i) => Reported(q, i)'
        BY <1>1, <2>2, ReportedStep DEF Handled, AsDeclared
      <3> QED
        BY <3>1, <3>2, <3>3 DEF Handled
    <2>3. i < run[q].bi => Handled(q, i)'
      BY <1>7, <2>2, Given DEF Kept
    <2>4. ASSUME run[q].pc = "create", i = run[q].bi, Name(q) \in DOMAIN live'
          PROVE  Handled(q, i)'
      <3>1. CASE Name(q) \in DOMAIN live
        BY <1>7, <2>2, <2>4, <3>1, Given DEF Kept
      <3>2. CASE Name(q) \notin DOMAIN live
        <4>1. Created(p) /\ Name(q) = Name(p)
          BY <2>4, <3>2, CreatedLive, VersionedLive DEF StepOf
        <4> QED
          BY <2>1, <2>4, <4>1, CreatedHandled DEF Name, BucketAt
      <3> QED
        BY <3>1, <3>2
    <2>5. ASSUME run[q].pc = "version", i = run[q].bi PROVE Reported(q, i)'
      <3>1. cfg[q].buckets[i].name \in DOMAIN live
        BY <2>5, Given DEF Placed, Undisturbed, Name, BucketAt
      <3>2. Reported(q, i)
        BY <1>7, <2>5, Given DEF Kept
      <3> QED
        BY <1>1, <3>1, <3>2, ReportedStep
    <2> QED
      BY <2>3, <2>4, <2>5
  <1>8. ASSUME ErrorsAreTold PROVE Rests(q)'
    <2>1. SameConfig(q) /\ run[q].history = {"repeat"} => run[q].pc \notin {"create", "version"}
      BY <1>8, Given DEF Rests
    <2>2. ASSUME SameConfig(q), settled', NEW i \in DOMAIN cfg[q].buckets
          PROVE  AsDeclared(q, i)'
      BY <1>8, <2>2, RestsStep
    <2> QED
      BY <1>1, <1>2, <2>1, <2>2 DEF Rests
  <1> QED
    BY <1>2, <1>3, <1>4, <1>5, <1>6, <1>7, <1>8 DEF RunInv, ErrorsAreTold

-----------------------------------------------------------------------------
(* The run that takes the step. *)

\* The records that Advance, Goto, Fail and Warn make.
LEMMA AdvanceFields ==
    ASSUME NEW r \in RunState
    PROVE  /\ Advance(r) \in RunState /\ Advance(r).pc = "loop"
           /\ Advance(r).bi = r.bi + 1
           /\ Advance(r).warned = r.warned /\ Advance(r).history = r.history
  <1> DEFINE n == r.bi + 1
  <1>1. n \in Nat \ {0}
    BY DEF RunState
  <1>2. Advance(r) = [r EXCEPT !.pc = "loop", !.bi = n]
    BY DEF Advance
  <1> HIDE DEF n
  <1>3. /\ Advance(r) \in RunState /\ Advance(r).pc = "loop" /\ Advance(r).bi = n
        /\ Advance(r).warned = r.warned /\ Advance(r).history = r.history
    BY <1>1, <1>2 DEF RunState, Running
  <1> QED
    BY <1>3 DEF n

\* Going to another place in the code changes nothing else of a run.
LEMMA GotoFields ==
    ASSUME NEW r \in RunState, NEW c \in {"create", "version", "failed", "ok"}
    PROVE  /\ Goto(r, c) \in RunState /\ Goto(r, c).pc = c /\ Goto(r, c).bi = r.bi
           /\ Goto(r, c).warned = r.warned /\ Goto(r, c).history = r.history
  BY DEF Goto, RunState, Running

\* Recording an event changes only the history of a run.
LEMMA NoteFields ==
    ASSUME NEW r \in RunState, NEW e \in Events
    PROVE  /\ Note(r, e) \in RunState /\ Note(r, e).pc = r.pc /\ Note(r, e).bi = r.bi
           /\ Note(r, e).warned = r.warned /\ Note(r, e).history = r.history \cup {e}
  BY DEF Note, RunState

\* A run that returns an error records the event and keeps its place and warnings.
LEMMA FailFields ==
    ASSUME NEW r \in RunState, NEW e \in Events
    PROVE  /\ Fail(r, e) \in RunState /\ Fail(r, e).pc = "failed"
           /\ Fail(r, e).bi = r.bi
           /\ Fail(r, e).warned = r.warned /\ Fail(r, e).history = r.history \cup {e}
  BY GotoFields, NoteFields DEF Fail

\* A warning adds its fields for one bucket and changes nothing else of a run.
LEMMA WarnFields ==
    ASSUME NEW r \in RunState, NEW n \in BucketNames,
           NEW fs \in SUBSET {"location", "storage_class"}
    PROVE  /\ Warn(r, n, fs) \in RunState /\ Warn(r, n, fs).pc = r.pc
           /\ Warn(r, n, fs).bi = r.bi /\ Warn(r, n, fs).history = r.history
           /\ Warn(r, n, fs).warned = r.warned \cup ({n} \X fs)
  BY DEF Warn, RunState

\* A step keeps the invariant when it does for the run that takes it.
LEMMA StepInv ==
    ASSUME StorageInv, NEW p \in Provisioners, NEW r, StepOf(p, r), SettlesRightly(p),
           RunInv(p)'
    PROVE  StorageInv'
  <1>1. \A q \in Provisioners : RunInv(q)'
    BY OthersKeep
  <1>2. TypeOK'
    <2>1. IsProject(live)'
      BY LiveStep
    <2>2. run' \in [Provisioners -> RunState]
      BY DEF StorageInv, TypeOK, StepOf, Become
    <2> QED
      BY <2>1, <2>2 DEF StorageInv, TypeOK, StepOf, inputs
  <1> QED
    BY <1>1, <1>2, LiveStep DEF StorageInv

\* A run that fails has a reason, and nothing more is promised of it.
LEMMA FailStep ==
    ASSUME StorageInv, NEW p \in Provisioners, NEW r, StepOf(p, r), settled' = settled,
           r.pc = "failed", r.warned = run[p].warned, run[p].history \subseteq r.history,
           r.history = run[p].history \/ ~(r.history \subseteq {"repeat"}),
           r.history \cap {"interrupted", "deleted", "unsupported"} # {}
    PROVE  StorageInv'
  <1>1. run'[p] = r /\ UNCHANGED inputs
    BY Given DEF StepOf, Become
  <1>2. SettlesRightly(p)
    BY DEF SettlesRightly
  <1>3. validate(cfg[p])' /\ HasReason(p)' /\ Placed(p)'
    <2>1. r.history # {"repeat"}
      OBVIOUS
    <2> QED
      BY <1>1, <2>1, SameFiles, Given DEF HasReason, Placed
  <1>4. WarnsTruly(p)'
    <2>1. CASE r.history = run[p].history
      BY <1>1, <2>1, SameFiles, WarningsStep DEF WarnsTruly
    <2>2. CASE ~(r.history \subseteq {"repeat"})
      BY <1>1, <2>2, SameFiles, Given DEF WarnsTruly, Undisturbed
    <2> QED
      BY <2>1, <2>2
  <1>5. ASSUME ErrorsAreTold PROVE Passed(p)' /\ Kept(p)' /\ Rests(p)'
    <2>1. ~Under(p)'
      BY <1>1 DEF Under, Running
    <2>2. Rests(p)'
      BY <1>1, <1>2, <1>5, SameFiles, RestsStep DEF Rests
    <2> QED
      BY <2>1, <2>2 DEF Passed, Kept
  <1> QED
    BY <1>1, <1>2, <1>3, <1>4, <1>5, SameFiles, StepInv DEF RunInv, ErrorsAreTold

\* A run that starts has everything before it.
LEMMA BeginStep ==
    ASSUME StorageInv, NEW p \in Provisioners, Begin(p),
           UNCHANGED <<live, inputs, settled, faults, edits>>,
           reruns' \in 0..MaxReruns
    PROVE  StorageInv'
  <1> DEFINE r == Fresh("loop", IF settled THEN {"repeat"} ELSE {})
  <1>1. /\ r \in RunState /\ r.pc = "loop" /\ r.bi = 1 /\ r.warned = {}
        /\ r.history = {"repeat"} => settled
    BY DEF Fresh, RunState, Running, Events
  <1>2. Become(p, r)
    BY DEF Begin
  <1> HIDE DEF r
  <1>3. StepOf(p, r) /\ SettlesRightly(p)
    BY <1>1, <1>2 DEF StepOf, SettlesRightly, StorageInv, TypeOK
  <1>4. run'[p] = r /\ UNCHANGED inputs /\ settled' = settled
    BY <1>2, Given DEF Become
  <1>5. validate(cfg[p])' /\ HasReason(p)' /\ Placed(p)' /\ WarnsTruly(p)'
    BY <1>1, <1>4, SameFiles, Given DEF HasReason, Placed, WarnsTruly
  <1>6. ASSUME ErrorsAreTold PROVE Passed(p)' /\ Kept(p)' /\ Rests(p)'
    <2>1. \A i \in DOMAIN cfg'[p].buckets : ~(i < run'[p].bi)
      BY <1>1, <1>4, SameFiles, Positions
    <2>2. Passed(p)' /\ Kept(p)'
      BY <2>1, <1>1, <1>4 DEF Passed, Kept
    <2>3. Rests(p)'
      BY <1>1, <1>3, <1>4, <1>6, SameFiles, RestsStep DEF Rests
    <2> QED
      BY <2>2, <2>3
  <1> QED
    BY <1>3, <1>4, <1>5, <1>6, SameFiles, StepInv DEF RunInv, ErrorsAreTold

\* A run that passes a bucket has to leave it handled.
LEMMA AdvanceStep ==
    ASSUME StorageInv, NEW p \in Provisioners, NEW r, StepOf(p, r), settled' = settled,
           run[p].pc \in Running, NEW k \in DOMAIN cfg[p].buckets, k = run[p].bi,
           r.pc = "loop", r.bi = run[p].bi + 1, r.history = run[p].history,
           run[p].warned \subseteq r.warned, WarnsTruly(p)',
           Under(p) /\ "deleted" \notin run[p].history /\ ErrorsAreTold
              => cfg[p].buckets[k].name \in DOMAIN live',
           Under(p) /\ SameConfig(p) /\ Undisturbed(p) /\ ErrorsAreTold
              => Handled(p, k)'
    PROVE  StorageInv'
  <1>1. run'[p] = r /\ UNCHANGED inputs
    BY Given DEF StepOf, Become
  <1>2. /\ cfg' = cfg /\ backend' = backend /\ dryRun' = dryRun
        /\ SameConfig(p)' = SameConfig(p) /\ Undisturbed(p)' = Undisturbed(p)
    BY <1>1 DEF inputs, SameConfig, Undisturbed
  <1>3. Under(p)' => Under(p)
    BY <1>1, <1>2 DEF Under
  <1>4. SettlesRightly(p)
    BY DEF SettlesRightly
  <1>5. validate(cfg[p])' /\ HasReason(p)' /\ Placed(p)'
    BY <1>1, SameFiles, Given DEF HasReason, Placed
  <1>6. \A i \in DOMAIN cfg[p].buckets : i < r.bi => i < run[p].bi \/ i = k
    BY Positions
  <1>7. ASSUME ErrorsAreTold PROVE Passed(p)'
    BY <1>1, <1>2, <1>3, <1>6, <1>7, LiveStep, Given DEF Passed
  <1>8. ASSUME ErrorsAreTold PROVE Kept(p)'
    <2> SUFFICES ASSUME Under(p), SameConfig(p), Undisturbed(p),
                        NEW i \in DOMAIN cfg[p].buckets, i < run[p].bi
                 PROVE  Handled(p, i)'
      BY <1>1, <1>2, <1>3, <1>6, <1>8 DEF Kept
    <2>1. Handled(p, i)
      BY <1>8, Given DEF Kept
    <2>2. AsDeclared(p, i)'
      BY <2>1, DeclaredStep DEF Handled
    <2>3. MayUpdate(p, i)' = MayUpdate(p, i)
      BY <1>2 DEF MayUpdate
    <2>4. MayUpdate(p, i) => Reported(p, i)'
      BY <1>1, <2>1, ReportedStep DEF Handled, AsDeclared
    <2> QED
      BY <2>2, <2>3, <2>4 DEF Handled
  <1>9. ASSUME ErrorsAreTold PROVE Rests(p)'
    BY <1>1, <1>4, <1>9, SameFiles, RestsStep DEF Rests
  <1> QED
    BY <1>2, <1>4, <1>5, <1>7, <1>8, <1>9, StepInv DEF RunInv, ErrorsAreTold

\* A run is about to send a change: only one that is called for.
LEMMA SendStep ==
    ASSUME StorageInv, NEW p \in Provisioners, NEW r, StepOf(p, r), settled' = settled,
           live' = live, run[p].pc = "loop", ~dryRun[p],
           NEW k \in DOMAIN cfg[p].buckets, k = run[p].bi,
           r.pc \in {"create", "version"}, r.bi = run[p].bi, r.history = run[p].history,
           run[p].warned \subseteq r.warned, WarnsTruly(p)', ~AsDeclared(p, k),
           r.pc = "create" => Name(p) \notin DOMAIN live,
           r.pc = "version" =>
              /\ Strategy(p) = "update" /\ BucketAt(p).versioning # {}
              /\ Name(p) \in DOMAIN live /\ Reported(p, k)'
    PROVE  StorageInv'
  <1>1. run'[p] = r /\ UNCHANGED inputs
    BY Given DEF StepOf, Become
  <1>2. /\ cfg' = cfg /\ backend' = backend /\ dryRun' = dryRun
        /\ SameConfig(p)' = SameConfig(p) /\ Undisturbed(p)' = Undisturbed(p)
        /\ BucketAt(p)' = BucketAt(p) /\ Name(p)' = Name(p) /\ Strategy(p)' = Strategy(p)
    BY <1>1 DEF inputs, SameConfig, Undisturbed, BucketAt, Name, Strategy
  <1>3. Under(p)
    BY DEF Under, Running
  <1>4. SettlesRightly(p)
    BY DEF SettlesRightly
  <1>5. validate(cfg[p])' /\ HasReason(p)' /\ Placed(p)'
    BY <1>1, <1>2, SameFiles, Given DEF HasReason, Placed
  <1>6. ASSUME ErrorsAreTold PROVE Passed(p)'
    BY <1>1, <1>2, <1>3, <1>6, Given DEF Passed
  <1>7. ASSUME ErrorsAreTold PROVE Kept(p)'
    <2> SUFFICES ASSUME SameConfig(p), Undisturbed(p),
                        NEW i \in DOMAIN cfg[p].buckets, i < run[p].bi
                 PROVE  Handled(p, i)'
      BY <1>1, <1>2 DEF Kept
    <2>1. Handled(p, i)
      BY <1>3, <1>7, Given DEF Kept
    <2>2. AsDeclared(p, i)'
      BY <2>1, DeclaredStep DEF Handled
    <2>3. MayUpdate(p, i)' = MayUpdate(p, i)
      BY <1>2 DEF MayUpdate
    <2>4. MayUpdate(p, i) => Reported(p, i)'
      BY <1>1, <2>1, ReportedStep DEF Handled, AsDeclared
    <2> QED
      BY <2>2, <2>3, <2>4 DEF Handled
  <1>8. ASSUME ErrorsAreTold PROVE Rests(p)'
    <2>1. SameConfig(p) => r.history # {"repeat"}
      BY <1>8, Given DEF Placed, Rests
    <2> QED
      BY <1>1, <1>4, <1>8, <2>1, SameFiles, RestsStep DEF Rests
  <1> QED
    BY <1>2, <1>4, <1>5, <1>6, <1>7, <1>8, StepInv DEF RunInv, ErrorsAreTold

\* Starting again, after a failure or a success.
LEMMA StartInv ==
    ASSUME StorageInv, NEW p \in Provisioners, Start(p) \/ Rerun(p)
    PROVE  StorageInv'
  <1>1. reruns' \in 0..MaxReruns
    <2>1. reruns \in 0..MaxReruns /\ MaxReruns \in Nat
      BY StorageAssumption DEF StorageInv, TypeOK
    <2>2. reruns' = reruns \/ (reruns' = reruns + 1 /\ reruns < MaxReruns)
      BY DEF Start, Rerun, bounds
    <2> QED
      BY <2>1, <2>2
  <1> QED
    BY <1>1, BeginStep DEF Start, Rerun, bounds

\* ensureBucket, up to the first change.
LEMMA EnsureInv ==
    ASSUME StorageInv, NEW p \in Provisioners, ensureBucket(p)
    PROVE  StorageInv'
  <1>1. /\ run[p] \in RunState /\ run[p].pc = "loop" /\ run[p].pc \in Running
        /\ live' = live /\ settled' = settled /\ UNCHANGED inputs /\ UNCHANGED bounds
    BY Given DEF ensureBucket, Running
  <1>2. PICK k \in DOMAIN cfg[p].buckets : k = run[p].bi
    BY Positions DEF ensureBucket
  <1>3. /\ BucketAt(p) = cfg[p].buckets[k] /\ Name(p) = cfg[p].buckets[k].name
        /\ BucketAt(p) \in Bucket /\ Name(p) \in BucketNames
        /\ Strategy(p) \in {"create", "update"}
        /\ MayUpdate(p, k) <=> Strategy(p) = "update"
    BY <1>2, Entry DEF BucketAt, Name, Strategy, MayUpdate
  <1>4. ASSUME NEW r \in RunState, Become(p, r) PROVE StepOf(p, r)
    BY <1>1, <1>4 DEF StepOf, StorageInv, TypeOK, bounds
  <1>5. ASSUME NEW r \in RunState, Become(p, r), r.warned = run[p].warned,
               r.history = run[p].history
        PROVE  WarnsTruly(p)'
    <2>1. run'[p] = r
      BY <1>5, Given DEF Become
    <2> QED
      BY <1>1, <1>4, <1>5, <2>1, SameFiles, WarningsStep DEF WarnsTruly
  <1>6. CASE Name(p) \notin DOMAIN live /\ dryRun[p] /\ Become(p, Advance(run[p]))
    <2> DEFINE r == Advance(run[p])
    <2>1. /\ r \in RunState /\ r.pc = "loop" /\ r.bi = run[p].bi + 1
          /\ r.warned = run[p].warned /\ r.history = run[p].history
      BY <1>1, AdvanceFields
    <2> HIDE DEF r
    <2>2. ~Under(p)
      BY <1>6 DEF Under
    <2>3. Become(p, r)
      BY <1>6 DEF r
    <2> QED
      BY <1>1, <1>2, <1>4, <1>5, <2>1, <2>2, <2>3, AdvanceStep
  <1>7. CASE Name(p) \notin DOMAIN live /\ ~dryRun[p] /\ Become(p, Goto(run[p], "create"))
    <2> DEFINE r == Goto(run[p], "create")
    <2>1. /\ r \in RunState /\ r.pc = "create" /\ r.bi = run[p].bi
          /\ r.warned = run[p].warned /\ r.history = run[p].history
      BY <1>1, GotoFields
    <2> HIDE DEF r
    <2>2. ~AsDeclared(p, k)
      BY <1>3, <1>7 DEF AsDeclared
    <2>3. Become(p, r)
      BY <1>7 DEF r
    <2> QED
      BY <1>1, <1>2, <1>4, <1>5, <1>7, <2>1, <2>2, <2>3, SendStep
  <1>8. CASE Name(p) \in DOMAIN live /\ Strategy(p) = "create" /\ Become(p, Advance(run[p]))
    <2> DEFINE r == Advance(run[p])
    <2>1. /\ r \in RunState /\ r.pc = "loop" /\ r.bi = run[p].bi + 1
          /\ r.warned = run[p].warned /\ r.history = run[p].history
      BY <1>1, AdvanceFields
    <2> HIDE DEF r
    <2>2. Handled(p, k)'
      BY <1>1, <1>3, <1>8 DEF Handled, AsDeclared, MayUpdate, inputs
    <2>3. Become(p, r)
      BY <1>8 DEF r
    <2> QED
      BY <1>1, <1>2, <1>3, <1>4, <1>5, <1>8, <2>1, <2>2, <2>3, AdvanceStep
  <1>9. CASE /\ Name(p) \in DOMAIN live /\ Strategy(p) # "create"
             /\ Become(p, ensureVersioning(p, Warn(run[p], Name(p), Drift(p))))
    <2> DEFINE d == Drift(p)
               s == Warn(run[p], Name(p), d)
    <2>1. d = IF backend.emulator THEN {} ELSE Differing(BucketAt(p), live[Name(p)])
      BY <1>3, <1>9, DriftIsReal DEF Drift
    <2>2. d \in SUBSET {"location", "storage_class"}
      <3> HIDE DEF d
      <3>1. Differing(BucketAt(p), live[Name(p)]) \subseteq {"location", "storage_class"}
        BY DifferingFields
      <3>2. d \subseteq {"location", "storage_class"}
        BY <2>1, <3>1
      <3> QED
        BY <3>2
    <2> HIDE DEF d
    <2>3. /\ s \in RunState /\ s.pc = "loop" /\ s.bi = run[p].bi
          /\ s.history = run[p].history /\ s.warned = run[p].warned \cup ({Name(p)} \X d)
      BY <1>1, <1>3, <2>2, WarnFields
    <2>4. Become(p, ensureVersioning(p, s))
      BY <1>9 DEF d
    <2> HIDE DEF s
    <2>5. ASSUME NEW r \in RunState, Become(p, r), r.warned = s.warned,
                 r.history = s.history
          PROVE  WarnsTruly(p)' /\ Reported(p, k)'
      <3>1. run'[p] = r /\ backend' = backend /\ cfg' = cfg
        BY <1>1, <2>5, Given, SameFiles DEF Become
      <3>2. ASSUME NEW w \in run[p].warned
            PROVE  /\ ~backend.emulator
                   /\ Undisturbed(p)' =>
                        \E i \in DOMAIN cfg'[p].buckets :
                           LET b == cfg'[p].buckets[i]
                           IN  /\ b.name = w[1] /\ b.name \in DOMAIN live'
                               /\ w[2] \in Differing(b, live'[b.name])
        BY <1>4, <2>3, <2>5, <3>1, WarningsStep
      <3>3. ASSUME NEW w \in {Name(p)} \X d
            PROVE  /\ ~backend.emulator /\ w[1] = cfg[p].buckets[k].name
                   /\ w[1] \in DOMAIN live'
                   /\ w[2] \in Differing(cfg[p].buckets[k], live'[w[1]])
        BY <1>1, <1>3, <1>9, <2>1
      <3>4. WarnsTruly(p)'
        BY <2>3, <2>5, <3>1, <3>2, <3>3 DEF WarnsTruly
      <3>5. Reported(p, k)'
        BY <1>1, <1>3, <2>1, <2>3, <2>5, <3>1 DEF Reported
      <3> QED
        BY <3>4, <3>5
    <2>6. CASE dryRun[p] \/ BucketAt(p).versioning \subseteq {live[Name(p)].VersioningEnabled}
      <3> DEFINE r == Advance(s)
      <3>1. /\ r \in RunState /\ r.pc = "loop" /\ r.bi = run[p].bi + 1
            /\ r.warned = s.warned /\ r.history = s.history
        BY <2>3, AdvanceFields
      <3>2. Become(p, r)
        BY <2>4, <2>6 DEF ensureVersioning
      <3> HIDE DEF r
      <3>3. Under(p) => AsDeclared(p, k)'
        BY <1>1, <1>3, <1>9, <2>6 DEF AsDeclared, MayUpdate, inputs, Under
      <3>4. Under(p) => Handled(p, k)'
        BY <2>5, <3>1, <3>2, <3>3 DEF Handled
      <3>5. WarnsTruly(p)'
        BY <2>5, <3>1, <3>2
      <3> QED
        BY <1>1, <1>2, <1>3, <1>4, <1>9, <2>3, <3>1, <3>2, <3>4, <3>5, AdvanceStep
    <2>7. CASE ~(dryRun[p] \/ BucketAt(p).versioning \subseteq {live[Name(p)].VersioningEnabled})
      <3> DEFINE r == Goto(s, "version")
      <3>1. /\ r \in RunState /\ r.pc = "version" /\ r.bi = run[p].bi
            /\ r.warned = s.warned /\ r.history = s.history
        BY <2>3, GotoFields
      <3>2. Become(p, r)
        BY <2>4, <2>7 DEF ensureVersioning
      <3> HIDE DEF r
      <3>3. ~AsDeclared(p, k)
        BY <1>3, <1>9, <2>7 DEF AsDeclared
      <3>4. BucketAt(p).versioning # {} /\ Strategy(p) = "update"
        BY <1>3, <1>9, <2>7
      <3>5. WarnsTruly(p)' /\ Reported(p, k)'
        BY <2>5, <3>1, <3>2
      <3> QED
        BY <1>1, <1>2, <1>4, <1>9, <2>3, <2>7, <3>1, <3>2, <3>3, <3>4, <3>5, SendStep
    <2> QED
      BY <2>6, <2>7
  <1> QED
    BY <1>6, <1>7, <1>8, <1>9 DEF ensureBucket

\* The replies of the endpoint to CreateBucket and SetVersioning.
LEMMA Replies ==
    ASSUME NEW p \in Provisioners
    PROVE  /\ CreateCall(p) \in {"ok", "conflict", "unsupported"}
           /\ CreateCall(p) = "conflict" <=> Name(p) \in DOMAIN live
           /\ UpdateCall(p) \in {"ok", "missing", "unsupported"}
           /\ UpdateCall(p) = "missing" <=> Name(p) \notin DOMAIN live
  BY DEF CreateCall, CreateReply, UpdateCall, UpdateReply

\* CreateBucket: the bucket is there afterwards, whoever created it.
LEMMA CreateInv ==
    ASSUME StorageInv, NEW p \in Provisioners, createBucket(p)
    PROVE  StorageInv'
  <1>1. /\ run[p] \in RunState /\ run[p].pc = "create" /\ run[p].pc \in Running
        /\ settled' = settled /\ UNCHANGED inputs /\ UNCHANGED bounds
    BY Given DEF createBucket, Running
  <1>2. PICK k \in DOMAIN cfg[p].buckets : k = run[p].bi
    BY <1>1, Given DEF Placed
  <1>3. Name(p) = cfg[p].buckets[k].name /\ BucketAt(p) = cfg[p].buckets[k]
    BY <1>2 DEF Name, BucketAt
  <1>4. CASE Become(p, Advance(run[p])) /\ (Created(p) \/ (CreateCall(p) = "conflict" /\ live' = live))
    <2> DEFINE r == Advance(run[p])
    <2>1. /\ r \in RunState /\ r.pc = "loop" /\ r.bi = run[p].bi + 1
          /\ r.warned = run[p].warned /\ r.history = run[p].history
      BY <1>1, AdvanceFields
    <2>2. Become(p, r)
      BY <1>4
    <2> HIDE DEF r
    <2>3. StepOf(p, r) /\ run'[p] = r
      BY <1>1, <1>4, <2>1, <2>2, Given DEF StepOf, StorageInv, TypeOK, bounds, Become
    <2>4. WarnsTruly(p)'
      BY <1>1, <2>1, <2>3, SameFiles, WarningsStep DEF WarnsTruly
    <2>5. cfg[p].buckets[k].name \in DOMAIN live'
      BY <1>3, <1>4, CreatedLive, Replies
    <2>6. ASSUME Under(p), SameConfig(p), Undisturbed(p), ErrorsAreTold
          PROVE  Handled(p, k)'
      <3>1. CASE Created(p)
        BY <1>3, <2>3, <3>1, CreatedHandled
      <3>2. CASE CreateCall(p) = "conflict" /\ live' = live
        <4>1. Handled(p, k)
          BY <1>1, <1>2, <2>6, <3>2, Given, Replies DEF Kept
        <4>2. AsDeclared(p, k)'
          BY <2>3, <4>1, DeclaredStep DEF Handled
        <4>3. MayUpdate(p, k)' = MayUpdate(p, k)
          BY <1>1, SameFiles DEF MayUpdate
        <4>4. MayUpdate(p, k) => Reported(p, k)'
          BY <2>1, <2>3, <4>1, ReportedStep DEF Handled, AsDeclared
        <4> QED
          BY <4>2, <4>3, <4>4 DEF Handled
      <3> QED
        BY <1>4, <3>1, <3>2
    <2> QED
      BY <1>1, <1>2, <2>1, <2>3, <2>4, <2>5, <2>6, AdvanceStep
  <1>5. CASE CreateCall(p) = "unsupported" /\ live' = live /\ Become(p, Fail(run[p], "unsupported"))
    <2> DEFINE r == Fail(run[p], "unsupported")
    <2>1. /\ r \in RunState /\ r.pc = "failed"
          /\ r.warned = run[p].warned /\ r.history = run[p].history \cup {"unsupported"}
      BY <1>1, FailFields DEF Events
    <2>2. Become(p, r)
      BY <1>5
    <2> HIDE DEF r
    <2>3. StepOf(p, r)
      BY <1>1, <1>5, <2>1, <2>2 DEF StepOf, StorageInv, TypeOK, bounds
    <2> QED
      BY <1>1, <2>1, <2>3, FailStep
  <1> QED
    BY <1>1, <1>4, <1>5, Replies DEF createBucket, Created, isBucketExistsError

\* SetVersioning: it fails only when the bucket was deleted or the endpoint has
\* no versioning.
LEMMA SetVersioningInv ==
    ASSUME StorageInv, NEW p \in Provisioners, setVersioning(p)
    PROVE  StorageInv'
  <1>1. /\ run[p] \in RunState /\ run[p].pc = "version" /\ run[p].pc \in Running
        /\ settled' = settled /\ UNCHANGED inputs /\ UNCHANGED bounds
    BY Given DEF setVersioning, Running
  <1>2. PICK k \in DOMAIN cfg[p].buckets : k = run[p].bi
    BY <1>1, Given DEF Placed
  <1>3. Name(p) = cfg[p].buckets[k].name /\ BucketAt(p) = cfg[p].buckets[k]
    BY <1>2 DEF Name, BucketAt
  <1>4. ASSUME NEW r \in RunState, Become(p, r), live' = live \/ Versioned(p)
        PROVE  StepOf(p, r) /\ run'[p] = r
    BY <1>1, <1>4, Given DEF StepOf, StorageInv, TypeOK, bounds, Become
  <1>5. CASE Versioned(p) /\ Become(p, Advance(run[p]))
    <2> DEFINE r == Advance(run[p])
    <2>1. /\ r \in RunState /\ r.pc = "loop" /\ r.bi = run[p].bi + 1
          /\ r.warned = run[p].warned /\ r.history = run[p].history
      BY <1>1, AdvanceFields
    <2>2. Become(p, r)
      BY <1>5
    <2> HIDE DEF r
    <2>3. StepOf(p, r) /\ run'[p] = r
      BY <1>4, <1>5, <2>1, <2>2
    <2>4. WarnsTruly(p)'
      BY <1>1, <2>1, <2>3, SameFiles, WarningsStep DEF WarnsTruly
    <2>5. cfg[p].buckets[k].name \in DOMAIN live /\ cfg[p].buckets[k].name \in DOMAIN live'
      BY <1>3, <1>5, VersionedLive
    <2>6. ASSUME Under(p), SameConfig(p), Undisturbed(p), ErrorsAreTold
          PROVE  Handled(p, k)'
      <3>1. Reported(p, k)
        BY <1>1, <1>2, <2>6, Given DEF Kept
      <3>2. Reported(p, k)'
        BY <2>1, <2>3, <2>5, <3>1, ReportedStep
      <3>3. BucketAt(p).versioning \subseteq {live'[Name(p)].VersioningEnabled}
        BY <1>2, <1>5, VersionedLive, DesiredType
      <3>4. AsDeclared(p, k)'
        BY <1>1, <1>3, <2>5, <3>3, SameFiles DEF AsDeclared
      <3> QED
        BY <3>2, <3>4 DEF Handled
    <2> QED
      BY <1>1, <1>2, <2>1, <2>3, <2>4, <2>5, <2>6, AdvanceStep
  <1>6. CASE UpdateCall(p) = "missing" /\ live' = live /\ Become(p, Goto(run[p], "failed"))
    <2> DEFINE r == Goto(run[p], "failed")
    <2>1. /\ r \in RunState /\ r.pc = "failed"
          /\ r.warned = run[p].warned /\ r.history = run[p].history
      BY <1>1, GotoFields
    <2>2. Become(p, r)
      BY <1>6
    <2> HIDE DEF r
    <2>3. "deleted" \in r.history
      BY <1>1, <1>6, <2>1, Given, Replies DEF Placed
    <2> QED
      BY <1>1, <1>4, <1>6, <2>1, <2>2, <2>3, FailStep
  <1>7. CASE UpdateCall(p) = "unsupported" /\ live' = live /\ Become(p, Fail(run[p], "unsupported"))
    <2> DEFINE r == Fail(run[p], "unsupported")
    <2>1. /\ r \in RunState /\ r.pc = "failed"
          /\ r.warned = run[p].warned /\ r.history = run[p].history \cup {"unsupported"}
      BY <1>1, FailFields DEF Events
    <2>2. Become(p, r)
      BY <1>7
    <2> HIDE DEF r
    <2> QED
      BY <1>1, <1>4, <1>7, <2>1, <2>2, FailStep
  <1> QED
    BY <1>1, <1>5, <1>6, <1>7 DEF setVersioning, Versioned

\* ProvisionStorage returns nil: what the run has passed is its whole list.
LEMMA DoneInv ==
    ASSUME StorageInv, NEW p \in Provisioners, sectionDone(p)
    PROVE  StorageInv'
  <1> DEFINE r == Goto(run[p], "ok")
  <1>1. /\ run[p] \in RunState /\ run[p].pc = "loop" /\ run[p].bi > Len(cfg[p].buckets)
        /\ live' = live /\ UNCHANGED inputs /\ UNCHANGED bounds
        /\ settled' = (settled \/ (~dryRun[p] /\ Undisturbed(p)))
    BY Given DEF sectionDone, Undisturbed
  <1>2. /\ r \in RunState /\ r.pc = "ok" /\ r.bi = run[p].bi
        /\ r.warned = run[p].warned /\ r.history = run[p].history
    BY <1>1, GotoFields
  <1>3. Become(p, r)
    BY DEF sectionDone
  <1> HIDE DEF r
  <1>4. settled' \in BOOLEAN /\ (settled => settled')
    BY <1>1
  <1>5. StepOf(p, r) /\ run'[p] = r
    BY <1>1, <1>2, <1>3, <1>4, Given DEF StepOf, StorageInv, TypeOK, bounds, Become
  <1>6. /\ cfg' = cfg /\ backend' = backend /\ dryRun' = dryRun
        /\ SameConfig(p)' = SameConfig(p) /\ Undisturbed(p)' = Undisturbed(p)
        /\ Under(p)' = Under(p)
    BY <1>1, <1>2, <1>5 DEF inputs, SameConfig, Undisturbed, Under, Running
  <1>7. ASSUME NEW i \in DOMAIN cfg[p].buckets PROVE i < run[p].bi
    BY <1>1, <1>7, Positions
  <1>8. ASSUME Under(p), SameConfig(p), Undisturbed(p), ErrorsAreTold,
               NEW i \in DOMAIN cfg[p].buckets
        PROVE  Handled(p, i)'
    <2>1. Handled(p, i)
      BY <1>7, <1>8, Given DEF Kept
    <2>2. AsDeclared(p, i)'
      BY <1>5, <2>1, DeclaredStep DEF Handled
    <2>3. MayUpdate(p, i)' = MayUpdate(p, i)
      BY <1>6 DEF MayUpdate
    <2>4. MayUpdate(p, i) => Reported(p, i)'
      BY <1>2, <1>5, <2>1, ReportedStep DEF Handled, AsDeclared
    <2> QED
      BY <2>2, <2>3, <2>4 DEF Handled
  <1>9. SettlesRightly(p)
    BY <1>1, <1>8 DEF SettlesRightly, Handled, Under, Running
  <1>10. validate(cfg[p])' /\ HasReason(p)' /\ Placed(p)'
    BY <1>1, <1>2, <1>4, <1>5, <1>6, SameFiles, Given DEF HasReason, Placed
  <1>11. WarnsTruly(p)'
    BY <1>2, <1>5, <1>6, WarningsStep DEF WarnsTruly
  <1>12. ASSUME ErrorsAreTold PROVE Passed(p)' /\ Kept(p)' /\ Rests(p)'
    <2>1. Passed(p)'
      BY <1>1, <1>2, <1>5, <1>6, <1>12, Given DEF Passed
    <2>2. Kept(p)'
      BY <1>2, <1>5, <1>6, <1>8, <1>12 DEF Kept
    <2>3. Rests(p)'
      BY <1>2, <1>5, <1>6, <1>9, <1>12, RestsStep DEF Rests
    <2> QED
      BY <2>1, <2>2, <2>3
  <1> QED
    BY <1>5, <1>6, <1>9, <1>10, <1>11, <1>12, StepInv DEF RunInv, ErrorsAreTold

\* A call fails or the process is killed.  A create whose error reads like a
\* conflict is taken for a success, on the endpoints whose address makes it so.
LEMMA FaultInv ==
    ASSUME StorageInv, NEW p \in Provisioners, CallFails(p) \/ Killed(p)
    PROVE  StorageInv'
  <1>1. /\ run[p] \in RunState /\ run[p].pc \in Running /\ settled' = settled
        /\ UNCHANGED inputs /\ edits' = edits /\ reruns' = reruns
        /\ Created(p) \/ Versioned(p) \/ live' = live
    BY Given DEF CallFails, Killed, Created, Versioned
  <1>2. faults' \in 0..MaxFaults
    <2>1. faults \in 0..MaxFaults /\ MaxFaults \in Nat
      BY StorageAssumption DEF StorageInv, TypeOK
    <2>2. faults' = faults + 1 /\ faults < MaxFaults
      BY DEF CallFails, Killed
    <2> QED
      BY <2>1, <2>2
  <1>3. ASSUME NEW r \in RunState, Become(p, r) PROVE StepOf(p, r) /\ run'[p] = r
    BY <1>1, <1>2, <1>3, Given DEF StepOf, StorageInv, TypeOK, Become
  <1>4. CASE Become(p, Fail(run[p], "interrupted"))
    <2> DEFINE r == Fail(run[p], "interrupted")
    <2>1. /\ r \in RunState /\ r.pc = "failed"
          /\ r.warned = run[p].warned /\ r.history = run[p].history \cup {"interrupted"}
      BY <1>1, FailFields DEF Events
    <2>2. Become(p, r)
      BY <1>4
    <2> HIDE DEF r
    <2> QED
      BY <1>1, <1>3, <2>1, <2>2, FailStep
  <1>5. CASE run[p].pc = "create" /\ backend.says409 /\ Become(p, Advance(run[p]))
    <2> DEFINE r == Advance(run[p])
    <2>1. /\ r \in RunState /\ r.pc = "loop" /\ r.bi = run[p].bi + 1
          /\ r.warned = run[p].warned /\ r.history = run[p].history
      BY <1>1, AdvanceFields
    <2>2. Become(p, r)
      BY <1>5
    <2> HIDE DEF r
    <2>3. StepOf(p, r) /\ run'[p] = r
      BY <1>3, <2>1, <2>2
    <2>4. WarnsTruly(p)'
      BY <1>1, <2>1, <2>3, SameFiles, WarningsStep DEF WarnsTruly
    <2>5. PICK k \in DOMAIN cfg[p].buckets : k = run[p].bi
      BY <1>5, Given DEF Placed
    <2> QED
      BY <1>1, <1>5, <2>1, <2>3, <2>4, <2>5, AdvanceStep DEF ErrorsAreTold
  <1> QED
    BY <1>4, <1>5 DEF CallFails, Killed, isBucketExistsError

\* An edit by hand: every run takes note of it, and less is promised of it.
LEMMA EditInv ==
    ASSUME StorageInv, EditByHand \/ DeleteByHand
    PROVE  StorageInv'
  <1>1. /\ UNCHANGED inputs /\ UNCHANGED <<faults, reruns>> /\ settled' = FALSE
        /\ cfg' = cfg /\ backend' = backend /\ dryRun' = dryRun
        /\ IsProject(live) /\ Possible(backend, live)
    BY DEF EditByHand, DeleteByHand, inputs, StorageInv, TypeOK
  <1>2. edits' \in 0..MaxEdits
    <2>1. edits \in 0..MaxEdits /\ MaxEdits \in Nat
      BY StorageAssumption DEF StorageInv, TypeOK
    <2>2. edits' = edits + 1 /\ edits < MaxEdits
      BY DEF EditByHand, DeleteByHand
    <2> QED
      BY <2>1, <2>2
  <1>3. PICK e \in {"edited", "deleted"} :
            /\ run' = [p \in Provisioners |-> Note(run[p], e)]
            /\ IsProject(live') /\ Possible(backend, live)'
            /\ e = "edited" => DOMAIN live \subseteq DOMAIN live'
    <2>1. CASE EditByHand
      <3>1. PICK h \in ByHand : live' = Put(live, h[1], h[2])
        BY <2>1 DEF EditByHand
      <3> DEFINE n == h[1]
                 b == h[2]
      <3>2. n \in BucketNames /\ b \in ClientBucket
        BY StorageAssumption
      <3> HIDE DEF n, b
      <3>3. live' = Put(live, n, b)
        BY <3>1 DEF n, b
      <3>4. /\ live' = [m \in DOMAIN live' |-> live'[m]] /\ live'[n] = b
            /\ DOMAIN live' = DOMAIN live \cup {n}
            /\ \A m \in DOMAIN live \ {n} : live'[m] = live[m]
        BY <3>3 DEF Put
      <3>5. IsProject(live')
        BY <1>1, <3>2, <3>4 DEF IsProject
      <3>6. Possible(backend, live)' /\ run' = [p \in Provisioners |-> Note(run[p], "edited")]
        BY <1>1, <2>1 DEF EditByHand, Possible
      <3> QED
        BY <3>4, <3>5, <3>6
    <2>2. CASE DeleteByHand
      <3>1. PICK gone \in DOMAIN live : live' = [n \in DOMAIN live \ {gone} |-> live[n]]
        BY <2>2 DEF DeleteByHand
      <3>2. IsProject(live')
        BY <1>1, <3>1 DEF IsProject
      <3>3. Possible(backend, live)'
        BY <1>1, <3>1 DEF Possible
      <3>4. run' = [p \in Provisioners |-> Note(run[p], "deleted")]
        BY <2>2 DEF DeleteByHand
      <3> QED
        BY <3>2, <3>3, <3>4
    <2> QED
      BY <2>1, <2>2
  <1>4. ASSUME NEW p \in Provisioners
        PROVE  /\ run'[p] \in RunState /\ run'[p].pc = run[p].pc /\ run'[p].bi = run[p].bi
               /\ run'[p].warned = run[p].warned
               /\ run'[p].history = run[p].history \cup {e}
    BY <1>3, Given, NoteFields DEF Events
  <1>5. TypeOK'
    <2>1. run' \in [Provisioners -> RunState]
      BY <1>3, <1>4
    <2> QED
      BY <1>1, <1>2, <1>3, <2>1 DEF StorageInv, TypeOK
  <1>6. ASSUME NEW p \in Provisioners PROVE RunInv(p)'
    <2>1. ~Undisturbed(p)' /\ run'[p].history # {"repeat"}
      BY <1>4 DEF Undisturbed
    <2>2. validate(cfg[p])' /\ HasReason(p)'
      BY <1>1, <1>4, SameFiles, Given DEF HasReason
    <2>3. /\ BucketAt(p)' = BucketAt(p) /\ Name(p)' = Name(p) /\ Strategy(p)' = Strategy(p)
      BY <1>1, <1>4 DEF BucketAt, Name, Strategy
    <2>4. Placed(p)'
      BY <1>1, <1>3, <1>4, <2>1, <2>3, Given DEF Placed
    <2>5. WarnsTruly(p)'
      BY <1>1, <1>4, <2>1, Given DEF WarnsTruly
    <2>6. ASSUME ErrorsAreTold PROVE Passed(p)' /\ Kept(p)' /\ Rests(p)'
      <3>1. Passed(p)'
        BY <1>1, <1>3, <1>4, <2>6, Given DEF Passed, Under
      <3>2. Kept(p)' /\ Rests(p)'
        BY <1>1, <2>1 DEF Kept, Rests
      <3> QED
        BY <3>1, <3>2
    <2> QED
      BY <1>1, <2>2, <2>4, <2>5, <2>6 DEF RunInv, ErrorsAreTold
  <1> QED
    BY <1>3, <1>5, <1>6 DEF StorageInv

-----------------------------------------------------------------------------
(* The theorems. *)

\* Nothing has been provisioned yet.
LEMMA InitInv == Init => StorageInv
  <1> SUFFICES ASSUME Init PROVE StorageInv
    OBVIOUS
  <1>1. \A p \in Provisioners :
          /\ run[p] \in RunState /\ run[p].pc = "idle" /\ run[p].warned = {}
          /\ run[p].history = {}
    BY DEF Init, Fresh, RunState, Events
  <1>2. TypeOK
    <2>1. IsProject(live) /\ backend \in Backend /\ cfg \in [Provisioners -> StorageFile]
      BY StorageAssumption DEF Init
    <2>2. dryRun \in [Provisioners -> BOOLEAN] /\ run \in [Provisioners -> RunState]
      BY <1>1, StorageAssumption DEF Init
    <2>3. settled \in BOOLEAN /\ faults = 0 /\ edits = 0 /\ reruns = 0
      BY DEF Init
    <2> QED
      <3>1. 0 \in 0..MaxFaults /\ 0 \in 0..MaxEdits /\ 0 \in 0..MaxReruns
        <4>1. MaxFaults \in Nat /\ MaxEdits \in Nat /\ MaxReruns \in Nat
          BY StorageAssumption
        <4> QED
          BY <4>1
      <3> QED
        BY <2>1, <2>2, <2>3, <3>1 DEF TypeOK
  <1>3. Possible(backend, live)
    BY DEF Init
  <1>4. ASSUME NEW p \in Provisioners PROVE RunInv(p)
    BY <1>1, <1>4 DEF Init, RunInv, Placed, HasReason, WarnsTruly, Passed, Kept, Rests,
                      Under, Running
  <1> QED
    BY <1>2, <1>3, <1>4 DEF StorageInv

\* Every step preserves the inductive invariant.
LEMMA NextInv == StorageInv /\ [Next]_vars => StorageInv'
  <1> SUFFICES ASSUME StorageInv, [Next]_vars PROVE StorageInv'
    OBVIOUS
  <1>1. ASSUME NEW p \in Provisioners,
               ProvisionStorage(p) \/ Rerun(p) \/ CallFails(p) \/ Killed(p)
        PROVE  StorageInv'
    BY <1>1, StartInv, EnsureInv, CreateInv, SetVersioningInv, DoneInv, FaultInv
    DEF ProvisionStorage
  <1>2. CASE EditByHand \/ DeleteByHand
    BY <1>2, EditInv
  <1>3. CASE UNCHANGED vars
    <2>1. UNCHANGED <<live, backend, cfg, dryRun, run, settled, faults, edits, reruns>>
      BY <1>3 DEF vars
    <2>2. TypeOK' /\ Possible(backend, live)'
      BY <2>1 DEF StorageInv, TypeOK, Possible
    <2>3. ASSUME NEW p \in Provisioners PROVE RunInv(p)'
      BY <2>1, <2>3
      DEF StorageInv, RunInv, Placed, HasReason, WarnsTruly, Passed, Kept, Rests, Under,
          Handled, AsDeclared, Reported, MayUpdate, SameConfig, Undisturbed, Name,
          BucketAt, Strategy, validate, validateBuckets, ErrorsAreTold
    <2> QED
      BY <2>2, <2>3 DEF StorageInv
  <1> QED
    BY <1>1, <1>2, <1>3 DEF Next

\* The inductive invariant holds throughout every behaviour: whatever other
\* runs do, a run fails only for a reason outside of it (CreateBucket takes
\* AlreadyExists for success), and what it has passed stays provisioned.
THEOREM StorageInvariant == Spec => []StorageInv
  BY InitInv, NextInv, PTL DEF Spec

\* The same for the claim that matters of it by itself.
THEOREM FailsOnlyForOutsideReasons == Spec => []OnlyFaultsFail
  <1>1. StorageInv => OnlyFaultsFail
    BY DEF StorageInv, RunInv, OnlyFaultsFail
  <1> QED
    BY <1>1, StorageInvariant, PTL

\* A warning about location or storage class is given on Cloud Storage only,
\* and stays true of the bucket until somebody touches it by hand.
THEOREM WarnsOnlyOfRealDrift == Spec => []WarningsAreReal
  <1>1. StorageInv => WarningsAreReal
    BY DEF StorageInv, RunInv, WarningsAreReal
  <1> QED
    BY <1>1, StorageInvariant, PTL

\* The endpoint's address is what it is.
LEMMA SameBackend == [Next]_vars => backend' = backend
  BY DEF Next, ProvisionStorage, Start, Rerun, ensureBucket, createBucket, setVersioning,
         sectionDone, CallFails, Killed, EditByHand, DeleteByHand, inputs, vars

\* A run that has succeeded undisturbed among runs of its file has left every
\* bucket there, with the declared versioning, and has warned of every
\* attribute that is not as declared - unless an error's text is taken for a
\* conflict (isBucketExistsError).
THEOREM SuccessMeansProvisioned == Spec /\ ErrorsAreTold => []Converged
  <1>1. StorageInv /\ ErrorsAreTold => Converged
    <2> SUFFICES ASSUME StorageInv, ErrorsAreTold, NEW p \in Provisioners,
                        run[p].pc = "ok", ~dryRun[p], SameConfig(p), Undisturbed(p),
                        NEW i \in DOMAIN cfg[p].buckets
                 PROVE  Handled(p, i)
      BY DEF Converged
    <2>1. Kept(p) /\ Under(p) /\ run[p].bi > Len(cfg[p].buckets)
      BY Given DEF Placed, Under
    <2>2. i < run[p].bi
      BY <2>1, Positions
    <2> QED
      BY <2>1, <2>2 DEF Kept
  <1>2. ErrorsAreTold /\ [Next]_vars => ErrorsAreTold'
    BY SameBackend DEF ErrorsAreTold
  <1> QED
    BY <1>1, <1>2, StorageInvariant, PTL DEF Spec

\* A run after a success, of the same file and with nothing changed in
\* between, creates and updates nothing.
THEOREM RepeatIsSilent == Spec /\ ErrorsAreTold => []RepeatSendsNothing
  <1>1. StorageInv /\ ErrorsAreTold => RepeatSendsNothing
    BY Given DEF RepeatSendsNothing, Rests
  <1>2. ErrorsAreTold /\ [Next]_vars => ErrorsAreTold'
    BY SameBackend DEF ErrorsAreTold
  <1> QED
    BY <1>1, <1>2, StorageInvariant, PTL DEF Spec

\* What a step of p's process does, whichever it is.
LEMMA RunWrites ==
    ASSUME StorageInv, NEW p \in Provisioners,
           ProvisionStorage(p) \/ Rerun(p) \/ CallFails(p) \/ Killed(p)
    PROVE  /\ run' = [run EXCEPT ![p] = run'[p]]
           /\ UNCHANGED inputs /\ edits' = edits
           /\ Created(p) \/ Versioned(p) \/ UNCHANGED live
  <1>1. ASSUME NEW r, Become(p, r) PROVE run' = [run EXCEPT ![p] = run'[p]]
    BY <1>1, Given DEF Become
  <1> QED
    BY <1>1 DEF ProvisionStorage, Start, Rerun, Begin, ensureBucket, createBucket,
       setVersioning, sectionDone, CallFails, Killed, Created, Versioned, bounds

\* The one thing a run ever changes on an existing bucket is its versioning, to
\* what its file declares under strategy update; it deletes nothing, and a dry
\* run writes nothing.
THEOREM WritesOnlyVersioning == Spec => OnlyVersioningChanges
  <1> DEFINE Allowed(p) ==
         /\ ~dryRun[p]
         /\ DOMAIN live' \ DOMAIN live \subseteq {Name(p)}
         /\ \A n \in DOMAIN live :
              /\ n \in DOMAIN live'
              /\ live'[n] # live[n] =>
                   /\ n = Name(p) /\ Strategy(p) = "update"
                   /\ \E v \in BucketAt(p).versioning :
                         live'[n] = [live[n] EXCEPT !.VersioningEnabled = v]
  <1>1. ASSUME StorageInv, Next, NEW p \in Provisioners, Moves(p), live' # live
        PROVE  Allowed(p)
    <2>1. CASE EditByHand \/ DeleteByHand
      <3>1. PICK e \in Events : run'[p] = Note(run[p], e)
        BY <2>1 DEF EditByHand, DeleteByHand, Events
      <3>2. [run'[p] EXCEPT !.history = {}] = [run[p] EXCEPT !.history = {}]
        BY <3>1, Given DEF Note, RunState
      <3> QED
        BY <1>1, <3>2 DEF Moves
    <2>2. ASSUME NEW q \in Provisioners,
                 ProvisionStorage(q) \/ Rerun(q) \/ CallFails(q) \/ Killed(q)
          PROVE  Allowed(p)
      <3>1. p = q
        BY <1>1, <2>2, RunWrites, Given DEF Moves
      <3>2. CASE Created(p)
        BY <1>1, <3>2, CreatedLive
      <3>3. CASE Versioned(p)
        <4>1. Desired(p).VersioningEnabled \in BucketAt(p).versioning
          <5>1. BucketAt(p).versioning # {} /\ run[p].bi \in DOMAIN cfg[p].buckets
            BY <1>1, <3>3, Given DEF Versioned, Placed
          <5> QED
            BY <1>1, <5>1, DesiredType
        <4>2. Strategy(p) = "update"
          BY <1>1, <3>3, Given DEF Versioned, Placed
        <4>3. ASSUME NEW n \in DOMAIN live, live'[n] # live[n]
              PROVE  /\ n = Name(p)
                     /\ \E v \in BucketAt(p).versioning :
                           live'[n] = [live[n] EXCEPT !.VersioningEnabled = v]
          <5>1. n = Name(p)
            BY <1>1, <3>3, <4>3, VersionedLive
          <5>2. live'[n] = [live[n] EXCEPT !.VersioningEnabled = Desired(p).VersioningEnabled]
            BY <1>1, <3>3, <5>1, VersionedLive
          <5> QED
            BY <4>1, <5>1, <5>2
        <4>4. ~dryRun[p] /\ DOMAIN live' = DOMAIN live
          BY <1>1, <3>3, VersionedLive
        <4> QED
          BY <4>2, <4>3, <4>4
      <3> QED
        BY <1>1, <2>2, <3>1, <3>2, <3>3, RunWrites
    <2> QED
      BY <1>1, <2>1, <2>2 DEF Next
  <1>2. StorageInv /\ [Next]_vars =>
          [\A p \in Provisioners : Moves(p) /\ live' # live => Allowed(p)]_vars
    BY <1>1
  <1> QED
    BY <1>2, StorageInvariant, PTL DEF Spec, OnlyVersioningChanges

-----------------------------------------------------------------------------
(* The section implements Reconciler. *)

\* The mapped state after a step of p.
LEMMA MappedStep ==
    ASSUME StorageInv, NEW p \in Provisioners, UNCHANGED inputs,
           run' = [run EXCEPT ![p] = run'[p]]
    PROVE  /\ UNCHANGED <<Declared, Updatable, dryRun>>
           /\ Phases' = [Phases EXCEPT ![p] = Phase(run'[p].pc)]
           /\ Reasons' = [Reasons EXCEPT ![p] =
                 run'[p].history \cap {"interrupted", "deleted", "unsupported"}]
           /\ Phases[p] = Phase(run[p].pc)
           /\ Reasons[p] = run[p].history \cap {"interrupted", "deleted", "unsupported"}
  <1>1. UNCHANGED <<Declared, Updatable, dryRun>>
    BY DEF Declared, Updatable, Declares, inputs
  <1>2. \A q \in Provisioners : q # p => run'[q] = run[q]
    BY Given
  <1> QED
    BY <1>1, <1>2 DEF Phases, Reasons, Phase

\* A write of a run is one that Reconciler allows it.
LEMMA MappedWrite ==
    ASSUME StorageInv, NEW p \in Provisioners, Created(p) \/ Versioned(p)
    PROVE  Abstract!Write(p)
  <1>1. run[p].bi \in DOMAIN cfg[p].buckets /\ ~dryRun[p]
    BY CreatedLive, VersionedLive
  <1>2. /\ Name(p) = cfg[p].buckets[run[p].bi].name
        /\ Strategy(p) \in {"create", "update"}
        /\ Strategy(p) = EffectiveStrategy(cfg[p].buckets[run[p].bi].strategy, cfg[p].strategy)
    BY <1>1, Entry DEF Name, BucketAt, Strategy
  <1>3. Name(p) \in Declared[p]
    BY <1>1, <1>2 DEF Declared, Declares
  <1>4. Name(p) \in DOMAIN live => Name(p) \in Updatable[p]
    <2>1. CASE Created(p)
      BY <2>1, CreatedLive
    <2>2. CASE Versioned(p)
      <3>1. Strategy(p) = "update"
        BY <2>2, Given DEF Versioned, Placed
      <3> QED
        BY <1>1, <1>2, <3>1 DEF Updatable, Declares
    <2> QED
      BY <2>1, <2>2
  <1>5. Abstract!Only(Name(p))
    BY CreatedLive, VersionedLive DEF Abstract!Only
  <1> QED
    BY <1>1, <1>3, <1>4, <1>5 DEF Abstract!Write

\* A step of a run maps to a step of Reconciler or changes nothing it sees.
LEMMA MappedRun ==
    ASSUME StorageInv, ErrorsAreTold, NEW p \in Provisioners,
           ProvisionStorage(p) \/ Rerun(p) \/ CallFails(p) \/ Killed(p)
    PROVE  Abstract!Next
  <1>1. /\ run' = [run EXCEPT ![p] = run'[p]] /\ edits' = edits
        /\ UNCHANGED inputs /\ run[p] \in RunState
        /\ Created(p) \/ Versioned(p) \/ UNCHANGED live
    BY RunWrites, Given
  <1> DEFINE E == {"interrupted", "deleted", "unsupported"}
  <1>2. /\ UNCHANGED <<Declared, Updatable, dryRun>>
        /\ Phases' = [Phases EXCEPT ![p] = Phase(run'[p].pc)]
        /\ Reasons' = [Reasons EXCEPT ![p] = run'[p].history \cap E]
        /\ Phases[p] = Phase(run[p].pc)
        /\ Reasons[p] = run[p].history \cap E
    BY <1>1, MappedStep
  <1>3. StorageInv'
    BY NextInv DEF Next
  <1>4. CASE Start(p) \/ Rerun(p)
    <2>1. /\ run'[p] = Fresh("loop", IF settled THEN {"repeat"} ELSE {})
          /\ live' = live /\ run[p].pc \in {"idle", "failed", "ok"}
      BY <1>4, Given DEF Start, Rerun, Begin, Become
    <2>2. run'[p].pc = "loop" /\ run'[p].history \cap E = {}
      BY <2>1 DEF Fresh
    <2>3. Abstract!Begin(p)
      BY <1>1, <1>2, <2>1, <2>2 DEF Abstract!Begin, Abstract!files, Phase, Running
    <2> QED
      BY <2>3 DEF Abstract!Next
  <1>5. CASE sectionDone(p)
    <2>1. /\ run'[p] = Goto(run[p], "ok") /\ live' = live /\ run[p].pc = "loop"
          /\ run[p].bi > Len(cfg[p].buckets)
      BY <1>5, Given DEF sectionDone, Become
    <2>2. run'[p].pc = "ok" /\ run'[p].history = run[p].history
      BY <1>1, <2>1, GotoFields
    <2>3. dryRun[p] \/ "deleted" \in Reasons[p] \/ Declared[p] \subseteq DOMAIN live
      <3> SUFFICES ASSUME ~dryRun[p], "deleted" \notin run[p].history
                   PROVE  Declared[p] \subseteq DOMAIN live
        BY <1>2
      <3>1. Passed(p) /\ Under(p)
        BY <2>1, Given DEF Under, Running
      <3>2. \A i \in DOMAIN cfg[p].buckets : cfg[p].buckets[i].name \in DOMAIN live
        BY <2>1, <3>1, Positions DEF Passed
      <3> QED
        BY <3>2 DEF Declared, Declares
    <2>4. Abstract!Succeed(p)
      <3>1. Reasons' = Reasons
        BY <1>2, <2>2 DEF Reasons
      <3> QED
        BY <1>1, <1>2, <2>1, <2>2, <2>3, <3>1
        DEF Abstract!Succeed, Abstract!files, Phase, Running
    <2> QED
      BY <2>4 DEF Abstract!Next
  <1>6. CASE ensureBucket(p) \/ createBucket(p) \/ setVersioning(p) \/ CallFails(p) \/ Killed(p)
    <2>1. run[p].pc \in Running
      BY <1>6 DEF ensureBucket, createBucket, setVersioning, CallFails, Killed, Running
    <2>2. /\ run'[p].pc \in Running \cup {"failed"}
          /\ run[p].history \subseteq run'[p].history
          /\ run'[p].pc # "failed" => run'[p].history = run[p].history
      <3> DEFINE Fine(r) == /\ r.pc \in Running \cup {"failed"}
                            /\ run[p].history \subseteq r.history
                            /\ r.pc # "failed" => r.history = run[p].history
      <3>1. Fine(Advance(run[p])) /\ Fine(Goto(run[p], "create")) /\ Fine(Goto(run[p], "failed"))
        BY <1>1, AdvanceFields, GotoFields DEF Running
      <3>2. \A e \in Events : Fine(Fail(run[p], e))
        BY <1>1, FailFields
      <3>3. Fine(ensureVersioning(p, Warn(run[p], Name(p), Drift(p))))
        <4> DEFINE s == Warn(run[p], Name(p), Drift(p))
        <4>1. Advance(s).pc = "loop" /\ Advance(s).history = run[p].history
          BY <1>1 DEF Advance, Warn, RunState
        <4>2. Goto(s, "version").pc = "version" /\ Goto(s, "version").history = run[p].history
          BY <1>1 DEF Goto, Warn, RunState
        <4> HIDE DEF s
        <4>3. Fine(ensureVersioning(p, s))
          BY <4>1, <4>2 DEF ensureVersioning, Running
        <4> QED
          BY <4>3 DEF s
      <3>4. ASSUME NEW r, Become(p, r), Fine(r) PROVE Fine(run'[p])
        BY <3>4, Given DEF Become
      <3> HIDE DEF Fine
      <3>5. Fine(run'[p])
        BY <1>6, <3>1, <3>2, <3>3, <3>4
        DEF ensureBucket, createBucket, setVersioning, CallFails, Killed, Events
      <3> QED
        BY <3>5 DEF Fine
    <2>3. Phases[p] = "running"
      BY <1>2, <2>1 DEF Phase
    <2>4. Abstract!Write(p) \/ UNCHANGED live
      BY <1>1, MappedWrite
    <2>5. Abstract!Fail(p) \/ UNCHANGED <<Phases, Reasons>>
      <3>1. CASE run'[p].pc = "failed"
        <4> DEFINE why == run'[p].history \cap E
        <4>1. why \in SUBSET Abstract!Excuses /\ why # {}
          BY <1>3, <3>1, Given DEF Abstract!Excuses, StorageInv, RunInv, HasReason
        <4>2. Reasons[p] \cup why = why
          BY <1>2, <2>2
        <4>3. Reasons' = [Reasons EXCEPT ![p] = Reasons[p] \cup why]
          BY <1>2, <4>2
        <4>4. Phases' = [Phases EXCEPT ![p] = "failed"]
          BY <1>2, <3>1 DEF Phase, Running
        <4> HIDE DEF why
        <4> QED
          BY <4>1, <4>2, <4>3, <4>4 DEF Abstract!Fail
      <3>2. CASE run'[p].pc # "failed"
        <4>1. Phase(run'[p].pc) = Phases[p] /\ run'[p].history = run[p].history
          BY <1>2, <2>1, <2>2, <3>2 DEF Phase
        <4>2. Phases' = Phases
          BY <1>2, <4>1 DEF Phases
        <4>3. Reasons' = Reasons
          BY <1>2, <4>1 DEF Reasons
        <4> QED
          BY <4>2, <4>3
      <3> QED
        BY <3>1, <3>2
    <2>6. Abstract!Work(p)
      BY <1>1, <1>2, <2>3, <2>4, <2>5 DEF Abstract!Work, Abstract!files
    <2> QED
      BY <2>6 DEF Abstract!Next
  <1> QED
    BY <1>4, <1>5, <1>6 DEF ProvisionStorage

\* An edit by hand maps to one.
LEMMA MappedEdit ==
    ASSUME StorageInv, EditByHand \/ DeleteByHand
    PROVE  Abstract!Next
  <1>1. UNCHANGED inputs /\ edits' = edits + 1
    BY DEF EditByHand, DeleteByHand
  <1>2. UNCHANGED <<Declared, Updatable, dryRun>>
    BY <1>1 DEF Declared, Updatable, Declares, inputs
  <1>3. CASE EditByHand
    <2>1. \A p \in Provisioners :
             run'[p].pc = run[p].pc /\ run'[p].history = run[p].history \cup {"edited"}
      BY <1>3, Given, NoteFields DEF EditByHand, Events
    <2>2. Phases' = Phases
      BY <2>1 DEF Phases
    <2>3. Reasons' = Reasons
      <3>1. \A p \in Provisioners :
              run'[p].history \cap {"interrupted", "deleted", "unsupported"}
                = run[p].history \cap {"interrupted", "deleted", "unsupported"}
        BY <2>1
      <3> QED
        BY <3>1 DEF Reasons
    <2>4. DOMAIN live \subseteq DOMAIN live'
      BY <1>3 DEF EditByHand, Put
    <2> QED
      BY <1>1, <1>2, <2>2, <2>3, <2>4 DEF Abstract!Next, Abstract!Edit, Abstract!files
  <1>4. CASE DeleteByHand
    <2>1. \A p \in Provisioners :
             run'[p].pc = run[p].pc /\ run'[p].history = run[p].history \cup {"deleted"}
      BY <1>4, Given, NoteFields DEF DeleteByHand, Events
    <2>2. Phases' = Phases
      BY <2>1 DEF Phases
    <2>3. Reasons' = [p \in Provisioners |-> Reasons[p] \cup {"deleted"}]
      <3>1. \A p \in Provisioners :
              run'[p].history \cap {"interrupted", "deleted", "unsupported"}
                = (run[p].history \cap {"interrupted", "deleted", "unsupported"}) \cup {"deleted"}
        BY <2>1
      <3> QED
        BY <3>1 DEF Reasons
    <2>4. DOMAIN live' \subseteq DOMAIN live
      BY <1>4 DEF DeleteByHand
    <2> QED
      BY <1>1, <1>2, <2>2, <2>3, <2>4 DEF Abstract!Next, Abstract!Delete, Abstract!files
  <1> QED
    BY <1>3, <1>4

\* Every behaviour of the section is one that Reconciler allows, for any number
\* of runs and any files - unless an error's text is taken for a conflict: then
\* a run may succeed without the bucket (isBucketExistsError).
THEOREM SectionImplementsReconciler ==
    Spec /\ ErrorsAreTold => ImplementsReconciler
  <1>1. Init => Abstract!Init
    <2> SUFFICES ASSUME Init PROVE Abstract!Init
      OBVIOUS
    <2>1. \A p \in Provisioners : Updatable[p] \subseteq Declared[p]
      BY DEF Updatable, Declared, Declares
    <2>2. \A p \in Provisioners : run[p].pc = "idle" /\ run[p].history = {}
      BY DEF Init, Fresh
    <2>3. Phases = [p \in Provisioners |-> "idle"]
      BY <2>2 DEF Phases, Phase, Running
    <2>4. Reasons = [p \in Provisioners |-> {}]
      BY <2>2 DEF Reasons
    <2> QED
      BY <2>1, <2>3, <2>4 DEF Init, Abstract!Init
  <1>2. StorageInv /\ ErrorsAreTold /\ [Next]_vars => [Abstract!Next]_(Abstract!vars)
    <2> SUFFICES ASSUME StorageInv, ErrorsAreTold, [Next]_vars
                 PROVE  [Abstract!Next]_(Abstract!vars)
      OBVIOUS
    <2>1. CASE UNCHANGED vars
      BY <2>1 DEF vars, Abstract!vars, Abstract!files, Declared, Updatable, Declares,
                  Phases, Reasons
    <2> QED
      BY <2>1, MappedRun, MappedEdit DEF Next
  <1>3. ErrorsAreTold /\ [Next]_vars => ErrorsAreTold'
    BY SameBackend DEF ErrorsAreTold
  <1> QED
    BY <1>1, <1>2, <1>3, StorageInvariant, PTL DEF Spec, ImplementsReconciler, Abstract!Spec
-----------------------------------------------------------------------------
(* A run ends: every step of its own takes it forward, and nobody takes it   *)
(* back.                                                                     *)

\* s is ahead of r: it is over, at a later bucket, or about to send something
\* for the bucket that r has only come to.
Ahead(r, s) ==
    \/ s.pc \in {"ok", "failed"}
    \/ s.pc \in Running /\ r.bi < s.bi
    \/ s.pc \in {"create", "version"} /\ r.pc = "loop" /\ r.bi = s.bi

\* The places of a run: each bucket of its file, and one past the last.
InFile == \A p \in Provisioners : run[p].bi <= Len(cfg[p].buckets) + 1

\* A step of a run that is under way, and any step that moves one, takes it ahead.
Advances ==
    \A p \in Provisioners :
        run[p].pc \in Running /\ (ProvisionStorage(p) \/ Moves(p)) => Ahead(run[p], run'[p])

\* The records a run may go on with, after warning about anything: it is ahead,
\* and at a place of its file.
LEMMA GoesAhead ==
    ASSUME StorageInv, NEW p \in Provisioners, run[p].pc \in Running,
           run[p].bi <= Len(cfg[p].buckets), NEW w, w = run[p] \/ \E n, F : w = Warn(run[p], n, F)
    PROVE  /\ Ahead(run[p], Advance(w)) /\ Advance(w).bi <= Len(cfg[p].buckets) + 1
           /\ \A c \in {"ok", "failed"} :
                 Ahead(run[p], Goto(w, c)) /\ Goto(w, c).bi <= Len(cfg[p].buckets) + 1
           /\ \A e : Ahead(run[p], Fail(w, e)) /\ Fail(w, e).bi <= Len(cfg[p].buckets) + 1
           /\ run[p].pc = "loop" => \A c \in {"create", "version"} :
                 Ahead(run[p], Goto(w, c)) /\ Goto(w, c).bi <= Len(cfg[p].buckets) + 1
  <1>1. /\ run[p] \in RunState /\ run[p].bi \in Nat /\ Len(cfg[p].buckets) \in Nat
    BY Given, Positions
  <1>2. /\ Advance(w).pc = "loop" /\ Advance(w).bi = run[p].bi + 1
        /\ \A c : Goto(w, c).pc = c /\ Goto(w, c).bi = run[p].bi
        /\ \A e : Fail(w, e).pc = "failed" /\ Fail(w, e).bi = run[p].bi
    BY <1>1 DEF Warn, Advance, Goto, Fail, Note, RunState
  <1> QED
    BY <1>1, <1>2 DEF Ahead, Running

\* Every step of a run that is under way takes it ahead, within its file.
LEMMA StepAhead ==
    ASSUME StorageInv, InFile, NEW p \in Provisioners,
           ProvisionStorage(p) \/ Rerun(p) \/ CallFails(p) \/ Killed(p)
    PROVE  /\ run[p].pc \in Running => Ahead(run[p], run'[p])
           /\ run'[p].bi <= Len(cfg[p].buckets) + 1
  <1>1. /\ run[p] \in RunState /\ run[p].bi \in Nat /\ Len(cfg[p].buckets) \in Nat
        /\ DOMAIN cfg[p].buckets = 1..Len(cfg[p].buckets)
    BY Given, Positions
  <1>2. \A r : Become(p, r) => run'[p] = r
    BY Given DEF Become
  <1>3. run[p].pc \in {"create", "version"} => run[p].bi <= Len(cfg[p].buckets)
    BY <1>1, Given DEF Placed
  <1>4. CASE Start(p) \/ Rerun(p)
    <2>1. run'[p].bi = 1 /\ run[p].pc \notin Running
      BY <1>2, <1>4 DEF Start, Rerun, Begin, Fresh, Running
    <2> QED
      BY <1>1, <2>1
  <1>5. CASE ensureBucket(p)
    <2>1. run[p].pc = "loop" /\ run[p].bi <= Len(cfg[p].buckets)
      BY <1>5 DEF ensureBucket
    <2>2. \/ Become(p, Advance(run[p])) \/ Become(p, Goto(run[p], "create"))
          \/ Become(p, Advance(Warn(run[p], Name(p), Drift(p))))
          \/ Become(p, Goto(Warn(run[p], Name(p), Drift(p)), "version"))
      BY <1>5 DEF ensureBucket, ensureVersioning
    <2> QED
      BY <1>2, <2>1, <2>2, GoesAhead DEF Running
  <1>6. CASE createBucket(p) \/ setVersioning(p)
    <2>1. run[p].pc \in Running /\ run[p].bi <= Len(cfg[p].buckets)
      BY <1>3, <1>6 DEF createBucket, setVersioning, Running
    <2>2. \/ Become(p, Advance(run[p])) \/ Become(p, Goto(run[p], "failed"))
          \/ Become(p, Fail(run[p], "unsupported"))
      BY <1>6 DEF createBucket, setVersioning
    <2> QED
      BY <1>2, <2>1, <2>2, GoesAhead
  <1>7. CASE sectionDone(p)
    <2>1. run'[p].pc = "ok" /\ run'[p].bi = run[p].bi
      BY <1>1, <1>2, <1>7 DEF sectionDone, Goto, RunState
    <2> QED
      BY <2>1 DEF Ahead, InFile
  <1>8. CASE CallFails(p)
    <2>1. run[p].pc \in Running /\ run[p].bi <= Len(cfg[p].buckets)
      BY <1>8 DEF CallFails
    <2>2. Become(p, Advance(run[p])) \/ Become(p, Fail(run[p], "interrupted"))
      BY <1>8 DEF CallFails
    <2> QED
      BY <1>2, <2>1, <2>2, GoesAhead
  <1>9. CASE Killed(p)
    <2>1. run'[p].pc = "failed" /\ run'[p].bi = run[p].bi
      BY <1>1, <1>2, <1>9 DEF Killed, Fail, Note, Goto, RunState
    <2> QED
      BY <2>1 DEF Ahead, InFile
  <1> QED
    BY <1>4, <1>5, <1>6, <1>7, <1>8, <1>9 DEF ProvisionStorage

\* A run of the Cloud Storage section ends: each of its own steps takes it ahead
\* in its file, no other run and no edit by hand sets it back, and its places are
\* bounded by the file (ProvisionStorage).
THEOREM EveryStepCounts == Spec => []InFile /\ [][Advances]_vars
  <1>1. Init => InFile
    <2> SUFFICES ASSUME Init PROVE InFile
      OBVIOUS
    <2>1. StorageInv
      BY InitInv
    <2> QED
      BY <2>1, Positions DEF Init, InFile, Fresh
  <1>2. ASSUME StorageInv, InFile, [Next]_vars
        PROVE  InFile' /\ [Advances]_vars
    <2>1. CASE UNCHANGED vars
      BY <1>2, <2>1 DEF vars, InFile
    <2>2. CASE EditByHand \/ DeleteByHand
      <3>1. PICK e \in Events : run' = [p \in Provisioners |-> Note(run[p], e)]
        BY <2>2 DEF EditByHand, DeleteByHand, Events
      <3>2. ASSUME NEW p \in Provisioners
            PROVE  /\ run'[p].bi = run[p].bi
                   /\ [run'[p] EXCEPT !.history = {}] = [run[p] EXCEPT !.history = {}]
        BY <1>2, <3>1, Given DEF Note, RunState
      <3>3. cfg' = cfg
        BY <2>2 DEF EditByHand, DeleteByHand, inputs
      <3> QED
        BY <1>2, <3>2, <3>3, StepAhead DEF InFile, Advances, Moves
    <2>3. ASSUME NEW p \in Provisioners,
                 ProvisionStorage(p) \/ Rerun(p) \/ CallFails(p) \/ Killed(p)
          PROVE  InFile' /\ Advances
      <3>1. /\ cfg' = cfg
            /\ \A q \in Provisioners : q # p => run'[q] = run[q]
        BY <1>2, <2>3, RunWrites, Given DEF inputs
      <3>2. /\ run[p].pc \in Running => Ahead(run[p], run'[p])
            /\ run'[p].bi <= Len(cfg[p].buckets) + 1
        BY <1>2, <2>3, StepAhead
      <3> QED
        BY <1>2, <3>1, <3>2, StepAhead DEF InFile, Advances, Moves
    <2> QED
      BY <1>2, <2>1, <2>2, <2>3 DEF Next
  <1> QED
    BY <1>1, <1>2, StorageInvariant, PTL DEF Spec

=============================================================================
