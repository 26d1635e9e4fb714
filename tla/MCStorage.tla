----------------------------- MODULE MCStorage -----------------------------
(***************************************************************************)
(* Small instances of the Cloud Storage section for TLC.                   *)
(***************************************************************************)
EXTENDS StorageProperties, TLC

\* Texts in two cases; "ice" is a storage class validation has to refuse.
MCTexts == {"", "create", "update", "assets", "backup", "us", "US", "eu", "EU",
            "US-CENTRAL1", "standard", "STANDARD", "nearline", "NEARLINE", "ice"}

MCBucketNames == {"assets", "backup"}

MCUpper ==
    [t \in MCTexts |->
        CASE t = "us" -> "US" [] t = "eu" -> "EU"
          [] t = "standard" -> "STANDARD" [] t = "nearline" -> "NEARLINE"
          [] OTHER -> t]

Plain(name) ==
    [name |-> name, strategy |-> "", versioning |-> {}, location |-> "",
     storage_class |-> ""]

File(buckets) == [strategy |-> "", buckets |-> buckets]

\* Every setting, omitted or not; a file with two buckets; files validation
\* has to refuse (a class that is none, a name twice); an empty file.
Buckets ==
    {[Plain("assets") EXCEPT !.versioning = v, !.location = l] :
        v \in {{}, {TRUE}}, l \in {"", "eu"}}
    \cup {[Plain("assets") EXCEPT !.versioning = {FALSE}, !.storage_class = c] :
            c \in {"standard", "NEARLINE"}}
    \cup {[Plain("assets") EXCEPT !.strategy = "create", !.versioning = {TRUE}]}

TwoBuckets ==
    File(<<[Plain("assets") EXCEPT !.versioning = {TRUE}, !.location = "us"],
           [Plain("backup") EXCEPT !.storage_class = "nearline"]>>)

OneFile ==
    {File(<<b>>) : b \in Buckets}
    \cup {File(<<>>), TwoBuckets,
          File(<<[Plain("assets") EXCEPT !.storage_class = "ice"]>>),
          File(<<[Plain("assets") EXCEPT !.versioning = {TRUE}],
                 [Plain("assets") EXCEPT !.versioning = {FALSE}]>>)}

OneFleet == {[p \in Provisioners |-> c] : c \in OneFile}

\* Runs of two files that disagree about a bucket, and one of which may only
\* create.
EuFile == File(<<[Plain("assets") EXCEPT !.versioning = {FALSE}, !.location = "eu"]>>)

CreateFile == [EuFile EXCEPT !.strategy = "create"]

MCFleets == OneFleet \cup [Provisioners -> {TwoBuckets, EuFile, CreateFile}]

-----------------------------------------------------------------------------
None == [n \in {} |-> {}]

In(location, versioning) ==
    [VersioningEnabled |-> versioning, Location |-> location,
     StorageClass |-> "STANDARD"]

Cloud == [emulator |-> FALSE, versioning |-> TRUE, says409 |-> FALSE]

Memory == [Cloud EXCEPT !.emulator = TRUE]

Filesystem == [Memory EXCEPT !.versioning = FALSE]

AllBackends == {Cloud, Memory, Filesystem}

\* What an emulator reports is its own: only the cloud has other places.
Lives1 == {None, "assets" :> In("US-CENTRAL1", FALSE), "assets" :> In("US-CENTRAL1", TRUE)}

Hand == {<<"assets", In("US-CENTRAL1", TRUE)>>}

AnyDryRun == [Provisioners -> BOOLEAN]
=============================================================================
