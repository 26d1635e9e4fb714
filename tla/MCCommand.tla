----------------------------- MODULE MCCommand -----------------------------
(***************************************************************************)
(* Small instances of the whole command for TLC: a file with one topic and *)
(* its subscription, one bucket and one key file, or with some of them     *)
(* left out, under different flags and environments.                       *)
(***************************************************************************)
EXTENDS Command, TLC

CONSTANTS k1, k2, p1, p2

MCTexts == {"", "create", "update", "pubsub", "none", "storage", "credentials",
            "orders", "worker", "assets", "key", "x", "true", "local", "other",
            "local-emulator", "https://oauth2.googleapis.com/token",
            "US", "US-CENTRAL1", "STANDARD"}

MCUpper == [t \in MCTexts |-> t]

MCTarget == [t \in MCTexts \ {""} |-> "file"]

Worker ==
    [name |-> "worker", strategy |-> "", ack_deadline |-> {}, message_retention |-> {},
     retain_acked_messages |-> {}, enable_message_ordering |-> {},
     enable_exactly_once_delivery |-> {}, filter |-> "", expiration_ttl |-> {},
     labels |-> PubSub!NoLabels, push_endpoint |-> "",
     push_attributes |-> PubSub!NoLabels, push_oidc_token |-> {},
     push_wrapper |-> "", push_write_metadata |-> FALSE,
     dead_letter |-> {}, retry |-> {}]

Orders ==
    [name |-> "orders", strategy |-> "", labels |-> PubSub!NoLabels,
     message_retention |-> {}, subscriptions |-> <<Worker>>]

Assets ==
    [name |-> "assets", strategy |-> "", versioning |-> {TRUE}, location |-> "",
     storage_class |-> ""]

TheKey == [path |-> "key", strategy |-> "", account |-> "", token_uri |-> ""]

Full ==
    [sectionFlag |-> "", GCP_SECTION |-> "", dryRunFlag |-> {}, DRY_RUN |-> "",
     GCP_PROJECT_ID |-> "local", project_id |-> "other", strategy |-> "",
     topics |-> <<Orders>>, buckets |-> <<Assets>>, credentials |-> <<TheKey>>]

\* Every part of the file present or not; sections by flag and environment;
\* dry runs by flag and environment; the project id from either place; and
\* inputs the command has to refuse.
OneInput ==
    {[Full EXCEPT !.topics = t, !.buckets = b, !.credentials = c] :
        t \in {<<>>, <<Orders>>}, b \in {<<>>, <<Assets>>}, c \in {<<>>, <<TheKey>>}}
    \cup {[Full EXCEPT !.sectionFlag = f, !.GCP_SECTION = e] :
            f \in {"", "pubsub", "credentials", "x"}, e \in {"", "storage"}}
    \cup {[Full EXCEPT !.dryRunFlag = f, !.DRY_RUN = e] :
            f \in {{}, {FALSE}, {TRUE}}, e \in {"", "true", "x"}}
    \cup {[Full EXCEPT !.GCP_PROJECT_ID = e, !.project_id = i] :
            e \in {"", "local"}, i \in {"", "other", "x"}}
    \cup {[Full EXCEPT !.strategy = "x"]}

\* A process that refuses its flags, over and over.
Refused == [Full EXCEPT !.sectionFlag = "x"]

\* Each input alone, but for a process that refuses its own; two full runs;
\* a full run beside one of a section and beside a dry run.
MCInputs ==
    {p1 :> i @@ p2 :> Refused : i \in OneInput}
    \cup {p1 :> Full @@ p2 :> i :
            i \in {Full, [Full EXCEPT !.sectionFlag = "pubsub"],
                   [Full EXCEPT !.dryRunFlag = {TRUE}]}}

FullInput == {p1 :> Full @@ p2 :> Refused}

NoTopics == {[k \in {} |-> 0]}

NoVolume == {[f \in KeyFiles |-> [state |-> "absent", key |-> {}]]}

OnEmulator ==
    {[topic |-> {"labels"}, sub |-> {"labels", "expiration_policy"},
      echoes |-> FALSE]}

InMemory == {[emulator |-> TRUE, versioning |-> TRUE, says409 |-> FALSE]}
=============================================================================
