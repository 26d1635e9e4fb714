------------------------------ MODULE MCPubSub ------------------------------
(***************************************************************************)
(* Small instances of the Pub/Sub section for TLC: the files, projects and *)
(* endpoints the runs choose from.                                         *)
(***************************************************************************)
EXTENDS PubSubProperties, TLC

MCTexts == {"", "create", "update", "pubsub", "none",
            "orders", "dead", "worker", "audit", "env", "team", "x", "y"}

MCResourceNames == {"orders", "dead", "worker", "audit"}

MCLabelKeys == {"env", "team"}

-----------------------------------------------------------------------------
(* Config files.  A plain subscription or topic declares nothing. *)

PlainSub(name) ==
    [name |-> name, strategy |-> "", ack_deadline |-> {},
     message_retention |-> {}, retain_acked_messages |-> {},
     enable_message_ordering |-> {}, enable_exactly_once_delivery |-> {},
     filter |-> "", expiration_ttl |-> {}, labels |-> NoLabels,
     push_endpoint |-> "", push_attributes |-> NoLabels,
     push_oidc_token |-> {}, push_wrapper |-> "",
     push_write_metadata |-> FALSE, dead_letter |-> {}, retry |-> {}]

PlainTopic(name, subs) ==
    [name |-> name, strategy |-> "", labels |-> NoLabels,
     message_retention |-> {}, subscriptions |-> subs]

File(topicList) == [strategy |-> "", topics |-> topicList]

Token(audience) == {[service_account_email |-> "x", audience |-> audience]}

\* A subscription that declares every setting.
FullSub ==
    [name |-> "worker", strategy |-> "update", ack_deadline |-> {20 * Second},
     message_retention |-> {minMessageRetention},
     retain_acked_messages |-> {TRUE}, enable_message_ordering |-> {TRUE},
     enable_exactly_once_delivery |-> {TRUE}, filter |-> "x",
     expiration_ttl |-> {Day}, labels |-> "env" :> "x",
     push_endpoint |-> "x", push_attributes |-> "env" :> "x",
     push_oidc_token |-> Token("x"), push_wrapper |-> "none",
     push_write_metadata |-> TRUE,
     dead_letter |-> {[topic |-> "dead", max_delivery_attempts |-> 5]},
     retry |-> {[minimum_backoff |-> {Second}, maximum_backoff |-> {3 * Second}]}]

\* Subscriptions that declare one or two settings; the last three are files
\* validation has to refuse.
Subs ==
    LET worker == PlainSub("worker")
        push   == [worker EXCEPT !.push_endpoint = "x"]
    IN  {worker, FullSub, [FullSub EXCEPT !.strategy = "create"],
         [worker EXCEPT !.ack_deadline = {10 * Second}],
         [worker EXCEPT !.message_retention = {31 * Day}],
         [worker EXCEPT !.retain_acked_messages = {FALSE},
                        !.enable_message_ordering = {FALSE}],
         [worker EXCEPT !.enable_exactly_once_delivery = {FALSE}],
         [worker EXCEPT !.filter = "x", !.labels = "env" :> "x"],
         [worker EXCEPT !.expiration_ttl = {ExpirationNever},
                        !.ack_deadline = {20 * Second}],
         [push EXCEPT !.push_attributes = "env" :> "x"],
         [push EXCEPT !.push_wrapper = "pubsub"],
         [push EXCEPT !.push_wrapper = "none"],
         [push EXCEPT !.push_oidc_token = Token("")],
         [worker EXCEPT !.dead_letter =
            {[topic |-> "dead", max_delivery_attempts |-> 0]}],
         [worker EXCEPT !.retry =
            {[minimum_backoff |-> {Second}, maximum_backoff |-> {}]}],
         [worker EXCEPT !.ack_deadline = {10 * Second + 1}],
         [worker EXCEPT !.ack_deadline = {Second - 1}],
         [worker EXCEPT !.dead_letter =
            {[topic |-> "audit", max_delivery_attempts |-> 5]}]}

Topics ==
    LET orders == PlainTopic("orders", <<>>)
    IN  {[orders EXCEPT !.labels = "env" :> "x"],
         [orders EXCEPT !.message_retention = {minMessageRetention}],
         [orders EXCEPT !.labels = "env" :> "x",
                        !.message_retention = {minMessageRetention}],
         [orders EXCEPT !.labels = "env" :> "x", !.strategy = "create"]}

\* One subscription before its dead letter topic; topics without any; a file
\* with no topics; one name on two topics, which validation has to refuse.
OneFile ==
    {File(<<PlainTopic("orders", <<s>>), PlainTopic("dead", <<>>)>>) : s \in Subs}
    \cup {File(<<t>>) : t \in Topics}
    \cup {File(<<>>),
          File(<<PlainTopic("orders",
                   <<[PlainSub("worker") EXCEPT !.ack_deadline = {10 * Second}]>>),
                 PlainTopic("dead",
                   <<[PlainSub("worker") EXCEPT !.ack_deadline = {20 * Second}]>>)>>)}

-----------------------------------------------------------------------------
(* Projects. *)

BareTopic == [labels |-> NoLabels, message_retention_duration |-> 0]

LabelledTopic ==
    [labels |-> "env" :> "y" @@ "team" :> "y",
     message_retention_duration |-> 2 * minMessageRetention]

\* What the endpoint holds for a subscription created with nothing set.
BareSub(topicName) ==
    [topic |-> topicName, filter |-> "", enable_message_ordering |-> FALSE,
     ack_deadline_seconds |-> 10, message_retention_duration |-> 7 * Day,
     retain_acked_messages |-> FALSE, enable_exactly_once_delivery |-> FALSE,
     expiration_policy |-> {31 * Day}, labels |-> NoLabels, push_config |-> {},
     dead_letter_policy |-> {}, retry_policy |-> {}]

\* The same with the empty push config the endpoint may answer for a pull
\* subscription (client.Subscription.Push).
PullSub(topicName) ==
    [BareSub(topicName) EXCEPT !.push_config =
        {[push_endpoint |-> "", attributes |-> NoLabels, oidc_token |-> {},
          pubsub_wrapper |-> FALSE, no_wrapper |-> {}]}]

\* One that somebody set up by hand, otherwise than any file declares it.
RichSub(topicName) ==
    [topic |-> topicName, filter |-> "y", enable_message_ordering |-> TRUE,
     ack_deadline_seconds |-> 30, message_retention_duration |-> 2 * Day,
     retain_acked_messages |-> TRUE, enable_exactly_once_delivery |-> TRUE,
     expiration_policy |-> {}, labels |-> "env" :> "y" @@ "team" :> "y",
     push_config |-> {[push_endpoint |-> "x",
                       attributes |-> "env" :> "y" @@ "team" :> "y",
                       oidc_token |-> Token("y"), pubsub_wrapper |-> FALSE,
                       no_wrapper |-> {TRUE}]},
     dead_letter_policy |-> {[dead_letter_topic |-> "dead",
                              max_delivery_attempts |-> 9]},
     retry_policy |-> {[minimum_backoff |-> Second, maximum_backoff |-> 9 * Second]}]

Empty == [k \in {} |-> BareTopic]

OldProject(sub) ==
    TopicKey("orders") :> LabelledTopic @@ TopicKey("dead") :> BareTopic
        @@ SubKey("worker") :> sub

OneProject ==
    {Empty, TopicKey("dead") :> BareTopic,
     OldProject(BareSub("orders")), OldProject(RichSub("orders")),
     OldProject(BareSub("dead")), OldProject(PullSub("orders"))}

OneByHand ==
    {<<SubKey("worker"), RichSub("dead")>>, <<TopicKey("orders"), LabelledTopic>>}

\* One of the two does not echo the default wrapper.
Emulator ==
    [topic |-> {"labels"}, sub |-> {"labels", "expiration_policy"},
     echoes |-> FALSE]

Cloud == [topic |-> {}, sub |-> {}, echoes |-> TRUE]

BothEndpoints == {Emulator, Cloud}

-----------------------------------------------------------------------------
(* Fleets. *)

AnyDryRun == [Provisioners -> BOOLEAN]

RealRuns == {[p \in Provisioners |-> FALSE]}

OneFleet == {[p \in Provisioners |-> c] : c \in OneFile}

\* Two runs of one file, and runs of two files that share their resources.
FullFile ==
    File(<<[PlainTopic("orders", <<FullSub>>) EXCEPT !.labels = "env" :> "x",
                                !.message_retention = {minMessageRetention}],
           PlainTopic("dead", <<>>)>>)

OtherFile ==
    File(<<[PlainTopic("orders",
                <<[PlainSub("worker") EXCEPT !.labels = "team" :> "x",
                                             !.push_endpoint = "y"]>>)
              EXCEPT !.labels = "team" :> "x"]>>)

TwoFleets ==
    {[p \in Provisioners |-> c] : c \in {FullFile, OtherFile}}
    \cup {f \in [Provisioners -> {FullFile, OtherFile}] :
            \E p, q \in Provisioners : f[p] # f[q]}

TwoProjects == {Empty, OldProject(RichSub("orders"))}

TwoByHand == {<<SubKey("worker"), RichSub("orders")>>}

NoByHand == {}

-----------------------------------------------------------------------------
(* A file that the code and what is written about it disagree on: it       *)
(* declares a push endpoint and an attribute, but neither wrapper nor      *)
(* token, and one bound of the retry policy.                               *)

SettingsFleet ==
    {[p \in Provisioners |->
        File(<<PlainTopic("orders",
                 <<[PlainSub("worker") EXCEPT
                      !.push_endpoint = "x", !.push_attributes = "env" :> "x",
                      !.retry = {[minimum_backoff |-> {2 * Second},
                                  maximum_backoff |-> {}]}]>>)>>)]}

-----------------------------------------------------------------------------
(* Smaller instances. *)

OnEmulator == {Emulator}

\* A subscription that needs a later topic and drifts in two paths, one refused.
SmallFleet ==
    {[p \in Provisioners |->
        File(<<PlainTopic("orders",
                 <<[PlainSub("worker") EXCEPT
                      !.labels = "env" :> "x", !.ack_deadline = {20 * Second},
                      !.dead_letter =
                         {[topic |-> "dead", max_delivery_attempts |-> 9]}]>>),
               PlainTopic("dead", <<>>)>>)]}

\* The small file, and a fleet in which one provisioner may only create.
RefineFleets ==
    SmallFleet \cup
    {f \in [Provisioners -> {[c EXCEPT !.strategy = s] :
                                c \in {OtherFile}, s \in {"create", "update"}}] :
        \E p, q \in Provisioners : f[p] # f[q]}

RichProject == {OldProject(RichSub("orders"))}

OnCloud == {Cloud}
=============================================================================
