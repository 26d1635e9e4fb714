------------------------------- MODULE MCLoad -------------------------------
(***************************************************************************)
(* Files for TLC: "$A" and "$B" stand for ${A} and ${B}.                   *)
(***************************************************************************)
EXTENDS Load, TLC

\* Durations at the limits of the fields, in every unit.  Of the days, some are
\* at the end of what 64 bit can hold, and beyond: 106752 are negative, 213504
\* are a little more than 2^64 ns.
MCDurations ==
    "-1d" :> <<"d", -1>> @@ "0d" :> <<"d", 0>> @@ "1d" :> <<"d", 1>>
        @@ "31d" :> <<"d", 31>> @@ "32d" :> <<"d", 32>> @@ "365d" :> <<"d", 365>>
        @@ "366d" :> <<"d", 366>> @@ "106751d" :> <<"d", 106751>>
        @@ "106752d" :> <<"d", 106752>> @@ "213504d" :> <<"d", 213504>>
        @@ "23h" :> <<"h", 23>> @@ "24h" :> <<"h", 24>> @@ "744h" :> <<"h", 744>>
        @@ "745h" :> <<"h", 745>> @@ "8760h" :> <<"h", 8760>> @@ "8761h" :> <<"h", 8761>>
        @@ "9m" :> <<"m", 9>> @@ "10m" :> <<"m", 10>> @@ "11m" :> <<"m", 11>>
        @@ "-1s" :> <<"s", -1>> @@ "0s" :> <<"s", 0>> @@ "9s" :> <<"s", 9>>
        @@ "10s" :> <<"s", 10>> @@ "599s" :> <<"s", 599>> @@ "600s" :> <<"s", 600>>
        @@ "601s" :> <<"s", 601>>

\* "http" stands for an URL.
MCTexts ==
    {"", "create", "update", "orders", "dead", "env", "team", "none", "never",
     "http", "STANDARD", "$A", "$B"} \cup DOMAIN MCDurations

MCReference ==
    [t \in MCTexts |-> CASE t = "$A" -> {"A"} [] t = "$B" -> {"B"} [] OTHER -> {}]

MCWritten ==
    [t \in MCTexts |-> IF t \in DOMAIN MCDurations THEN {MCDurations[t]} ELSE {}]

\* What matches the patterns: a name, and the id of an account or a project.
Names == {"create", "update", "orders", "dead", "env", "team", "none", "never", "http"}

Ids == {"create", "update", "orders"}

MCAdmits ==
    [f \in StringFields |->
        CASE f[2] = "strategy" -> validStrategies
          [] f[2] = "name" /\ f[1] # "bucket" -> Names \cup {"STANDARD"}
          [] f = <<"bucket", "name">> ->
                Names \cup {t \in DOMAIN MCDurations : t \notin {"0d", "1d", "-1d", "-1s",
                                                                 "9m", "0s", "9s"}}
          [] f[2] \in {"project_id", "account"} -> Ids \cup {""}
          [] f[2] = "push_wrapper" -> {"", "none"}
          [] f[2] \in {"service_account_email", "path", "topic"} -> MCTexts \ {""}
          [] f[2] = "token_uri" -> {"", "http"}
          [] f[2] = "storage_class" -> {"", "STANDARD"}
          [] OTHER -> MCTexts]

\* Unset, empty, a strategy, names, a duration, and a text that is a reference.
MCEnvironments ==
    [{"A", "B"} -> {{}, {""}, {"create"}, {"orders"}, {"env"}, {"31d"}, {"$B"}}]

Plain ==
    [f \in StringFields |->
        CASE f = <<"topic 1", "name">> -> "orders"
          [] f \in {<<"topic 2", "name">>, <<"dead_letter", "topic">>} -> "dead"
          [] f \in {<<"subscription", "name">>, <<"bucket", "name">>,
                    <<"credential", "path">>} -> "team"
          [] f \in {<<"subscription", "push_endpoint">>,
                    <<"push_oidc_token", "service_account_email">>} -> "http"
          [] OTHER -> ""]

NoMaps == [f \in MapFields |-> [k \in {} |-> ""]]

WithMap(f, m) == [texts |-> Plain, maps |-> [NoMaps EXCEPT ![f] = m]]

WithTexts(texts) == [texts |-> texts, maps |-> NoMaps]

\* Each text field a reference, alone; both topics, or a topic and the dead
\* letter topic, named by references; each map with references as keys and
\* values, and two of them at once; durations of every kind in every field that
\* has one; both bounds of the backoff.
MCRaws ==
    {WithTexts([Plain EXCEPT ![f] = "$A"]) : f \in StringFields}
    \cup {WithTexts([Plain EXCEPT ![<<"topic 1", "name">>] = "$A", ![f] = "$B"]) :
            f \in {<<"topic 2", "name">>, <<"dead_letter", "topic">>}}
    \cup {WithMap(f, m) : f \in MapFields, m \in
            {"$A" :> "$B", "env" :> "$A" @@ "team" :> "$B",
             "$A" :> "create" @@ "env" :> "update", "$A" :> "create" @@ "$B" :> "$A"}}
    \cup {[texts |-> Plain,
           maps  |-> [f \in MapFields |-> "$A" :> "create" @@ "env" :> "update"]]}
    \cup {WithTexts([Plain EXCEPT ![f] = d]) :
            f \in {f \in StringFields : f[2] \in DOMAIN Limits},
            d \in DOMAIN MCDurations \cup {"never"}}
    \cup {WithTexts([Plain EXCEPT ![<<"retry", "minimum_backoff">>] = min,
                                  ![<<"retry", "maximum_backoff">>] = max]) :
            min, max \in {"0s", "9s", "599s", "9m", "10m", "601s"}}
=============================================================================
