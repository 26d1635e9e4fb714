-------------------------------- MODULE Load --------------------------------
(***************************************************************************)
(* config.Load (internal/config/config.go): a file is read, ${VAR} is      *)
(* expanded in every text of it, and the result is validated.  The file is *)
(* loaded several times, by restarted or parallel processes, with one      *)
(* environment.                                                            *)
(*                                                                         *)
(* A text refers to at most one variable, and is then replaced as a whole. *)
(* A duration counts one unit.  Numbers and booleans have their defaults,  *)
(* fractions of a second are left to Config, and what the rule of a single *)
(* field says of a text (a pattern, a list, "is required") is a constant.  *)
(***************************************************************************)
EXTENDS Common, DayNotation

CONSTANTS
    Loads,         \* the times the file is loaded
    Variables,     \* environment variables
    Reference,     \* the variable each text refers to, if any
    Environments,  \* the value of each variable, if it is set
    Written,       \* the unit and the number each text counts, if it does
    Admits,        \* the texts that the rule of each field alone admits
    Raws           \* the files

(***************************************************************************)
(* The text fields of the config types, and the maps from text to text.  A *)
(* file has two topics here, with one subscription, and one of every other *)
(* section.                                                                *)
(***************************************************************************)
StringFields ==
    ({"file"} \X {"strategy", "project_id"})
    \cup ({"topic 1", "topic 2"} \X {"name", "strategy", "message_retention"})
    \cup ({"subscription"} \X
            {"name", "strategy", "ack_deadline", "message_retention", "filter",
             "expiration_ttl", "push_endpoint", "push_wrapper"})
    \cup ({"push_oidc_token"} \X {"service_account_email", "audience"})
    \cup ({"dead_letter"} \X {"topic"})
    \cup ({"retry"} \X {"minimum_backoff", "maximum_backoff"})
    \cup ({"credential"} \X {"path", "strategy", "account", "token_uri"})
    \cup ({"bucket"} \X {"name", "strategy", "location", "storage_class"})

MapFields ==
    ({"topic 1", "topic 2", "subscription"} \X {"labels"})
    \cup ({"subscription"} \X {"push_attributes"})

IsMap(m) == DOMAIN m \subseteq Texts /\ \A k \in DOMAIN m : m[k] \in Texts

ASSUME LoadAssumption ==
    /\ Reference \in [Texts -> Opt(Variables)]
    /\ Environments \subseteq [Variables -> Opt(Texts)]
    /\ Written \in [Texts -> Opt(Units \X (-MaxCount..MaxCount))]
    /\ Written[""] = {}
    /\ Admits \in [StringFields -> SUBSET Texts]
    /\ \A f \in StringFields : f[2] = "strategy" => Admits[f] = validStrategies
    /\ \A file \in Raws :
          /\ file.texts \in [StringFields -> Texts]
          /\ DOMAIN file.maps = MapFields
          /\ \A f \in MapFields : IsMap(file.maps[f])

VARIABLES
    raw,      \* the file
    env,      \* the environment
    outcome,  \* of each load: "none", "ok" or "error"
    config    \* what each load returned, if it returned no error

vars == <<raw, env, outcome, config>>

-----------------------------------------------------------------------------
\* A variable that is not set is left as it is written.
expandEnvVars(text) ==
    IF \E v \in Reference[text] : env[v] # {}
    THEN The(env[The(Reference[text])]) ELSE text

\* Go ranges over a map in any order: of two keys that expand to one, either
\* may be the last.
expandMap(m) ==
    LET keys == {expandEnvVars(k) : k \in DOMAIN m}
        From(key) == {k \in DOMAIN m : expandEnvVars(k) = key}
    IN  {out \in [keys -> {expandEnvVars(m[k]) : k \in DOMAIN m}] :
            \A key \in keys : \E k \in From(key) : out[key] = expandEnvVars(m[k])}

\* Mutant: a map was added to the types and forgotten in expandConfig.
Expanded_NotAll ==
    (StringFields \cup MapFields) \ {<<"subscription", "push_attributes">>}

\* The fields expandConfig visits.
Expanded ==
    ({"file", "topic 1", "topic 2", "subscription", "credential", "bucket"}
        \X {"strategy"})
    \cup ({"file"} \X {"project_id"})
    \cup ({"topic 1", "topic 2", "subscription", "bucket"} \X {"name"})
    \cup ({"topic 1", "topic 2", "subscription"} \X {"message_retention", "labels"})
    \cup ({"subscription"} \X {"ack_deadline", "filter", "expiration_ttl",
                               "push_endpoint", "push_wrapper", "push_attributes"})
    \cup ({"push_oidc_token"} \X {"service_account_email", "audience"})
    \cup ({"dead_letter"} \X {"topic"})
    \cup ({"retry"} \X {"minimum_backoff", "maximum_backoff"})
    \cup ({"credential"} \X {"path", "account", "token_uri"})
    \cup ({"bucket"} \X {"location", "storage_class"})

\* What expandConfig may make of the texts, and of a map.
ExpandedTexts ==
    [f \in StringFields |->
        IF f \in Expanded THEN expandEnvVars(raw.texts[f]) ELSE raw.texts[f]]

ExpandedMap(f) == IF f \in Expanded THEN expandMap(raw.maps[f]) ELSE {raw.maps[f]}

expandConfig ==
    {[texts |-> ExpandedTexts, maps |-> ms] :
        ms \in {ms \in [MapFields -> UNION {ExpandedMap(f) : f \in MapFields}] :
                   \A f \in MapFields : ms[f] \in ExpandedMap(f)}}

\* The duration a text stands for, if it does.
Parsed(text) == {ParseDuration(w) : w \in Written[text]}

validateDurations(c) ==
    \A f \in StringFields :
        f[2] \in DOMAIN Limits /\ c.texts[f] # "" /\
        ~(f[2] = "expiration_ttl" /\ c.texts[f] = "never") =>
            \E d \in Parsed(c.texts[f]) :
                validateDurationRange(d, Limits[f[2]].lo, Limits[f[2]].hi)

\* The bounds of the backoff, which are both given and not zero.
validateRetry(c) ==
    \A min \in Parsed(c.texts[<<"retry", "minimum_backoff">>]),
       max \in Parsed(c.texts[<<"retry", "maximum_backoff">>]) :
        Less(Seconds(0), min) /\ Less(Seconds(0), max) => ~Less(max, min)

validate(c) ==
    /\ \A f \in StringFields : c.texts[f] \in Admits[f]
    /\ c.texts[<<"topic 1", "name">>] # c.texts[<<"topic 2", "name">>]
    /\ validateDurations(c)
    \* The file has a push_oidc_token, which needs an endpoint.
    /\ c.texts[<<"subscription", "push_endpoint">>] # ""
    /\ validateRetry(c)
    /\ \E t \in {"topic 1", "topic 2"} :
          c.texts[<<"dead_letter", "topic">>] = c.texts[<<t, "name">>]

LoadFile(l) ==
    /\ outcome[l] = "none"
    /\ \E c \in expandConfig :
          /\ outcome' = [outcome EXCEPT ![l] = IF validate(c) THEN "ok" ELSE "error"]
          /\ config' = [config EXCEPT ![l] = IF validate(c) THEN {c} ELSE {}]
    /\ UNCHANGED <<raw, env>>

Init ==
    /\ raw \in Raws /\ env \in Environments
    /\ outcome = [l \in Loads |-> "none"]
    /\ config = [l \in Loads |-> {}]

Next == \E l \in Loads : LoadFile(l)

Spec == Init /\ [][Next]_vars

-----------------------------------------------------------------------------
(* Properties. *)

\* What a text has to become.
Meaning(text) ==
    LET values == UNION {env[v] : v \in Reference[text]}
    IN  IF values = {} THEN text ELSE The(values)

\* What a field of the file has to become.
Means(f) == Meaning(raw.texts[f])

\* A map stands for the map m: its keys are those of m, and each of its values
\* was written under a key that has become this one.
Stands(out, m) ==
    /\ DOMAIN out = {Meaning(k) : k \in DOMAIN m}
    /\ \A key \in DOMAIN out : \E k \in DOMAIN m :
          Meaning(k) = key /\ out[key] = Meaning(m[k])

\* Every text and every map of a loaded config stands for what was written: no
\* field, and no key or value of a map, is left unexpanded or expanded twice,
\* and no value moves to another key or is lost, except that of several keys
\* that become one: then it is one of theirs, as Go's map order has it.
NothingUnexpanded ==
    \A l \in Loads : \A c \in config[l] :
        /\ \A f \in StringFields : c.texts[f] = Means(f)
        /\ \A f \in MapFields : Stands(c.maps[f], raw.maps[f])

\* The least and the greatest number of each unit within the range of a field;
\* no whole day or hour is a deadline.
RetentionRange  == [d |-> <<1, 31>>, h |-> <<1, 744>>, m |-> <<10, 44640>>,
                    s |-> <<600, 2678400>>]
ExpirationRange == [d |-> <<1, 365>>, h |-> <<24, 8760>>, m |-> <<1440, 525600>>,
                    s |-> <<86400, 31536000>>]
AckRange        == [d |-> <<1, 0>>, h |-> <<1, 0>>, m |-> <<1, 10>>, s |-> <<10, 600>>]
BackoffRange    == [d |-> <<0, 0>>, h |-> <<0, 0>>, m |-> <<0, 10>>, s |-> <<0, 600>>]

RangeOf ==
    [message_retention |-> RetentionRange, expiration_ttl |-> ExpirationRange,
     ack_deadline |-> AckRange, minimum_backoff |-> BackoffRange,
     maximum_backoff |-> BackoffRange]

Within(w, range) == range[w[1]][1] <= w[2] /\ w[2] <= range[w[1]][2]

\* The fields that have a duration.
DurationFields ==
    {f \in StringFields :
        /\ f[2] \in DOMAIN RangeOf /\ Means(f) # ""
        /\ f[2] = "expiration_ttl" => Means(f) # "never"}

\* What fits into a time.Duration, in days: more of them wrap.
MaxFit == 106751

Fits(w) == w[1] = "d" => w[2] \in -MaxFit..MaxFit

\* How many seconds w counts.
SecondsPer == [d |-> 86400, h |-> 3600, m |-> 60, s |-> 1]

SecondsOf(w) == SecondsPer[w[1]] * w[2]

\* What a file has to be once it is expanded.
Acceptable ==
    /\ \A f \in StringFields : Means(f) \in Admits[f]
    /\ Means(<<"topic 1", "name">>) # Means(<<"topic 2", "name">>)
    /\ Means(<<"dead_letter", "topic">>) \in
          {Means(<<"topic 1", "name">>), Means(<<"topic 2", "name">>)}
    /\ Means(<<"subscription", "push_endpoint">>) # ""
    /\ \A f \in DurationFields : \E w \in Written[Means(f)] : Within(w, RangeOf[f[2]])
    /\ \A min \in Written[Means(<<"retry", "minimum_backoff">>)],
          max \in Written[Means(<<"retry", "maximum_backoff">>)] :
          max[2] # 0 => SecondsOf(min) <= SecondsOf(max)

\* A file loads exactly when it is acceptable with the variables replaced: what
\* is validated is what is run, names that only differ as written are seen as
\* one, a dead letter topic is looked up under the name it gets, and (README)
\* "a value outside" the ranges Google Cloud accepts "fails at config load".
\* A number of days that does not fit into 64 bit of nanoseconds is left out:
\* it wraps, perhaps into the range.
LoadsExactlyTheValid ==
    (\A f \in DurationFields : \A w \in Written[Means(f)] : Fits(w)) =>
        \A l \in Loads :
            outcome[l] # "none" => (outcome[l] = "ok" <=> Acceptable)
=============================================================================
