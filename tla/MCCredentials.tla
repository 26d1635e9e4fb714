--------------------------- MODULE MCCredentials ---------------------------
(***************************************************************************)
(* Small instances of the credentials section for TLC.                     *)
(***************************************************************************)
EXTENDS CredentialsProperties, TLC

CONSTANTS k1, k2, k3, k4, k5

\* "x" is neither an account nor a URL; "./key" and "key" are one file.
MCTexts == {"", "create", "update", "local-emulator", "worker-sa", "x",
            "key", "./key", "other", "local", "old", "http://stub/token",
            "https://oauth2.googleapis.com/token"}

MCAccounts == {"local-emulator", "worker-sa"}

MCURIs == {"http://stub/token"}

MCTarget ==
    [t \in MCTexts \ {""} |-> IF t \in {"key", "./key"} THEN "file1" ELSE "file2"]

MCFiles == {"file1", "file2"}

MCPairs == {k1, k2, k3, k4, k5}

MCLong == {k4, k5}

-----------------------------------------------------------------------------
Entry(path, strategy, account, uri) ==
    [path |-> path, strategy |-> strategy, account |-> account, token_uri |-> uri]

File(entries) == [project_id |-> "local", credentials |-> entries]

\* One entry of every kind; two files; two paths to one file; entries that
\* validation has to refuse.
OneFile ==
    {File(<<Entry("key", s, a, u)>>) :
        s \in {"", "create", "update"}, a \in {"", "worker-sa", "x"},
        u \in {"", "http://stub/token", "x"}}
    \cup {File(<<>>),
          File(<<Entry("key", "", "", ""), Entry("other", "update", "worker-sa", "")>>),
          File(<<Entry("key", "update", "", ""), Entry("./key", "", "worker-sa", "")>>),
          File(<<Entry("key", "", "", ""), Entry("key", "update", "", "")>>)}

OneFleet == {[p \in Provisioners |-> c] : c \in OneFile}

CreateFleet == {[p \in Provisioners |-> File(<<Entry("key", "", "", "")>>)]}

\* An empty volume, one with a key that somebody else made, and one on which a
\* write was cut short before.
NewVolume == [f \in Files |-> Is("absent")]

OldKey ==
    [project_id |-> "old", account |-> "local-emulator",
     token_uri |-> "http://stub/token", pair |-> k5]

MCVolumes ==
    {NewVolume, [NewVolume EXCEPT !["file1"] = Whole(OldKey)],
     [NewVolume EXCEPT !["file1"] = Is("cut")]}

Empty == {NewVolume}

AnyDryRun == [Provisioners -> BOOLEAN]

RealRuns == {[p \in Provisioners |-> FALSE]}
=============================================================================
