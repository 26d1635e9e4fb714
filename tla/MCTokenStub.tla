---------------------------- MODULE MCTokenStub ----------------------------
(***************************************************************************)
(* Instances of the token stub for TLC.                                    *)
(***************************************************************************)
EXTENDS TokenStub, TLC

CONSTANTS c1, c2

Ask(method, path) == [method |-> method, path |-> path]

MCRequests ==
    {Ask("POST", "/token"), Ask("GET", "/token"), Ask("DELETE", "/token"),
     Ask("GET", "/other"), Ask("GET", "//token")}

\* Unset, a number, zero, a negative number and no number at all.
MCSettings ==
    {[set |-> FALSE, number |-> FALSE, value |-> 0],
     [set |-> TRUE, number |-> TRUE, value |-> 60],
     [set |-> TRUE, number |-> TRUE, value |-> 0],
     [set |-> TRUE, number |-> TRUE, value |-> -1],
     [set |-> TRUE, number |-> FALSE, value |-> 0]}
=============================================================================
