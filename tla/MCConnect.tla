----------------------------- MODULE MCConnect -----------------------------
(***************************************************************************)
(* Endpoints for TLC: up from the start, at the end of the second delay,   *)
(* at the last moment that is early enough for each probe limit, and too   *)
(* late.                                                                   *)
(***************************************************************************)
EXTENDS Connect

MCReadyTimes == {0, 3, 209, 239, 301}

MCProbeLimits == {30, 60}
=============================================================================
