------------------------------- MODULE Common -------------------------------
(***************************************************************************)
(* What the sections of a config file share (internal/config/config.go):   *)
(* texts, optional values and the strategy of a resource.  A Go pointer,   *)
(* or a value that may be omitted, is a set with at most one element.      *)
(***************************************************************************)
EXTENDS Integers, Sequences

CONSTANT Texts    \* every string a config or an endpoint can hold

ASSUME EmptyTextAssumption == "" \in Texts

Opt(S) == {o \in SUBSET S : \A x, y \in o : x = y}

The(o) == CHOOSE x \in o : TRUE

-----------------------------------------------------------------------------
(* The strategy of a resource: its own, else the file's, else "update". *)

validStrategies == {"", "create", "update"}

EffectiveStrategy(own, global) ==
    IF own # "" THEN own ELSE IF global # "" THEN global ELSE "update"
=============================================================================
