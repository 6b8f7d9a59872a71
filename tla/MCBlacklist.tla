----------------------------- MODULE MCBlacklist -----------------------------
(* Small instances of Blacklist for TLC.                                   *)
EXTENDS Blacklist, TLC

CONSTANTS a1, a2, c1, c2

MCAddrs == {a1, a2}
MCOneCaller == {c1}
MCTwoCallers == {c1, c2}
MCEmptyList == <<>>
MCListedAtStart == <<a1>>
=============================================================================
