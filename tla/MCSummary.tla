------------------------------ MODULE MCSummary ------------------------------
(* Small instances of Summary for TLC.                                     *)
EXTENDS Summary, TLC

CONSTANTS s1, s2, s3, e1, r1, c1, rd

MCSources == {s1, s2, s3}
MCEthTypes == {e1}
MCRules == {r1}
MCCountries == {c1}
MCReaders == {rd}
=============================================================================
