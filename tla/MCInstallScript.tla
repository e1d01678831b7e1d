----------------------------- MODULE MCInstallScript -----------------------------
(* An instance of InstallScript for TLC: two requests, of either function  *)
(* and with either kind of template, while the configuration or the        *)
(* datamap, which has one entry, is changed once.                          *)
EXTENDS InstallScript

CONSTANTS r1, r2, us, de

(* So one change inserts the same entry again, changes it, or adds another *)
(* for the same or another value.                                          *)
MCGiven == [v \in {us, de} |-> IF v = us THEN de ELSE None]

MCRequests == {r1, r2}
===============================================================================
