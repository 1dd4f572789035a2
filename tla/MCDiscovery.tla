----------------------------- MODULE MCDiscovery -----------------------------
(***************************************************************************)
(* Discovery for TLC.  The other connections differ in nothing but their   *)
(* names, and so do the requests that are not for the statistics.          *)
(***************************************************************************)
EXTENDS Discovery, TLC

Alike == Permutations(Others) \union Permutations(Requests \ StatsRequests)
=============================================================================
