------------------------------ MODULE Searches ------------------------------
(***************************************************************************)
(* Linear searches that return at the first match: over the lines of the   *)
(* cache file in Dproxy, over the blocks of the log in BootEnv.            *)
(***************************************************************************)
EXTENDS Naturals

\* The first of the positions I, 0 if there is none.
First(I) == IF I = {} THEN 0 ELSE CHOOSE i \in I : \A j \in I : i <= j
=============================================================================
