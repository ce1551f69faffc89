--------------------------- MODULE MCStarSnapshots ---------------------------
(***************************************************************************)
(* Three pages of one repository: two boundaries for entries to cross, and *)
(* lists of three that the bound on the pages truncates.                   *)
(***************************************************************************)
EXTENDS StarSnapshots

Interchangeable == Permutations(Repos)
=============================================================================
