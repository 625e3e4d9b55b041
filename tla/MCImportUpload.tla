---------------------------- MODULE MCImportUpload ----------------------------
(***************************************************************************)
(* Instances of ImportUpload for TLC: files of one, two and three bytes in *)
(* parts of two, so that a file has one part or a short second one.        *)
(***************************************************************************)
EXTENDS ImportUpload, TLC

Symmetry == Permutations(Slots) \cup Permutations(Uploads)
=============================================================================
