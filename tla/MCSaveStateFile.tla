-------------------------- MODULE MCSaveStateFile --------------------------
(* Instances of SaveStateFile for TLC. *)
EXTENDS SaveStateFile, TLC

CONSTANTS t1, t2, w1, w2, w3

(* A whole file of another build, a piece and a whole one of this build,   *)
(* of either title, and the removal of the file.                           *)
MCForeign ==
  {None} \cup {File(t, "other", Boot, Size) : t \in Titles}
         \cup {File(t, "this", Boot, n) : t \in Titles, n \in {Size - 1, Size}}

(* Nothing tells one title from another; the state after a boot is one of  *)
(* the states.                                                             *)
TitleSymmetry == Permutations(Titles)
=============================================================================
