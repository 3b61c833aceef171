--------------------------- MODULE MCCompleteSets ---------------------------
(***************************************************************************)
(* Small instances of CompleteSets.  Users are interchangeable, and so are *)
(* questions: no definition of CompleteSets names one of them.             *)
(***************************************************************************)
EXTENDS CompleteSets, TLC

OneUnit == {1}
OneOrTwo == 1..2
Symmetry == Permutations(Users) \cup Permutations(Questions)
=============================================================================
