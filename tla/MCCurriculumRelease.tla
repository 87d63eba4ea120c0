------------------------- MODULE MCCurriculumRelease -------------------------
(* Authors are alike: each starts from the same branch and takes the same      *)
(* steps, and no property names one.                                           *)
EXTENDS CurriculumRelease, TLC

AuthorSymmetry == Permutations(Authors)
==============================================================================
