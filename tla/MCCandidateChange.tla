-------------------------- MODULE MCCandidateChange --------------------------
(* Instances of CandidateChange for TLC: a candidate of two files in a checkout *)
(* with one more.                                                               *)
EXTENDS CandidateChange, TLC

CONSTANTS p1, p2, q

TwoChanged == {p1, p2}
ThreePaths == {p1, p2, q}

\* The two files are alike.
Alike == Permutations({p1, p2})

==============================================================================
