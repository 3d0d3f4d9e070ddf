---------------------------- MODULE MCAdmission ----------------------------
(***************************************************************************)
(* Instances of Admission for TLC.  Hold is a whole number of MaxBody, as  *)
(* in serve.                                                               *)
(***************************************************************************)
EXTENDS Admission, TLC

\* None, an empty body, a small one, the largest, and one too large.
MCLength == {-1, 0, 1, MaxBody, MaxBody + 1}

Symmetry == Permutations(Caller)

=============================================================================
