------------------------------ MODULE MCState ------------------------------
(***************************************************************************)
(* Instances of State for TLC.                                             *)
(***************************************************************************)
EXTENDS State

CONSTANTS k1, k2

\* The operator lists both keys, or one.
Changing == {{k1, k2}, {k1}}

====
