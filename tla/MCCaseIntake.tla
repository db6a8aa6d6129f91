---------------------------- MODULE MCCaseIntake ----------------------------
(* Small instances of CaseIntake for TLC.                                  *)
EXTENDS CaseIntake, TLC

Symmetric == Permutations(Requests) \cup Permutations(Orgs)
=============================================================================
