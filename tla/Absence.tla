------------------------------ MODULE Absence ------------------------------
(* What is not configured, not known, not there.                           *)
CONSTANT None
=============================================================================
