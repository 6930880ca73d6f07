----------------------------- MODULE MCRunRecord -----------------------------
(* Instances of RunRecord for TLC.                                           *)
EXTENDS RunRecord
=============================================================================
