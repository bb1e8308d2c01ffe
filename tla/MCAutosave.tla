----------------------------- MODULE MCAutosave -----------------------------
(* A small instance of Autosave for TLC.                                   *)
EXTENDS Autosave

\* A second loop could start.
ASSUME Cardinality(Loops) >= 2

=============================================================================
