--------------------------- MODULE MCSessionStore ---------------------------
(* A small instance of SessionStore for TLC.                               *)
EXTENDS SessionStore

\* There is always a value left for the next token and the next link.
ASSUME Cardinality(Tokens) >= MaxOps /\ Cardinality(Links) >= MaxOps

=============================================================================
