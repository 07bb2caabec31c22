--------------------------- MODULE MCCertificates ---------------------------
(***************************************************************************)
(* Values for TLC: interchangeable handlers, tokens and decisions.         *)
(***************************************************************************)
EXTENDS Certificates, TLC

Handlers == Permutations(Handler)
HandlersAndTokens == Permutations(Handler) \cup Permutations(Token)
=============================================================================
