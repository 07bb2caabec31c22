----------------------- MODULE MCKeycloakProvisioning -----------------------
(***************************************************************************)
(* Values for TLC: two accounts that share a user name, and a second name  *)
(* that only Keycloak's console gives.                                     *)
(***************************************************************************)
EXTENDS KeycloakProvisioning

CONSTANTS n1, n2

MCOneName == [a \in Account |-> n1]
=============================================================================
