------------------------- MODULE CertificateRegister -------------------------
(***************************************************************************)
(* What the certificate register promises to third parties: a decision has *)
(* at most one certificate, no two certificates share a token, and once    *)
(* issued it can only be withdrawn, once, for a reason that stands.        *)
(***************************************************************************)
CONSTANTS Decision, Token, Reason

VARIABLE standing      \* what is on record of each decision's certificate

Nothing == [status |-> "none"]

Issued(t) == [status |-> "ISSUED", token |-> t]

Init == standing = [d \in Decision |-> Nothing]

Used(t) == \E d \in Decision : standing[d] # Nothing /\ standing[d].token = t

Issue(d) == \E t \in Token :
    /\ standing[d] = Nothing /\ ~Used(t)
    /\ standing' = [standing EXCEPT ![d] = Issued(t)]

Revoke(d) == \E r \in Reason :
    /\ standing[d].status = "ISSUED"
    /\ standing' = [standing EXCEPT ![d] =
            [status |-> "REVOKED", token |-> standing[d].token, reason |-> r]]

Next == \E d \in Decision : Issue(d) \/ Revoke(d)

Spec == Init /\ [][Next]_standing
=============================================================================
