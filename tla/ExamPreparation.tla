--------------------------- MODULE ExamPreparation ---------------------------
(***************************************************************************)
(* What the preparation of an exam promises, each request as one atomic    *)
(* step: a publication retires a published version, what was published     *)
(* never changes; an exam is validated against what is published and does  *)
(* not change once it is scheduled; nobody joins an open session.          *)
(***************************************************************************)
EXTENDS Integers, Sequences, FiniteSets

CONSTANTS Item, Rule, Matches, Need

VARIABLES item, version, exam, session

vars == <<item, version, exam, session>>

Published(i) == {n \in DOMAIN version[i] : version[i][n].status = "PUBLISHED"}

Init ==
    /\ \A i \in Item : Cardinality(Published(i)) <= 1
    /\ exam.status = "DRAFT"
    /\ session.status = "DRAFT" /\ session.seats = {}

AddQuestion(i) ==
    /\ item[i].status = "none" \/ item'[i].kind = item[i].kind \/ Published(i) = {}
    /\ item' = [item EXCEPT ![i] = item'[i]]
    /\ UNCHANGED <<version, exam, session>>

AddVersion(i) ==
    /\ Len(version'[i]) = Len(version[i]) + 1
    /\ version' = [version EXCEPT ![i] =
            Append(@, [version'[i][Len(@) + 1] EXCEPT !.status = "DRAFT"])]
    /\ UNCHANGED <<item, exam, session>>

Rewrite(i, n) ==
    /\ version[i][n].status = "DRAFT"
    /\ version' = [version EXCEPT ![i][n] = [version'[i][n] EXCEPT !.status = "DRAFT"]]
    /\ UNCHANGED <<item, exam, session>>

\* The draft n takes the place of what was published, and of the newest if there is more.
Publish(i, n) ==
    /\ item[i].status = "ACTIVE"
    /\ version[i][n].status = "DRAFT"
    /\ version' = [version EXCEPT ![i] = [m \in DOMAIN @ |->
            IF m = n THEN [@[m] EXCEPT !.status = "PUBLISHED"]
            ELSE IF m \in Published(i) /\ \A k \in Published(i) : k <= m
              THEN [@[m] EXCEPT !.status = "SUPERSEDED"]
            ELSE @[m]]]
    /\ UNCHANGED <<item, exam, session>>

\* Drafts and validated exams are edited.
Configure ==
    /\ exam.status \in {"DRAFT", "VALIDATED"}
    /\ exam'.status = exam.status
    /\ UNCHANGED <<item, version, session>>

Covered(r) ==
    Cardinality(UNION {{<<i, n>> : n \in Published(i)} : i \in Matches[r]}) >= Need[r]

Validate ==
    /\ exam.status = "DRAFT"
    /\ exam.rules # {} /\ \A r \in exam.rules : Covered(r)
    /\ exam' = [exam EXCEPT !.status = "VALIDATED"]
    /\ UNCHANGED <<item, version, session>>

\* Back to a draft or on: from validated to scheduled, closed and archived.
MoveExam == \E from, to \in {"DRAFT", "VALIDATED", "SCHEDULED", "CLOSED", "ARCHIVED"} :
    /\ exam.status = from
    /\ <<from, to>> \in {<<"VALIDATED", "DRAFT">>, <<"VALIDATED", "SCHEDULED">>,
                         <<"SCHEDULED", "CLOSED">>, <<"CLOSED", "ARCHIVED">>}
    /\ exam' = [exam EXCEPT !.status = to]
    /\ UNCHANGED <<item, version, session>>

MoveSession ==
    /\ session.status \notin {"CLOSED", "CANCELLED"}
    /\ session'.status # "DRAFT"
    /\ session.status = "OPEN" => session'.status = "CLOSED"
    /\ session' = [session EXCEPT !.status = session'.status]
    /\ UNCHANGED <<item, version, exam>>

Seat ==
    /\ session.status \in {"DRAFT", "SCHEDULED"}
    /\ session.seats \subseteq session'.seats
    /\ session' = [session EXCEPT !.seats = session'.seats]
    /\ UNCHANGED <<item, version, exam>>

Next ==
    \/ \E i \in Item : \/ AddQuestion(i) \/ AddVersion(i)
                       \/ \E n \in DOMAIN version[i] : Rewrite(i, n) \/ Publish(i, n)
    \/ Configure \/ Validate \/ MoveExam \/ MoveSession \/ Seat
=============================================================================
