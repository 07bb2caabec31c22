------------------------ MODULE ExamAttemptRegister ------------------------
(***************************************************************************)
(* What the attempt runtime promises its callers, one atomic operation per *)
(* endpoint: TASK-044 (start is idempotent and safe under concurrency, a   *)
(* finalized attempt stays as it is) and TASK-045 (a stale revision never  *)
(* overwrites, a closed attempt takes no answers).                         *)
(*                                                                         *)
(* The rows are those of ExamAttempts; queries, requests and the clock are *)
(* not part of the promise.                                                *)
(***************************************************************************)
EXTENDS Integers

CONSTANTS Participant, AttemptNo, Version, NoAttempt, NoAnswer

VARIABLES attempt, answer

AttemptId == Participant \X AttemptNo
Live(id)  == attempt[id].status = "IN_PROGRESS"

OnlyAttempt(id) == \A j \in AttemptId \ {id} : attempt'[j] = attempt[j]
OnlyAnswer(id, v) ==
    \A j \in AttemptId, w \in Version :
        <<j, w>> # <<id, v>> => answer'[j][w] = answer[j][w]

Init ==
    /\ attempt = [id \in AttemptId |-> NoAttempt]
    /\ answer = [id \in AttemptId |-> [v \in Version |-> NoAnswer]]

\* Start opens the participant's next attempt, and only when none is live.
Open(p, n) ==
    /\ \A m \in AttemptNo : ~Live(<<p, m>>)
    /\ \A m \in AttemptNo : m < n <=> attempt[<<p, m>>] # NoAttempt
    /\ attempt'[<<p, n>>].status = "IN_PROGRESS"
    /\ OnlyAttempt(<<p, n>>)
    /\ UNCHANGED answer

\* The verdict is that of the attempt's own deadline, and the rest is kept.
Judged(id) ==
    LET t == attempt'[id].submittedAt
    IN  attempt'[id] = [attempt[id] EXCEPT
          !.submittedAt = t,
          !.status = IF t >= attempt[id].expiresAt
                       THEN "EXPIRED" ELSE "SUBMITTED"]

\* Submit closes a live attempt once.
Close(id) ==
    /\ Live(id)
    /\ Judged(id)
    /\ OnlyAttempt(id)
    /\ UNCHANGED answer

\* An answer of a live attempt is replaced by one that knew its revision.
Write(id, v) ==
    /\ Live(id)
    /\ answer'[id][v].revision > answer[id][v].revision
    /\ OnlyAnswer(id, v)
    /\ UNCHANGED attempt

Next ==
    \/ \E p \in Participant, n \in AttemptNo : Open(p, n)
    \/ \E id \in AttemptId : Close(id)
    \/ \E id \in AttemptId, v \in Version : Write(id, v)

-----------------------------------------------------------------------------
(* What is left of the promise when a request was overtaken *)

\* A start that another one overtook: the next number, but not the only one live.
OpenSecond(p, n) ==
    /\ \A m \in AttemptNo : m < n <=> attempt[<<p, m>>] # NoAttempt
    /\ attempt'[<<p, n>>].status = "IN_PROGRESS"
    /\ OnlyAttempt(<<p, n>>)
    /\ UNCHANGED answer

\* A submit that another one overtook: stamped anew, and judged by that stamp.
Restamp(id) ==
    /\ attempt[id].status \in {"SUBMITTED", "EXPIRED"}
    /\ Judged(id)
    /\ OnlyAttempt(id)
    /\ UNCHANGED answer

\* A save that a submit or another save overtook: of an answer sent in time.
WriteLate(id, v) ==
    /\ attempt[id] # NoAttempt /\ answer'[id][v] # NoAnswer
    /\ answer'[id][v].savedAt < attempt[id].expiresAt
    /\ OnlyAnswer(id, v)
    /\ UNCHANGED attempt

Late ==
    \/ \E p \in Participant, n \in AttemptNo : OpenSecond(p, n)
    \/ \E id \in AttemptId : Restamp(id)
    \/ \E id \in AttemptId, v \in Version : WriteLate(id, v)

-----------------------------------------------------------------------------

Spec == Init /\ [][Next]_<<attempt, answer>>
=============================================================================
