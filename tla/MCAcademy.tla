----------------------------- MODULE MCAcademy -----------------------------
(***************************************************************************)
(* Values for TLC: two requests, and the calls that are made together.     *)
(***************************************************************************)
EXTENDS Academy, TLC

MCMixes ==
    {\* what is handed in
     {"submit", "grade"}, {"saveDraft", "grade"}, {"submit", "saveDraft"},
     {"submit", "saveDraft", "files"},
     {"submit", "saveDraft", "edit", "status"}, {"submit", "files", "upload"},
     {"submit", "maxScore", "attemptsAllowed"}, {"grade", "maxScore"},
     {"grade", "files"},
     \* the marks
     {"autoGrade", "manualGrade"}, {"sit", "autoGrade"}, {"grade", "calculate"},
     {"component", "calculate"},
     {"autoGrade", "recalculate"}, {"calculate", "approveGrade", "reopenGrade"},
     {"recalculate", "approveGrade", "reopenGrade"},
     \* attendance
     {"enroll", "enrollment status", "transfer"}, {"roll", "CLOSED"},
     {"roll", "transfer", "enrollment status"}, {"roll", "correct record"},
     {"correct record", "CLOSED"}, {"correct record", "CANCELLED"},
     {"lesson", "CLOSED", "OPEN"}, {"lesson", "roll", "refresh"},
     \* exam preparation
     {"question", "version", "question status"}, {"version", "publish"},
     {"rewrite", "publish", "question status"}, {"question", "kind", "publish"},
     {"exam status", "setting", "blueprint"}, {"exam status", "publish"}, {"exam status", "question", "publish"},
     {"session status", "seat"},
     \* graduation decisions
     {"create", "approve", "revoke"}, {"approve", "correct"}, {"correct", "revoke"},
     \* the learning catalogue and the progress through it
     {"activity", "reorder"}, {"meeting", "activity status"},
     {"activity type", "activity status"}, {"activity edit", "material status"},
     {"activity edit", "reorder"}, {"activity edit", "activity status"}, {"activity edit", "meeting"},
     {"material", "activity status"}, {"material version", "material status"},
     {"progress", "activity status"}, {"progress", "enrollment status"},
     \* the institution
     {"organization", "move"}, {"schedule", "book"}, {"schedule", "update", "end"},
     {"teaching", "book", "end"}, {"teaching", "update"}, {"staff", "book"}, {"staff", "update", "end"}}

\* Of all calls only the creation of an activity.
MCUngated == {{"activity"}}

CONSTANTS q1, q2, c1, l1, i1, r1, r2, s1, s2, t1, t2, g1, g2, p1, p2

MCClassOf == [l \in {l1} |-> c1]

MCMaxScore == [work |-> 1, exam |-> 2]

MCMatches == [r \in {r1, r2} |-> {i1}]
MCNeed    == [r \in {r1, r2} |-> IF r = r1 THEN 1 ELSE 2]

\* Two schedules, an assignment of each of two educators and two of one of them as
\* class staff; days 0 and 1, and 9 for an open end.
MCSort   == [b \in {s1, s2, t1, t2, g1, g2} |-> CASE b \in {s1, s2} -> "schedule"
                                                   [] b \in {t1, t2} -> "teaching"
                                                   [] OTHER          -> "staff"]
MCHolder == [b \in DOMAIN MCSort |-> IF b = t2 THEN p2 ELSE p1]
MCPeriod == {[from |-> 0, until |-> 0], [from |-> 0, until |-> 1], [from |-> 1, until |-> 9]}

Symmetric == Permutations(Handler)
=============================================================================
