-------------------------- MODULE MCGraduationRules --------------------------
(***************************************************************************)
(* The rule engine over every context of a few scores, and components of   *)
(* every type.                                                             *)
(***************************************************************************)
EXTENDS RuleEngine, TLC

CONSTANTS s1, s2, s3, law, ethics, exam

MCSubjectOf == (s1 :> law) @@ (s2 :> law) @@ (s3 :> ethics)

\* Grades around a threshold of 60.00, one hundredth apart, and the extremes.
MCGrade == {0, 5999, 6000, 6001}

Component(t, l, threshold, ref, required) ==
    [type |-> t, label |-> l, threshold |-> threshold, ref |-> ref,
     required |-> required]

MCComponents ==
    {Component("ATTENDANCE_PERCENTAGE", "presence", 8000, None, TRUE),
     Component("FINAL_SCORE", "mean", 6000, None, TRUE),
     Component("REQUIRED_SUBJECT", "law", 6000, law, TRUE),
     Component("REQUIRED_SUBJECT", "ethics", None, ethics, TRUE),
     Component("FINAL_EXAM", "exam", None, exam, TRUE),
     Component("FINAL_SCORE", "advice", 9000, None, FALSE)}
=============================================================================
