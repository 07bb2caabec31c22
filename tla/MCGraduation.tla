---------------------------- MODULE MCGraduation ----------------------------
(***************************************************************************)
(* Values for TLC: one or two enrollments, two rules that ask for the same *)
(* attendance, results that satisfy them or not, and two requests.         *)
(***************************************************************************)
EXTENDS Graduation, TLC

CONSTANTS e1, e2, h1, h2, s

MCSubjectOf == s :> s

Attendance == [type |-> "ATTENDANCE_PERCENTAGE", label |-> "presence",
               threshold |-> 8000, ref |-> None, required |-> TRUE]
MCOffer    == {{Attendance}}

Have(percentage) == [attendance |-> percentage, grades |-> s :> None,
                     exams |-> <<>>]
MCPoor     == {Have(None)}
MCResults  == {Have(None), Have(8000)}

MCCohort   == <<e1, e2>>
MCOne      == <<e1>>
MCShared   == (h1 :> {e1}) @@ (h2 :> {e1})
MCApart    == (h1 :> {e1}) @@ (h2 :> {e2})
MCAlone    == h1 :> {e1, e2}

Symmetric  == Permutations(Handler)
=============================================================================
