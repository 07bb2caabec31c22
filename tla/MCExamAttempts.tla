--------------------------- MODULE MCExamAttempts ---------------------------
(***************************************************************************)
(* Values for TLC: two participants of whom one is eligible, two requests  *)
(* at a time that may be of the same one, and blueprints of one or two     *)
(* rules over three question versions.                                     *)
(***************************************************************************)
EXTENDS ExamAttempts, TLC

CONSTANTS p1, p2, r1, r2, a, b

\* Two tabs of one participant, interchangeable.
MCTwins == (r1 :> {p1}) @@ (r2 :> {p1})

\* Two requests of any of the participants, interchangeable.
MCAnyTwo == (r1 :> {p1, p2}) @@ (r2 :> {p1, p2})

\* A blueprint of one rule, and one whose two rules overlap in a version.
MCTakeOne    == <<1>>
MCMatchesOne == <<{1}>>
MCTakeTwo    == <<1, 1>>
MCMatchesTwo == <<{1, 2}, {2, 3}>>

Symmetric == Permutations(Request)
=============================================================================
