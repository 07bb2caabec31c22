----------------------------- MODULE Institution -----------------------------
(***************************************************************************)
(* What the institution's structure and calendars promise (TASK-010,       *)
(* TASK-016 to TASK-019), each request as one atomic step: organizations   *)
(* stay a tree; an entry that occupies a period keeps clear of the others. *)
(***************************************************************************)
EXTENDS Integers

CONSTANTS Organization, NoParent, Booking, Sort, Holder

VARIABLES parent, booking

vars == <<parent, booking>>

\* No organization is above itself: of any there is one whose parent is not among them.
Tree(up) == \A S \in (SUBSET Organization) \ {{}} : \E o \in S : up[o] \notin S

\* A schedule may begin when another one ends; an assignment on the next day.
Apart(sort, x, y) ==
    \/ x.until < y.from \/ y.until < x.from
    \/ sort = "schedule" /\ (x.until = y.from \/ y.until = x.from)

\* Schedules of the class subject, its educators, the same person in a role.
Compete(b, c) == b # c /\ Sort[b] = Sort[c] /\ (Sort[b] = "staff" => Holder[b] = Holder[c])

Init == Tree(parent)

Found(o) ==
    /\ parent[o] = "none"
    /\ parent' = [parent EXCEPT ![o] = parent'[o]]
    /\ UNCHANGED booking

Move(o) ==
    /\ parent[o] # "none"
    /\ parent'[o] \in Organization \cup {NoParent}
    /\ Tree(parent) => Tree(parent')
    /\ parent' = [parent EXCEPT ![o] = parent'[o]]
    /\ UNCHANGED booking

\* What is entered as active, or changed and stays so, is clear of its rivals; an
\* assignment that has ended stays ended.
Enter(b) ==
    LET new == booking'[b]
    IN  /\ Sort[b] = "schedule" \/ booking[b].status # "ENDED"
        /\ new.status = "ACTIVE" =>
              \A c \in Booking : Compete(b, c) /\ booking[c].status = "ACTIVE"
                                    => Apart(Sort[b], new, booking[c])
        /\ booking' = [booking EXCEPT ![b] = new]
        /\ UNCHANGED parent

Next ==
    \/ \E o \in Organization : Found(o) \/ Move(o)
    \/ \E b \in Booking : Enter(b)
=============================================================================
