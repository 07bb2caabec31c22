---------------------------- MODULE Organizations ----------------------------
(***************************************************************************)
(* The hierarchy of organizations: OrganizationsService (apps/api/src/     *)
(* organizations).  The database holds a parent for each organization and  *)
(* nothing that keeps the parents a tree; a move is judged by walking up,  *)
(* one query for each ancestor, and written by id.                         *)
(***************************************************************************)
EXTENDS Requests

CONSTANTS Organization, NoParent

ASSUME OrganizationsAssumption ==
    NoParent \notin Organization /\ "none" \notin Organization /\ NoParent # "none"

VARIABLE parent     \* of each organization; NoParent: a root, "none": not created

\* Where nobody creates organizations all of them are roots.
OrganizationsInit ==
    parent = [o \in Organization |-> IF "organization" \in calls THEN "none" ELSE NoParent]

\* create: the code is free and the parent exists, then the row.
BeginOrganization(h) == \E o \in Organization, p \in Organization \cup {NoParent} :
    /\ "organization" \in calls
    /\ parent[o] = "none"
    /\ p # NoParent => parent[p] # "none"
    /\ Receive(h, [step |-> "organization", o |-> o, p |-> p])
    /\ UNCHANGED parent

\* The unique index on the code decides between two at once.
CreateOrganization(h) ==
    LET q == handler[h]
    IN  /\ At(h, "organization")
        /\ IF parent[q.o] # "none" THEN Finish(h) /\ UNCHANGED parent
           ELSE parent' = [parent EXCEPT ![q.o] = q.p] /\ Commit(h)

\* update of the parent; a root needs no walk.
BeginReparent(h) == \E o \in Organization, p \in Organization \cup {NoParent} :
    /\ "move" \in calls
    /\ parent[o] # "none" /\ p # o
    /\ Receive(h, [step |-> IF p = NoParent THEN "move" ELSE "ancestor",
                   o |-> o, p |-> p, up |-> p])
    /\ UNCHANGED parent

WalkEnds(q) == parent[q.up] = NoParent

\* assertValidParentChange: one round of its loop, which a cycle keeps turning.
ReadAncestor(h) ==
    LET q == handler[h]
    IN  /\ At(h, "ancestor")
        /\ IF parent[q.up] \in {q.o, "none"} THEN Finish(h)
           ELSE IF WalkEnds(q) THEN Goto(h, "move")
           ELSE Reads(h, [q EXCEPT !.up = parent[q.up]])
        /\ UNCHANGED parent

Reparent(h) ==
    /\ At(h, "move")
    /\ parent' = [parent EXCEPT ![handler[h].o] = handler[h].p]
    /\ Commit(h)

HandleOrganization(h) ==
    \/ BeginOrganization(h) \/ CreateOrganization(h)
    \/ BeginReparent(h) \/ ReadAncestor(h) \/ Reparent(h)

OrganizationRequest ==
    [step: {"organization"}, o: Organization, p: Organization \cup {NoParent}]
    \cup [step: {"ancestor", "move"}, o: Organization, p: Organization \cup {NoParent},
          up: Organization \cup {NoParent}]

OrganizationsTypeOK == parent \in [Organization -> Organization \cup {NoParent, "none"}]
=============================================================================
