----------------------------- MODULE Courseware -----------------------------
(***************************************************************************)
(* What the learning catalogue and the progress through it promise         *)
(* (TASK-020 to TASK-024), each request as one atomic step: an activity    *)
(* opens with what its type requires, a material has one published version *)
(* at a time, progress is made in what is open by those who attend, and    *)
(* whoever has recorded it finds it counted.                               *)
(***************************************************************************)
EXTENDS Integers, Sequences, FiniteSets

CONSTANTS Enrollee, NoClass, Activity, ActivityType, Taught

VARIABLES enrolled, meeting, activityType, activity, material, progress, aggregate

vars == <<meeting, activityType, activity, material, progress, aggregate>>

In(s)        == {a \in Activity : activity[a].status = s}
Planned      == Activity \ In("none")
Readable(a)  == {n \in DOMAIN material[a] : material[a][n] = "PUBLISHED"}
Newest(N)    == CHOOSE n \in N : \A m \in N : m <= n

Init ==
    /\ \A k \in ActivityType : activityType[k].active
    /\ \A a \in In("PUBLISHED") : Readable(a) # {}
    /\ \A a \in Activity : Cardinality(Readable(a)) <= 1

MoveMeeting ==
    /\ meeting # "ARCHIVED" /\ meeting' # meeting
    /\ meeting = "DRAFT" => meeting' # "COMPLETED"
    /\ meeting = "COMPLETED" => meeting' # "DRAFT"
    /\ UNCHANGED <<activityType, activity, material, progress, aggregate>>

\* A type is given up when what has it is archived.
ChangeType(k) ==
    /\ activityType[k].active /\ ~activityType'[k].active
         => \A a \in Planned : activity[a].kind = k => activity[a].status = "ARCHIVED"
    /\ activityType' = [activityType EXCEPT ![k] = activityType'[k]]
    /\ UNCHANGED <<meeting, activity, material, progress, aggregate>>

\* A new activity has a place of its own and an active type.
Add(a) ==
    /\ a \in In("none") /\ activity'[a].status # "none"
    /\ activityType[activity'[a].kind].active
    /\ \A b \in Planned : activity'[a].place # activity[b].place
    /\ activity' = [activity EXCEPT ![a] = activity'[a]]
    /\ UNCHANGED <<meeting, activityType, material, progress, aggregate>>

\* The archived stays as it is; what is published has what its type requires, and
\* so has what gets another type; another place is one that is free.
Change(a) ==
    LET new  == activity'[a]
        type == activityType[new.kind]
    IN  /\ a \in In("DRAFT") \cup In("PUBLISHED")
        /\ new.place # activity[a].place
             => \A b \in Planned \ {a} : activity[b].place # new.place
        /\ new.status = "PUBLISHED" \/ new.kind # activity[a].kind
             => type.active /\ (type.requires => Readable(a) # {})
        /\ new.status = "PUBLISHED" => meeting # "ARCHIVED"
        /\ activity' = [activity EXCEPT ![a] = new]
        /\ UNCHANGED <<meeting, activityType, material, progress, aggregate>>

Rearrange ==
    /\ \A a \in Planned : activity'[a].status = activity[a].status
    /\ {activity'[a].place : a \in Planned} = 1 .. Cardinality(Planned)
    /\ activity' = [a \in Activity |-> IF a \notin Planned THEN activity[a]
                        ELSE [activity[a] EXCEPT !.place = activity'[a].place]]
    /\ UNCHANGED <<meeting, activityType, material, progress, aggregate>>

Provide(a) ==
    /\ a \in In("DRAFT") \cup In("PUBLISHED")
    /\ material[a] = <<>>
    /\ material' \in {[material EXCEPT ![a] = <<s>>] : s \in {"DRAFT", "ARCHIVED"}}
    /\ UNCHANGED <<meeting, activityType, activity, progress, aggregate>>

MoveMaterial(a) == \E n \in DOMAIN material[a], to \in {"DRAFT", "PUBLISHED", "ARCHIVED"} :
    /\ material[a][n] \in {"DRAFT", "PUBLISHED"} \ {to}
    /\ to = "PUBLISHED" => Readable(a) = {}
    /\ material' = [material EXCEPT ![a][n] = to]
    /\ UNCHANGED <<meeting, activityType, activity, progress, aggregate>>

\* The new version takes the place of the one that was published.
Renew(a) ==
    /\ \E n \in DOMAIN material[a] : material[a][n] # "ARCHIVED"
    /\ material' = [material EXCEPT ![a] = Append(
            [n \in DOMAIN @ |-> IF Readable(a) # {} /\ n = Newest(Readable(a))
                                  THEN "SUPERSEDED" ELSE @[n]], "PUBLISHED")]
    /\ UNCHANGED <<meeting, activityType, activity, progress, aggregate>>

Advance(e, a) ==
    LET was == progress[e][a]
        is  == progress'[e][a]
    IN  /\ enrolled[e].status = "ACTIVE" /\ enrolled[e].class \in {Taught, NoClass}
        /\ a \in In("PUBLISHED") /\ meeting = "PUBLISHED"
        /\ ~(was.status = "COMPLETED" /\ is.status = "NOT_STARTED")
        /\ is.started = (was.started \/ is.status # "NOT_STARTED")
        /\ progress' = [progress EXCEPT ![e][a] = is]
        /\ UNCHANGED <<meeting, activityType, activity, material, aggregate>>

Summarise(e) ==
    LET all   == In("PUBLISHED")
        done  == {a \in all : progress[e][a].status = "COMPLETED"}
        must  == {a \in all : activity[a].required}
        count == aggregate'[e]
    IN  /\ count.total = Cardinality(all) /\ count.completed = Cardinality(done)
        /\ count.required = Cardinality(must)
        /\ count.completedRequired = Cardinality(done \cap must)
        /\ done = {} => count.percent = 0
        /\ done = all /\ all # {} => count.percent = 100
        /\ aggregate' = [aggregate EXCEPT ![e] = count]
        /\ UNCHANGED <<meeting, activityType, activity, material, progress>>

Next ==
    \/ MoveMeeting \/ Rearrange
    \/ \E k \in ActivityType : ChangeType(k)
    \/ \E a \in Activity : Add(a) \/ Change(a) \/ Provide(a) \/ MoveMaterial(a) \/ Renew(a)
    \/ \E e \in Enrollee : Summarise(e) \/ \E a \in Activity : Advance(e, a)
=============================================================================
