------------------------------ MODULE Learning ------------------------------
(***************************************************************************)
(* The learning catalogue of one class subject and the progress through it *)
(* (learning-activities, learning-activity-types, learning-meetings,       *)
(* learning-progress under apps/api/src): one meeting, its activities,     *)
(* each with at most one material and that material's versions.  Handlers  *)
(* read, judge and write by id; a change of an activity is judged on up to *)
(* five queries, the summary of a participant on two sent at once.         *)
(***************************************************************************)
EXTENDS Integers, Sequences, FiniteSetsExt, Enrollments

CONSTANTS
    Activity,      \* learning activities of the meeting
    ActivityType,  \* learning_activity_types
    Taught,        \* the class of the class subject
    MaxMaterial,   \* bound: versions of a material
    MaxPlace,      \* bound: sequence numbers that a caller pins
    MaxEdits       \* bound: updates of activities in flight at once

ASSUME LearningAssumption ==
    /\ IsFiniteSet(Activity) /\ ActivityType # {} /\ Taught \in Class
    /\ MaxMaterial \in Nat /\ MaxPlace \in Nat /\ MaxEdits \in Nat

VARIABLES
    meeting,       \* learning_meetings: its status
    activityType,  \* whether a type is active and requires content
    activity,      \* learning_activities
    material,      \* learning_contents: the status of each version
    progress,      \* learning_progress, unique per enrollment and activity
    aggregate      \* class_subject_progress_aggregates: a participant's summary

learningTables == <<meeting, activityType, activity, material, progress, aggregate>>

ActivityStatus == {"DRAFT", "PUBLISHED", "ARCHIVED"}
NoActivity  == [status |-> "none"]
NoProgress  == [status |-> "none", started |-> FALSE]
NoAggregate == [total |-> 0, required |-> 0, completed |-> 0, completedRequired |-> 0,
                percent |-> 0]
Existing == {a \in Activity : activity[a] # NoActivity}

Orders(A) == {place \in [A -> 1 .. Cardinality(A)] : IsInjective(place)}

\* Where nobody adds activities the meeting has one, or as many as are put in order;
\* it is open where progress is made.
LearningInit ==
    /\ meeting = "PUBLISHED"
    /\ activityType = [k \in ActivityType |-> [active |-> TRUE, requires |-> TRUE]]
    /\ LET place == CHOOSE p \in Orders(Activity) : TRUE
       IN  activity = [a \in Activity |->
            IF "activity" \in calls \/ ("reorder" \notin calls /\ place[a] > 1) THEN NoActivity
            ELSE [status |-> IF "progress" \in calls THEN "PUBLISHED" ELSE "DRAFT",
                  kind |-> CHOOSE k \in ActivityType : TRUE,
                  required |-> place[a] = 1, place |-> place[a]]]
    /\ material = [a \in Activity |->
            IF activity[a] = NoActivity THEN <<>>
            ELSE IF "progress" \in calls THEN <<"PUBLISHED">>
            ELSE IF "material" \in calls THEN <<>> ELSE <<"DRAFT">>]
    /\ progress = [e \in Enrollee |-> [a \in Activity |-> NoProgress]]
    /\ aggregate = [e \in Enrollee |-> NoAggregate]

\* ALLOWED_MEETING_TRANSITIONS
CanMoveMeeting(from, to) ==
    \/ from = "DRAFT" /\ to \in {"PUBLISHED", "ARCHIVED"}
    \/ from = "PUBLISHED" /\ to \in {"DRAFT", "COMPLETED", "ARCHIVED"}
    \/ from = "COMPLETED" /\ to \in {"PUBLISHED", "ARCHIVED"}

\* ALLOWED_ACTIVITY_TRANSITIONS; also those of a version that is not superseded.
CanMoveActivity(from, to) ==
    \/ from = "DRAFT" /\ to \in {"PUBLISHED", "ARCHIVED"}
    \/ from = "PUBLISHED" /\ to \in {"DRAFT", "ARCHIVED"}

\* Mutation: any version will do.
AnyMaterial(a) == DOMAIN material[a]

\* countPublishedContents, findVersionState
PublishedMaterial(a) == {n \in DOMAIN material[a] : material[a][n] = "PUBLISHED"}

-----------------------------------------------------------------------------
(* LearningMeetingsService, LearningActivityTypesService *)

BeginMeeting(h) == \E to \in {"DRAFT", "PUBLISHED", "COMPLETED", "ARCHIVED"} :
    /\ "meeting" \in calls
    /\ CanMoveMeeting(meeting, to)
    /\ Receive(h, [step |-> "meeting", to |-> to])
    /\ UNCHANGED learningTables

SetMeeting(h) ==
    /\ At(h, "meeting")
    /\ meeting' = handler[h].to
    /\ Commit(h)
    /\ UNCHANGED <<activityType, activity, material, progress, aggregate>>

\* update: only deactivation looks at the activities of the type.
BeginActivityType(h) == \E k \in ActivityType, active, requires \in BOOLEAN :
    /\ "activity type" \in calls
    /\ Receive(h, [step |-> IF activityType[k].active /\ ~active THEN "live activities"
                            ELSE "activity type",
                   k |-> k, row |-> [active |-> active, requires |-> requires]])
    /\ UNCHANGED learningTables

\* assertHasNoLiveActivities
CountLive(h) ==
    /\ At(h, "live activities")
    /\ IF \E a \in Existing : /\ activity[a].kind = handler[h].k
                              /\ activity[a].status # "ARCHIVED"
         THEN Finish(h) ELSE Goto(h, "activity type")
    /\ UNCHANGED learningTables

SetActivityType(h) ==
    /\ At(h, "activity type")
    /\ activityType' = [activityType EXCEPT ![handler[h].k] = handler[h].row]
    /\ Commit(h)
    /\ UNCHANGED <<meeting, activity, material, progress, aggregate>>

-----------------------------------------------------------------------------
(* LearningActivitiesService *)

\* create: the meeting and the type, then the place, then the row, which the
\* unique index may refuse.  A published one is judged after it is stored.
BeginActivity(h) == \E a \in Activity, k \in ActivityType, s \in ActivityStatus :
    /\ "activity" \in calls
    /\ activity[a] = NoActivity /\ \A g \in InFlight : At(g, "place") => handler[g].a # a
    /\ activityType[k].active
    /\ Receive(h, [step |-> "place", a |-> a,
                   row |-> [status |-> s, kind |-> k, required |-> TRUE, place |-> 0]])
    /\ UNCHANGED learningTables

\* A sequence that the caller pins, or the next one.
ChoosePlace(h) == \E n \in 1 .. MaxPlace \cup {1 + Max({activity[a].place : a \in Existing} \cup {0})} :
    /\ At(h, "place")
    /\ Reads(h, [handler[h] EXCEPT !.step = "activity", !.row.place = n])
    /\ UNCHANGED learningTables

CreateActivity(h) ==
    LET q == handler[h]
    IN  /\ At(h, "activity")
        /\ IF q.row.place \in {activity[a].place : a \in Existing} \/ q.a \in Existing
             THEN Finish(h) /\ UNCHANGED activity
             ELSE /\ activity' = [activity EXCEPT ![q.a] = q.row]
                  /\ IF q.row.status = "PUBLISHED"
                       THEN Commits(h, [step |-> "gate", a |-> q.a]) ELSE Commit(h)
        /\ UNCHANGED <<meeting, activityType, material, progress, aggregate>>

\* assertPublishable: what it finds decides on the answer only.
CheckGate(h) == At(h, "gate") /\ Finish(h) /\ UNCHANGED learningTables

\* What the two endpoints ask before they write, each query in its turn: changeStatus,
\* update, and update with another type.
AskedByStatus == <<"type", "meeting", "contents">>
AskedByEdit   == <<"meeting", "place", "type", "contents">>
AskedByKind   == <<"meeting", "type", "count", "place", "contents">>

\* A request holds the row as it was read and shall be, the columns of it that are
\* written (sets) and the queries that are left (todo).
Amend(h, a, row, sets, order, todo) ==
    Receive(h, [step |-> "change", a |-> a, row |-> row, sets |-> sets, order |-> order,
                todo |-> todo])

BeginActivityStatus(h) == \E a \in Existing, to \in ActivityStatus :
    /\ "activity status" \in calls
    /\ CanMoveActivity(activity[a].status, to)
    /\ Amend(h, a, [activity[a] EXCEPT !.status = to], {"status"}, AskedByStatus,
             IF to = "PUBLISHED" THEN {"type", "meeting", "contents"} ELSE {})
    /\ UNCHANGED learningTables

Editing == {g \in Handler : At(g, "change") /\ handler[g].order # AskedByStatus}

\* update: any of the columns at once; required is written whenever it is sent.
EditActivity(h, a) == \E k \in ActivityType, s \in ActivityStatus, r \in BOOLEAN,
                         n \in 1 .. MaxPlace \cup {activity[a].place},
                         sets \in SUBSET {"status", "kind", "required", "place"} :
    LET old == activity[a]
    IN  /\ old.status # "ARCHIVED" /\ sets # {}
        /\ ("kind" \in sets <=> k # old.kind) /\ ("place" \in sets <=> n # old.place)
        /\ IF "status" \in sets THEN CanMoveActivity(old.status, s) ELSE s = old.status
        /\ "required" \in sets \/ r = old.required
        /\ Amend(h, a, [status |-> s, kind |-> k, required |-> r, place |-> n], sets,
                 IF "kind" \in sets THEN AskedByKind ELSE AskedByEdit,
                 {"meeting"} \cup (sets \cap {"place"})
                 \cup (IF "kind" \in sets THEN {"type", "count"} ELSE {})
                 \cup (IF s = "PUBLISHED" THEN {"type", "contents"} ELSE {}))

BeginActivityEdit(h) ==
    /\ "activity edit" \in calls /\ Cardinality(Editing) < MaxEdits
    /\ \E a \in Existing : EditActivity(h, a)
    /\ UNCHANGED learningTables

\* The query x is left and those before it are answered.
Turn(h, x) ==
    LET q == handler[h]
    IN  /\ At(h, "change") /\ x \in q.todo
        /\ \E n \in DOMAIN q.order : /\ q.order[n] = x
                                     /\ \A m \in 1 .. n - 1 : q.order[m] \notin q.todo

Learned(h, asked) == Reads(h, [handler[h] EXCEPT !.todo = @ \ asked])

\* What will not pass the gate is refused at once; between here and there are only
\* queries.  A type that requires no content spares those that count it.
AskType(h) ==
    LET type == activityType[handler[h].row.kind]
    IN  /\ Turn(h, "type")
        /\ IF ~type.active THEN Finish(h)
           ELSE Learned(h, IF type.requires THEN {"type"} ELSE {"type", "count", "contents"})
        /\ UNCHANGED learningTables

AskMeeting(h) ==
    /\ Turn(h, "meeting")
    /\ IF handler[h].row.status = "PUBLISHED" /\ meeting = "ARCHIVED" THEN Finish(h)
       ELSE Learned(h, {"meeting"})
    /\ UNCHANGED learningTables

\* countPublishedContents, for another type and for the gate.
AskContents(h) == \E x \in {"count", "contents"} :
    /\ Turn(h, x)
    /\ IF PublishedMaterial(handler[h].a) = {} THEN Finish(h) ELSE Learned(h, {x})
    /\ UNCHANGED learningTables

Taken(a, n) == \E b \in Existing \ {a} : activity[b].place = n

\* assertSequenceFree
AskPlace(h) ==
    /\ Turn(h, "place")
    /\ IF Taken(handler[h].a, handler[h].row.place) THEN Finish(h) ELSE Learned(h, {"place"})
    /\ UNCHANGED learningTables

\* The unique index may still refuse the place.
ChangeActivity(h) ==
    LET q == handler[h]
    IN  /\ At(h, "change") /\ q.todo = {}
        /\ IF "place" \in q.sets /\ Taken(q.a, q.row.place)
             THEN Finish(h) /\ UNCHANGED activity
             ELSE /\ activity' = [activity EXCEPT ![q.a] =
                        [c \in DOMAIN @ |-> IF c \in q.sets THEN q.row[c] ELSE @[c]]]
                  /\ Commit(h)
        /\ UNCHANGED <<meeting, activityType, material, progress, aggregate>>

\* reorder: a place for each activity that is listed by now.
BeginReorder(h) == \E plan \in Orders(Existing) :
    /\ "reorder" \in calls
    /\ Existing # {}
    /\ Receive(h, [step |-> "reorder", plan |-> plan])
    /\ UNCHANGED learningTables

\* applySequencePlan: one transaction, undone if another activity has a place of it.
Reorder(h) ==
    LET plan == handler[h].plan
    IN  /\ At(h, "reorder")
        /\ IF \E a \in Existing \ DOMAIN plan : activity[a].place \in 1 .. Cardinality(DOMAIN plan)
             THEN Finish(h) /\ UNCHANGED activity
             ELSE /\ activity' = [a \in Activity |->
                        IF a \in DOMAIN plan THEN [activity[a] EXCEPT !.place = plan[a]]
                        ELSE activity[a]]
                  /\ Commit(h)
        /\ UNCHANGED <<meeting, activityType, material, progress, aggregate>>

-----------------------------------------------------------------------------
(* LearningContentsService *)

\* create: not published; no other material of the activity is created meanwhile.
BeginMaterial(h) == \E a \in Existing, s \in {"DRAFT", "ARCHIVED"} :
    /\ "material" \in calls
    /\ material[a] = <<>> /\ \A g \in InFlight : At(g, "material") => handler[g].a # a
    /\ activity[a].status # "ARCHIVED"
    /\ Receive(h, [step |-> "material", a |-> a, status |-> s])
    /\ UNCHANGED learningTables

CreateMaterial(h) ==
    /\ At(h, "material")
    /\ material' = [material EXCEPT ![handler[h].a] = <<handler[h].status>>]
    /\ Commit(h)
    /\ UNCHANGED <<meeting, activityType, activity, progress, aggregate>>

\* update of the status: superseded and archived versions are not edited.
BeginMaterialStatus(h) == \E a \in Activity : \E n \in DOMAIN material[a], to \in ActivityStatus :
    /\ "material status" \in calls
    /\ CanMoveActivity(material[a][n], to)
    /\ Receive(h, [step |-> IF to = "PUBLISHED" THEN "version state" ELSE "material status",
                   a |-> a, number |-> n, to |-> to])
    /\ UNCHANGED learningTables

CheckVersionState(h) ==
    /\ At(h, "version state")
    /\ IF PublishedMaterial(handler[h].a) # {} THEN Finish(h) ELSE Goto(h, "material status")
    /\ UNCHANGED learningTables

SetMaterialStatus(h) ==
    LET q == handler[h]
    IN  /\ At(h, "material status")
        /\ material' = [material EXCEPT ![q.a][q.number] = q.to]
        /\ Commit(h)
        /\ UNCHANGED <<meeting, activityType, activity, progress, aggregate>>

\* createVersion: the next number, the version it replaces (0: none), then both rows
\* in one transaction that the unique number may refuse.
BeginMaterialVersion(h) == \E a \in Activity : \E n \in DOMAIN material[a] :
    /\ "material version" \in calls
    /\ Len(material[a]) < MaxMaterial
    /\ material[a][n] # "ARCHIVED"
    /\ Receive(h, [step |-> "last version", a |-> a, number |-> 0, old |-> 0])
    /\ UNCHANGED learningTables

ReadLastVersion(h) ==
    /\ At(h, "last version")
    /\ Reads(h, [handler[h] EXCEPT !.step = "published version",
                                   !.number = Len(material[handler[h].a]) + 1])
    /\ UNCHANGED learningTables

ReadPublishedVersion(h) ==
    /\ At(h, "published version")
    /\ Reads(h, [handler[h] EXCEPT !.step = "material version",
                                   !.old = Max(PublishedMaterial(handler[h].a) \cup {0})])
    /\ UNCHANGED learningTables

CreateMaterialVersion(h) ==
    LET q == handler[h]
    IN  /\ At(h, "material version")
        /\ IF q.number \in DOMAIN material[q.a] THEN Finish(h) /\ UNCHANGED material
           ELSE /\ material' = [material EXCEPT ![q.a] =
                        [n \in 1 .. q.number |-> IF n = q.number THEN "PUBLISHED"
                                                 ELSE IF n = q.old THEN "SUPERSEDED" ELSE @[n]]]
                /\ Commit(h)
        /\ UNCHANGED <<meeting, activityType, activity, progress, aggregate>>

-----------------------------------------------------------------------------
(* LearningProgressService: recordProgress *)

EligibleForProgress(e, a) ==
    /\ enrolled[e].status = "ACTIVE"
    /\ enrolled[e].class \in {Taught, NoClass}
    /\ activity[a].status = "PUBLISHED" /\ meeting = "PUBLISHED"

\* findEnrollmentContext and findActivityContext, sent at once
BeginProgress(h) == \E e \in Enrollee, a \in Activity,
                       s \in {"NOT_STARTED", "IN_PROGRESS", "COMPLETED"} :
    /\ "progress" \in calls
    /\ EligibleForProgress(e, a)
    /\ Receive(h, [step |-> "progress row", e |-> e, a |-> a, status |-> s, started |-> FALSE])
    /\ UNCHANGED learningTables

\* What was completed is not reset; startedAt is kept.
ReadProgress(h) ==
    LET q   == handler[h]
        row == progress[q.e][q.a]
    IN  /\ At(h, "progress row")
        /\ IF row.status = "COMPLETED" /\ q.status = "NOT_STARTED" THEN Finish(h)
           ELSE Reads(h, [q EXCEPT !.step = "progress",
                                   !.started = row.started \/ q.status # "NOT_STARTED"])
        /\ UNCHANGED learningTables

\* The upsert leaves startedAt as it is when it has none to write.
SaveProgress(h) ==
    LET q == handler[h]
    IN  /\ At(h, "progress")
        /\ progress' = [progress EXCEPT ![q.e][q.a] =
                            [status |-> q.status, started |-> @.started \/ q.started]]
        /\ Commits(h, [step |-> "counts", e |-> q.e, of |-> {}, row |-> NoAggregate])
        /\ UNCHANGED <<meeting, activityType, activity, material, aggregate>>

Live          == {a \in Existing : activity[a].status = "PUBLISHED"}
Done(e)       == {a \in Live : progress[e][a].status = "COMPLETED"}
RequiredOf(A) == {a \in A : activity[a].required}

\* getClassSubjectActivityCounts and getEnrollmentProgressCounts, sent at once
ReadCounts(h) == \E which \in {"activities", "progress"} :
    LET q == handler[h]
    IN  /\ At(h, "counts") /\ which \notin q.of
        /\ Reads(h, [q EXCEPT
               !.step = IF q.of = {} THEN @ ELSE "aggregate",
               !.of = @ \cup {which},
               !.row = IF which = "activities"
                 THEN [@ EXCEPT !.total = Cardinality(Live),
                                !.required = Cardinality(RequiredOf(Live))]
                 ELSE [@ EXCEPT !.completed = Cardinality(Done(q.e)),
                                !.completedRequired = Cardinality(RequiredOf(Done(q.e)))]])
        /\ UNCHANGED learningTables

\* Rounded half up; more may be completed than there is when the two reads differ.
ShareDone(done, total) ==
    IF total = 0 THEN 0 ELSE Min({100, (200 * done + total) \div (2 * total)})

StoreAggregate(h) ==
    LET q == handler[h]
    IN  /\ At(h, "aggregate")
        /\ aggregate' = [aggregate EXCEPT ![q.e] =
                [q.row EXCEPT !.percent = ShareDone(q.row.completed, q.row.total)]]
        /\ Commit(h)
        /\ UNCHANGED <<meeting, activityType, activity, material, progress>>

HandleLearning(h) ==
    \/ BeginMeeting(h) \/ SetMeeting(h)
    \/ BeginActivityType(h) \/ CountLive(h) \/ SetActivityType(h)
    \/ BeginActivity(h) \/ ChoosePlace(h) \/ CreateActivity(h) \/ CheckGate(h)
    \/ BeginActivityStatus(h) \/ BeginActivityEdit(h) \/ AskType(h) \/ AskMeeting(h)
    \/ AskContents(h) \/ AskPlace(h) \/ ChangeActivity(h)
    \/ BeginReorder(h) \/ Reorder(h)
    \/ BeginMaterial(h) \/ CreateMaterial(h)
    \/ BeginMaterialStatus(h) \/ CheckVersionState(h) \/ SetMaterialStatus(h)
    \/ BeginMaterialVersion(h) \/ ReadLastVersion(h) \/ ReadPublishedVersion(h)
    \/ CreateMaterialVersion(h)
    \/ BeginProgress(h) \/ ReadProgress(h) \/ SaveProgress(h) \/ ReadCounts(h)
    \/ StoreAggregate(h)

-----------------------------------------------------------------------------
MaterialStatus == ActivityStatus \cup {"SUPERSEDED"}
ActivityRow  == [status: ActivityStatus, kind: ActivityType, required: BOOLEAN, place: Nat]
ProgressRow  == [status: {"NOT_STARTED", "IN_PROGRESS", "COMPLETED"}, started: BOOLEAN]
AggregateRow == [total: Nat, required: Nat, completed: Nat, completedRequired: Nat,
                 percent: 0 .. 100]

LearningRequest ==
    [step: {"meeting"}, to: {"DRAFT", "PUBLISHED", "COMPLETED", "ARCHIVED"}]
    \cup [step: {"live activities", "activity type"}, k: ActivityType,
          row: [active: BOOLEAN, requires: BOOLEAN]]
    \cup [step: {"place", "activity"}, a: Activity, row: ActivityRow]
    \cup [step: {"gate"}, a: Activity]
    \cup [step: {"change"}, a: Activity, row: ActivityRow,
          sets: SUBSET {"status", "kind", "required", "place"},
          order: {AskedByStatus, AskedByEdit, AskedByKind},
          todo: SUBSET {"type", "meeting", "count", "contents", "place"}]
    \cup [step: {"reorder"}, plan: UNION {Orders(A) : A \in SUBSET Activity}]
    \cup [step: {"material"}, a: Activity, status: {"DRAFT", "ARCHIVED"}]
    \cup [step: {"version state", "material status"}, a: Activity, number: Nat,
          to: ActivityStatus]
    \cup [step: {"last version", "published version", "material version"}, a: Activity,
          number: Nat, old: Nat]
    \cup [step: {"progress row", "progress"}, e: Enrollee, a: Activity,
          status: {"NOT_STARTED", "IN_PROGRESS", "COMPLETED"}, started: BOOLEAN]
    \cup [step: {"counts", "aggregate"}, e: Enrollee, of: SUBSET {"activities", "progress"},
          row: AggregateRow]

LearningTypeOK ==
    /\ meeting \in {"DRAFT", "PUBLISHED", "COMPLETED", "ARCHIVED"}
    /\ activityType \in [ActivityType -> [active: BOOLEAN, requires: BOOLEAN]]
    /\ activity \in [Activity -> ActivityRow \cup {NoActivity}]
    /\ material \in [Activity -> Seq(MaterialStatus)]
    /\ progress \in [Enrollee -> [Activity -> ProgressRow \cup {NoProgress}]]
    /\ aggregate \in [Enrollee -> AggregateRow]

-----------------------------------------------------------------------------
(* Properties *)

\* Requests that no other one crosses keep the promise of the courseware: what an
\* activity is published on, one published version of a material, progress where
\* it may be made, and a summary of what is there when it is answered.
Course == INSTANCE Courseware
KeepsCourseware == Course!Init /\ [][Promised(Course!Next, Course!vars)]_(Course!vars)

\* What learning-activities.service.ts:79 says: a create that asks for PUBLISHED
\* leaves no invalid published row behind when it is answered.
PublishedWasGated ==
    \A a \in Existing :
        \/ activity[a].status # "PUBLISHED"
        \/ ~activityType[activity[a].kind].requires
        \/ PublishedMaterial(a) # {}
        \/ \E h \in InFlight : At(h, "gate") /\ handler[h].a = a
=============================================================================
