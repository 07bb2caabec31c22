-------------------------- MODULE QuestionVersions --------------------------
(***************************************************************************)
(* The questions of one bank and their versions: QuestionBanksService over *)
(* its repositories (apps/api/src/question-banks).  A version is a draft   *)
(* until it is published and frozen from then on.                          *)
(***************************************************************************)
EXTENDS Integers, Sequences, FiniteSets, Requests

CONSTANTS
    Item,          \* questions
    Kind,          \* question types
    Content,       \* what a version asks and how it is scored
    MaxVersions    \* bound: versions of a question

ASSUME QuestionsAssumption ==
    /\ IsFiniteSet(Item) /\ Kind # {} /\ Content # {}
    /\ MaxVersions \in Nat

VARIABLES
    item,          \* questions: status and type
    version        \* question_versions of each question, by number

bankTables == <<item, version>>

NoItem == [status |-> "none", kind |-> "none"]
Draft(c) == [status |-> "DRAFT", content |-> c]

WithStatus(i, s) == {n \in DOMAIN version[i] : version[i][n].status = s}
Published(i)     == WithStatus(i, "PUBLISHED")

\* Where nobody creates questions there are some with a published and a draft
\* version; where nobody appends versions there is a second draft.
QuestionsInit ==
    LET k == CHOOSE k \in Kind : TRUE
        row(s) == [Draft(CHOOSE c \in Content : TRUE) EXCEPT !.status = s]
    IN  /\ item = [i \in Item |-> IF "question" \in calls THEN NoItem
                                  ELSE [status |-> "ACTIVE", kind |-> k]]
        /\ version = [i \in Item |->
                IF "question" \in calls THEN <<>>
                ELSE IF "version" \in calls THEN <<row("PUBLISHED"), row("DRAFT")>>
                ELSE <<row("PUBLISHED"), row("DRAFT"), row("DRAFT")>>]

-----------------------------------------------------------------------------
(* createQuestion, updateQuestion *)

\* The bank and the type are read, then the question and its first version are
\* created one after the other.
BeginQuestion(h) == \E i \in Item, k \in Kind, c \in Content :
    /\ "question" \in calls
    /\ item[i] = NoItem
    /\ Receive(h, [step |-> "question", i |-> i, kind |-> k, content |-> c])
    /\ UNCHANGED bankTables

CreateQuestion(h) ==
    LET q == handler[h]
    IN  /\ At(h, "question")
        /\ IF item[q.i] # NoItem THEN Finish(h) /\ UNCHANGED item
           ELSE /\ item' = [item EXCEPT ![q.i] = [status |-> "ACTIVE", kind |-> q.kind]]
                /\ Commits(h, [step |-> "version", i |-> q.i, number |-> 1,
                               content |-> q.content])
        /\ UNCHANGED version

\* updateQuestion: a new status, or a new type.
BeginItemStatus(h) == \E i \in Item, s \in {"ACTIVE", "INACTIVE"} :
    /\ "question status" \in calls
    /\ item[i] # NoItem
    /\ Receive(h, [step |-> "question status", i |-> i, status |-> s])
    /\ UNCHANGED bankTables

SetItemStatus(h) ==
    LET q == handler[h]
    IN  /\ At(h, "question status")
        /\ item' = [item EXCEPT ![q.i].status = q.status]
        /\ Commit(h)
        /\ UNCHANGED version

\* findPublished: the type of a question with a published version stays.
BeginKind(h) == \E i \in Item, k \in Kind :
    /\ "kind" \in calls
    /\ item[i].kind \notin {"none", k} /\ Published(i) = {}
    /\ Receive(h, [step |-> "kind", i |-> i, kind |-> k])
    /\ UNCHANGED bankTables

SetKind(h) ==
    LET q == handler[h]
    IN  /\ At(h, "kind")
        /\ item' = [item EXCEPT ![q.i].kind = q.kind]
        /\ Commit(h)
        /\ UNCHANGED version

-----------------------------------------------------------------------------
(* createVersion, updateVersion *)

\* findVersionState: the highest number so far
BeginVersion(h) == \E i \in Item, c \in Content :
    /\ "version" \in calls
    /\ item[i] # NoItem
    /\ Len(version[i]) < MaxVersions
    /\ Receive(h, [step |-> "version", i |-> i, number |-> Len(version[i]) + 1,
                   content |-> c])
    /\ UNCHANGED bankTables

\* The unique index refuses a number that is taken.
CreateVersion(h) ==
    LET q == handler[h]
    IN  /\ At(h, "version")
        /\ IF q.number # Len(version[q.i]) + 1 THEN Finish(h) /\ UNCHANGED version
           ELSE /\ version' = [version EXCEPT ![q.i] = Append(@, Draft(q.content))]
                /\ Commit(h)
        /\ UNCHANGED item

\* findForParticipant: a draft
BeginRewrite(h) == \E i \in Item, c \in Content : \E n \in WithStatus(i, "DRAFT") :
    /\ "rewrite" \in calls
    /\ Receive(h, [step |-> "rewrite", i |-> i, n |-> n, content |-> c])
    /\ UNCHANGED bankTables

\* updateDraft: by id, whatever the version is by now.
UpdateDraft(h) ==
    LET q == handler[h]
    IN  /\ At(h, "rewrite")
        /\ version' = [version EXCEPT ![q.i][q.n].content = q.content]
        /\ Commit(h)
        /\ UNCHANGED item

-----------------------------------------------------------------------------
(* publishVersion *)

BeginPublish(h) == \E i \in Item : \E n \in DOMAIN version[i] :
    /\ "publish" \in calls
    /\ item[i].status = "ACTIVE"
    /\ Receive(h, [step |-> "publishable", i |-> i, n |-> n])
    /\ UNCHANGED bankTables

CheckPublishable(h) ==
    LET q == handler[h]
    IN  /\ At(h, "publishable")
        /\ IF version[q.i][q.n].status = "DRAFT" THEN Goto(h, "predecessor") ELSE Finish(h)
        /\ UNCHANGED bankTables

\* findPublished: the highest number, 0 if there is none
FindPublished(h) ==
    LET q == handler[h]
        P == Published(q.i)
    IN  /\ At(h, "predecessor")
        /\ \E n \in P \cup {0} :
            /\ \A m \in P : m <= n
            /\ Reads(h, [step |-> "publish", i |-> q.i, n |-> q.n, previous |-> n])
        /\ UNCHANGED bankTables

\* Mutation: the predecessor is retired last, also when it is the version itself.
PublishThenRetire(rows, previous, n) ==
    [m \in DOMAIN rows |->
        IF m = previous THEN [rows[m] EXCEPT !.status = "SUPERSEDED"]
        ELSE IF m = n THEN [rows[m] EXCEPT !.status = "PUBLISHED"] ELSE rows[m]]

\* supersedeAndPublish: both updates by id, the publication last.
RetireThenPublish(rows, previous, n) ==
    [m \in DOMAIN rows |->
        IF m = n THEN [rows[m] EXCEPT !.status = "PUBLISHED"]
        ELSE IF m = previous THEN [rows[m] EXCEPT !.status = "SUPERSEDED"] ELSE rows[m]]

SupersedeAndPublish(h) ==
    LET q == handler[h]
    IN  /\ At(h, "publish")
        /\ version' = [version EXCEPT ![q.i] = RetireThenPublish(@, q.previous, q.n)]
        /\ Commit(h)
        /\ UNCHANGED item

HandleQuestion(h) ==
    \/ BeginQuestion(h) \/ CreateQuestion(h) \/ BeginItemStatus(h) \/ SetItemStatus(h)
    \/ BeginKind(h) \/ SetKind(h)
    \/ BeginVersion(h) \/ CreateVersion(h) \/ BeginRewrite(h) \/ UpdateDraft(h)
    \/ BeginPublish(h) \/ CheckPublishable(h) \/ FindPublished(h) \/ SupersedeAndPublish(h)

-----------------------------------------------------------------------------
VersionRow == [status: {"DRAFT", "PUBLISHED", "SUPERSEDED"}, content: Content]

QuestionRequest ==
    [step: {"question"}, i: Item, kind: Kind, content: Content]
    \cup [step: {"question status"}, i: Item, status: {"ACTIVE", "INACTIVE"}]
    \cup [step: {"kind"}, i: Item, kind: Kind]
    \cup [step: {"version"}, i: Item, number: Nat \ {0}, content: Content]
    \cup [step: {"rewrite"}, i: Item, n: Nat, content: Content]
    \cup [step: {"publishable", "predecessor"}, i: Item, n: Nat]
    \cup [step: {"publish"}, i: Item, n: Nat, previous: Nat]

QuestionsTypeOK ==
    /\ item \in [Item -> [status: {"ACTIVE", "INACTIVE"}, kind: Kind] \cup {NoItem}]
    /\ version \in [Item -> Seq(VersionRow)]
=============================================================================
