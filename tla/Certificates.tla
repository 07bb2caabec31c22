---------------------------- MODULE Certificates ----------------------------
(***************************************************************************)
(* Certificates, their templates, their revocation and their public        *)
(* verification: CertificateService over PrismaCertificateRepository       *)
(* (apps/api/src/certificates).                                            *)
(*                                                                         *)
(* Every awaited query is one action; the revocation's transaction, two    *)
(* writes that commit together, is one as well.  certificates declares the *)
(* decision unique and certificate_revocations the certificate, so both    *)
(* rows are named by the decision.  Number and verification code are drawn *)
(* together, checked together and both unique: a token stands for the pair.*)
(***************************************************************************)
EXTENDS Integers

CONSTANTS
    Decision,     \* rows of graduation_decisions, named by their evaluations
    Token,        \* pairs of certificate number and verification code
    Reason,       \* reasons of at least eight characters
    File,         \* rows of stored_files
    Design,       \* what a template makes of a certificate
    Outcome,      \* outcomes that evaluations have in this instance
    Verdict,      \* verdicts that decisions give in this instance
    Handler,      \* requests that can be in flight at the same time
    Calls,        \* the kinds of call that are made in this instance
    Draws,        \* TOKEN_COLLISION_ATTEMPTS
    MaxVersions   \* bound: versions of the one template code

Template == 1..MaxVersions      \* the versions of that code

ASSUME CertificateAssumption ==
    /\ Calls \subseteq {"template", "issue", "attach", "revoke", "verify"}
    /\ Outcome \subseteq {"ELIGIBLE", "NOT_ELIGIBLE"}
    /\ Verdict \subseteq {"PASS", "FAIL", "REMEDIAL", "WITHDRAWN"}
    /\ Draws \in Nat \ {0} /\ MaxVersions \in Nat

VARIABLES
    evaluation,   \* graduation_evaluations; only read, for their outcome
    decision,     \* graduation_decisions; only read
    file,         \* status of the stored files, PENDING until first active
    template,     \* certificate_templates
    certificate,  \* certificates
    revocation,   \* certificate_revocations
    once,         \* history: what was so at some time, whatever became of it
    answer,       \* the last answer of the public verification
    handler       \* the requests in flight

world  == <<evaluation, decision, file, once>>
tables == <<template, certificate, revocation>>
vars   == <<world, tables, answer, handler>>

NoRow    == [status |-> "none"]
NoReason == "no reason"
NoFile   == "no file"

ASSUME NothingAssumption == NoReason \notin Reason /\ NoFile \notin File

TemplateRow    == [status: {"DRAFT", "ACTIVE", "ARCHIVED"}, design: Design]
CertificateRow == [status: {"ISSUED", "REVOKED"}, token: Token,
                   template: Template, file: File \cup {NoFile}]

Certified(d) == certificate[d] # NoRow
Revoked(d)   == revocation[d] # NoReason
Taken        == {certificate[d].token : d \in {e \in Decision : Certified(e)}}
Versions     == {n \in Template : template[n] # NoRow}

\* The decisions that deserve a certificate, the templates in use and the files
\* available, at this moment; what a step makes so is kept.
Now ==
    [decisions |-> {d \in Decision : /\ decision[d].status = "APPROVED"
                                     /\ decision[d].verdict = "PASS"
                                     /\ evaluation[d].outcome = "ELIGIBLE"},
     templates |-> {n \in Versions : template[n].status = "ACTIVE"},
     files     |-> {f \in File : file[f] = "ACTIVE"}]

Remember == once' = [decisions |-> once.decisions \cup Now.decisions',
                     templates |-> once.templates \cup Now.templates',
                     files     |-> once.files \cup Now.files']

Idle       == [step |-> "idle"]
At(h, s)   == handler[h].step = s
Goto(h, s) == handler' = [handler EXCEPT ![h].step = s]
Finish(h)  == handler' = [handler EXCEPT ![h] = Idle]

Begin(call, h, request) ==
    call \in Calls /\ At(h, "idle") /\ handler' = [handler EXCEPT ![h] = request]

Init ==
    /\ evaluation = [d \in Decision |-> [outcome |-> "none"]]
    /\ decision = [d \in Decision |-> NoRow]
    /\ file = [f \in File |-> "PENDING"]
    /\ template = [n \in Template |-> NoRow]
    /\ certificate = [d \in Decision |-> NoRow]
    /\ revocation = [d \in Decision |-> NoReason]
    /\ once = [decisions |-> {}, templates |-> {}, files |-> {}]
    /\ answer = NoRow
    /\ handler = [h \in Handler |-> Idle]

-----------------------------------------------------------------------------
(* Templates *)

\* Mutation: a code without a template starts at two.
FindLatestOrOne(h) == \E g \in Design, n \in Versions \cup {1} :
    /\ \A m \in Versions : m <= n
    /\ Begin("template", h, [step |-> "version", design |-> g, no |-> n + 1])
    /\ UNCHANGED <<world, tables, answer>>

\* createTemplate: the latest version of the code is read.
FindLatest(h) == \E g \in Design, n \in Versions \cup {0} :
    /\ \A m \in Versions : m <= n
    /\ Begin("template", h, [step |-> "version", design |-> g, no |-> n + 1])
    /\ UNCHANGED <<world, tables, answer>>

\* createTemplateVersion: the source version is read, and may not be the latest.
FindSource(h) == \E n \in Versions, g \in Design :
    /\ Begin("template", h, [step |-> "version", design |-> g, no |-> n + 1])
    /\ UNCHANGED <<world, tables, answer>>

\* create: refused when the version exists.
CreateVersion(h) ==
    LET q == handler[h]
    IN  /\ At(h, "version")
        /\ IF q.no \in Versions \/ q.no \notin Template
             THEN UNCHANGED template
             ELSE template' = [template EXCEPT ![q.no] =
                    [status |-> "DRAFT", design |-> q.design]]
        /\ Finish(h)
        /\ UNCHANGED <<world, certificate, revocation, answer>>

\* updateTemplate: everything but an archived template may be edited.
FindForUpdate(h) == \E n \in Versions, g \in Design :
    /\ template[n].status # "ARCHIVED"
    /\ Begin("template", h, [step |-> "design", no |-> n, design |-> g])
    /\ UNCHANGED <<world, tables, answer>>

UpdateTemplate(h) ==
    /\ At(h, "design")
    /\ template' = [template EXCEPT
            ![handler[h].no].design = handler[h].design]
    /\ Finish(h)
    /\ UNCHANGED <<world, certificate, revocation, answer>>

CanTransitionTemplate(from, to) ==
    \/ from = "DRAFT" /\ to \in {"ACTIVE", "ARCHIVED"}
    \/ from = "ACTIVE" /\ to = "ARCHIVED"

\* changeTemplateStatus: read, judge, then write by id.
FindForStatus(h) == \E n \in Versions, to \in {"ACTIVE", "ARCHIVED"} :
    /\ CanTransitionTemplate(template[n].status, to)
    /\ Begin("template", h, [step |-> "status", no |-> n, to |-> to])
    /\ UNCHANGED <<world, tables, answer>>

ChangeTemplateStatus(h) ==
    /\ At(h, "status")
    /\ template' = [template EXCEPT ![handler[h].no].status = handler[h].to]
    /\ Finish(h)
    /\ UNCHANGED <<evaluation, decision, file, certificate, revocation, answer>>
    /\ Remember

-----------------------------------------------------------------------------
(* Issuance *)

\* findByDecisionId: a decision that has a certificate is refused.
FindByDecision(h) == \E d \in Decision, n \in Versions, f \in File \cup {NoFile} :
    /\ ~Certified(d)
    /\ Begin("issue", h, [step |-> "context", d |-> d, template |-> n,
                          file |-> f, draws |-> 0, token |-> NoRow])
    /\ UNCHANGED <<world, tables, answer>>

\* Mutation: the decision need not be approved yet.
EligibleAsDraft(d) ==
    /\ decision[d].status \in {"DRAFT", "APPROVED"}
    /\ decision[d].verdict = "PASS"
    /\ evaluation[d].outcome = "ELIGIBLE"

\* certificateEligibilityBlockers: in force, passed, and on standing evidence.
CertificateEligible(d) ==
    /\ decision[d].status = "APPROVED"
    /\ decision[d].verdict = "PASS"
    /\ evaluation[d].outcome = "ELIGIBLE"

\* findDecisionContext: decision and evaluation in one statement.
FindContext(h) ==
    /\ At(h, "context")
    /\ IF CertificateEligible(handler[h].d)
         THEN Goto(h, "template") ELSE Finish(h)
    /\ UNCHANGED <<world, tables, answer>>

\* Mutation: only archived templates are turned down.
FindTemplateNotArchived(h) ==
    /\ At(h, "template")
    /\ IF template[handler[h].template].status # "ARCHIVED"
         THEN Goto(h, IF handler[h].file = NoFile THEN "token" ELSE "file")
         ELSE Finish(h)
    /\ UNCHANGED <<world, tables, answer>>

FindTemplate(h) ==
    /\ At(h, "template")
    /\ IF template[handler[h].template].status = "ACTIVE"
         THEN Goto(h, IF handler[h].file = NoFile THEN "token" ELSE "file")
         ELSE Finish(h)
    /\ UNCHANGED <<world, tables, answer>>

FindFile(h) ==
    /\ At(h, "file")
    /\ IF file[handler[h].file] = "ACTIVE" THEN Goto(h, "token") ELSE Finish(h)
    /\ UNCHANGED <<world, tables, answer>>

\* generateUniqueTokens: a token that is taken is drawn again, a few times.
DrawToken(h) == \E t \in Token :
    /\ At(h, "token")
    /\ IF t \notin Taken
         THEN handler' = [handler EXCEPT ![h] = [@ EXCEPT
                    !.token = t, !.step = "create"]]
         ELSE IF handler[h].draws + 1 = Draws THEN Finish(h)
              ELSE handler' = [handler EXCEPT ![h].draws = @ + 1]
    /\ UNCHANGED <<world, tables, answer>>

\* create: the unique columns refuse a second certificate or a taken token.
CreateCertificate(h) ==
    LET q == handler[h]
    IN  /\ At(h, "create")
        /\ IF Certified(q.d) \/ q.token \in Taken
             THEN UNCHANGED certificate
             ELSE certificate' = [certificate EXCEPT ![q.d] =
                    [status |-> "ISSUED", token |-> q.token,
                     template |-> q.template, file |-> q.file]]
        /\ Finish(h)
        /\ UNCHANGED <<world, template, revocation, answer>>

\* attachFile: the certificate is found, whatever its status.
FindForAttach(h) == \E d \in Decision, f \in File :
    /\ Certified(d)
    /\ Begin("attach", h, [step |-> "attachable", d |-> d, file |-> f])
    /\ UNCHANGED <<world, tables, answer>>

FindAttachable(h) ==
    /\ At(h, "attachable")
    /\ IF file[handler[h].file] = "ACTIVE" THEN Goto(h, "attach") ELSE Finish(h)
    /\ UNCHANGED <<world, tables, answer>>

AttachFile(h) ==
    /\ At(h, "attach")
    /\ certificate' = [certificate EXCEPT
            ![handler[h].d].file = handler[h].file]
    /\ Finish(h)
    /\ UNCHANGED <<world, template, revocation, answer>>

-----------------------------------------------------------------------------
(* Revocation and verification *)

\* Mutation: that there is a certificate to revoke is not checked.
FindAnyForRevoke(h) == \E d \in Decision, r \in Reason :
    /\ certificate[d].status # "REVOKED"
    /\ Begin("revoke", h, [step |-> "revoke", d |-> d, reason |-> r])
    /\ UNCHANGED <<world, tables, answer>>

FindForRevoke(h) == \E d \in Decision, r \in Reason :
    /\ certificate[d].status = "ISSUED"
    /\ Begin("revoke", h, [step |-> "revoke", d |-> d, reason |-> r])
    /\ UNCHANGED <<world, tables, answer>>

\* Mutation: the evidence is upserted.
RevokeAgain(h) ==
    LET q == handler[h]
    IN  /\ At(h, "revoke")
        /\ revocation' = [revocation EXCEPT ![q.d] = q.reason]
        /\ certificate' = [certificate EXCEPT ![q.d].status = "REVOKED"]
        /\ Finish(h)
        /\ UNCHANGED <<world, template, answer>>

\* Mutation: the status is moved, the evidence is not written.
RevokeStatusOnly(h) ==
    LET q == handler[h]
    IN  /\ At(h, "revoke")
        /\ IF Revoked(q.d)
             THEN UNCHANGED certificate
             ELSE certificate' = [certificate EXCEPT ![q.d].status = "REVOKED"]
        /\ Finish(h)
        /\ UNCHANGED <<world, template, revocation, answer>>

\* revoke: evidence and status in one transaction; the unique certificate of
\* the evidence refuses the second of two.
RevokeCertificate(h) ==
    LET q == handler[h]
    IN  /\ At(h, "revoke")
        /\ IF Revoked(q.d)
             THEN UNCHANGED <<certificate, revocation>>
             ELSE /\ revocation' = [revocation EXCEPT ![q.d] = q.reason]
                  /\ certificate' = [certificate EXCEPT
                        ![q.d].status = "REVOKED"]
        /\ Finish(h)
        /\ UNCHANGED <<world, template, answer>>

\* toRecord and toPublicProjection: the record that reaches the projection has
\* neither the reason nor the time of the revocation.
Projection(d) ==
    [status |-> certificate[d].status, token |-> certificate[d].token,
     reason |-> NoReason]

\* GET verify: one query; an unknown code is answered with nothing.
Verify == \E t \in Token :
    /\ "verify" \in Calls
    /\ answer' = IF t \in Taken
                   THEN Projection(CHOOSE d \in Decision :
                            Certified(d) /\ certificate[d].token = t)
                   ELSE NoRow
    /\ UNCHANGED <<world, tables, handler>>

-----------------------------------------------------------------------------

\* A lost connection or a restart between two queries.
Abandon(h) == ~At(h, "idle") /\ Finish(h) /\ UNCHANGED <<world, tables, answer>>

Templates(h) == \/ FindLatest(h) \/ FindSource(h) \/ CreateVersion(h)
                \/ FindForUpdate(h) \/ UpdateTemplate(h)
                \/ FindForStatus(h) \/ ChangeTemplateStatus(h)
Issue(h)     == \/ FindByDecision(h) \/ FindContext(h) \/ FindTemplate(h)
                \/ FindFile(h) \/ DrawToken(h) \/ CreateCertificate(h)
Attach(h)    == FindForAttach(h) \/ FindAttachable(h) \/ AttachFile(h)
Revoke(h)    == FindForRevoke(h) \/ RevokeCertificate(h)

Certify == Verify \/ \E h \in Handler :
    Templates(h) \/ Issue(h) \/ Attach(h) \/ Revoke(h) \/ Abandon(h)

\* The graduation modules: an evaluation is written, later superseded; a
\* decision on it is recorded, approved, corrected and revoked.
Evaluate(d) == \E outcome \in Outcome :
    /\ evaluation[d].outcome = "none"
    /\ evaluation' = [evaluation EXCEPT ![d].outcome = outcome]
    /\ UNCHANGED <<decision, file, tables, answer, handler>>
    /\ Remember

Supersede(d) ==
    /\ evaluation[d].outcome \in Outcome
    /\ evaluation' = [evaluation EXCEPT ![d].outcome = "SUPERSEDED"]
    /\ UNCHANGED <<decision, file, tables, answer, handler>>
    /\ Remember

Decide(d) == \E v \in Verdict :
    /\ evaluation[d].outcome # "none" /\ decision[d] = NoRow
    /\ decision' = [decision EXCEPT ![d] = [status |-> "DRAFT", verdict |-> v]]
    /\ UNCHANGED <<evaluation, file, tables, answer, handler>>
    /\ Remember

\* Overlapping decision requests can put a revoked decision back in force and
\* correct it (GraduationDecisions), but never make it a draft again.
Redecide(d) == \E s \in {"APPROVED", "REVOKED"}, v \in Verdict :
    /\ decision[d] # NoRow
    /\ decision[d].status = "DRAFT" => s = "APPROVED" /\ v = decision[d].verdict
    /\ decision' = [decision EXCEPT ![d] = [@ EXCEPT !.status = s, !.verdict = v]]
    /\ UNCHANGED <<evaluation, file, tables, answer, handler>>
    /\ Remember

\* The files module: a file not yet active becomes so, or is archived unused;
\* overlapping requests can bring an archived one back.
MoveFile(f) == \E s \in {"ACTIVE", "ARCHIVED"} \ {file[f]} :
    /\ file' = [file EXCEPT ![f] = s]
    /\ UNCHANGED <<evaluation, decision, tables, answer, handler>>
    /\ Remember

Environment ==
    \/ \E d \in Decision : Evaluate(d) \/ Supersede(d) \/ Decide(d) \/ Redecide(d)
    \/ \E f \in File : MoveFile(f)

Next == Certify \/ Environment

Spec == Init /\ [][Next]_vars

-----------------------------------------------------------------------------
(* Properties *)

VersionRequest == [step: {"version"}, design: Design, no: Nat]
DesignRequest  == [step: {"design"}, design: Design, no: Template]
StatusRequest  == [step: {"status"}, no: Template, to: {"ACTIVE", "ARCHIVED"}]
IssueRequest   == [step: {"context", "template", "file", "token", "create"},
                   d: Decision, template: Template, file: File \cup {NoFile},
                   draws: 0..(Draws - 1), token: Token \cup {NoRow}]
AttachRequest  == [step: {"attachable", "attach"}, d: Decision, file: File]
RevokeRequest  == [step: {"revoke"}, d: Decision, reason: Reason]

Request == VersionRequest \cup DesignRequest \cup StatusRequest
           \cup IssueRequest \cup AttachRequest \cup RevokeRequest

\* Every row keeps to its columns and every handler to what it has received.
TypeOK ==
    /\ template \in [Template -> TemplateRow \cup {NoRow}]
    /\ certificate \in [Decision -> CertificateRow \cup {NoRow}]
    /\ revocation \in [Decision -> Reason \cup {NoReason}]
    /\ handler \in [Handler -> {Idle} \cup Request]

\* A certificate reads REVOKED exactly when its reason is recorded, also when
\* revocations overlap or a request is lost.
WithdrawnWithReason ==
    \A d \in Decision : Revoked(d) <=> certificate[d].status = "REVOKED"

\* A certificate is derived, never authored: whatever happened to its decision
\* while it was issued or afterwards, there was a moment at which that decision
\* was in force, passed the participant and rested on a standing evaluation
\* that found the participant eligible.
DerivedNotAuthored ==
    \A d \in Decision : Certified(d) => d \in once.decisions

\* Whatever has become of them since, the template of a certificate was in use
\* and its file was available at some moment before.
MadeFromReleased ==
    \A d \in Decision : Certified(d) =>
        /\ certificate[d].template \in once.templates
        /\ certificate[d].file # NoFile => certificate[d].file \in once.files

\* Versions of a template code are numbered without gaps, however creations
\* from the code and from an older version overlap.
VersionsGapless == \A n \in Versions : n > 1 => n - 1 \in Versions

\* The claim of certificate-revocation.test.cjs:471: the public verification of
\* a revoked certificate gives the reason.
VerifyGivesReason ==
    answer # NoRow /\ answer.status = "REVOKED" => answer.reason # NoReason

\* What the register shows of the certificate of d.
Standing(d) ==
    CASE ~Certified(d) -> NoRow
      [] Certified(d) /\ ~Revoked(d) ->
            [status |-> certificate[d].status, token |-> certificate[d].token]
      [] OTHER -> [status |-> certificate[d].status,
                   token |-> certificate[d].token, reason |-> revocation[d]]

\* The promise of the register, kept whatever overlaps or fails.
Register == INSTANCE CertificateRegister
                WITH standing <- [d \in Decision |-> Standing(d)]
KeepsRegister == Register!Spec
=============================================================================
