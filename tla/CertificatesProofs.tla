------------------------- MODULE CertificatesProofs -------------------------
(***************************************************************************)
(* Proofs about Certificates and the register it implements, for every set *)
(* of decisions, tokens, reasons, files and requests and every number of   *)
(* template versions.                                                      *)
(***************************************************************************)
EXTENDS Certificates, TLAPS

\* What is read of the other modules' tables.
WorldOK ==
    /\ evaluation \in [Decision ->
            [outcome: {"none", "ELIGIBLE", "NOT_ELIGIBLE", "SUPERSEDED"}]]
    /\ decision \in [Decision -> {NoRow} \cup
            [status: {"DRAFT", "APPROVED", "REVOKED"}, verdict: Verdict]]
    /\ file \in [File -> {"PENDING", "ACTIVE", "ARCHIVED"}]

\* What was once so, and stays remembered: the decision deserved a certificate,
\* the template was in use, the file was available.
Grounded(d)  == d \in once.decisions
Released(n)  == n \in once.templates
Available(f) == f # NoFile => f \in once.files

\* What is so now is remembered.
Remembered ==
    /\ Now.decisions \subseteq once.decisions
    /\ Now.templates \subseteq once.templates
    /\ Now.files \subseteq once.files

\* Nothing that was remembered is forgotten by a step.
NothingForgotten ==
    /\ once.decisions \subseteq once'.decisions
    /\ once.templates \subseteq once'.templates
    /\ once.files \subseteq once'.files

\* What a handler may rely on at each of its steps, whatever others do.
StillTrue(q) ==
    /\ q.step = "version" => q.no >= 1 /\ (q.no = 1 \/ q.no - 1 \in Versions)
    /\ q.step \in {"design", "status"} => q.no \in Versions
    /\ q.step \in {"template", "file", "token", "create"} => Grounded(q.d)
    /\ q.step \in {"file", "token", "create"} => Released(q.template)
    /\ q.step = "file" => q.file # NoFile
    /\ q.step \in {"token", "create", "attach"} => Available(q.file)
    /\ q.step = "create" => q.token \in Token
    /\ q.step \in {"attachable", "attach", "revoke"} => Certified(q.d)

ReadsStayTrue == \A h \in Handler : StillTrue(handler[h])

\* The inductive invariant: the properties, the types of what is read, and what
\* each handler knows.
IInv ==
    /\ TypeOK
    /\ WorldOK
    /\ Remembered
    /\ WithdrawnWithReason
    /\ DerivedNotAuthored
    /\ MadeFromReleased
    /\ VersionsGapless
    /\ ReadsStayTrue

-----------------------------------------------------------------------------
(* Facts about the state *)

\* A handler's step says which of its locals it has.
LEMMA RequestByStep ==
    ASSUME TypeOK, NEW h \in Handler
    PROVE  LET q == handler[h] IN
           /\ q.step = "version" => q \in VersionRequest
           /\ q.step = "design" => q \in DesignRequest
           /\ q.step = "status" => q \in StatusRequest
           /\ q.step \in {"context", "template", "file", "token", "create"}
                => q \in IssueRequest
           /\ q.step \in {"attachable", "attach"} => q \in AttachRequest
           /\ q.step = "revoke" => q \in RevokeRequest
BY DEF TypeOK, Idle, Request, VersionRequest, DesignRequest, StatusRequest,
       IssueRequest, AttachRequest, RevokeRequest

\* A row that exists has all its columns.
LEMMA RowTypes ==
    ASSUME TypeOK
    PROVE  /\ \A n \in Versions : template[n] \in TemplateRow
           /\ \A d \in Decision : Certified(d) => certificate[d] \in CertificateRow
           /\ \A d \in Decision : ~Certified(d) => certificate[d].status = "none"
BY DEF TypeOK, Versions, Certified, NoRow

-----------------------------------------------------------------------------
(* The invariant *)

USE DEF At, Goto, Finish, Begin, world, tables

LEMMA InitIInv == Init => IInv
<1> SUFFICES ASSUME Init PROVE IInv
  OBVIOUS
<1> USE DEF Init, NoRow, NoReason, Idle
<1>1. TypeOK
  BY DEF TypeOK
<1>2. WorldOK /\ Remembered
  BY DEF WorldOK, Remembered, Now, Versions
<1>3. WithdrawnWithReason /\ DerivedNotAuthored /\ MadeFromReleased
  BY DEF WithdrawnWithReason, DerivedNotAuthored, MadeFromReleased, Certified,
         Revoked
<1>4. VersionsGapless /\ ReadsStayTrue
  BY DEF VersionsGapless, ReadsStayTrue, StillTrue, Versions
<1> QED BY <1>1, <1>2, <1>3, <1>4 DEF IInv

\* A step that leaves the tables alone and takes one handler to new locals
\* that are true of them keeps the invariant.
LEMMA HandlerStep ==
    ASSUME IInv, NEW h \in Handler, NEW m,
           handler' = [handler EXCEPT ![h] = m],
           UNCHANGED <<world, tables>>,
           m \in {Idle} \cup Request, StillTrue(m)
    PROVE  IInv'
<1>1. TypeOK' /\ WorldOK' /\ Remembered'
  BY DEF IInv, TypeOK, WorldOK, Remembered, Now, Versions
<1>2. WithdrawnWithReason' /\ DerivedNotAuthored' /\ MadeFromReleased'
  BY DEF IInv, WithdrawnWithReason, DerivedNotAuthored, MadeFromReleased,
         Certified, Revoked
<1>3. VersionsGapless'
  BY DEF IInv, VersionsGapless, Versions
<1>4. ReadsStayTrue'
  <2>1. \A g \in Handler : StillTrue(handler'[g])
    BY DEF IInv, TypeOK, ReadsStayTrue
  <2> QED BY <2>1 DEF ReadsStayTrue, StillTrue, Versions, Certified, Grounded,
                      Released, Available
<1> QED BY <1>1, <1>2, <1>3, <1>4 DEF IInv

\* The end of a handler is such a step.
LEMMA FinishStep ==
    ASSUME IInv, NEW h \in Handler, Finish(h), UNCHANGED <<world, tables>>
    PROVE  IInv'
BY HandlerStep DEF Idle, StillTrue

\* Remembering keeps what was remembered and adds what a step makes so.
LEMMA RememberKeeps ==
    ASSUME Remember \/ (UNCHANGED once /\ Remembered')
    PROVE  Remembered' /\ NothingForgotten
<1>1. CASE Remember
  BY <1>1 DEF Remember, Remembered, NothingForgotten
<1>2. CASE UNCHANGED once /\ Remembered'
  BY <1>2 DEF NothingForgotten
<1> QED BY <1>1, <1>2

\* What a handler knows stays true while rows stay and nothing once so for good
\* is undone.
LEMMA StaysTrue ==
    ASSUME NEW q, q \in {Idle} \cup Request, StillTrue(q),
           Versions \subseteq Versions',
           \A d \in Decision : /\ Grounded(d) => Grounded(d)'
                               /\ Certified(d) => Certified(d)',
           \A n \in Template : Released(n) => Released(n)',
           \A f \in File : Available(f) => Available(f)'
    PROVE  StillTrue(q)'
<1>1. CASE q = Idle
  BY <1>1 DEF Idle, StillTrue
<1>2. CASE q \in VersionRequest
  BY <1>2 DEF VersionRequest, StillTrue
<1>3. CASE q \in DesignRequest \cup StatusRequest
  BY <1>3 DEF DesignRequest, StatusRequest, StillTrue
<1>4. CASE q \in IssueRequest
  <2>1. Available(q.file) => Available(q.file)'
    BY <1>4 DEF IssueRequest, Available
  <2> QED BY <1>4, <2>1 DEF IssueRequest, StillTrue
<1>5. CASE q \in AttachRequest
  BY <1>5 DEF AttachRequest, StillTrue
<1>6. CASE q \in RevokeRequest
  BY <1>6 DEF RevokeRequest, StillTrue
<1> QED BY <1>1, <1>2, <1>3, <1>4, <1>5, <1>6 DEF Request

\* The same for all handlers when at most one of them ends.
LEMMA ReadsStay ==
    ASSUME IInv,
           \A g \in Handler : handler'[g] \in {handler[g], Idle},
           Versions \subseteq Versions',
           \A d \in Decision : /\ Grounded(d) => Grounded(d)'
                               /\ Certified(d) => Certified(d)',
           \A n \in Template : Released(n) => Released(n)',
           \A f \in File : Available(f) => Available(f)'
    PROVE  ReadsStayTrue'
<1> SUFFICES ASSUME NEW g \in Handler PROVE StillTrue(handler[g])'
  BY DEF ReadsStayTrue
<1>1. handler[g] \in {Idle} \cup Request /\ StillTrue(handler[g])
  BY DEF IInv, TypeOK, ReadsStayTrue
<1>2. StillTrue(Idle)
  BY DEF StillTrue, Idle
<1>3. \A q \in {handler[g], Idle} :
        StillTrue(q) => (q = handler'[g] => StillTrue(handler[g])')
  <2> SUFFICES ASSUME NEW q \in {handler[g], Idle}, StillTrue(q),
                      q = handler'[g]
               PROVE  StillTrue(handler[g])'
    OBVIOUS
  <2>1. StillTrue(q)'
    BY <1>1, StaysTrue
  <2> QED BY <2>1 DEF StillTrue
<1> QED BY <1>1, <1>2, <1>3

-----------------------------------------------------------------------------
(* Template requests *)

LEMMA BeginTemplateSteps ==
    ASSUME IInv, NEW h \in Handler,
           FindLatest(h) \/ FindSource(h) \/ FindForUpdate(h) \/ FindForStatus(h)
    PROVE  IInv'
<1>0. Versions \subseteq Template /\ Template \subseteq Nat
  BY CertificateAssumption DEF Versions, Template
<1>1. CASE FindLatest(h)
  <2>1. PICK g \in Design, n \in Versions \cup {0} :
          /\ handler' = [handler EXCEPT ![h] =
                [step |-> "version", design |-> g, no |-> n + 1]]
          /\ UNCHANGED <<world, tables>>
    BY <1>1 DEF FindLatest
  <2> DEFINE m == [step |-> "version", design |-> g, no |-> n + 1]
  <2>2. n \in Nat /\ n + 1 - 1 = n /\ (n \in Versions \/ n + 1 = 1)
    BY <1>0
  <2>3. m \in Request /\ StillTrue(m)
    BY <2>2 DEF Request, VersionRequest, StillTrue
  <2> QED BY <2>1, <2>3, HandlerStep
<1>2. CASE FindSource(h)
  <2>1. PICK n \in Versions, g \in Design :
          /\ handler' = [handler EXCEPT ![h] =
                [step |-> "version", design |-> g, no |-> n + 1]]
          /\ UNCHANGED <<world, tables>>
    BY <1>2 DEF FindSource
  <2> DEFINE m == [step |-> "version", design |-> g, no |-> n + 1]
  <2>2. n \in Nat /\ n + 1 - 1 = n
    BY <1>0
  <2>3. m \in Request /\ StillTrue(m)
    BY <2>2 DEF Request, VersionRequest, StillTrue
  <2> QED BY <2>1, <2>3, HandlerStep
<1>3. CASE FindForUpdate(h)
  <2>1. PICK n \in Versions, g \in Design :
          /\ handler' = [handler EXCEPT ![h] =
                [step |-> "design", no |-> n, design |-> g]]
          /\ UNCHANGED <<world, tables>>
    BY <1>3 DEF FindForUpdate
  <2> DEFINE m == [step |-> "design", no |-> n, design |-> g]
  <2>2. m \in Request /\ StillTrue(m)
    BY <1>0 DEF Request, DesignRequest, StillTrue
  <2> QED BY <2>1, <2>2, HandlerStep
<1>4. CASE FindForStatus(h)
  <2>1. PICK n \in Versions, to \in {"ACTIVE", "ARCHIVED"} :
          /\ handler' = [handler EXCEPT ![h] =
                [step |-> "status", no |-> n, to |-> to]]
          /\ UNCHANGED <<world, tables>>
    BY <1>4 DEF FindForStatus
  <2> DEFINE m == [step |-> "status", no |-> n, to |-> to]
  <2>2. m \in Request /\ StillTrue(m)
    BY <1>0 DEF Request, StatusRequest, StillTrue
  <2> QED BY <2>1, <2>2, HandlerStep
<1> QED BY <1>1, <1>2, <1>3, <1>4

\* A write to the templates that keeps the versions there are, and released
\* ones released, keeps everything but their numbering.
LEMMA TemplateWrite ==
    ASSUME IInv, NEW h \in Handler, Finish(h),
           UNCHANGED <<evaluation, decision, file, certificate, revocation>>,
           template' \in [Template -> TemplateRow \cup {NoRow}],
           Versions \subseteq Versions', VersionsGapless',
           Remembered', NothingForgotten
    PROVE  IInv'
<1>1. /\ \A g \in Handler : handler'[g] \in {handler[g], Idle}
      /\ handler' \in [Handler -> {Idle} \cup Request]
  BY DEF IInv, TypeOK
<1>2. TypeOK' /\ WorldOK'
  BY <1>1 DEF IInv, TypeOK, WorldOK
<1>3. /\ \A d \in Decision : /\ Grounded(d) => Grounded(d)'
                             /\ Certified(d) => Certified(d)'
      /\ \A n \in Template : Released(n) => Released(n)'
      /\ \A f \in File : Available(f) => Available(f)'
  BY DEF Grounded, Certified, Released, Available, NothingForgotten
<1>4. ReadsStayTrue'
  BY <1>1, <1>3, ReadsStay
<1>5. WithdrawnWithReason' /\ DerivedNotAuthored'
  BY DEF IInv, WithdrawnWithReason, DerivedNotAuthored, Certified, Revoked,
         NothingForgotten
<1>6. MadeFromReleased'
  BY DEF IInv, MadeFromReleased, Certified, NothingForgotten
<1> QED BY <1>2, <1>4, <1>5, <1>6 DEF IInv

LEMMA TemplateSteps ==
    ASSUME IInv, NEW h \in Handler,
           CreateVersion(h) \/ UpdateTemplate(h) \/ ChangeTemplateStatus(h)
    PROVE  IInv'
<1> DEFINE q == handler[h]
<1>0. TypeOK /\ StillTrue(q) /\ VersionsGapless
  BY DEF IInv, ReadsStayTrue
<1>1. CASE CreateVersion(h)
  <2>1. CASE UNCHANGED template
    BY <1>1, <2>1, FinishStep DEF CreateVersion
  <2>2. CASE ~UNCHANGED template
    <3> DEFINE row == [status |-> "DRAFT", design |-> q.design]
    <3>1. /\ q.no \in Template /\ q.no \notin Versions
          /\ template' = [template EXCEPT ![q.no] = row]
          /\ Finish(h) /\ UNCHANGED <<world, certificate, revocation>>
      BY <1>1, <2>2 DEF CreateVersion
    <3>2. q \in VersionRequest /\ (q.no = 1 \/ q.no - 1 \in Versions)
      BY <1>0, <1>1, RequestByStep DEF CreateVersion, StillTrue
    <3>3. row \in TemplateRow /\ row # NoRow
      BY <3>2 DEF VersionRequest, TemplateRow, NoRow
    <3>4. template' \in [Template -> TemplateRow \cup {NoRow}]
      BY <1>0, <3>1, <3>3 DEF TypeOK
    <3>5. Versions' = Versions \cup {q.no}
      BY <1>0, <3>1, <3>3 DEF TypeOK, Versions
    <3>6. VersionsGapless'
      BY <1>0, <3>2, <3>5 DEF VersionsGapless
    <3>7. Remembered' /\ NothingForgotten
      BY <1>0, <3>1, <3>3, <3>5 DEF IInv, TypeOK, Remembered, Now, Versions,
                                    NothingForgotten, TemplateRow
    <3> QED BY <3>1, <3>4, <3>5, <3>6, <3>7, TemplateWrite
  <2> QED BY <2>1, <2>2
<1>2. CASE UpdateTemplate(h)
  <2>1. q \in DesignRequest /\ q.no \in Versions
    BY <1>0, <1>2, RequestByStep DEF UpdateTemplate, StillTrue
  <2> DEFINE row == [template[q.no] EXCEPT !.design = q.design]
  <2>2. /\ q.no \in Template /\ row \in TemplateRow
        /\ row.status = template[q.no].status /\ row # NoRow
    BY <1>0, <2>1, RowTypes DEF DesignRequest, TemplateRow, NoRow
  <2>3. /\ template' = [template EXCEPT ![q.no] = row]
        /\ Finish(h) /\ UNCHANGED <<world, certificate, revocation>>
    BY <1>2 DEF UpdateTemplate
  <2>4. template' \in [Template -> TemplateRow \cup {NoRow}] /\ Versions' = Versions
    BY <1>0, <2>1, <2>2, <2>3 DEF TypeOK, Versions
  <2>5. VersionsGapless'
    BY <1>0, <2>4 DEF VersionsGapless
  <2>6. \A n \in Template : template'[n].status = template[n].status
    BY <1>0, <2>2, <2>3 DEF TypeOK
  <2>7. Remembered' /\ NothingForgotten
    BY <2>3, <2>4, <2>6 DEF IInv, Remembered, Now, Versions, NothingForgotten
  <2> QED BY <2>3, <2>4, <2>5, <2>7, TemplateWrite
<1>3. CASE ChangeTemplateStatus(h)
  <2>1. q \in StatusRequest /\ q.no \in Versions
    BY <1>0, <1>3, RequestByStep DEF ChangeTemplateStatus, StillTrue
  <2> DEFINE row == [template[q.no] EXCEPT !.status = q.to]
  <2>2. /\ q.no \in Template /\ row \in TemplateRow
        /\ row # NoRow
    BY <1>0, <2>1, RowTypes DEF StatusRequest, TemplateRow, NoRow
  <2>3. /\ template' = [template EXCEPT ![q.no] = row] /\ Finish(h) /\ Remember
        /\ UNCHANGED <<evaluation, decision, file, certificate, revocation>>
    BY <1>3 DEF ChangeTemplateStatus
  <2>4. template' \in [Template -> TemplateRow \cup {NoRow}] /\ Versions' = Versions
    BY <1>0, <2>1, <2>2, <2>3 DEF TypeOK, Versions
  <2>5. VersionsGapless'
    BY <1>0, <2>4 DEF VersionsGapless
  <2> QED BY <2>3, <2>4, <2>5, RememberKeeps, TemplateWrite
<1> QED BY <1>1, <1>2, <1>3

-----------------------------------------------------------------------------
(* Issuance, attachment and revocation *)

LEMMA IssueSteps ==
    ASSUME IInv, NEW h \in Handler,
           FindByDecision(h) \/ FindContext(h) \/ FindTemplate(h) \/ FindFile(h)
             \/ DrawToken(h)
    PROVE  IInv'
<1> DEFINE q == handler[h]
<1>0. TypeOK /\ WorldOK /\ Remembered /\ StillTrue(q)
  BY DEF IInv, ReadsStayTrue
<1>1. CASE FindByDecision(h)
  <2>1. PICK d \in Decision, n \in Versions, f \in File \cup {NoFile} :
          /\ handler' = [handler EXCEPT ![h] =
                [step |-> "context", d |-> d, template |-> n, file |-> f,
                 draws |-> 0, token |-> NoRow]]
          /\ UNCHANGED <<world, tables>>
    BY <1>1 DEF FindByDecision
  <2> DEFINE m == [step |-> "context", d |-> d, template |-> n, file |-> f,
                   draws |-> 0, token |-> NoRow]
  <2>2. 0 \in 0..(Draws - 1) /\ n \in Template
    BY CertificateAssumption DEF Versions
  <2>3. m \in Request /\ StillTrue(m)
    BY <2>2 DEF Request, IssueRequest, StillTrue
  <2> QED BY <2>1, <2>3, HandlerStep
<1>2. CASE FindContext(h)
  <2>1. q \in IssueRequest /\ q.step = "context"
    BY <1>0, <1>2, RequestByStep DEF FindContext
  <2>2. CASE CertificateEligible(q.d)
    <3> DEFINE m == [q EXCEPT !.step = "template"]
    <3>1. handler' = [handler EXCEPT ![h] = m] /\ UNCHANGED <<world, tables>>
      BY <1>2, <2>2 DEF FindContext
    <3>2. m \in Request /\ StillTrue(m)
      <4>1. q.d \in Now.decisions
        BY <2>1, <2>2 DEF IssueRequest, Now, CertificateEligible
      <4> QED BY <1>0, <2>1, <4>1 DEF Request, IssueRequest, StillTrue, Grounded,
                                      Remembered
    <3> QED BY <3>1, <3>2, HandlerStep
  <2>3. CASE ~CertificateEligible(q.d)
    BY <1>2, <2>3, FinishStep DEF FindContext
  <2> QED BY <2>2, <2>3
<1>3. CASE FindTemplate(h)
  <2>1. q \in IssueRequest /\ q.step = "template"
    BY <1>0, <1>3, RequestByStep DEF FindTemplate
  <2>2. CASE template[q.template].status = "ACTIVE"
    <3> DEFINE m == [q EXCEPT !.step = IF q.file = NoFile THEN "token"
                                                          ELSE "file"]
    <3>1. handler' = [handler EXCEPT ![h] = m] /\ UNCHANGED <<world, tables>>
      BY <1>3, <2>2 DEF FindTemplate
    <3>2. m \in Request /\ StillTrue(m)
      <4>1. q.template \in Now.templates
        BY <2>1, <2>2 DEF IssueRequest, Now, Versions, NoRow
      <4> QED BY <1>0, <2>1, <4>1 DEF Request, IssueRequest, StillTrue, Released,
                                      Available, Remembered
    <3> QED BY <3>1, <3>2, HandlerStep
  <2>3. CASE template[q.template].status # "ACTIVE"
    BY <1>3, <2>3, FinishStep DEF FindTemplate
  <2> QED BY <2>2, <2>3
<1>4. CASE FindFile(h)
  <2>1. q \in IssueRequest /\ q.step = "file"
    BY <1>0, <1>4, RequestByStep DEF FindFile
  <2>2. CASE file[q.file] = "ACTIVE"
    <3> DEFINE m == [q EXCEPT !.step = "token"]
    <3>1. handler' = [handler EXCEPT ![h] = m] /\ UNCHANGED <<world, tables>>
      BY <1>4, <2>2 DEF FindFile
    <3>2. m \in Request /\ StillTrue(m)
      <4>1. q.file \in Now.files
        BY <1>0, <2>1, <2>2 DEF IssueRequest, Now, StillTrue
      <4> QED BY <1>0, <2>1, <4>1 DEF Request, IssueRequest, StillTrue, Available,
                                      Remembered
    <3> QED BY <3>1, <3>2, HandlerStep
  <2>3. CASE file[q.file] # "ACTIVE"
    BY <1>4, <2>3, FinishStep DEF FindFile
  <2> QED BY <2>2, <2>3
<1>5. CASE DrawToken(h)
  <2>0. PICK t \in Token :
          /\ IF t \notin Taken
               THEN handler' = [handler EXCEPT ![h] =
                      [q EXCEPT !.token = t, !.step = "create"]]
               ELSE IF q.draws + 1 = Draws THEN Finish(h)
                    ELSE handler' = [handler EXCEPT ![h] =
                            [q EXCEPT !.draws = q.draws + 1]]
          /\ UNCHANGED <<world, tables>>
    BY <1>5 DEF DrawToken
  <2>1. q \in IssueRequest /\ q.step = "token"
    BY <1>0, <1>5, RequestByStep DEF DrawToken
  <2>2. CASE t \notin Taken
    <3> DEFINE m == [q EXCEPT !.token = t, !.step = "create"]
    <3>1. m \in Request /\ StillTrue(m)
      BY <1>0, <2>1 DEF Request, IssueRequest, StillTrue
    <3> QED BY <2>0, <2>2, <3>1, HandlerStep
  <2>3. CASE t \in Taken /\ q.draws + 1 # Draws
    <3> DEFINE m == [q EXCEPT !.draws = q.draws + 1]
    <3>1. q.draws \in 0..(Draws - 1)
      BY <2>1 DEF IssueRequest
    <3>2. q.draws + 1 \in 0..(Draws - 1)
      BY <2>3, <3>1, CertificateAssumption
    <3>3. m \in Request /\ StillTrue(m)
      BY <1>0, <2>1, <3>2 DEF Request, IssueRequest, StillTrue
    <3> QED BY <2>0, <2>3, <3>3, HandlerStep
  <2>4. CASE t \in Taken /\ q.draws + 1 = Draws
    BY <2>0, <2>4, FinishStep
  <2> QED BY <2>2, <2>3, <2>4
<1> QED BY <1>1, <1>2, <1>3, <1>4, <1>5

LEMMA OtherReads ==
    ASSUME IInv, NEW h \in Handler,
           FindForAttach(h) \/ FindAttachable(h) \/ FindForRevoke(h)
    PROVE  IInv'
<1> DEFINE q == handler[h]
<1>0. TypeOK /\ WorldOK /\ Remembered /\ StillTrue(q)
  BY DEF IInv, ReadsStayTrue
<1>1. CASE FindForAttach(h)
  <2>1. PICK d \in Decision, f \in File :
          /\ Certified(d)
          /\ handler' = [handler EXCEPT ![h] =
                [step |-> "attachable", d |-> d, file |-> f]]
          /\ UNCHANGED <<world, tables>>
    BY <1>1 DEF FindForAttach
  <2> DEFINE m == [step |-> "attachable", d |-> d, file |-> f]
  <2>2. m \in Request /\ StillTrue(m)
    BY <2>1 DEF Request, AttachRequest, StillTrue
  <2> QED BY <2>1, <2>2, HandlerStep
<1>2. CASE FindAttachable(h)
  <2>1. q \in AttachRequest /\ q.step = "attachable"
    BY <1>0, <1>2, RequestByStep DEF FindAttachable
  <2>2. CASE file[q.file] = "ACTIVE"
    <3> DEFINE m == [q EXCEPT !.step = "attach"]
    <3>1. handler' = [handler EXCEPT ![h] = m] /\ UNCHANGED <<world, tables>>
      BY <1>2, <2>2 DEF FindAttachable
    <3>2. m \in Request /\ StillTrue(m)
      <4>1. q.file \in Now.files
        BY <2>1, <2>2 DEF AttachRequest, Now
      <4> QED BY <1>0, <2>1, <4>1 DEF Request, AttachRequest, StillTrue, Available,
                                      Remembered
    <3> QED BY <3>1, <3>2, HandlerStep
  <2>3. CASE file[q.file] # "ACTIVE"
    BY <1>2, <2>3, FinishStep DEF FindAttachable
  <2> QED BY <2>2, <2>3
<1>3. CASE FindForRevoke(h)
  <2>1. PICK d \in Decision, r \in Reason :
          /\ certificate[d].status = "ISSUED"
          /\ handler' = [handler EXCEPT ![h] =
                [step |-> "revoke", d |-> d, reason |-> r]]
          /\ UNCHANGED <<world, tables>>
    BY <1>3 DEF FindForRevoke
  <2> DEFINE m == [step |-> "revoke", d |-> d, reason |-> r]
  <2>2. Certified(d)
    BY <1>0, <2>1, RowTypes
  <2>3. m \in Request /\ StillTrue(m)
    BY <2>2 DEF Request, RevokeRequest, StillTrue
  <2> QED BY <2>1, <2>3, HandlerStep
<1> QED BY <1>1, <1>2, <1>3

\* A write of one certificate's row that keeps what the properties say of it.
LEMMA CertificateWrite ==
    ASSUME IInv, NEW h \in Handler, NEW d \in Decision, NEW row, Finish(h),
           UNCHANGED <<world, template>>,
           certificate' = [certificate EXCEPT ![d] = row],
           row \in CertificateRow,
           revocation' \in [Decision -> Reason \cup {NoReason}],
           \A e \in Decision : e # d => revocation'[e] = revocation[e],
           revocation'[d] # NoReason <=> row.status = "REVOKED",
           Grounded(d), Released(row.template), Available(row.file)
    PROVE  IInv'
<1>0. TypeOK
  BY DEF IInv
<1>1. /\ \A g \in Handler : handler'[g] \in {handler[g], Idle}
      /\ handler' \in [Handler -> {Idle} \cup Request]
  BY <1>0 DEF TypeOK
<1>2. TypeOK' /\ WorldOK' /\ Remembered'
  BY <1>0, <1>1 DEF IInv, TypeOK, WorldOK, Remembered, Now, Versions
<1>3. /\ certificate'[d] = row /\ row # NoRow
      /\ \A e \in Decision : e # d => certificate'[e] = certificate[e]
  BY <1>0 DEF TypeOK, CertificateRow, NoRow
<1>4. /\ \A e \in Decision : /\ Grounded(e) => Grounded(e)'
                             /\ Certified(e) => Certified(e)'
      /\ \A n \in Template : Released(n) => Released(n)'
      /\ \A f \in File : Available(f) => Available(f)'
      /\ Versions' = Versions
  BY <1>3 DEF Grounded, Certified, Released, Available, Versions
<1>5. ReadsStayTrue'
  BY <1>1, <1>4, ReadsStay
<1>6. WithdrawnWithReason'
  BY <1>3 DEF IInv, WithdrawnWithReason, Revoked
<1>7. DerivedNotAuthored'
  BY <1>3 DEF IInv, DerivedNotAuthored, Certified, Grounded
<1>8. MadeFromReleased'
  BY <1>3 DEF IInv, MadeFromReleased, Certified, Released, Available
<1>9. VersionsGapless'
  BY <1>4 DEF IInv, VersionsGapless
<1> QED BY <1>2, <1>5, <1>6, <1>7, <1>8, <1>9 DEF IInv

LEMMA CertificateSteps ==
    ASSUME IInv, NEW h \in Handler,
           CreateCertificate(h) \/ AttachFile(h) \/ RevokeCertificate(h)
    PROVE  IInv'
<1> DEFINE q == handler[h]
<1>0. TypeOK /\ StillTrue(q) /\ WithdrawnWithReason
  BY DEF IInv, ReadsStayTrue
<1>1. CASE CreateCertificate(h)
  <2>1. CASE UNCHANGED certificate
    BY <1>1, <2>1, FinishStep DEF CreateCertificate
  <2>2. CASE ~UNCHANGED certificate
    <3> DEFINE row == [status |-> "ISSUED", token |-> q.token,
                       template |-> q.template, file |-> q.file]
    <3>1. /\ ~Certified(q.d) /\ certificate' = [certificate EXCEPT ![q.d] = row]
          /\ Finish(h) /\ UNCHANGED <<world, template, revocation>>
      BY <1>1, <2>2 DEF CreateCertificate
    <3>2. /\ q \in IssueRequest /\ q.token \in Token
          /\ Grounded(q.d) /\ Released(q.template) /\ Available(q.file)
      BY <1>0, <1>1, RequestByStep DEF CreateCertificate, StillTrue
    <3>3. row \in CertificateRow
      BY <3>2 DEF IssueRequest, CertificateRow
    <3>4. ~Revoked(q.d) /\ q.d \in Decision
      BY <1>0, <3>1, <3>2, RowTypes DEF WithdrawnWithReason, IssueRequest
    <3>5. /\ revocation' \in [Decision -> Reason \cup {NoReason}]
          /\ revocation' = revocation /\ revocation[q.d] = NoReason
      BY <1>0, <3>1, <3>4 DEF TypeOK, Revoked
    <3>6. PICK d \in Decision : d = q.d
      BY <3>4
    <3>7. row.status = "ISSUED" /\ row.template = q.template /\ row.file = q.file
      OBVIOUS
    <3> HIDE DEF row
    <3> QED BY <3>1, <3>2, <3>3, <3>5, <3>6, <3>7, CertificateWrite
  <2> QED BY <2>1, <2>2
<1>2. CASE AttachFile(h)
  <2>1. /\ q \in AttachRequest /\ Certified(q.d) /\ Available(q.file)
        /\ q.d \in Decision /\ q.file \in File
    BY <1>0, <1>2, RequestByStep DEF AttachFile, StillTrue, AttachRequest
  <2> DEFINE row == [certificate[q.d] EXCEPT !.file = q.file]
  <2>2. /\ row \in CertificateRow
        /\ row.status = certificate[q.d].status
        /\ row.template = certificate[q.d].template /\ row.file = q.file
    BY <1>0, <2>1, RowTypes DEF CertificateRow
  <2>3. /\ certificate' = [certificate EXCEPT ![q.d] = row]
        /\ Finish(h) /\ UNCHANGED <<world, template, revocation>>
    BY <1>2 DEF AttachFile
  <2>4. Grounded(q.d) /\ Released(row.template)
    BY <2>1, <2>2 DEF IInv, DerivedNotAuthored, MadeFromReleased, Grounded,
                      Released
  <2>5. /\ revocation' \in [Decision -> Reason \cup {NoReason}]
        /\ revocation' = revocation
        /\ revocation[q.d] # NoReason <=> row.status = "REVOKED"
    BY <1>0, <2>1, <2>2, <2>3 DEF TypeOK, Revoked, WithdrawnWithReason
  <2>6. PICK d \in Decision : d = q.d
    BY <2>1
  <2> HIDE DEF row
  <2> QED BY <2>1, <2>2, <2>3, <2>4, <2>5, <2>6, CertificateWrite
<1>3. CASE RevokeCertificate(h)
  <2>1. CASE Revoked(q.d)
    BY <1>3, <2>1, FinishStep DEF RevokeCertificate
  <2>2. CASE ~Revoked(q.d)
    <3>1. q \in RevokeRequest /\ Certified(q.d) /\ q.d \in Decision
          /\ q.reason \in Reason
      BY <1>0, <1>3, RequestByStep DEF RevokeCertificate, StillTrue,
                                       RevokeRequest
    <3> DEFINE row == [certificate[q.d] EXCEPT !.status = "REVOKED"]
    <3>2. /\ row \in CertificateRow /\ row.status = "REVOKED"
          /\ row.template = certificate[q.d].template
          /\ row.file = certificate[q.d].file
      BY <1>0, <3>1, RowTypes DEF CertificateRow
    <3>3. /\ certificate' = [certificate EXCEPT ![q.d] = row]
          /\ revocation' = [revocation EXCEPT ![q.d] = q.reason]
          /\ Finish(h) /\ UNCHANGED <<world, template>>
      BY <1>3, <2>2 DEF RevokeCertificate
    <3>4. Grounded(q.d) /\ Released(row.template) /\ Available(row.file)
      BY <3>1, <3>2 DEF IInv, DerivedNotAuthored, MadeFromReleased, Grounded,
                        Released, Available
    <3>5. /\ revocation' \in [Decision -> Reason \cup {NoReason}]
          /\ \A e \in Decision : e # q.d => revocation'[e] = revocation[e]
          /\ revocation'[q.d] # NoReason
      BY <1>0, <3>1, <3>3, NothingAssumption DEF TypeOK
    <3>6. PICK d \in Decision : d = q.d
      BY <3>1
    <3> HIDE DEF row
    <3> QED BY <3>1, <3>2, <3>3, <3>4, <3>5, <3>6, CertificateWrite
  <2> QED BY <2>1, <2>2
<1> QED BY <1>1, <1>2, <1>3

-----------------------------------------------------------------------------
(* The other modules' steps *)

\* Decisions, evidence and files move on; what they were is remembered.
LEMMA EnvironmentKeeps ==
    ASSUME IInv, Environment
    PROVE  WorldOK' /\ Remember /\ UNCHANGED <<tables, answer, handler>>
<1> USE DEF IInv, WorldOK, NoRow
<1>1. ASSUME NEW d \in Decision, Evaluate(d)
      PROVE  WorldOK' /\ Remember /\ UNCHANGED <<tables, answer, handler>>
  BY <1>1, CertificateAssumption DEF Evaluate
<1>2. ASSUME NEW d \in Decision, Supersede(d)
      PROVE  WorldOK' /\ Remember /\ UNCHANGED <<tables, answer, handler>>
  BY <1>2 DEF Supersede
<1>3. ASSUME NEW d \in Decision, Decide(d)
      PROVE  WorldOK' /\ Remember /\ UNCHANGED <<tables, answer, handler>>
  BY <1>3 DEF Decide
<1>4. ASSUME NEW d \in Decision, Redecide(d)
      PROVE  WorldOK' /\ Remember /\ UNCHANGED <<tables, answer, handler>>
  <2>1. PICK s \in {"APPROVED", "REVOKED"}, v \in Verdict :
          /\ decision[d] # NoRow
          /\ decision' = [decision EXCEPT ![d] =
                [@ EXCEPT !.status = s, !.verdict = v]]
          /\ UNCHANGED <<evaluation, file, tables, answer, handler>>
          /\ Remember
    BY <1>4 DEF Redecide
  <2> DEFINE row == [decision[d] EXCEPT !.status = s, !.verdict = v]
  <2>2. row \in [status: {"DRAFT", "APPROVED", "REVOKED"}, verdict: Verdict]
    BY <2>1
  <2>3. decision' = [decision EXCEPT ![d] = row]
    BY <2>1
  <2> HIDE DEF row
  <2>4. WorldOK'
    BY <2>1, <2>2, <2>3
  <2> QED BY <2>1, <2>4
<1>5. ASSUME NEW f \in File, MoveFile(f)
      PROVE  WorldOK' /\ Remember /\ UNCHANGED <<tables, answer, handler>>
  BY <1>5 DEF MoveFile
<1> QED BY <1>1, <1>2, <1>3, <1>4, <1>5 DEF Environment

LEMMA EnvironmentSteps ==
    ASSUME IInv, Environment
    PROVE  IInv'
<1>1. /\ WorldOK' /\ UNCHANGED <<tables, answer, handler>>
      /\ Remembered' /\ NothingForgotten
  BY EnvironmentKeeps, RememberKeeps
<1>2. TypeOK' /\ WithdrawnWithReason' /\ VersionsGapless'
  BY <1>1 DEF IInv, TypeOK, WithdrawnWithReason, Revoked, VersionsGapless, Versions
<1>3. DerivedNotAuthored' /\ MadeFromReleased'
  BY <1>1 DEF IInv, DerivedNotAuthored, MadeFromReleased, Certified,
              NothingForgotten
<1>4. ReadsStayTrue'
  <2>1. /\ \A g \in Handler : handler'[g] = handler[g]
        /\ Versions' = Versions
        /\ \A d \in Decision : /\ Certified(d) => Certified(d)'
                               /\ Grounded(d) => Grounded(d)'
        /\ \A n \in Template : Released(n) => Released(n)'
        /\ \A f \in File : Available(f) => Available(f)'
    BY <1>1 DEF Versions, Certified, Grounded, Released, Available,
                NothingForgotten
  <2> QED BY <2>1, ReadsStay
<1> QED BY <1>1, <1>2, <1>3, <1>4 DEF IInv

LEMMA NextIInv == IInv /\ [Next]_vars => IInv'
<1> SUFFICES ASSUME IInv, [Next]_vars PROVE IInv'
  OBVIOUS
<1>1. CASE UNCHANGED <<world, tables, handler>>
  BY <1>1 DEF IInv, TypeOK, WorldOK, WithdrawnWithReason, DerivedNotAuthored,
          MadeFromReleased, VersionsGapless, ReadsStayTrue, StillTrue, Certified,
          Revoked, Versions, Grounded, Released, Available, Remembered, Now
<1>2. ASSUME NEW h \in Handler, Templates(h) \/ Issue(h) \/ Attach(h) \/ Revoke(h)
      PROVE  IInv'
  BY <1>2, BeginTemplateSteps, TemplateSteps, IssueSteps, OtherReads,
     CertificateSteps DEF Templates, Issue, Attach, Revoke
<1>3. ASSUME NEW h \in Handler, Abandon(h) PROVE IInv'
  BY <1>3, FinishStep DEF Abandon
<1>4. CASE Environment
  BY <1>4, EnvironmentSteps
<1> QED BY <1>1, <1>2, <1>3, <1>4 DEF Next, Certify, Verify, vars

-----------------------------------------------------------------------------
(* The theorems *)

\* The invariant holds in every state of every behaviour.
THEOREM AlwaysIInv == Spec => []IInv
BY InitIInv, NextIInv, PTL DEF Spec

\* Every row of templates, certificates and revocations keeps to its columns and
\* every request to the locals of its step.
THEOREM TypeCorrect == Spec => []TypeOK
<1>1. IInv => TypeOK
  BY DEF IInv
<1> QED BY <1>1, AlwaysIInv, PTL

\* revokeCertificate: a certificate reads REVOKED exactly when its reason is on
\* record, for any number of overlapping or abandoned revocations.
THEOREM RevocationsExplained == Spec => []WithdrawnWithReason
<1>1. IInv => WithdrawnWithReason
  BY DEF IInv
<1> QED BY <1>1, AlwaysIInv, PTL

\* issueCertificate: whatever happens between the check of the decision and the
\* insert, for every certificate there was a moment at which its decision was in
\* force, passed the participant and rested on standing eligible evidence.
THEOREM CertificatesDerived == Spec => []DerivedNotAuthored
<1>1. IInv => DerivedNotAuthored
  BY DEF IInv
<1> QED BY <1>1, AlwaysIInv, PTL

\* issueCertificate and attachFile: the template of every certificate was in use
\* at some moment, and its file, when it has one, was available at some moment.
THEOREM CertificatesReleased == Spec => []MadeFromReleased
<1>1. IInv => MadeFromReleased
  BY DEF IInv
<1> QED BY <1>1, AlwaysIInv, PTL

\* createTemplate and createTemplateVersion: however creations overlap, the
\* versions of a code have no gaps.
THEOREM VersionsInOrder == Spec => []VersionsGapless
<1>1. IInv => VersionsGapless
  BY DEF IInv
<1> QED BY <1>1, AlwaysIInv, PTL

-----------------------------------------------------------------------------
(***************************************************************************)
(* Certificates implements CertificateRegister, with no assumption on what *)
(* overlaps: the insert and the revocation's transaction are its steps and *)
(* everything else stutters.                                               *)
(***************************************************************************)

Shown == [d \in Decision |-> Standing(d)]

\* The three shapes of what is shown, and how they tell the row.
LEMMA StandingShapes ==
    ASSUME IInv, NEW d \in Decision
    PROVE  /\ ~Certified(d) => Standing(d) = NoRow
           /\ Certified(d) => /\ Standing(d) # NoRow
                              /\ Standing(d).token = certificate[d].token
                              /\ Standing(d).status = certificate[d].status
           /\ Certified(d) /\ ~Revoked(d) =>
                /\ certificate[d].status = "ISSUED"
                /\ Standing(d) = [status |-> "ISSUED",
                                  token |-> certificate[d].token]
<1>1. Certified(d) => certificate[d] \in CertificateRow
  BY RowTypes DEF IInv
<1>2. Certified(d) /\ ~Revoked(d) => certificate[d].status = "ISSUED"
  BY <1>1 DEF IInv, WithdrawnWithReason, CertificateRow
<1>3. Certified(d) /\ Revoked(d) => certificate[d].status = "REVOKED"
  BY DEF IInv, WithdrawnWithReason
<1>4. Certified(d) /\ Revoked(d) =>
        Standing(d) = [status |-> "REVOKED", token |-> certificate[d].token,
                       reason |-> revocation[d]]
  BY <1>3 DEF Standing
<1>5. Certified(d) /\ ~Revoked(d) =>
        Standing(d) = [status |-> "ISSUED", token |-> certificate[d].token]
  BY <1>2 DEF Standing
<1>6. ~Certified(d) => Standing(d) = NoRow
  BY DEF Standing
<1> QED BY <1>2, <1>3, <1>4, <1>5, <1>6 DEF NoRow

\* A token is used in the register exactly when a certificate has it.
LEMMA UsedIsTaken ==
    ASSUME IInv, NEW t
    PROVE  Register!Used(t) <=> t \in Taken
<1>1. Register!Nothing = NoRow
  BY DEF Register!Nothing, NoRow
<1> QED BY <1>1, StandingShapes DEF Register!Used, Taken

\* Only three steps touch the rows that are shown.
LEMMA RowStep ==
    ASSUME [Next]_vars, ~UNCHANGED <<certificate, revocation>>
    PROVE  \E h \in Handler :
              CreateCertificate(h) \/ AttachFile(h) \/ RevokeCertificate(h)
BY DEF vars, Next, Certify, Verify, Templates, Issue, Attach, Revoke, Abandon,
       FindLatest, FindSource, CreateVersion, FindForUpdate, UpdateTemplate,
       FindForStatus, ChangeTemplateStatus, FindByDecision, FindContext,
       FindTemplate, FindFile, DrawToken, FindForAttach, FindAttachable,
       FindForRevoke, Environment, Evaluate, Supersede, Decide, Redecide,
       MoveFile

LEMMA CreateIssues ==
    ASSUME IInv, NEW h \in Handler, CreateCertificate(h),
           ~UNCHANGED certificate
    PROVE  \E d \in Decision : Register!Issue(d)
<1>0. TypeOK /\ StillTrue(handler[h])
  BY DEF IInv, ReadsStayTrue
<1>1. PICK q \in IssueRequest : q = handler[h] /\ q.token \in Token
  BY <1>0, RequestByStep DEF CreateCertificate, StillTrue
<1> DEFINE d == q.d
           row == [status |-> "ISSUED", token |-> q.token,
                   template |-> q.template, file |-> q.file]
<1>2. /\ d \in Decision /\ ~Certified(d) /\ q.token \notin Taken
      /\ certificate' = [certificate EXCEPT ![d] = row]
      /\ UNCHANGED revocation
  BY <1>1 DEF CreateCertificate, IssueRequest
<1>3. revocation[d] = NoReason
  BY <1>0, <1>2, RowTypes DEF IInv, WithdrawnWithReason, Revoked
<1>4. certificate'[d] = row /\ row # NoRow /\ row.status = "ISSUED"
  BY <1>0, <1>2 DEF TypeOK, NoRow
<1>5. Standing(d)' = [status |-> "ISSUED", token |-> q.token]
  BY <1>2, <1>3, <1>4 DEF Standing, Certified, Revoked
<1>6. \A e \in Decision : e # d => Standing(e)' = Standing(e)
  BY <1>0, <1>2 DEF TypeOK, Standing, Certified, Revoked
<1>7. Shown' = [Shown EXCEPT ![d] = Register!Issued(q.token)]
  BY <1>2, <1>5, <1>6 DEF Shown, Register!Issued
<1>8. Shown[d] = Register!Nothing /\ ~Register!Used(q.token)
  BY <1>2, StandingShapes, UsedIsTaken DEF Shown, Register!Nothing, NoRow
<1> QED BY <1>1, <1>2, <1>7, <1>8 DEF Register!Issue, Shown

LEMMA RevokeRevokes ==
    ASSUME IInv, NEW h \in Handler, RevokeCertificate(h),
           ~UNCHANGED <<certificate, revocation>>
    PROVE  \E d \in Decision : Register!Revoke(d)
<1>0. TypeOK /\ StillTrue(handler[h])
  BY DEF IInv, ReadsStayTrue
<1>1. PICK q \in RevokeRequest : q = handler[h] /\ Certified(q.d)
  BY <1>0, RequestByStep DEF RevokeCertificate, StillTrue
<1> DEFINE d == q.d
           row == [certificate[d] EXCEPT !.status = "REVOKED"]
<1>2. /\ d \in Decision /\ q.reason \in Reason /\ ~Revoked(d)
      /\ certificate' = [certificate EXCEPT ![d] = row]
      /\ revocation' = [revocation EXCEPT ![d] = q.reason]
  BY <1>1 DEF RevokeCertificate, RevokeRequest
<1>3. /\ row.status = "REVOKED" /\ row.token = certificate[d].token
      /\ row # NoRow
  BY <1>0, <1>1, <1>2, RowTypes DEF CertificateRow, NoRow
<1>4. certificate'[d] = row /\ revocation'[d] = q.reason /\ q.reason # NoReason
  BY <1>0, <1>2, NothingAssumption DEF TypeOK
<1>5. Standing(d)' = [status |-> "REVOKED", token |-> certificate[d].token,
                      reason |-> q.reason]
  BY <1>3, <1>4 DEF Standing, Certified, Revoked
<1>6. \A e \in Decision : e # d => Standing(e)' = Standing(e)
  BY <1>0, <1>2 DEF TypeOK, Standing, Certified, Revoked
<1>7. /\ Shown[d].status = "ISSUED"
      /\ Shown[d].token = certificate[d].token
  BY <1>1, <1>2, StandingShapes DEF Shown
<1>8. Shown' = [Shown EXCEPT ![d] = [status |-> "REVOKED",
                    token |-> Shown[d].token, reason |-> q.reason]]
  BY <1>2, <1>5, <1>6, <1>7 DEF Shown
<1> QED BY <1>2, <1>7, <1>8 DEF Register!Revoke, Shown

LEMMA AttachStutters ==
    ASSUME IInv, NEW h \in Handler, AttachFile(h)
    PROVE  Shown' = Shown
<1>0. TypeOK /\ StillTrue(handler[h])
  BY DEF IInv, ReadsStayTrue
<1>1. PICK q \in AttachRequest : q = handler[h] /\ Certified(q.d)
  BY <1>0, RequestByStep DEF AttachFile, StillTrue
<1> DEFINE d == q.d
           row == [certificate[d] EXCEPT !.file = q.file]
<1>2. /\ d \in Decision /\ UNCHANGED revocation
      /\ certificate' = [certificate EXCEPT ![d] = row]
  BY <1>1 DEF AttachFile, AttachRequest
<1>3. /\ row.status = certificate[d].status /\ row.token = certificate[d].token
      /\ row # NoRow /\ certificate'[d] = row
  BY <1>0, <1>1, <1>2, RowTypes DEF CertificateRow, NoRow, TypeOK
<1>4. Standing(d)' = Standing(d)
  BY <1>1, <1>2, <1>3 DEF Standing, Certified, Revoked
<1>5. \A e \in Decision : e # d => Standing(e)' = Standing(e)
  BY <1>0, <1>2 DEF TypeOK, Standing, Certified, Revoked
<1> QED BY <1>4, <1>5 DEF Shown

LEMMA InitRefines == Init => Register!Init
BY DEF Init, Register!Init, Register!Nothing, Standing, Certified, NoRow

LEMMA NextRefines == IInv /\ [Next]_vars => [Register!Next]_Shown
<1> SUFFICES ASSUME IInv, [Next]_vars, Shown' # Shown PROVE Register!Next
  OBVIOUS
<1>1. ~UNCHANGED <<certificate, revocation>>
  BY DEF Shown, Standing, Certified, Revoked
<1>2. PICK h \in Handler :
        CreateCertificate(h) \/ AttachFile(h) \/ RevokeCertificate(h)
  BY <1>1, RowStep
<1>3. CASE CreateCertificate(h)
  BY <1>1, <1>3, CreateIssues DEF CreateCertificate, Register!Next
<1>4. CASE RevokeCertificate(h)
  BY <1>1, <1>4, RevokeRevokes DEF Register!Next
<1>5. CASE AttachFile(h)
  BY <1>5, AttachStutters
<1> QED BY <1>2, <1>3, <1>4, <1>5

\* issueCertificate and revokeCertificate, overlapped, lost and abandoned in any
\* way, keep the register's promise: one certificate for each decision, one
\* token for each certificate, and one withdrawal, for a reason that stands.
THEOREM RegisterKept == Spec => KeepsRegister
BY InitRefines, NextRefines, AlwaysIInv, PTL
   DEF Spec, KeepsRegister, Register!Spec, Shown
=============================================================================
