------------------------ MODULE KeycloakProvisioning ------------------------
(***************************************************************************)
(* Linking LMS accounts to Keycloak users: KeycloakProvisioningService     *)
(* (apps/api/src/keycloak-provisioning) over the Keycloak Admin API and    *)
(* user_accounts.                                                          *)
(*                                                                         *)
(* Every call to Keycloak and every query is one action.  A call can fail  *)
(* with no effect, or take effect and lose its reply; the process can stop *)
(* between any two.  Keycloak itself is modelled from how the service uses *)
(* it: user names and e-mail addresses are unique, subjects never reused.  *)
(***************************************************************************)
EXTENDS Integers

CONSTANTS
    Account,      \* rows of user_accounts with a name and an e-mail address
    Name,         \* user names
    NameOf,       \* NameOf[a]: the user name of the account, not always unique
    Handler,      \* requests that can be in flight at the same time
    Calls,        \* the calls that are made in this instance
    Stray,        \* identifiers that no user of the realm ever has
    MaxSubjects,  \* bound: users that Keycloak ever has
    MaxFaults,    \* bound: calls that fail, replies lost, processes stopped
    MaxTouches,   \* bound: changes by operators and in Keycloak's console
    None

Subject    == 1..MaxSubjects
Identifier == Subject \cup Stray

ASSUME ProvisioningAssumption ==
    /\ NameOf \in [Account -> Name]
    /\ Calls \subseteq {"provision", "linkExisting"}
    /\ {MaxSubjects, MaxFaults, MaxTouches} \subseteq Nat
    /\ Stray \cap Subject = {} /\ None \notin Account \cup Identifier

VARIABLES
    keycloak,     \* the users of the realm, by subject
    link,         \* externalAuthId of every account
    handler,      \* the requests in flight
    faults,       \* faults so far
    touches       \* changes from outside so far

vars == <<keycloak, link, handler, faults, touches>>

User    == [is: {"live"}, name: Name, email: Account \cup {None}, enabled: BOOLEAN]
NoUser  == [is |-> "absent"]
Deleted == [is |-> "deleted"]

Live     == {s \in Subject : keycloak[s].is = "live"}
Created  == {s \in Subject : keycloak[s].is # "absent"}
Named(n) == {s \in Live : keycloak[s].name = n}
Mail(e)  == {s \in Live : keycloak[s].email = e}

Idle       == [step |-> "idle"]
At(h, s)   == handler[h].step = s
Goto(h, s) == handler' = [handler EXCEPT ![h].step = s]
Finish(h)  == handler' = [handler EXCEPT ![h] = Idle]
Outside    == <<faults, touches>>

LinkedElsewhere(s, a) == \E b \in Account \ {a} : link[b] = s

Init ==
    /\ keycloak = [s \in Subject |-> NoUser]
    /\ link = [a \in Account |-> None]
    /\ handler = [h \in Handler |-> Idle]
    /\ faults = 0 /\ touches = 0

-----------------------------------------------------------------------------
(* provision and linkExisting *)

Begin(h) == \E a \in Account, c \in Calls :
    /\ At(h, "idle")
    /\ handler' = [handler EXCEPT ![h] = [step |-> "account", call |-> c, a |-> a,
            was |-> None, user |-> None, on |-> TRUE, refused |-> FALSE]]
    /\ UNCHANGED <<keycloak, link, Outside>>

\* requireAccount: the link is read, and used until the very last step.
RequireAccount(h) ==
    LET q == handler[h]
    IN  /\ At(h, "account")
        /\ handler' = [handler EXCEPT ![h] = [@ EXCEPT !.was = link[q.a],
                !.step = IF q.call = "provision" /\ link[q.a] # None
                           THEN "stored" ELSE "find"]]
        /\ UNCHANGED <<keycloak, link, Outside>>

\* safeGetUser: a stored subject that Keycloak still has needs nothing more.
GetStored(h) ==
    /\ At(h, "stored")
    /\ IF handler[h].was \in Live THEN Finish(h) ELSE Goto(h, "find")
    /\ UNCHANGED <<keycloak, link, Outside>>

\* Mutation: a user of that name is not looked for.
FindNobody(h) ==
    /\ At(h, "find")
    /\ IF handler[h].call = "provision" THEN Goto(h, "email") ELSE Finish(h)
    /\ UNCHANGED <<keycloak, link, Outside>>

\* safeFindByUsername: one to adopt, or provision goes on to create one.
FindByUsername(h) ==
    LET q == handler[h]
    IN  /\ At(h, "find")
        /\ \/ \E s \in Named(NameOf[q.a]) :
                handler' = [handler EXCEPT ![h] = [@ EXCEPT !.user = s,
                        !.on = keycloak[s].enabled, !.step = "elsewhere"]]
           \/ /\ Named(NameOf[q.a]) = {}
              /\ IF q.call = "provision" THEN Goto(h, "email") ELSE Finish(h)
        /\ UNCHANGED <<keycloak, link, Outside>>

\* isLinkedElsewhere: another account has that user.
CheckLinkedElsewhere(h) ==
    LET q == handler[h]
    IN  /\ At(h, "elsewhere")
        /\ IF LinkedElsewhere(q.user, q.a)
             THEN Finish(h) ELSE Goto(h, IF q.on THEN "before" ELSE "enable")
        /\ UNCHANGED <<keycloak, link, Outside>>

\* adopt: a disabled user is enabled first; one deleted since is an error.
EnableUser(h) ==
    LET q == handler[h]
    IN  /\ At(h, "enable")
        /\ IF q.user \in Live
             THEN /\ keycloak' = [keycloak EXCEPT ![q.user].enabled = TRUE]
                  /\ Goto(h, "before")
             ELSE UNCHANGED keycloak /\ Finish(h)
        /\ UNCHANGED <<link, Outside>>

\* hasEmailConflict: a user of another name has the e-mail address.
CheckEmail(h) ==
    LET q == handler[h]
    IN  /\ At(h, "email")
        /\ IF \E s \in Mail(q.a) : s # q.was /\ keycloak[s].name # NameOf[q.a]
             THEN Finish(h) ELSE Goto(h, "create")
        /\ UNCHANGED <<keycloak, link, Outside>>

\* Keycloak's POST /users: refused when the name or the address is taken.
Register(s, n, e) ==
    /\ Named(n) = {} /\ (e = None \/ Mail(e) = {})
    /\ s \in Subject /\ Created = 1..(s - 1)
    /\ keycloak' = [keycloak EXCEPT ![s] =
            [is |-> "live", name |-> n, email |-> e, enabled |-> TRUE]]

Taken(a) == Named(NameOf[a]) # {} \/ Mail(a) # {}

\* Mutation: a failed creation goes on with the subject it hoped for.
CreateHopefully(h) == \E s \in Subject :
    /\ At(h, "create")
    /\ Created = 1..(s - 1)
    /\ handler' = [handler EXCEPT ![h] = [@ EXCEPT !.user = s, !.step = "before"]]
    /\ \/ UNCHANGED keycloak
       \/ Register(s, NameOf[handler[h].a], handler[h].a)
    /\ UNCHANGED <<link, Outside>>

\* Mutation: the identifier in Keycloak's answer is not checked.
CreateUnchecked(h) == \E s \in Subject :
    /\ At(h, "create")
    /\ Register(s, NameOf[handler[h].a], handler[h].a)
    /\ Goto(h, "before")
    /\ UNCHANGED <<link, Outside>>

\* createUser: a conflict ends the request.
CreateUser(h) ==
    LET q == handler[h]
    IN  /\ At(h, "create")
        /\ \/ /\ Taken(q.a)
              /\ Finish(h) /\ UNCHANGED keycloak
           \/ \E s \in Subject :
                /\ Register(s, NameOf[q.a], q.a)
                /\ handler' = [handler EXCEPT ![h] = [@ EXCEPT
                        !.user = s, !.step = "before"]]
        /\ UNCHANGED <<link, Outside>>

\* setExternalAuthId: the subject may be there already.
ReadBeforeLink(h) ==
    LET q == handler[h]
    IN  /\ At(h, "before")
        /\ IF link[q.a] = q.user THEN Finish(h) ELSE Goto(h, "link")
        /\ UNCHANGED <<keycloak, link, Outside>>

\* Mutation: the link is written by account alone.
SetBlindly(h) ==
    LET q == handler[h]
    IN  /\ At(h, "link")
        /\ IF LinkedElsewhere(q.user, q.a)
             THEN UNCHANGED link ELSE link' = [link EXCEPT ![q.a] = q.user]
        /\ Finish(h)
        /\ UNCHANGED <<keycloak, Outside>>

\* updateMany: only over the link that was read; external_auth_id is unique.
\* What is read after a miss only words the answer.
SetExternalAuthId(h) ==
    LET q == handler[h]
    IN  /\ At(h, "link")
        /\ IF link[q.a] = q.was /\ ~LinkedElsewhere(q.user, q.a)
             THEN link' = [link EXCEPT ![q.a] = q.user] ELSE UNCHANGED link
        /\ Finish(h)
        /\ UNCHANGED <<keycloak, Outside>>

Proceed(h) ==
    \/ RequireAccount(h) \/ GetStored(h) \/ FindByUsername(h)
    \/ CheckLinkedElsewhere(h) \/ EnableUser(h) \/ CheckEmail(h)
    \/ CreateUser(h) \/ ReadBeforeLink(h) \/ SetExternalAuthId(h)

-----------------------------------------------------------------------------
(* Faults *)

Fault == faults < MaxFaults /\ faults' = faults + 1 /\ UNCHANGED <<touches>>

\* Keycloak out of reach, a failed query or a process restart: the request
\* ends where it is.
Abandon(h) == Fault /\ ~At(h, "idle") /\ Finish(h) /\ UNCHANGED <<keycloak, link>>

\* A rejection while the stored subject is read counts as its absence.
RejectStored(h) ==
    /\ Fault /\ At(h, "stored")
    /\ handler' = [handler EXCEPT ![h] = [@ EXCEPT
            !.refused = TRUE, !.step = "find"]]
    /\ UNCHANGED <<keycloak, link>>

\* The user is created, the answer does not arrive in time.
LoseCreated(h) ==
    /\ Fault /\ At(h, "create")
    /\ \E s \in Subject : Register(s, NameOf[handler[h].a], handler[h].a)
    /\ Finish(h) /\ UNCHANGED link

-----------------------------------------------------------------------------
(* Operators and Keycloak's own console *)

Touch == touches < MaxTouches /\ touches' = touches + 1 /\ UNCHANGED faults

\* UserAccountsService.update: an operator clears the link or sets whatever was
\* typed, as long as no other account has it; Keycloak is not asked.
AssignLink(a) == \E s \in Created \cup Stray \cup {None} :
    /\ Touch /\ s # link[a]
    /\ s # None => ~LinkedElsewhere(s, a)
    /\ link' = [link EXCEPT ![a] = s]
    /\ UNCHANGED <<keycloak, handler>>

RegisterUser == \E s \in Subject, n \in Name, e \in Account \cup {None} :
    Touch /\ Register(s, n, e) /\ UNCHANGED <<link, handler>>

DeleteUser == \E s \in Live :
    /\ Touch /\ keycloak' = [keycloak EXCEPT ![s] = Deleted]
    /\ UNCHANGED <<link, handler>>

DisableUser == \E s \in Live :
    /\ Touch /\ keycloak[s].enabled
    /\ keycloak' = [keycloak EXCEPT ![s].enabled = FALSE]
    /\ UNCHANGED <<link, handler>>

Next ==
    \/ \E h \in Handler : \/ Begin(h) \/ Proceed(h) \/ Abandon(h)
                          \/ RejectStored(h) \/ LoseCreated(h)
    \/ \E a \in Account : AssignLink(a)
    \/ RegisterUser \/ DeleteUser \/ DisableUser

\* Awaited calls return, by an answer or by the client's timeout.  Nobody is
\* obliged to call.
FairSpec == /\ Init /\ [][Next]_vars
            /\ \A h \in Handler : WF_vars(Proceed(h))

-----------------------------------------------------------------------------
(* Properties *)

Request == [step: {"account", "stored", "find", "email", "create"},
            call: Calls, a: Account, was: Identifier \cup {None}, user: {None},
            on: {TRUE}, refused: BOOLEAN]
      \cup [step: {"elsewhere", "enable", "before", "link"},
            call: Calls, a: Account, was: Identifier \cup {None}, user: Subject,
            on: BOOLEAN, refused: BOOLEAN]

\* A request that has come to the link knows the user it links.
TypeOK ==
    /\ keycloak \in [Subject -> User \cup {NoUser, Deleted}]
    /\ link \in [Account -> Identifier \cup {None}]
    /\ handler \in [Handler -> {Idle} \cup Request]
    /\ faults \in 0..MaxFaults /\ touches \in 0..MaxTouches

\* Keycloak comes before the LMS: whatever fails, is lost or overlaps, an
\* account never points at a subject that Keycloak has not created.  What only
\* an operator can have set, an identifier of no user, is left where it is.
LinksHonest == \A a \in Account : link[a] \in Stray \cup {None} \/ link[a] \in Created

\* A link to a user that Keycloak has is replaced by an operator, by an explicit
\* linkExisting, or by a provision that Keycloak refused to show that user; an
\* overlapping provision never does so.
LiveLinkKept == [][\A a \in Account :
    link[a] \in Live /\ link'[a] # link[a] =>
        \/ UNCHANGED handler
        \/ \E h \in Handler : /\ At(h, "link") /\ handler[h].a = a
                              /\ \/ handler[h].call = "linkExisting"
                                 \/ handler[h].refused]_vars

\* The user of that name, or another with that address, is someone else's.
Conflict(a) ==
    \/ \E s \in Named(NameOf[a]) : LinkedElsewhere(s, a)
    \/ \E s \in Mail(a) : keycloak[s].name # NameOf[a]

Asked(a) == \E h \in Handler :
    At(h, "account") /\ handler[h].a = a /\ handler[h].call = "provision"

\* A retry heals what failed before: an account that provisioning is asked for
\* again and again ends up linked to a user Keycloak has, unless a conflict that
\* only an operator can settle keeps it from that.
Healed == \A a \in Account :
    []<>Asked(a) => []<>(link[a] \in Live \/ Conflict(a))
=============================================================================
