-------------------------- MODULE ProvisioningProofs --------------------------
(***************************************************************************)
(* Proofs about KeycloakProvisioning, for every set of accounts, names and *)
(* requests and every value of the bounds.                                 *)
(***************************************************************************)
EXTENDS KeycloakProvisioning, TLAPS

\* What a request has read, of the users that Keycloak has created and has: its
\* link was one to a created user; so is the user it is about to link; and a
\* provision that Keycloak let look found no live user behind the link.
Knows(q, created, live) == q # Idle =>
    /\ q.was \in Stray \cup {None} \/ q.was \in created
    /\ q.step \in {"elsewhere", "enable", "before", "link"} => q.user \in created
    /\ q.step \notin {"account", "stored"} /\ q.call = "provision" /\ ~q.refused
        => q.was \notin live

\* The inductive invariant.
IInv ==
    /\ TypeOK
    /\ LinksHonest
    /\ \A h \in Handler : Knows(handler[h], Created, Live)

\* Keycloak forgets no subject and revives none.
Onward == Created \subseteq Created' /\ Live' \cap Created \subseteq Live

-----------------------------------------------------------------------------
(* Steps of Keycloak *)

Users == [Subject -> User \cup {NoUser, Deleted}]

LEMMA UserKinds ==
    /\ \A u \in User : u.is = "live"
    /\ NoUser.is = "absent" /\ Deleted.is = "deleted"
BY DEF User, NoUser, Deleted

LEMMA LiveIsCreated == Live \subseteq Created /\ Created \subseteq Subject
BY DEF Live, Created

\* What an account can point at besides a user that Keycloak has created.
LEMMA Identifiers ==
    /\ Subject \subseteq Identifier
    /\ \A i \in Stray \cup {None} : i \in Identifier \cup {None} /\ i \notin Subject
BY ProvisioningAssumption DEF Identifier

\* A user that is registered, deleted, enabled or disabled.
LEMMA UserWritten ==
    ASSUME keycloak \in Users, NEW s \in Subject, NEW u \in User \cup {Deleted},
           keycloak' = [keycloak EXCEPT ![s] = u],
           s \in Live \/ s \notin Created
    PROVE  keycloak' \in Users /\ Onward /\ s \in Created'
<1>1. keycloak' \in Users
  BY DEF Users
<1>2. \A t \in Subject : keycloak'[t] = IF t = s THEN u ELSE keycloak[t]
  BY DEF Users
<1>3. u.is # "absent"
  BY UserKinds
<1> QED BY <1>1, <1>2, <1>3 DEF Onward, Created, Live

LEMMA RegisterOnward ==
    ASSUME keycloak \in Users, NEW s \in Subject, NEW n \in Name,
           NEW e \in Account \cup {None}, Register(s, n, e)
    PROVE  keycloak' \in Users /\ Onward /\ s \in Created' /\ s \in Live'
<1> DEFINE u == [is |-> "live", name |-> n, email |-> e, enabled |-> TRUE]
<1>1. u \in User
  BY DEF User
<1>2. s \in Nat /\ s \notin 1..(s - 1)
  BY DEF Subject
<1>3. keycloak' = [keycloak EXCEPT ![s] = u] /\ s \notin Created
  BY <1>2 DEF Register
<1>4. s \in Live'
  BY <1>1, <1>3, UserKinds DEF Live, Users
<1> QED BY <1>1, <1>3, <1>4, UserWritten

\* A step that keeps Keycloak going onward and every link honest, and after which
\* every request that moved knows what it must.
LEMMA Moves ==
    ASSUME IInv, keycloak' \in Users, Onward,
           link' \in [Account -> Identifier \cup {None}],
           \A a \in Account : link'[a] # link[a] =>
                link'[a] \in Stray \cup {None} \/ link'[a] \in Created,
           handler' \in [Handler -> {Idle} \cup Request],
           \A x \in Handler : \/ handler'[x] = handler[x]
                              \/ Knows(handler'[x], Created', Live'),
           faults' \in 0..MaxFaults, touches' \in 0..MaxTouches
    PROVE  IInv'
<1>1. TypeOK'
  BY DEF TypeOK, Users
<1>2. LinksHonest'
  BY DEF IInv, LinksHonest, Onward
<1>3. ASSUME NEW x \in Handler PROVE Knows(handler'[x], Created', Live')
  <2>1. CASE Knows(handler'[x], Created', Live')
    BY <2>1
  <2>2. CASE handler'[x] = handler[x]
    <3>1. Knows(handler[x], Created, Live)
      BY DEF IInv
    <3>2. handler[x] # Idle => handler[x].was \in Identifier \cup {None}
      BY DEF IInv, TypeOK, Request
    <3>3. Live' \subseteq Subject
      BY DEF Live
    <3> QED BY <2>2, <3>1, <3>2, <3>3, Identifiers DEF Knows, Onward
  <2> QED BY <2>1, <2>2
<1> QED BY <1>1, <1>2, <1>3 DEF IInv

\* The same for one request that moves while Keycloak and the links stand still.
LEMMA RequestMoves ==
    ASSUME IInv, NEW h \in Handler, NEW m \in {Idle} \cup Request,
           handler' = [handler EXCEPT ![h] = m], Knows(m, Created, Live),
           UNCHANGED <<keycloak, link>>,
           faults' \in 0..MaxFaults, touches' \in 0..MaxTouches
    PROVE  IInv'
<1>1. keycloak' \in Users /\ link' \in [Account -> Identifier \cup {None}]
  BY DEF IInv, TypeOK, Users
<1>2. Created' = Created /\ Live' = Live
  BY DEF Created, Live
<1>3. Onward
  BY <1>2 DEF Onward
<1>4. /\ handler' \in [Handler -> {Idle} \cup Request]
      /\ \A x \in Handler : handler'[x] = IF x = h THEN m ELSE handler[x]
  BY DEF IInv, TypeOK
<1> QED BY <1>1, <1>2, <1>3, <1>4, Moves

-----------------------------------------------------------------------------
(* Steps of a request *)

EarlySteps == {"account", "stored", "find", "email", "create"}
LateSteps  == {"elsewhere", "enable", "before", "link"}

\* The locals of a request in flight.
LEMMA InFlight ==
    ASSUME IInv, NEW h \in Handler, handler[h].step # "idle"
    PROVE  LET q == handler[h]
           IN  /\ q \in Request /\ q # Idle
               /\ q.call \in Calls /\ q.a \in Account
               /\ q.was \in Identifier \cup {None} /\ q.refused \in BOOLEAN
               /\ q.step \in EarlySteps => q.user = None /\ q.on = TRUE
               /\ q.step \in LateSteps  => q.user \in Subject /\ q.on \in BOOLEAN
               /\ q = [step |-> q.step, call |-> q.call, a |-> q.a, was |-> q.was,
                       user |-> q.user, on |-> q.on, refused |-> q.refused]
               /\ Knows(q, Created, Live)
<1> DEFINE q == handler[h]
<1>1. q \in {Idle} \cup Request /\ Knows(q, Created, Live)
  BY DEF IInv, TypeOK
<1>2. q # Idle
  BY DEF Idle
<1> HIDE DEF q
<1> QED BY <1>1, <1>2 DEF Request, EarlySteps, LateSteps, q

\* A request goes on to a step with the same locals.
LEMMA GotoKeeps ==
    ASSUME NEW q \in Request, NEW s,
           \/ q.step \in EarlySteps /\ s \in EarlySteps
           \/ q.step \in LateSteps /\ s \in LateSteps
    PROVE  LET m == [q EXCEPT !.step = s]
           IN  /\ m \in Request /\ m.step = s
               /\ m.was = q.was /\ m.user = q.user
               /\ m.call = q.call /\ m.refused = q.refused
BY DEF Request, EarlySteps, LateSteps

LEMMA IdleKnows == \A created, live : Knows(Idle, created, live)
BY DEF Knows

LEMMA BeginStep ==
    ASSUME IInv, NEW h \in Handler, Begin(h)
    PROVE  IInv'
<1>1. PICK a \in Account, c \in Calls :
        handler' = [handler EXCEPT ![h] = [step |-> "account", call |-> c, a |-> a,
            was |-> None, user |-> None, on |-> TRUE, refused |-> FALSE]]
  BY DEF Begin
<1> DEFINE m == [step |-> "account", call |-> c, a |-> a, was |-> None,
                 user |-> None, on |-> TRUE, refused |-> FALSE]
<1>2. m \in Request /\ Knows(m, Created, Live)
  BY DEF Request, Knows
<1>3. UNCHANGED <<keycloak, link, faults, touches>>
  BY DEF Begin, Outside
<1> HIDE DEF m
<1> QED BY <1>1, <1>2, <1>3, RequestMoves DEF IInv, TypeOK, m

LEMMA RequireAccountStep ==
    ASSUME IInv, NEW h \in Handler, RequireAccount(h)
    PROVE  IInv'
<1> DEFINE q == handler[h]
           w == link[q.a]
           s == IF q.call = "provision" /\ w # None THEN "stored" ELSE "find"
           r == [q EXCEPT !.was = w]
           m == [step |-> s, call |-> q.call, a |-> q.a, was |-> w,
                 user |-> q.user, on |-> q.on, refused |-> q.refused]
<1>1. At(h, "account") /\ UNCHANGED <<keycloak, link, faults, touches>>
  BY DEF RequireAccount, Outside
<1>2. handler' = [handler EXCEPT ![h] = [q EXCEPT !.was = w, !.step = s]]
  BY DEF RequireAccount
<1>3. /\ q = [step |-> q.step, call |-> q.call, a |-> q.a, was |-> q.was,
              user |-> q.user, on |-> q.on, refused |-> q.refused]
      /\ q.call \in Calls /\ q.a \in Account /\ q.user = None /\ q.on = TRUE
      /\ q.refused \in BOOLEAN
  BY <1>1, InFlight DEF At, EarlySteps
<1>4. w \in Identifier \cup {None} /\ (w \in Stray \cup {None} \/ w \in Created)
  BY <1>3 DEF IInv, TypeOK, LinksHonest
<1>5. s \in {"stored", "find"} /\ (s = "find" /\ q.call = "provision" => w = None)
  OBVIOUS
<1>6. None \notin Live
  BY Identifiers DEF Live
<1>7. [q EXCEPT !.was = w, !.step = s] = m
  <2> HIDE DEF w, s
  <2>1. PICK st, c, a, wa, u, o, re : q =
            [step |-> st, call |-> c, a |-> a, was |-> wa, user |-> u,
             on |-> o, refused |-> re]
    BY <1>3
  <2>2. m = [step |-> s, call |-> c, a |-> a, was |-> w, user |-> u,
             on |-> o, refused |-> re]
    BY <2>1
  <2>3. r = [step |-> st, call |-> c, a |-> a, was |-> w, user |-> u,
             on |-> o, refused |-> re]
    BY <2>1
  <2>4. [q EXCEPT !.was = w, !.step = s] = [r EXCEPT !.step = s]
    OBVIOUS
  <2> HIDE DEF r
  <2>5. [r EXCEPT !.step = s] =
            [step |-> s, call |-> c, a |-> a, was |-> w, user |-> u,
             on |-> o, refused |-> re]
    BY <2>3
  <2> QED BY <2>2, <2>4, <2>5
<1> HIDE DEF q, w, s
<1>8. m \in Request /\ Knows(m, Created, Live)
  BY <1>3, <1>4, <1>5, <1>6 DEF Request, Knows
<1> HIDE DEF m
<1> QED BY <1>1, <1>2, <1>7, <1>8, RequestMoves DEF IInv, TypeOK

\* A request ends, or goes on to another step, and changes nothing else.
LEMMA EndOrGoto ==
    ASSUME IInv, NEW h \in Handler, handler[h].step # "idle",
           UNCHANGED <<keycloak, link, faults, touches>>, NEW s,
           \/ handler' = [handler EXCEPT ![h] = Idle]
           \/ /\ handler' = [handler EXCEPT ![h].step = s]
              /\ \/ handler[h].step \in EarlySteps /\ s \in EarlySteps
                 \/ handler[h].step \in LateSteps /\ s \in LateSteps
              /\ \/ handler[h].step \notin {"account", "stored"}
                 \/ handler[h].was \notin Live
    PROVE  IInv'
<1> DEFINE q == handler[h]
           m == [q EXCEPT !.step = s]
<1>1. faults' \in 0..MaxFaults /\ touches' \in 0..MaxTouches
  BY DEF IInv, TypeOK
<1>2. CASE handler' = [handler EXCEPT ![h] = Idle]
  BY <1>1, <1>2, IdleKnows, RequestMoves
<1>3. CASE handler' # [handler EXCEPT ![h] = Idle]
  <2>1. handler' = [handler EXCEPT ![h] = m]
    BY <1>3
  <2>2. q \in Request /\ q # Idle /\ Knows(q, Created, Live)
    BY InFlight
  <2>3. /\ \/ q.step \in EarlySteps /\ s \in EarlySteps
           \/ q.step \in LateSteps /\ s \in LateSteps
        /\ q.step \notin {"account", "stored"} \/ q.was \notin Live
    BY <1>3
  <2> HIDE DEF q
  <2>4. /\ m \in Request /\ m.step = s
        /\ m.was = q.was /\ m.user = q.user
        /\ m.call = q.call /\ m.refused = q.refused
    BY <2>2, <2>3, GotoKeeps
  <2> HIDE DEF m
  <2>5. Knows(m, Created, Live)
    BY <2>2, <2>3, <2>4 DEF Knows, EarlySteps, LateSteps
  <2> QED BY <1>1, <2>1, <2>4, <2>5, RequestMoves
<1> QED BY <1>2, <1>3

\* The steps that only look.
LEMMA LookStep ==
    ASSUME IInv, NEW h \in Handler,
           GetStored(h) \/ CheckLinkedElsewhere(h) \/ CheckEmail(h)
                        \/ ReadBeforeLink(h)
    PROVE  IInv'
<1>1. CASE GetStored(h)
  BY <1>1, EndOrGoto DEF GetStored, At, Finish, Goto, Outside, EarlySteps
<1>2. CASE CheckLinkedElsewhere(h)
  <2> DEFINE s == IF handler[h].on THEN "before" ELSE "enable"
  <2>1. /\ At(h, "elsewhere") /\ UNCHANGED <<keycloak, link, faults, touches>>
        /\ \/ handler' = [handler EXCEPT ![h] = Idle]
           \/ handler' = [handler EXCEPT ![h].step = s]
    BY <1>2 DEF CheckLinkedElsewhere, Finish, Goto, Outside
  <2>2. s \in {"before", "enable"}
    OBVIOUS
  <2> HIDE DEF s
  <2> QED BY <2>1, <2>2, EndOrGoto DEF At, LateSteps
<1>3. CASE CheckEmail(h)
  BY <1>3, EndOrGoto DEF CheckEmail, At, Finish, Goto, Outside, EarlySteps
<1>4. CASE ReadBeforeLink(h)
  BY <1>4, EndOrGoto DEF ReadBeforeLink, At, Finish, Goto, Outside, LateSteps
<1> QED BY <1>1, <1>2, <1>3, <1>4

LEMMA FindStep ==
    ASSUME IInv, NEW h \in Handler, FindByUsername(h)
    PROVE  IInv'
<1> DEFINE q == handler[h]
<1>1. At(h, "find") /\ UNCHANGED <<keycloak, link, faults, touches>>
  BY DEF FindByUsername, Outside
<1>2. CASE \E s \in Named(NameOf[q.a]) :
            handler' = [handler EXCEPT ![h] = [q EXCEPT !.user = s,
                    !.on = keycloak[s].enabled, !.step = "elsewhere"]]
  <2>1. PICK s \in Named(NameOf[q.a]) :
            handler' = [handler EXCEPT ![h] = [q EXCEPT !.user = s,
                    !.on = keycloak[s].enabled, !.step = "elsewhere"]]
    BY <1>2
  <2> DEFINE b == keycloak[s].enabled
             r == [q EXCEPT !.user = s]
             t == [r EXCEPT !.on = b]
             m == [step |-> "elsewhere", call |-> q.call, a |-> q.a,
                   was |-> q.was, user |-> s, on |-> b, refused |-> q.refused]
  <2>2. s \in Subject /\ s \in Created /\ s \in Live
    BY LiveIsCreated DEF Named
  <2>3. b \in BOOLEAN
    <3>1. keycloak[s] \in User
      BY <2>2, UserKinds DEF IInv, TypeOK, Live
    <3> QED BY <3>1 DEF User
  <2>4. /\ q = [step |-> q.step, call |-> q.call, a |-> q.a, was |-> q.was,
                user |-> q.user, on |-> q.on, refused |-> q.refused]
        /\ q.call \in Calls /\ q.a \in Account /\ q.was \in Identifier \cup {None}
        /\ q.refused \in BOOLEAN /\ q # Idle /\ Knows(q, Created, Live)
    BY <1>1, InFlight DEF At
  <2>5. [q EXCEPT !.user = s, !.on = b, !.step = "elsewhere"] = m
    <3> HIDE DEF b
    <3>1. PICK st, c, a, w, u, o, re : q =
              [step |-> st, call |-> c, a |-> a, was |-> w, user |-> u,
               on |-> o, refused |-> re]
      BY <2>4
    <3>2. m = [step |-> "elsewhere", call |-> c, a |-> a, was |-> w, user |-> s,
               on |-> b, refused |-> re]
      BY <3>1
    <3>3. r = [step |-> st, call |-> c, a |-> a, was |-> w, user |-> s,
               on |-> o, refused |-> re]
      BY <3>1
    <3>4. [q EXCEPT !.user = s, !.on = b, !.step = "elsewhere"]
            = [t EXCEPT !.step = "elsewhere"]
      OBVIOUS
    <3> HIDE DEF r
    <3>5. t = [step |-> st, call |-> c, a |-> a, was |-> w, user |-> s,
               on |-> b, refused |-> re]
      BY <3>3
    <3> HIDE DEF t
    <3>6. [t EXCEPT !.step = "elsewhere"] =
              [step |-> "elsewhere", call |-> c, a |-> a, was |-> w, user |-> s,
               on |-> b, refused |-> re]
      BY <3>5
    <3> QED BY <3>2, <3>4, <3>6
  <2>6. q.step = "find"
    BY <1>1 DEF At
  <2> HIDE DEF q, b
  <2>7. m \in Request /\ Knows(m, Created, Live)
    BY <2>2, <2>3, <2>4, <2>6 DEF Request, Knows
  <2> HIDE DEF m
  <2> QED BY <1>1, <2>1, <2>5, <2>7, RequestMoves DEF IInv, TypeOK, b
<1>3. CASE ~(\E s \in Named(NameOf[q.a]) :
            handler' = [handler EXCEPT ![h] = [q EXCEPT !.user = s,
                    !.on = keycloak[s].enabled, !.step = "elsewhere"]])
  <2>1. \/ handler' = [handler EXCEPT ![h] = Idle]
        \/ handler' = [handler EXCEPT ![h].step = "email"]
    BY <1>3 DEF FindByUsername, Finish, Goto
  <2> QED BY <1>1, <2>1, EndOrGoto DEF At, EarlySteps
<1> QED BY <1>2, <1>3

LEMMA EnableStep ==
    ASSUME IInv, NEW h \in Handler, EnableUser(h)
    PROVE  IInv'
<1> DEFINE q == handler[h]
           m == [q EXCEPT !.step = "before"]
<1>1. At(h, "enable") /\ UNCHANGED <<link, faults, touches>>
  BY DEF EnableUser, Outside
<1>2. q \in Request /\ q # Idle /\ q.user \in Subject /\ Knows(q, Created, Live)
  BY <1>1, InFlight DEF At, LateSteps
<1>3. CASE q.user \in Live
  <2> DEFINE u == [keycloak[q.user] EXCEPT !.enabled = TRUE]
  <2>1. /\ keycloak' = [keycloak EXCEPT ![q.user] = u]
        /\ handler' = [handler EXCEPT ![h] = m]
    BY <1>3 DEF EnableUser, Goto
  <2>2. keycloak[q.user] \in User
    BY <1>3, UserKinds DEF IInv, TypeOK, Live
  <2>3. u \in User
    BY <2>2 DEF User
  <2>4. keycloak' \in Users /\ Onward
    BY <1>2, <1>3, <2>1, <2>3, UserWritten DEF IInv, TypeOK, Users
  <2>5. q.step = "enable"
    BY <1>1 DEF At
  <2> HIDE DEF q, u
  <2>6. /\ m \in Request /\ m.step = "before" /\ m.was = q.was
        /\ m.user = q.user /\ m.call = q.call /\ m.refused = q.refused
    BY <1>2, <2>5, GotoKeeps DEF LateSteps
  <2>7. /\ q.was \in Identifier \cup {None}
        /\ \A i \in Stray \cup {None} : i \notin Live'
    BY <1>2, Identifiers DEF Request, Live
  <2> HIDE DEF m
  <2>8. Knows(m, Created', Live')
    BY <1>2, <2>4, <2>5, <2>6, <2>7 DEF Knows, Onward
  <2>9. /\ handler' \in [Handler -> {Idle} \cup Request]
        /\ \A x \in Handler : handler'[x] = IF x = h THEN m ELSE handler[x]
    BY <2>1, <2>6 DEF IInv, TypeOK
  <2> QED BY <1>1, <2>4, <2>8, <2>9, Moves DEF IInv, TypeOK
<1>4. CASE q.user \notin Live
  <2>1. keycloak' = keycloak /\ handler' = [handler EXCEPT ![h] = Idle]
    BY <1>4 DEF EnableUser, Finish
  <2> QED BY <1>1, <2>1, IdleKnows, RequestMoves DEF IInv, TypeOK
<1> QED BY <1>3, <1>4

LEMMA CreateStep ==
    ASSUME IInv, NEW h \in Handler, CreateUser(h)
    PROVE  IInv'
<1> DEFINE q == handler[h]
<1>1. At(h, "create") /\ UNCHANGED <<link, faults, touches>>
  BY DEF CreateUser, Outside
<1>2. CASE handler' = [handler EXCEPT ![h] = Idle] /\ UNCHANGED keycloak
  BY <1>1, <1>2, IdleKnows, RequestMoves DEF IInv, TypeOK
<1>3. CASE \E s \in Subject :
            /\ Register(s, NameOf[q.a], q.a)
            /\ handler' = [handler EXCEPT ![h] = [q EXCEPT
                    !.user = s, !.step = "before"]]
  <2>1. PICK s \in Subject :
            /\ Register(s, NameOf[q.a], q.a)
            /\ handler' = [handler EXCEPT ![h] = [q EXCEPT
                    !.user = s, !.step = "before"]]
    BY <1>3
  <2> DEFINE r == [q EXCEPT !.user = s]
             m == [step |-> "before", call |-> q.call, a |-> q.a,
                   was |-> q.was, user |-> s, on |-> q.on, refused |-> q.refused]
  <2>2. /\ q = [step |-> q.step, call |-> q.call, a |-> q.a, was |-> q.was,
                user |-> q.user, on |-> q.on, refused |-> q.refused]
        /\ q.call \in Calls /\ q.a \in Account /\ q.was \in Identifier \cup {None}
        /\ q.on = TRUE /\ q.refused \in BOOLEAN /\ q # Idle
        /\ Knows(q, Created, Live) /\ q.step = "create"
    BY <1>1, InFlight DEF At, EarlySteps
  <2>3. keycloak' \in Users /\ Onward /\ s \in Created'
    <3>1. NameOf[q.a] \in Name
      BY <2>2, ProvisioningAssumption
    <3> QED BY <2>1, <2>2, <3>1, RegisterOnward DEF IInv, TypeOK, Users
  <2>4. [q EXCEPT !.user = s, !.step = "before"] = m
    <3>1. PICK st, c, a, w, u, o, re : q =
              [step |-> st, call |-> c, a |-> a, was |-> w, user |-> u,
               on |-> o, refused |-> re]
      BY <2>2
    <3>2. m = [step |-> "before", call |-> c, a |-> a, was |-> w, user |-> s,
               on |-> o, refused |-> re]
      BY <3>1
    <3>3. r = [step |-> st, call |-> c, a |-> a, was |-> w, user |-> s,
               on |-> o, refused |-> re]
      BY <3>1
    <3>4. [q EXCEPT !.user = s, !.step = "before"] = [r EXCEPT !.step = "before"]
      OBVIOUS
    <3> HIDE DEF r
    <3>5. [r EXCEPT !.step = "before"] =
              [step |-> "before", call |-> c, a |-> a, was |-> w, user |-> s,
               on |-> o, refused |-> re]
      BY <3>3
    <3> QED BY <3>2, <3>4, <3>5
  <2>5. \A i \in Stray \cup {None} : i \notin Live'
    BY Identifiers DEF Live
  <2> HIDE DEF q
  <2>6. m \in Request /\ Knows(m, Created', Live')
    BY <2>2, <2>3, <2>5 DEF Request, Knows, Onward
  <2> HIDE DEF m
  <2>7. /\ handler' \in [Handler -> {Idle} \cup Request]
        /\ \A x \in Handler : handler'[x] = IF x = h THEN m ELSE handler[x]
    BY <2>1, <2>4, <2>6 DEF IInv, TypeOK
  <2> QED BY <1>1, <2>3, <2>6, <2>7, Moves DEF IInv, TypeOK
<1> QED BY <1>2, <1>3 DEF CreateUser, Finish

LEMMA SetStep ==
    ASSUME IInv, NEW h \in Handler, SetExternalAuthId(h)
    PROVE  IInv'
<1> DEFINE q == handler[h]
<1>1. /\ At(h, "link") /\ UNCHANGED <<keycloak, faults, touches>>
      /\ handler' = [handler EXCEPT ![h] = Idle]
      /\ link' = [link EXCEPT ![q.a] = q.user] \/ link' = link
  BY DEF SetExternalAuthId, Finish, Outside
<1>2. q.a \in Account /\ q.user \in Subject /\ q.user \in Created
  BY <1>1, InFlight DEF At, LateSteps, Knows
<1>3. Created' = Created /\ Onward
  BY <1>1 DEF Created, Live, Onward
<1> HIDE DEF q
<1>4. /\ link' \in [Account -> Identifier \cup {None}]
      /\ \A a \in Account : link'[a] # link[a] => link'[a] \in Created
  BY <1>1, <1>2, Identifiers DEF IInv, TypeOK
<1>5. /\ handler' \in [Handler -> {Idle} \cup Request]
      /\ \A x \in Handler : handler'[x] = IF x = h THEN Idle ELSE handler[x]
  BY <1>1 DEF IInv, TypeOK
<1> QED BY <1>1, <1>3, <1>4, <1>5, IdleKnows, Moves DEF IInv, TypeOK, Users

-----------------------------------------------------------------------------
(* Faults, operators and Keycloak's own console *)

LEMMA Bounds == MaxFaults \in Nat /\ MaxTouches \in Nat
BY ProvisioningAssumption

LEMMA AbandonStep ==
    ASSUME IInv, NEW h \in Handler, Abandon(h)
    PROVE  IInv'
<1>1. /\ handler' = [handler EXCEPT ![h] = Idle] /\ UNCHANGED <<keycloak, link>>
      /\ faults' \in 0..MaxFaults /\ touches' \in 0..MaxTouches
  BY Bounds DEF Abandon, Finish, Fault, IInv, TypeOK
<1> QED BY <1>1, IdleKnows, RequestMoves

LEMMA RejectStep ==
    ASSUME IInv, NEW h \in Handler, RejectStored(h)
    PROVE  IInv'
<1> DEFINE q == handler[h]
           b == TRUE
           r == [q EXCEPT !.refused = b]
           m == [step |-> "find", call |-> q.call, a |-> q.a, was |-> q.was,
                 user |-> q.user, on |-> q.on, refused |-> b]
<1>1. /\ At(h, "stored") /\ UNCHANGED <<keycloak, link>>
      /\ faults' \in 0..MaxFaults /\ touches' \in 0..MaxTouches
      /\ handler' = [handler EXCEPT ![h] =
                        [q EXCEPT !.refused = b, !.step = "find"]]
  BY Bounds DEF RejectStored, Fault, IInv, TypeOK
<1>2. /\ q = [step |-> q.step, call |-> q.call, a |-> q.a, was |-> q.was,
              user |-> q.user, on |-> q.on, refused |-> q.refused]
      /\ q.call \in Calls /\ q.a \in Account /\ q.was \in Identifier \cup {None}
      /\ q.user = None /\ q.on = TRUE /\ q # Idle /\ Knows(q, Created, Live)
  BY <1>1, InFlight DEF At, EarlySteps
<1> HIDE DEF b
<1>3. [q EXCEPT !.refused = b, !.step = "find"] = m
  <2>1. PICK st, c, a, w, u, o, re : q =
            [step |-> st, call |-> c, a |-> a, was |-> w, user |-> u,
             on |-> o, refused |-> re]
    BY <1>2
  <2>2. m = [step |-> "find", call |-> c, a |-> a, was |-> w, user |-> u,
             on |-> o, refused |-> b]
    BY <2>1
  <2>3. r = [step |-> st, call |-> c, a |-> a, was |-> w, user |-> u,
             on |-> o, refused |-> b]
    BY <2>1
  <2>4. [q EXCEPT !.refused = b, !.step = "find"] = [r EXCEPT !.step = "find"]
    OBVIOUS
  <2> HIDE DEF r
  <2>5. [r EXCEPT !.step = "find"] =
            [step |-> "find", call |-> c, a |-> a, was |-> w, user |-> u,
             on |-> o, refused |-> b]
    BY <2>3
  <2> QED BY <2>2, <2>4, <2>5
<1> HIDE DEF q
<1>4. m \in Request /\ Knows(m, Created, Live)
  BY <1>2 DEF Request, Knows, b
<1> HIDE DEF m
<1> QED BY <1>1, <1>3, <1>4, RequestMoves

LEMMA LoseStep ==
    ASSUME IInv, NEW h \in Handler, LoseCreated(h)
    PROVE  IInv'
<1> DEFINE q == handler[h]
<1>1. /\ At(h, "create") /\ handler' = [handler EXCEPT ![h] = Idle]
      /\ link' = link /\ faults' \in 0..MaxFaults /\ touches' \in 0..MaxTouches
  BY Bounds DEF LoseCreated, Finish, Fault, IInv, TypeOK
<1>2. NameOf[q.a] \in Name /\ q.a \in Account
  BY <1>1, InFlight, ProvisioningAssumption DEF At
<1>3. keycloak' \in Users /\ Onward
  BY <1>2, RegisterOnward DEF LoseCreated, IInv, TypeOK, Users
<1>4. /\ handler' \in [Handler -> {Idle} \cup Request]
      /\ \A x \in Handler : handler'[x] = IF x = h THEN Idle ELSE handler[x]
  BY <1>1 DEF IInv, TypeOK
<1> QED BY <1>1, <1>3, <1>4, IdleKnows, Moves DEF IInv, TypeOK

LEMMA OutsideStep ==
    ASSUME IInv,
           (\E a \in Account : AssignLink(a)) \/ RegisterUser \/ DeleteUser
                                             \/ DisableUser
    PROVE  IInv'
<1>1. /\ handler' = handler
      /\ faults' \in 0..MaxFaults /\ touches' \in 0..MaxTouches
  BY Bounds DEF AssignLink, RegisterUser, DeleteUser, DisableUser, Touch, IInv, TypeOK
<1>2. keycloak \in Users /\ link \in [Account -> Identifier \cup {None}]
  BY DEF IInv, TypeOK, Users
<1>3. keycloak' \in Users /\ Onward
  <2>1. CASE \E a \in Account : AssignLink(a)
    BY <1>2, <2>1 DEF AssignLink, Onward, Created, Live
  <2>2. CASE RegisterUser
    BY <1>2, <2>2, RegisterOnward DEF RegisterUser
  <2>3. CASE DeleteUser
    <3>1. PICK s \in Live : keycloak' = [keycloak EXCEPT ![s] = Deleted]
      BY <2>3 DEF DeleteUser
    <3> QED BY <1>2, <3>1, LiveIsCreated, UserWritten
  <2>4. CASE DisableUser
    <3>1. PICK s \in Live : keycloak' = [keycloak EXCEPT ![s].enabled = FALSE]
      BY <2>4 DEF DisableUser
    <3> DEFINE u == [keycloak[s] EXCEPT !.enabled = FALSE]
    <3>2. keycloak[s] \in User
      BY <1>2, UserKinds DEF Live, Users
    <3>3. u \in User
      BY <3>2 DEF User
    <3>4. keycloak' = [keycloak EXCEPT ![s] = u]
      BY <3>1
    <3> HIDE DEF u
    <3> QED BY <1>2, <3>3, <3>4, LiveIsCreated, UserWritten
  <2> QED BY <2>1, <2>2, <2>3, <2>4
<1>4. /\ link' \in [Account -> Identifier \cup {None}]
      /\ \A a \in Account : link'[a] # link[a] =>
            link'[a] \in Stray \cup {None} \/ link'[a] \in Created
  <2>1. CASE \E a \in Account : AssignLink(a)
    <3>1. PICK a \in Account, s \in Created \cup Stray \cup {None} :
            link' = [link EXCEPT ![a] = s]
      BY <2>1 DEF AssignLink
    <3> QED BY <1>2, <3>1, LiveIsCreated, Identifiers
  <2>2. CASE link' = link
    BY <1>2, <2>2
  <2> QED BY <2>1, <2>2 DEF RegisterUser, DeleteUser, DisableUser
<1>5. \A a \in Account : link'[a] # link[a] =>
            link'[a] \in Stray \cup {None} \/ link'[a] \in Created'
  BY <1>3, <1>4 DEF Onward
<1> QED BY <1>1, <1>3, <1>4, <1>5, Moves DEF IInv, TypeOK

-----------------------------------------------------------------------------
(* The theorems *)

LEMMA InitIInv == Init => IInv
<1> SUFFICES ASSUME Init PROVE IInv
  OBVIOUS
<1>1. TypeOK
  BY Bounds DEF Init, TypeOK
<1>2. LinksHonest /\ \A h \in Handler : Knows(handler[h], Created, Live)
  BY IdleKnows DEF Init, LinksHonest
<1> QED BY <1>1, <1>2 DEF IInv

LEMMA NextIInv == IInv /\ [Next]_vars => IInv'
<1> SUFFICES ASSUME IInv, [Next]_vars PROVE IInv'
  OBVIOUS
<1>1. CASE \E h \in Handler : \/ Begin(h) \/ Proceed(h) \/ Abandon(h)
                               \/ RejectStored(h) \/ LoseCreated(h)
  <2>1. PICK h \in Handler : \/ Begin(h) \/ Proceed(h) \/ Abandon(h)
                             \/ RejectStored(h) \/ LoseCreated(h)
    BY <1>1
  <2> QED BY <2>1, BeginStep, RequireAccountStep, LookStep, FindStep, EnableStep,
             CreateStep, SetStep, AbandonStep, RejectStep, LoseStep DEF Proceed
<1>2. CASE (\E a \in Account : AssignLink(a)) \/ RegisterUser \/ DeleteUser
                                              \/ DisableUser
  BY <1>2, OutsideStep
<1>3. CASE UNCHANGED vars
  BY <1>3 DEF vars, IInv, TypeOK, LinksHonest, Created, Live
<1> QED BY <1>1, <1>2, <1>3 DEF Next

LEMMA Invariance == FairSpec => []IInv
<1>1. FairSpec => Init /\ [][Next]_vars
  BY PTL DEF FairSpec
<1> QED BY <1>1, InitIInv, NextIInv, PTL

\* A request that has come to the link knows the user it links, and every table
\* keeps its type.
THEOREM TypesCorrect == FairSpec => []TypeOK
BY Invariance, PTL DEF IInv

\* Whatever fails, is lost or overlaps, no account points at a subject that
\* Keycloak has not created.
THEOREM LinksCorrect == FairSpec => []LinksHonest
BY Invariance, PTL DEF IInv

\* A provision takes no live link away, unless Keycloak refused to show it the
\* user: only an operator or an explicit linkExisting does.
THEOREM LiveLinksKept == FairSpec => LiveLinkKept
<1> DEFINE Kept == \A a \in Account :
                link[a] \in Live /\ link'[a] # link[a] =>
                    \/ UNCHANGED handler
                    \/ \E h \in Handler : /\ At(h, "link") /\ handler[h].a = a
                                          /\ \/ handler[h].call = "linkExisting"
                                             \/ handler[h].refused
<1>1. IInv /\ [Next]_vars => [Kept]_vars
  <2> SUFFICES ASSUME IInv, Next, NEW a \in Account,
                      link[a] \in Live, link'[a] # link[a],
                      ~UNCHANGED handler
               PROVE  \E h \in Handler : /\ At(h, "link") /\ handler[h].a = a
                                         /\ \/ handler[h].call = "linkExisting"
                                            \/ handler[h].refused
    OBVIOUS
  <2>1. PICK h \in Handler : SetExternalAuthId(h)
    BY DEF Next, Begin, Proceed, RequireAccount, GetStored, FindByUsername,
           CheckLinkedElsewhere, EnableUser, CheckEmail, CreateUser,
           ReadBeforeLink, Abandon, RejectStored, LoseCreated, AssignLink,
           RegisterUser, DeleteUser, DisableUser
  <2> DEFINE q == handler[h]
  <2>2. /\ At(h, "link") /\ link[q.a] = q.was
        /\ link' = [link EXCEPT ![q.a] = q.user]
    BY <2>1 DEF SetExternalAuthId
  <2>3. a = q.a
    BY <2>2 DEF IInv, TypeOK
  <2>4. /\ q.call \in Calls /\ q.step = "link" /\ q # Idle
        /\ Knows(q, Created, Live)
    BY <2>2, InFlight DEF At
  <2>5. q.call = "linkExisting" \/ q.refused
    <3> HIDE DEF q
    <3> QED BY <2>2, <2>3, <2>4, ProvisioningAssumption DEF Knows
  <2> QED BY <2>2, <2>3, <2>5
<1>2. FairSpec => [][Next]_vars
  BY PTL DEF FairSpec
<1> QED BY <1>1, <1>2, Invariance, PTL DEF LiveLinkKept
=============================================================================
