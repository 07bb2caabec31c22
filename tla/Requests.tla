------------------------------ MODULE Requests ------------------------------
(***************************************************************************)
(* Requests in flight in the API (apps/api, Node.js).  A handler is an     *)
(* async function: it stops at every awaited query, and until its answer   *)
(* comes other requests run.  handler[h] holds what the request in slot h  *)
(* has received and read so far; its field step names the query it awaits. *)
(***************************************************************************)
CONSTANTS
    Handler,       \* slots for requests in flight at the same time
    Mixes          \* the sets of calls that are made together in an instance

VARIABLES
    calls,         \* the kinds of call that clients make, one of Mixes
    handler,       \* the requests in flight
    crossed        \* history: those during which another one has committed

requests == <<calls, handler, crossed>>

Idle       == [step |-> "idle"]
At(h, s)   == handler[h].step = s
InFlight   == {h \in Handler : ~At(h, "idle")}

\* Whether clients make any of the calls C; a part none of whose calls is made idles.
Asked(C)   == calls \cap C # {}

RequestsInit ==
    /\ calls \in Mixes
    /\ handler = [h \in Handler |-> Idle]
    /\ crossed = {}

\* What slot h holds next.  On a read the others do not notice; a commit
\* leaves whoever is in flight with a read that may be stale by now.
Reads(h, m) ==
    /\ handler' = [handler EXCEPT ![h] = m]
    /\ crossed' = IF m = Idle THEN crossed \ {h} ELSE crossed
    /\ UNCHANGED calls

Commits(h, m) ==
    /\ handler' = [handler EXCEPT ![h] = m]
    /\ crossed' = InFlight \ (IF m = Idle \/ h \notin crossed THEN {h} ELSE {})
    /\ UNCHANGED calls

\* A call arrives and its first query is answered.
Receive(h, m) == At(h, "idle") /\ Reads(h, m)
Goto(h, s)    == Reads(h, [handler[h] EXCEPT !.step = s])
Finish(h)     == Reads(h, Idle)
Commit(h)     == Commits(h, Idle)

\* Something that is not modelled query by query commits a write.
WriteOutside == crossed' = InFlight /\ UNCHANGED <<calls, handler>>

\* A lost connection, an aborted transaction or a restart between two queries.
Abandon(h) == ~At(h, "idle") /\ Finish(h)

\* The step is not one of a request that another one has crossed.
Uncrossed == \A h \in crossed : handler'[h] = handler[h]

\* Such a step changes v as A says or not at all.
Promised(A, v) == Uncrossed => UNCHANGED v \/ A
=============================================================================
