------------------------------ MODULE Calendar ------------------------------
(***************************************************************************)
(* What occupies time in one class subject and its class: academic         *)
(* schedules, the assignments of its educators of one type and those of    *)
(* the class staff in one role (academic-schedules, educator-assignments,  *)
(* class-staff-assignments under apps/api/src).  The three services look   *)
(* for what overlaps and then write; no index keeps the periods apart.     *)
(***************************************************************************)
EXTENDS Integers, Organizations

CONSTANTS
    Booking,       \* entries of the three tables
    Sort,          \* the table of each: "schedule", "teaching" or "staff"
    Holder,        \* the person who is assigned
    Period         \* bound: the periods that are asked for; far away is no end

ASSUME CalendarAssumption ==
    /\ Sort \in [Booking -> {"schedule", "teaching", "staff"}]
    /\ DOMAIN Holder = Booking
    /\ Period \subseteq [from: Nat, until: Nat]
    /\ \A p \in Period : p.from <= p.until

VARIABLE booking    \* the rows: occupying their period, or freed, or none

NoBooking == [status |-> "none"]
Booked == {b \in Booking : booking[b] # NoBooking}

\* ACTIVE: scheduled, ongoing or completed; ENDED: cancelled.
Row(p, s) == [status |-> s, from |-> p.from, until |-> p.until]

\* assertPositiveDuration, assertDateRange: instants or whole days
MayLast(b, p) == Sort[b] = "schedule" => p.from < p.until

\* Mutation: an entry that begins when another ends is in the way of none.
OverlapStrictly(b, p, q) == p.from < q.until /\ q.from < p.until

\* findConflicts, findOverlapping: half-open periods of schedules, inclusive days
Overlap(b, p, q) ==
    IF Sort[b] = "schedule" THEN p.from < q.until /\ q.from < p.until
                            ELSE p.from <= q.until /\ q.from <= p.until

\* The entries that must not overlap with b: of staff only those of the same person.
Rivals(b) == {c \in Booked \ {b} : /\ Sort[c] = Sort[b]
                                   /\ Sort[b] = "staff" => Holder[c] = Holder[b]}

Apart(b, c, f) == Sort[b] = Sort[c] => ~Overlap(b, f[b], f[c])

\* The entries of each table have periods that do not overlap.
Spread(f) == \A b \in Booking : /\ MayLast(b, f[b])
                                /\ \A c \in Booking \ {b} : Apart(b, c, f)

ASSUME PeriodsSuffice == \E f \in [Booking -> Period] : Spread(f)

\* Where nobody books there are entries already.
CalendarInit ==
    LET when == CHOOSE f \in [Booking -> Period] : Spread(f)
    IN  booking = [b \in Booking |-> IF Sort[b] \notin calls \/ "book" \in calls THEN NoBooking
                                     ELSE Row(when[b], "ACTIVE")]

InHand == {h \in Handler : At(h, "same person") \/ At(h, "conflicts") \/ At(h, "booking")}

\* create
BeginBooking(h) == \E b \in Booking, p \in Period, s \in {"ACTIVE", "ENDED"} :
    /\ {"book", Sort[b]} \subseteq calls
    /\ booking[b] = NoBooking /\ \A g \in InHand : handler[g].b # b
    /\ MayLast(b, p)
    /\ Receive(h, [step |-> IF Sort[b] # "schedule" THEN "same person"
                            ELSE IF s = "ACTIVE" THEN "conflicts" ELSE "booking",
                   b |-> b, row |-> Row(p, s), columns |-> {}])
    /\ UNCHANGED booking

\* findActiveDuplicate: of the same person, whenever it is.
CheckDuplicate(h) ==
    LET b == handler[h].b
    IN  /\ At(h, "same person")
        /\ IF \E c \in Booked \ {b} : /\ Sort[c] = Sort[b] /\ Holder[c] = Holder[b]
                                      /\ booking[c].status = "ACTIVE"
             THEN Finish(h) ELSE Goto(h, "conflicts")
        /\ UNCHANGED booking

\* update: of an assignment only while it is active.  An educator's is written in
\* the columns that are sent, here those that change, the others as a whole.
\* Only what will be active is looked at, and of a schedule only if it changes.
BeginRebooking(h) == \E b \in Booked, p \in Period, s \in {"ACTIVE", "ENDED"} :
    LET old == booking[b]
        new == Row(p, s)
    IN  /\ {"update", Sort[b]} \subseteq calls
        /\ Sort[b] = "schedule" \/ old.status = "ACTIVE"
        /\ MayLast(b, p)
        /\ Receive(h, [step |-> IF s = "ACTIVE" /\ (Sort[b] # "schedule" \/ new # old)
                                  THEN "conflicts" ELSE "booking",
                       b |-> b, row |-> new,
                       columns |-> {c \in DOMAIN new : Sort[b] # "teaching" \/ new[c] # old[c]}])
        /\ UNCHANGED booking

\* cancel, end: an assignment's last day is set, no earlier than its first.
BeginEnd(h) == \E b \in Booked :
    /\ {"end", Sort[b]} \subseteq calls
    /\ booking[b].status = "ACTIVE"
    /\ \E day \in {p.from : p \in {q \in Period : booking[b].from <= q.from}} :
        LET new == [booking[b] EXCEPT !.status = "ENDED",
                                      !.until = IF Sort[b] = "schedule" THEN @ ELSE day]
        IN  Receive(h, [step |-> "booking", b |-> b, row |-> new,
                        columns |-> IF Sort[b] = "schedule" THEN {"status"}
                                    ELSE {"status", "until"}])
    /\ UNCHANGED booking

\* assertNoConflict, assertNoOverlap
CheckOverlap(h) ==
    LET q == handler[h]
    IN  /\ At(h, "conflicts")
        /\ IF \E c \in Rivals(q.b) : /\ booking[c].status = "ACTIVE"
                                     /\ Overlap(q.b, q.row, booking[c])
             THEN Finish(h) ELSE Goto(h, "booking")
        /\ UNCHANGED booking

\* The row is created, or the columns are written.
Book(h) ==
    LET q == handler[h]
    IN  /\ At(h, "booking")
        /\ booking' = [booking EXCEPT ![q.b] =
                IF @ = NoBooking THEN q.row
                ELSE [c \in DOMAIN @ |-> IF c \in q.columns THEN q.row[c] ELSE @[c]]]
        /\ Commit(h)

HandleCalendar(h) ==
    \/ BeginBooking(h) \/ CheckDuplicate(h) \/ BeginRebooking(h) \/ BeginEnd(h)
    \/ CheckOverlap(h) \/ Book(h)

BookingRow == [status: {"ACTIVE", "ENDED"}, from: Nat, until: Nat]

CalendarRequest ==
    [step: {"same person", "conflicts", "booking"}, b: Booking, row: BookingRow,
     columns: SUBSET {"status", "from", "until"}]

CalendarTypeOK == booking \in [Booking -> BookingRow \cup {NoBooking}]

-----------------------------------------------------------------------------
(* Property *)

institutionTables == <<parent, booking>>

\* Requests that no other one crosses keep the promise of the institution: the
\* organizations stay a tree, and no two entries occupy the same time of a class
\* subject, of an educator's place in it or of a person in a role.
Institute == INSTANCE Institution
KeepsInstitution ==
    Institute!Init /\ [][Promised(Institute!Next, Institute!vars)]_(Institute!vars)
=============================================================================
