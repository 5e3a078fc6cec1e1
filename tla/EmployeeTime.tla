---------------------------- MODULE EmployeeTime ----------------------------
(***************************************************************************)
(* The time entries of one employee: clocking in and out, breaks, and the  *)
(* managers' closing, correcting, adding and reviewing of entries. Every   *)
(* operation is one transaction. Those that change times lock the row of   *)
(* the employee and then, if they work on an existing entry, that entry; a *)
(* review locks the entry only. All of them log an event, whose foreign    *)
(* key takes a share lock on the employee just before the commit.          *)
(*                                                                         *)
(* A transaction is its lock steps and a last step that checks, writes and *)
(* commits: nobody sees what it wrote before. The unit of time is half a   *)
(* second, as the code rounds to seconds. The server and PostgreSQL are    *)
(* taken to have the same clock.                                           *)
(*                                                                         *)
(* A definition whose name extends that of the definition after it is a    *)
(* wrong variant of it, which no specification uses.                       *)
(***************************************************************************)
EXTENDS Integers

CONSTANTS
  Clients,   \* concurrent requests
  Ids,       \* time entries
  MaxTime,   \* a bound on the time, for TLC
  Ahead,     \* how far in the future an entry may end: 5 minutes
  MaxShift,  \* the longest a corrected entry may be: 48 hours
  Breaks,    \* the break seconds that a manager may enter
  None

VARIABLES
  now,
  entry,         \* employee_time_entries
  employeeLock,  \* who holds the row of the employee FOR UPDATE
  entryLock,     \* and that of each entry
  request        \* what each request has locked, and when it began

vars == <<now, entry, employeeLock, entryLock, request>>

Time == 0 .. MaxTime + Ahead

NoEntry == [status |-> "absent", in |-> 0, out |-> None, break |-> None, paid |-> FALSE,
            paidSeconds |-> 0, unpaidSeconds |-> 0]

Entry == [status : {"absent", "open", "submitted", "approved", "returned"},
          in : Time, out : Time \union {None},
          break : Time \union {None},   \* active_break_started_at
          paid : BOOLEAN,               \* active_break_paid, if there is a break
          paidSeconds : Nat, unpaidSeconds : Nat]

Request == [stage : {"idle", "begun", "employee", "entry", "reviewing", "review"},
            id : Ids \union {None}, began : Time]

Idle == [stage |-> "idle", id |-> None, began |-> 0]

Init ==
  /\ now = 0
  /\ entry = [i \in Ids |-> NoEntry]
  /\ employeeLock = None
  /\ entryLock = [i \in Ids |-> None]
  /\ request = [c \in Clients |-> Idle]

Open(i) == entry[i].status = "open"
Closed(i) == entry[i].status \in {"submitted", "approved", "returned"}

SecondsBetween(a, b) == IF b <= a THEN 0 ELSE (b - a + 1) \div 2

\* Whether an entry from start to end overlaps none but the excluded ones. An
\* open entry has no end.
NoOverlapFromStart(start, end, exclude) ==
  \A i \in Ids \ exclude :
    entry[i].status = "absent" \/ (entry[i].out # None /\ entry[i].out <= start)
                               \/ entry[i].in > start

AssertNoOverlap(start, end, exclude) ==
  \A i \in Ids \ exclude :
    \/ entry[i].status = "absent"
    \/ entry[i].in >= end
    \/ entry[i].out # None /\ entry[i].out <= start

ValidCorrection(start, end, unpaid, paid) ==
  /\ start < end /\ end - start <= MaxShift /\ end <= now + Ahead
  /\ unpaid + paid <= SecondsBetween(start, end)

---------------------------------------------------------------------------
\* COMMIT or ROLLBACK: all that the request holds is released.
Finish(c) ==
  /\ request' = [request EXCEPT ![c] = Idle]
  /\ employeeLock' = IF employeeLock = c THEN None ELSE employeeLock
  /\ entryLock' = [i \in Ids |-> IF entryLock[i] = c THEN None ELSE entryLock[i]]

Begin(c) ==
  /\ request[c].stage = "idle"
  /\ request' = [request EXCEPT ![c] = [stage |-> "begun", id |-> None, began |-> now]]
  /\ UNCHANGED <<now, entry, employeeLock, entryLock>>

BeginReview(c, i) ==
  /\ request[c].stage = "idle" /\ entry[i].status # "absent"
  /\ request' = [request EXCEPT ![c] = [stage |-> "reviewing", id |-> i, began |-> 0]]
  /\ UNCHANGED <<now, entry, employeeLock, entryLock>>

\* lockEmployee, lockForManager
LockEmployee(c) ==
  /\ request[c].stage = "begun" /\ employeeLock = None
  /\ employeeLock' = c
  /\ request' = [request EXCEPT ![c].stage = "employee"]
  /\ UNCHANGED <<now, entry, entryLock>>

\* lockOpenEntry and, after lockForManager, lockEntry. The request is about to wait
\* for the entry ...
ChooseEntry(c, i) ==
  /\ request[c].stage = "employee" /\ request[c].id = None
  /\ entry[i].status # "absent"
  /\ request' = [request EXCEPT ![c].id = i]
  /\ UNCHANGED <<now, entry, employeeLock, entryLock>>

\* ... and gets it.
LockEntry(c) ==
  LET i == request[c].id IN
  /\ request[c].stage = "employee" /\ i # None /\ entryLock[i] = None
  /\ entryLock' = [entryLock EXCEPT ![i] = c]
  /\ request' = [request EXCEPT ![c].stage = "entry"]
  /\ UNCHANGED <<now, entry, employeeLock>>

\* lockEntry of a review, which is refused unless the entry is to be reviewed.
LockForReview(c) ==
  LET i == request[c].id IN
  /\ request[c].stage = "reviewing" /\ entryLock[i] = None
  /\ IF entry[i].status \in {"submitted", "returned"}
       THEN /\ entryLock' = [entryLock EXCEPT ![i] = c]
            /\ request' = [request EXCEPT ![c].stage = "review"]
       ELSE request' = [request EXCEPT ![c] = Idle] /\ UNCHANGED entryLock
  /\ UNCHANGED <<now, entry, employeeLock>>

\* A check fails, or a constraint: ROLLBACK.
Abandon(c) ==
  /\ request[c].stage = "entry" \/ (request[c].stage = "employee" /\ request[c].id = None)
  /\ Finish(c) /\ UNCHANGED <<now, entry>>

\* A request that holds the employee waits for the entry of another one, which
\* waits for the employee to log its review.
Deadlocked(c, d) ==
  /\ request[c].stage = "employee" /\ request[c].id # None
  /\ request[d].stage = "review" /\ request[d].id = request[c].id

\* PostgreSQL detects it and aborts one of the two.
AbortDeadlock(c) ==
  /\ \E d \in Clients : Deadlocked(c, d) \/ Deadlocked(d, c)
  /\ Finish(c) /\ UNCHANGED <<now, entry>>

Write(c, i, row) ==
  /\ entry' = [entry EXCEPT ![i] = row]
  /\ Finish(c) /\ UNCHANGED now

---------------------------------------------------------------------------
\* With the employee locked: an entry is added.
ClockIn(c) ==
  /\ request[c].stage = "employee" /\ request[c].id = None
  /\ \A i \in Ids : ~ Open(i)
  /\ AssertNoOverlap(now, now + 2, {})
  /\ \E i \in Ids : /\ entry[i].status = "absent"
                    /\ Write(c, i, [NoEntry EXCEPT !.status = "open", !.in = now])

ManualEntry(c) ==
  /\ request[c].stage = "employee" /\ request[c].id = None
  /\ \E i \in Ids, start, end \in Time, unpaid, paid \in Breaks :
       /\ ValidCorrection(start, end, unpaid, paid)
       /\ AssertNoOverlap(start, end, {})
       /\ entry[i].status = "absent"
       /\ Write(c, i, [NoEntry EXCEPT !.status = "submitted", !.in = start, !.out = end,
                         !.paidSeconds = paid, !.unpaidSeconds = unpaid])

\* With the entry locked too: it is changed. now() is the time of the BEGIN.
StartBreak(c) ==
  LET i == request[c].id IN
  /\ request[c].stage = "entry" /\ Open(i) /\ entry[i].break = None
  /\ request[c].began >= entry[i].in
  /\ \E paid \in BOOLEAN :
       Write(c, i, [entry[i] EXCEPT !.break = request[c].began, !.paid = paid])

\* The breaks of an entry once the running one has been ended.
WithBreak(e, end) ==
  LET seconds == IF e.break = None THEN 0 ELSE SecondsBetween(e.break, end) IN
  [e EXCEPT !.break = None, !.paid = FALSE,
            !.paidSeconds = @ + (IF e.paid THEN seconds ELSE 0),
            !.unpaidSeconds = @ + (IF e.paid THEN 0 ELSE seconds)]

EndBreak(c) ==
  LET i == request[c].id IN
  /\ request[c].stage = "entry" /\ Open(i) /\ entry[i].break # None
  /\ Write(c, i, WithBreak(entry[i], now))

\* time_clock_break_limit
BreaksFit(e) == e.paidSeconds + e.unpaidSeconds <= SecondsBetween(e.in, e.out)

\* An entry lasts at least the least possible time.
ClockOut(c) ==
  LET i == request[c].id
      end == IF now <= entry[i].in THEN entry[i].in + 1 ELSE now
      row == [WithBreak(entry[i], end) EXCEPT !.out = end, !.status = "submitted"]
  IN
  /\ request[c].stage = "entry" /\ Open(i)
  /\ end \in Time /\ BreaksFit(row)
  /\ Write(c, i, row)

\* managerCloseOpenTime, which may give the break times or leave them to the code.
ManagerClose(c) ==
  LET i == request[c].id IN
  /\ request[c].stage = "entry" /\ Open(i)
  /\ \E start, end \in Time, given \in SUBSET {"unpaid", "paid"}, unpaid, paid \in Breaks :
       LET ended == WithBreak(entry[i], end)
           row == [ended EXCEPT !.in = start, !.out = end, !.status = "submitted",
                     !.unpaidSeconds = IF "unpaid" \in given THEN unpaid ELSE @,
                     !.paidSeconds = IF "paid" \in given THEN paid ELSE @]
       IN /\ entry[i].break # None /\ end < entry[i].break => given # {}
          /\ ValidCorrection(start, end, row.unpaidSeconds, row.paidSeconds)
          /\ AssertNoOverlap(start, end, {i})
          /\ Write(c, i, row)

CorrectKeepsReview(c) ==
  LET i == request[c].id IN
  /\ request[c].stage = "entry" /\ Closed(i)
  /\ \E start, end \in Time,
        unpaid \in Breaks \union {entry[i].unpaidSeconds},
        paid \in Breaks \union {entry[i].paidSeconds} :
       /\ ValidCorrection(start, end, unpaid, paid)
       /\ AssertNoOverlap(start, end, {i})
       /\ Write(c, i, [entry[i] EXCEPT !.in = start, !.out = end,
                         !.unpaidSeconds = unpaid, !.paidSeconds = paid])

\* A corrected entry has to be reviewed again.
Correct(c) ==
  LET i == request[c].id IN
  /\ request[c].stage = "entry" /\ Closed(i)
  /\ \E start, end \in Time,
        unpaid \in Breaks \union {entry[i].unpaidSeconds},
        paid \in Breaks \union {entry[i].paidSeconds} :
       /\ ValidCorrection(start, end, unpaid, paid)
       /\ AssertNoOverlap(start, end, {i})
       /\ Write(c, i, [entry[i] EXCEPT !.in = start, !.out = end, !.status = "submitted",
                         !.unpaidSeconds = unpaid, !.paidSeconds = paid])

\* The event of a review refers to the employee, who must not be locked.
Review(c) ==
  /\ request[c].stage = "review" /\ employeeLock = None
  /\ \E decision \in {"approved", "returned"} :
       Write(c, request[c].id, [entry[request[c].id] EXCEPT !.status = decision])

Tick ==
  /\ now < MaxTime
  /\ now' = now + 1
  /\ UNCHANGED <<entry, employeeLock, entryLock, request>>

---------------------------------------------------------------------------
Commit(c) ==
  \/ ClockIn(c) \/ ManualEntry(c) \/ StartBreak(c) \/ EndBreak(c) \/ ClockOut(c)
  \/ ManagerClose(c) \/ Correct(c) \/ Review(c)

Proceed(c) == Commit(c) \/ Abandon(c) \/ AbortDeadlock(c)

Lock(c) == LockEmployee(c) \/ LockEntry(c) \/ LockForReview(c)

Next ==
  \/ Tick
  \/ \E c \in Clients : \/ Begin(c) \/ Lock(c) \/ Proceed(c)
                        \/ \E i \in Ids : BeginReview(c, i) \/ ChooseEntry(c, i)

\* A transaction goes on as soon as it can, and one that waits for a lock gets it in
\* its turn. Nobody has to begin one.
Fairness ==
  \A c \in Clients : WF_vars(Proceed(c)) /\ SF_vars(Lock(c)) /\ SF_vars(Review(c))

Spec == Init /\ [][Next]_vars /\ Fairness

---------------------------------------------------------------------------
TypeOK ==
  /\ now \in 0 .. MaxTime
  /\ entry \in [Ids -> Entry]
  /\ employeeLock \in Clients \union {None}
  /\ entryLock \in [Ids -> Clients \union {None}]
  /\ request \in [Clients -> Request]

\* Up to when an entry is known to last.
LastsTo(i) == IF entry[i].out = None THEN now ELSE entry[i].out

\* The time that two entries both count.
Shared(i, j) ==
  LET start == IF entry[i].in > entry[j].in THEN entry[i].in ELSE entry[j].in
      end == IF LastsTo(i) < LastsTo(j) THEN LastsTo(i) ELSE LastsTo(j)
  IN IF start < end THEN end - start ELSE 0

Entered(i) == entry[i].status # "absent"

\* Two entries never share as much time as an entry may reach into the future: only
\* one that was added for the time to come can be run into.
OverlapBounded ==
  \A i, j \in Ids : i # j /\ Entered(i) /\ Entered(j) =>
    Shared(i, j) <= IF Ahead < 2 THEN 0 ELSE Ahead - 2

\* The breaks of an entry that has ended fit into it, however they were recorded.
ClosedBreaksFit == \A i \in Ids : Closed(i) => BreaksFit(entry[i])

\* What payroll counts of an employee's time is counted once, and is not negative
\* (assertNoOverlap, clockOut).
TimesFit == OverlapBounded /\ ClosedBreaksFit

\* What a manager has approved stays as it was approved: payroll reads no entry that
\* was changed after its review.
ApprovedAsReviewed ==
  [][\A i \in Ids : entry[i].status = "approved" /\ entry'[i].status = "approved" =>
       entry'[i] = entry[i]]_vars

\* Every transaction ends, those that block each other included.
TransactionsEnd == \A c \in Clients : (request[c].stage # "idle") ~> (request[c].stage = "idle")

\* employee-time.service.ts:188, "Time entries for the same employee cannot overlap."
NoOverlap ==
  \A i, j \in Ids : i # j /\ Entered(i) /\ Entered(j) => Shared(i, j) = 0

\* employee-time.service.ts:335, "Lock the employee first, matching clock-in and manual
\* entry lock ordering.": no two transactions wait for each other.
NoDeadlock == \A c, d \in Clients : ~ Deadlocked(c, d)
=============================================================================
