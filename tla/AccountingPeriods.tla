-------------------------- MODULE AccountingPeriods --------------------------
(***************************************************************************)
(* The accounting periods of one legal entity, by their first and last day. *)
(* A period is made or moved by a check for others in its way and a later   *)
(* statement, whose trigger checks again; but what a trigger sees is what   *)
(* was committed, and two statements may run at once unless they are on one *)
(* row. What a closed period holds is the business of JournalEntries.       *)
(***************************************************************************)
EXTENDS Integers, FiniteSets

CONSTANTS
  Periods, Requests,
  LastDate,     \* the days are 1 .. LastDate
  None

VARIABLES
  period,       \* accounting_periods, None of one that is not made yet
  change,       \* requests under way; at pc "commit" a statement that has run its trigger
  overlapped    \* history: a statement committed while another had run its trigger

calendar == <<period, change, overlapped>>

Days == 1 .. LastDate
NotBegun == [pc |-> "none"]
Ended == [pc |-> "ended"]

Init ==
  /\ period = [p \in Periods |-> None]
  /\ change = [r \in Requests |-> NotBegun]
  /\ overlapped = FALSE

Made == {p \in Periods : period[p] # None}

Overlap(a, b) == a.start <= b.end /\ b.start <= a.end

\* The query of the services, and the trigger's.
Free(p, dates) == \A q \in Made \ {p} : ~Overlap(period[q], dates)

Committing == {r \in Requests : change[r].pc = "commit"}

\* A statement holds the row of its period until it commits.
Unlocked(p) == \A r \in Committing : change[r].of # p

\* createAccountingPeriod
Create(r, p, start, end) ==
  LET dates == [start |-> start, end |-> end] IN
  /\ change[r] = NotBegun /\ p \notin Made
  /\ \A q \in Requests : change[q].pc \in {"write", "commit"} => change[q].of # p
  /\ start <= end /\ Free(p, dates)
  /\ change' = [change EXCEPT ![r] = [pc |-> "write", of |-> p, dates |-> dates]]
  /\ UNCHANGED <<period, overlapped>>

\* updateAccountingPeriod reads the period ...
UpdateRead(r, p) ==
  /\ change[r] = NotBegun /\ p \in Made /\ period[p].status = "open"
  /\ change' = [change EXCEPT ![r] = [pc |-> "check", of |-> p]]
  /\ UNCHANGED <<period, overlapped>>

\* ... and checks the days it will write. Those that were not given are what it read,
\* and might as well have been given.
UpdateCheck(r, start, end) ==
  LET dates == [start |-> start, end |-> end] IN
  /\ change[r].pc = "check"
  /\ start <= end /\ Free(change[r].of, dates)
  /\ change' = [change EXCEPT ![r] = [pc |-> "write", of |-> change[r].of, dates |-> dates]]
  /\ UNCHANGED <<period, overlapped>>

\* reject_overlapping_accounting_periods
WriteUnguarded(r) ==
  /\ change[r].pc = "write" /\ Unlocked(change[r].of)
  /\ change' = [change EXCEPT ![r].pc = "commit"]
  /\ UNCHANGED <<period, overlapped>>

Write(r) ==
  /\ change[r].pc = "write" /\ Unlocked(change[r].of)
  /\ Free(change[r].of, change[r].dates)
  /\ change' = [change EXCEPT ![r].pc = "commit"]
  /\ UNCHANGED <<period, overlapped>>

Commit(r) ==
  LET p == change[r].of IN
  /\ r \in Committing
  /\ period' = [period EXCEPT ![p] =
       [start |-> change[r].dates.start, end |-> change[r].dates.end,
        status |-> IF p \in Made THEN period[p].status ELSE "open"]]
  /\ overlapped' = (overlapped \/ Committing # {r})
  /\ change' = [change EXCEPT ![r] = Ended]

\* closeAccountingPeriod and reopenAccountingPeriod read the status and write another.
StatusRead(r, p, status) ==
  /\ change[r] = NotBegun /\ p \in Made
  /\ (period[p].status = "open") = (status # "open")
  /\ change' = [change EXCEPT ![r] = [pc |-> "status", of |-> p, status |-> status]]
  /\ UNCHANGED <<period, overlapped>>

StatusWrite(r) ==
  /\ change[r].pc = "status" /\ Unlocked(change[r].of)
  /\ period' = [period EXCEPT ![change[r].of].status = change[r].status]
  /\ change' = [change EXCEPT ![r] = Ended]
  /\ UNCHANGED overlapped

\* A check fails, or the server stops.
Fail(r) ==
  /\ change[r].pc \in {"check", "write", "commit", "status"}
  /\ change' = [change EXCEPT ![r] = Ended]
  /\ UNCHANGED <<period, overlapped>>

Next ==
  \E r \in Requests :
    \/ \E p \in Periods :
         \/ \E start, end \in Days : Create(r, p, start, end)
         \/ UpdateRead(r, p)
         \/ \E status \in {"open", "closed", "locked"} : StatusRead(r, p, status)
    \/ \E start, end \in Days : UpdateCheck(r, start, end)
    \/ Write(r) \/ Commit(r) \/ StatusWrite(r) \/ Fail(r)

Spec == Init /\ [][Next]_calendar

---------------------------------------------------------------------------
(* Properties.                                                              *)

\* A day has one period, by whose status entries of that day are judged, though periods
\* are made and moved from what was read before; unless two statements ran at once
\* (createAccountingPeriod, updateAccountingPeriod).
PeriodsApart ==
  overlapped \/ \A p, q \in Made : p # q => ~Overlap(period[p], period[q])

\* accounting-period.service.ts:228, "Only open accounting periods can be edited. Reopen
\* the period before correcting it."
OnlyOpenEdited ==
  [][\A p \in Made :
       <<period'[p].start, period'[p].end>> # <<period[p].start, period[p].end>>
       => period[p].status = "open"]_calendar
=============================================================================
