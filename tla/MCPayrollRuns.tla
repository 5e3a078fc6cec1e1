---------------------------- MODULE MCPayrollRuns ----------------------------
(***************************************************************************)
(* The registers of PayrollRuns, and the time entries that EmployeeTime    *)
(* writes and of which the registers see those that are approved. A run    *)
(* takes the part it is about.                                             *)
(***************************************************************************)
EXTENDS PayrollRuns, TLC

CONSTANTS Clients, Ids, MaxTime, Ahead, MaxShift, Breaks,
          Parts   \* the parts of which one runs

VARIABLES part, clock, times, employeeLock, timeLock, transaction

Clock == INSTANCE EmployeeTime WITH now <- clock, entry <- times, entryLock <- timeLock,
                                    request <- transaction

attendance == <<clock, times, employeeLock, timeLock, transaction>>
payrolls == <<part, vars, attendance>>

PayrollInit == part \in Parts /\ Init /\ Clock!Init

PayrollNext ==
  \/ part = "runs" /\ Next /\ UNCHANGED <<part, attendance>>
  \/ part = "times" /\ Clock!Next /\ UNCHANGED <<part, vars>>

PayrollSpec == PayrollInit /\ [][PayrollNext]_payrolls

\* Times are numbers, and the null is neither a time nor a client.
ClockAssumption ==
  /\ MaxTime \in Nat /\ Ahead \in Nat /\ MaxShift \in Nat /\ Breaks \subseteq Nat
  /\ None \notin Clients \union Nat

ASSUME AttendanceAssumption == ClockAssumption

\* Entries overlap by no more than is given ahead, and have time for their breaks
\* (assertNoOverlap, employee-time.service.ts).
TimesFit == Clock!TimesFit

\* What is approved stays as it was reviewed (reviewTimeEntry).
ApprovedAsReviewed == Clock!ApprovedAsReviewed

\* Together they can exceed the threshold of two hours.
HoursOfEntries == <<{1}, {1, 2}>>
NoHours == [e \in {} |-> {}]

Symmetric == Permutations(Runs) \union Permutations(Requests)
SymmetricTimes == Permutations(Clients) \union Permutations(Ids)
=============================================================================
