----------------------------- MODULE PayrollRuns -----------------------------
(***************************************************************************)
(* The gross payroll registers of one business unit, for one employee: the *)
(* time entries, hourly rates, leave and separation that a register is     *)
(* made from, and its way from draft to the books.                         *)
(*                                                                         *)
(* Preparing a register locks the unit for its whole transaction, and is   *)
(* modelled in steps: it reads the time entries, which stay locked, and    *)
(* the rates, which do not; then leave and separation; then it writes.     *)
(* Approving, posting and voiding lock the unit too, and recompute the     *)
(* register from rows that they lock or that its lines protect, so each is *)
(* one step. So is every other transaction, taken where its last lock is   *)
(* granted; `job' is what the preparation has locked.                      *)
(*                                                                         *)
(* Time is counted in weeks. Amounts are in halves of (hours * hourly      *)
(* rate), overtime being paid at one and a half. Leave is requested as one *)
(* hour a week.                                                            *)
(***************************************************************************)
EXTENDS Integers, FiniteSets, FiniteSetsExt

CONSTANTS
  Runs,         \* payroll registers
  Entries,      \* time entries, in the order they are worked in: natural numbers
  Own,          \* those of this unit; the others are the person's in another unit
  Requests,     \* leave requests
  LeaveWeeks,   \* the weeks a request may be for
  LastWeek,     \* weeks are 1 .. LastWeek
  Hours,        \* for each entry, the hours it may have
  Separations,  \* the weeks at whose end the employment may end
  Rates,        \* the hourly rates a manager may set
  RateWeeks,    \* the weeks from which on
  Threshold,    \* weekly hours without overtime: 40
  WorkPerLeave, \* hours worked for an hour of leave of each type: 30
  None

VARIABLES
  now,       \* the current week
  entry,     \* employee_time_entries
  credit,    \* employee_leave_ledger: what each entry has earned, net
  rate,      \* payroll_hourly_rates: the rate from each week on, 0 for no row
  employee,  \* status and termination date
  request,   \* employee_pto_requests, their days, and employee_pto_usage
  run,       \* payroll_runs with their lines
  accrued,   \* gross wages in the journal
  job        \* the preparation under way

vars == <<now, entry, credit, rate, employee, request, run, accrued, job>>
inputs == <<now, entry, credit, rate, employee, request>>

ASSUME PayrollAssumption ==
  /\ LastWeek \in Nat \ {0} /\ Threshold \in Nat /\ WorkPerLeave \in Nat \ {0}
  /\ IsFiniteSet(Runs) /\ IsFiniteSet(Requests)
  /\ IsFiniteSet(Entries) /\ Entries \subseteq Nat /\ Own \subseteq Entries
  /\ Hours \in [Entries -> SUBSET (Nat \ {0})] /\ Rates \subseteq Nat \ {0}
  /\ RateWeeks \subseteq 1 .. LastWeek /\ LeaveWeeks \subseteq SUBSET (1 .. LastWeek)
  /\ Separations \subseteq 1 .. LastWeek

Week == 1 .. LastWeek

\* validatePeriod: one or two weeks
Period == {{w} : w \in Week} \union {{w, w + 1} : w \in 1 .. LastWeek - 1}

LeaveType == {"pto", "sick"}

NoLines == [e \in {} |-> None]

NoRun == [status |-> "absent", period |-> {}, lines |-> NoLines, leave |-> NoLines,
          payout |-> NoLines]

NoJob == [stage |-> "none", id |-> None, period |-> {}, lines |-> NoLines,
          leave |-> NoLines, payout |-> NoLines]

NoRequest == [status |-> "absent", type |-> "pto", weeks |-> {}, used |-> 0]

Init ==
  /\ now = 1
  /\ entry = [e \in Entries |-> [status |-> "absent", week |-> 1, hours |-> 0]]
  /\ credit = [e \in Own |-> 0]
  /\ rate = [w \in Week |-> 0]
  /\ employee = [active |-> TRUE, left |-> 0]
  /\ request = [q \in Requests |-> NoRequest]
  /\ run = [r \in Runs |-> NoRun]
  /\ accrued = 0
  /\ job = NoJob

---------------------------------------------------------------------------
(* What a register is made of.                                              *)

Live(r) == run[r].status \in {"draft", "approved", "posted"}

\* Registers that cover one of the given weeks.
CoveredExactly(weeks) == \E r \in Runs : Live(r) /\ run[r].period = weeks
Covered(weeks) == \E r \in Runs : Live(r) /\ run[r].period \cap weeks # {}

\* The row of payroll_hourly_rates in effect in a week, 0 if there is none.
RateRow(w) == Max({v \in 1 .. w : rate[v] # 0} \union {0})

Involved(p) == {e \in Entries : entry[e].status # "absent" /\ entry[e].week \in p}

TimeReady(p) ==
  \A e \in Involved(p) :
    entry[e].status = "approved" /\ (e \in Own => RateRow(entry[e].week) # 0)

\* calculateGrossLines: the hours of all units count for the overtime of the week.
Prior(e) == MapThenSumSet(LAMBDA d : entry[d].hours,
                          {d \in Involved({entry[e].week}) : d < e})

Line(e) ==
  LET hours   == entry[e].hours
      regular == Max({0, Min({hours, Threshold - Prior(e)})})
      row     == RateRow(entry[e].week) IN
  [regular |-> regular, overtime |-> hours - regular, row |-> row, hourly |-> rate[row]]

\* payrollInputs
Lines(p) == [e \in Involved(p) \cap Own |-> Line(e)]

LeaveDays(p) ==
  UNION {{q} \X (request[q].weeks \cap p) : q \in {q \in Requests : request[q].status = "approved"}}

LeaveReady(p) == \A d \in LeaveDays(p) : RateRow(d[2]) # 0

\* payrollPtoInputs
LeaveLines(p) == [d \in LeaveDays(p) |-> [row |-> RateRow(d[2]), hourly |-> rate[RateRow(d[2])]]]

Earned == MapThenSumSet(LAMBDA e : credit[e], Own)
Used(t) == MapThenSumSet(LAMBDA q : IF request[q].type = t THEN request[q].used ELSE 0, Requests)
Pending(t) == MapThenSumSet(LAMBDA q : Cardinality(request[q].weeks),
                {q \in Requests : request[q].status = "pending" /\ request[q].type = t})
PaidOut(t, rs) ==
  MapThenSumSet(LAMBDA r : IF Live(r) /\ t \in DOMAIN run[r].payout THEN run[r].payout[t].hours ELSE 0, rs)

Separated(p) == ~ employee.active /\ employee.left \in p

\* separationInputs
Unpaid(t, r) == Earned - Used(t) - PaidOut(t, Runs \ {r})

SeparationReady(p, r) ==
  Separated(p) =>
    /\ \A q \in Requests :
         /\ request[q].status # "pending"
         /\ request[q].status = "approved" => \A w \in request[q].weeks : w <= employee.left
    /\ \A e \in Own : entry[e].status # "pending" \/ entry[e].week > employee.left
    /\ \A t \in LeaveType : Unpaid(t, r) >= 0 /\ (Unpaid(t, r) > 0 => RateRow(employee.left) # 0)

Payouts(p, r) ==
  [t \in {t \in LeaveType : Separated(p) /\ Unpaid(t, r) > 0} |->
     [hours |-> Unpaid(t, r), week |-> employee.left,
      row |-> RateRow(employee.left), hourly |-> rate[RateRow(employee.left)]]]

Gross(register) ==
  MapThenSumSet(LAMBDA e : (2 * register.lines[e].regular + 3 * register.lines[e].overtime)
                             * register.lines[e].hourly, DOMAIN register.lines)
  + MapThenSumSet(LAMBDA d : 2 * register.leave[d].hourly, DOMAIN register.leave)
  + MapThenSumSet(LAMBDA t : 2 * register.payout[t].hours * register.payout[t].hourly,
                  DOMAIN register.payout)

---------------------------------------------------------------------------
(* The registers.                                                           *)

\* preparePayroll locks the unit, and reads the time entries for the lines.
PrepareTime(r, p) ==
  /\ job.stage = "none" /\ run[r].status = "absent"
  /\ \A w \in p : w < now
  /\ ~ Covered(p)
  /\ TimeReady(p)
  /\ job' = [NoJob EXCEPT !.stage = "time", !.id = r, !.period = p, !.lines = Lines(p)]
  /\ UNCHANGED <<inputs, run, accrued>>

PrepareLeave ==
  /\ job.stage = "time"
  /\ LeaveReady(job.period) /\ SeparationReady(job.period, None)
  /\ job' = [job EXCEPT !.stage = "leave", !.leave = LeaveLines(job.period),
                        !.payout = Payouts(job.period, None)]
  /\ UNCHANGED <<inputs, run, accrued>>

\* Every entry, leave day and type of payout is in one register only.
Unique(register) ==
  \A r \in Runs :
    /\ DOMAIN run[r].lines \cap DOMAIN register.lines = {}
    /\ DOMAIN run[r].leave \cap DOMAIN register.leave = {}
    /\ DOMAIN run[r].payout \cap DOMAIN register.payout = {}

PrepareWrite ==
  /\ job.stage = "leave"
  /\ DOMAIN job.lines # {} \/ DOMAIN job.leave # {} \/ DOMAIN job.payout # {}
  /\ Unique(job)
  /\ run' = [run EXCEPT ![job.id] =
       [status |-> "draft", period |-> job.period, lines |-> job.lines,
        leave |-> job.leave, payout |-> job.payout]]
  /\ job' = NoJob
  /\ UNCHANGED <<inputs, accrued>>

\* A check fails, or the connection: ROLLBACK.
Abandon ==
  /\ job.stage # "none"
  /\ job' = NoJob
  /\ UNCHANGED <<inputs, run, accrued>>

\* verifySnapshot
Current(r) ==
  LET p == run[r].period IN
  /\ TimeReady(p) /\ LeaveReady(p) /\ SeparationReady(p, r)
  /\ run[r].lines = Lines(p) /\ run[r].leave = LeaveLines(p) /\ run[r].payout = Payouts(p, r)

Approve(r) ==
  /\ job.stage = "none" /\ run[r].status = "draft" /\ Current(r)
  /\ run' = [run EXCEPT ![r].status = "approved"]
  /\ UNCHANGED <<inputs, accrued, job>>

PostDraft(r) ==
  /\ job.stage = "none" /\ run[r].status \in {"draft", "approved"} /\ Current(r)
  /\ run' = [run EXCEPT ![r].status = "posted"]
  /\ accrued' = accrued + Gross(run[r])
  /\ UNCHANGED <<inputs, job>>

Post(r) ==
  /\ job.stage = "none" /\ run[r].status = "approved" /\ Current(r)
  /\ run' = [run EXCEPT ![r].status = "posted"]
  /\ accrued' = accrued + Gross(run[r])
  /\ UNCHANGED <<inputs, job>>

\* voidPayroll
Void(r) ==
  /\ job.stage = "none" /\ run[r].status \in {"draft", "approved"}
  /\ run' = [run EXCEPT ![r] = [NoRun EXCEPT !.status = "void", !.period = run[r].period]]
  /\ UNCHANGED <<inputs, accrued, job>>

---------------------------------------------------------------------------
(* What they are made from.                                                 *)

EntryLocked(e) == job.stage # "none" /\ entry[e].week \in job.period

\* The employee's row is locked by a preparation that pays out his or her leave.
EmployeeLocked == job.stage = "leave" /\ Separated(job.period)

\* protect_payrolled_time_entries
Payrolled(e) == \E r \in Runs : e \in DOMAIN run[r].lines

\* An entry is worked, or a manager adds it.
AddEntry(e, w, h) ==
  /\ entry[e].status = "absent" /\ w <= now /\ (e \in Own => ~ EmployeeLocked)
  /\ entry' = [entry EXCEPT ![e] = [status |-> "pending", week |-> w, hours |-> h]]
  /\ UNCHANGED <<now, credit, rate, employee, request, run, accrued, job>>

\* reviewTimeEntry, with the trigger that records the leave.
ApproveEntry(e) ==
  /\ entry[e].status = "pending" /\ ~ EntryLocked(e)
  /\ entry' = [entry EXCEPT ![e].status = "approved"]
  /\ credit' = IF e \in Own THEN [credit EXCEPT ![e] = @ + entry[e].hours \div WorkPerLeave]
                            ELSE credit
  /\ UNCHANGED <<now, rate, employee, request, run, accrued, job>>

\* correctTimeEntry, with the triggers.
CorrectEntryPayrolled(e, w, h) ==
  /\ entry[e].status # "absent" /\ w <= now /\ ~ EntryLocked(e)
  /\ e \in Own => ~ EmployeeLocked
  /\ entry' = [entry EXCEPT ![e] = [status |-> "pending", week |-> w, hours |-> h]]
  /\ credit' = IF e \in Own THEN [credit EXCEPT ![e] = 0] ELSE credit
  /\ UNCHANGED <<now, rate, employee, request, run, accrued, job>>

CorrectEntry(e, w, h) ==
  /\ entry[e].status # "absent" /\ w <= now /\ ~ EntryLocked(e) /\ ~ Payrolled(e)
  /\ e \in Own => ~ EmployeeLocked
  /\ entry' = [entry EXCEPT ![e] = [status |-> "pending", week |-> w, hours |-> h]]
  /\ credit' = IF e \in Own THEN [credit EXCEPT ![e] = 0] ELSE credit
  /\ UNCHANGED <<now, rate, employee, request, run, accrued, job>>

\* setPayrollRate locks the employee, and so does, by a foreign key, the writing of
\* a register's lines: its check and its write are one step.
RateInUse(w) ==
  \E r \in Runs :
    \/ \E e \in DOMAIN run[r].lines : entry[e].week >= w
    \/ \E d \in DOMAIN run[r].leave : d[2] >= w
    \/ \E t \in DOMAIN run[r].payout : run[r].payout[t].week >= w

SetPayrollRate(w, hourly) ==
  /\ ~ EmployeeLocked /\ ~ RateInUse(w)
  /\ rate' = [rate EXCEPT ![w] = hourly]
  /\ UNCHANGED <<now, entry, credit, employee, request, run, accrued, job>>

\* updateEmployee
Terminate(w) ==
  /\ ~ EmployeeLocked
  /\ employee' = [active |-> FALSE, left |-> w]
  /\ UNCHANGED <<now, entry, credit, rate, request, run, accrued, job>>

Reinstate ==
  /\ ~ EmployeeLocked /\ ~ employee.active
  /\ employee' = [active |-> TRUE, left |-> 0]
  /\ UNCHANGED <<now, entry, credit, rate, request, run, accrued, job>>

\* funds
Funds(t) == Earned - Used(t) - Pending(t)

Overlapping(weeks) ==
  \E q \in Requests : request[q].status \in {"pending", "approved"}
                      /\ request[q].weeks \cap weeks # {}

\* createPtoRequest. Paid time off needs a week's notice, sick leave none, and
\* no approval either.
CreateRequestUnchecked(q, t, weeks) ==
  /\ job.stage = "none" /\ request[q].status = "absent"
  /\ employee.active
  /\ t = "pto" => \A w \in weeks : w > now
  /\ ~ Overlapping(weeks)
  /\ Funds(t) >= Cardinality(weeks)
  /\ request' = [request EXCEPT ![q] =
       [status |-> IF t = "sick" THEN "approved" ELSE "pending", type |-> t, weeks |-> weeks,
        used |-> IF t = "sick" THEN Cardinality(weeks) ELSE 0]]
  /\ UNCHANGED <<now, entry, credit, rate, employee, run, accrued, job>>

CreateRequest(q, t, weeks) ==
  /\ job.stage = "none" /\ request[q].status = "absent"
  /\ employee.active
  /\ t = "pto" => \A w \in weeks : w > now
  /\ ~ Overlapping(weeks) /\ ~ Covered(weeks)
  /\ Funds(t) >= Cardinality(weeks)
  /\ request' = [request EXCEPT ![q] =
       [status |-> IF t = "sick" THEN "approved" ELSE "pending", type |-> t, weeks |-> weeks,
        used |-> IF t = "sick" THEN Cardinality(weeks) ELSE 0]]
  /\ UNCHANGED <<now, entry, credit, rate, employee, run, accrued, job>>

\* reviewPtoRequest
ApproveRequest(q) ==
  /\ job.stage = "none" /\ request[q].status = "pending"
  /\ ~ Covered(request[q].weeks)
  /\ Funds(request[q].type) >= 0
  /\ request' = [request EXCEPT ![q].status = "approved",
                                ![q].used = @ + Cardinality(request[q].weeks)]
  /\ UNCHANGED <<now, entry, credit, rate, employee, run, accrued, job>>

DenyRequest(q) ==
  /\ job.stage = "none" /\ request[q].status = "pending"
  /\ request' = [request EXCEPT ![q].status = "denied"]
  /\ UNCHANGED <<now, entry, credit, rate, employee, run, accrued, job>>

\* Paid time off that has begun stays; a day of the current week may not have.
RevokeRequest(q) ==
  /\ job.stage = "none" /\ request[q].status = "approved"
  /\ ~ Covered(request[q].weeks)
  /\ request[q].type = "pto" => \A w \in request[q].weeks : w >= now
  /\ request' = [request EXCEPT ![q].status = "cancelled",
                                ![q].used = @ - Cardinality(request[q].weeks)]
  /\ UNCHANGED <<now, entry, credit, rate, employee, run, accrued, job>>

\* cancelOwnPtoRequest does not lock the unit.
WithdrawRequest(q) ==
  /\ ~ EmployeeLocked /\ request[q].status = "pending"
  /\ request' = [request EXCEPT ![q].status = "cancelled"]
  /\ UNCHANGED <<now, entry, credit, rate, employee, run, accrued, job>>

EndWeek ==
  /\ now <= LastWeek
  /\ now' = now + 1
  /\ UNCHANGED <<entry, credit, rate, employee, request, run, accrued, job>>

Register ==
  \/ \E r \in Runs, p \in Period : PrepareTime(r, p)
  \/ PrepareLeave
  \/ PrepareWrite
  \/ Abandon
  \/ \E r \in Runs : Approve(r) \/ Post(r) \/ Void(r)

Change ==
  \/ \E e \in Entries : \/ \E w \in Week, h \in Hours[e] : AddEntry(e, w, h) \/ CorrectEntry(e, w, h)
                        \/ ApproveEntry(e)
  \/ \E w \in RateWeeks, hourly \in Rates : SetPayrollRate(w, hourly)
  \/ \E w \in Separations : Terminate(w)
  \/ Reinstate
  \/ \E q \in Requests, t \in LeaveType, weeks \in LeaveWeeks : CreateRequest(q, t, weeks)
  \/ \E q \in Requests :
       ApproveRequest(q) \/ DenyRequest(q) \/ RevokeRequest(q) \/ WithdrawRequest(q)
  \/ EndWeek

Next == Register \/ Change

Spec == Init /\ [][Next]_vars

---------------------------------------------------------------------------
TypeOK ==
  /\ now \in 1 .. LastWeek + 1
  /\ entry \in [Entries -> [status : {"absent", "pending", "approved"}, week : Week,
                            hours : Nat]]
  /\ credit \in [Own -> Nat]
  /\ rate \in [Week -> Rates \union {0}]
  /\ employee \in [active : BOOLEAN, left : Week \union {0}]
  /\ request \in [Requests -> [status : {"absent", "pending", "approved", "denied", "cancelled"},
                               type : LeaveType, weeks : LeaveWeeks \union {{}}, used : Nat]]
  /\ accrued \in Nat
  /\ \A r \in Runs :
       /\ run[r].status \in {"absent", "draft", "approved", "posted", "void"}
       /\ run[r].period \in Period \union {{}}
       /\ DOMAIN run[r].lines \subseteq Own
       /\ DOMAIN run[r].leave \subseteq Requests \X Week
       /\ DOMAIN run[r].payout \subseteq LeaveType
  /\ job.stage \in {"none", "time", "leave"}

\* What a settlement of the registers relies on.
Registers == INSTANCE PayrollRegisters
  WITH Periods <- Period, register <- [r \in Runs |-> [status |-> run[r].status, period |-> run[r].period]]

\* The registers keep what they promise, although a preparation writes its register only
\* three steps after it found the period free.
ImplementsRegisters == Registers!Spec

\* No week is paid by two registers, and each register pays for its own weeks only.
\* preparePayroll refuses a period that a register covers, of whatever length.
PeriodsDisjoint ==
  \A r \in Runs : Live(r) =>
    /\ \A s \in Runs \ {r} : Live(s) => run[r].period \cap run[s].period = {}
    /\ \A e \in DOMAIN run[r].lines : entry[e].week \in run[r].period
    /\ \A d \in DOMAIN run[r].leave : d[2] \in run[r].period

\* The entries in a register stay approved and keep the hours it pays for, from the
\* draft on: the preparation holds their locks until its lines are there, and then
\* the trigger protects them.
HoursStand ==
  \A r \in Runs : \A e \in DOMAIN run[r].lines :
    /\ entry[e].status = "approved"
    /\ entry[e].hours = run[r].lines[e].regular + run[r].lines[e].overtime

\* What an approved register pays an hour is the rate in effect, although a rate may
\* be set while the register is prepared: a draft may be stale, but is not approved.
RatesStand ==
  \A r \in Runs : run[r].status \in {"approved", "posted"} =>
    /\ \A e \in DOMAIN run[r].lines : run[r].lines[e].hourly = rate[RateRow(entry[e].week)]
    /\ \A d \in DOMAIN run[r].leave : run[r].leave[d].hourly = rate[RateRow(d[2])]
    /\ \A t \in DOMAIN run[r].payout :
         run[r].payout[t].hourly = rate[RateRow(run[r].payout[t].week)]

\* A register has the approved leave of its weeks, all of it and nothing else, for as
\* long as it is not voided: leave is not granted or revoked for weeks it covers.
LeaveStands == \A r \in Runs : Live(r) => DOMAIN run[r].leave = LeaveDays(run[r].period)

\* The leave earned is that of the approved entries, and the leave used that of the
\* approved requests, whatever was corrected, revoked or approved again.
LeaveAccounted ==
  /\ \A e \in Own :
       credit[e] = IF entry[e].status = "approved" THEN entry[e].hours \div WorkPerLeave ELSE 0
  /\ \A q \in Requests :
       request[q].used = IF request[q].status = "approved" THEN Cardinality(request[q].weeks) ELSE 0

\* The wages in the books are those of the posted registers.
AccruedAsRegistered ==
  accrued = MapThenSumSet(LAMBDA r : Gross(run[r]), {r \in Runs : run[r].status = "posted"})

\* The terms of a register stand once it is approved, and its leave from the draft on: no
\* rate is set and no leave granted or revoked under it (setPayrollRate,
\* createPtoRequest, reviewPtoRequest).
TermsStand == RatesStand /\ LeaveStands

\* What was worked is accounted for, in registers, in leave and in the books, however
\* corrections and reviews come between preparation, approval and posting
\* (preparePayroll, correctTimeEntry, postPayroll).
WorkAccounted == HoursStand /\ LeaveAccounted /\ AccruedAsRegistered

\* The code says that leave is granted when enough accrued leave remains: leave that
\* a posted register has paid out at a separation is not granted as well.
LeaveNotOverdrawn ==
  [][\A t \in LeaveType :
       (\E q \in Requests : request[q].status = "absent" /\ request'[q].status # "absent"
                            /\ request'[q].type = t)
         => (Earned - Used(t) - Pending(t) - PaidOut(t, {r \in Runs : run[r].status = "posted"}))' >= 0]_vars
=============================================================================
