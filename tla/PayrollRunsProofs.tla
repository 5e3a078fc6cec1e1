-------------------------- MODULE PayrollRunsProofs --------------------------
(***************************************************************************)
(* The registers of PayrollRuns cover each week once, have the leave of    *)
(* their weeks, and implement PayrollRegisters, for any registers,         *)
(* entries, requests and weeks. None of this is inductive alone: a         *)
(* register is written long after its period was found free, so that what  *)
(* the preparation has found must be seen to stand until then. What was    *)
(* worked is accounted for, and the time entries themselves fit            *)
(* (EmployeeTime).                                                         *)
(***************************************************************************)
EXTENDS MCPayrollRuns, FiniteSetTheorems, WellFoundedInduction, Sums, TLAPS

RequestStatus == {"absent", "pending", "approved", "denied", "cancelled"}

Request ==
  [status : RequestStatus, type : LeaveType, weeks : LeaveWeeks \union {{}}, used : Int]

\* Rows keep their columns, and the columns that the argument needs their types.
Shapes ==
  /\ entry \in [Entries -> [status : {"absent", "pending", "approved"}, week : Week, hours : Nat]]
  /\ request \in [Requests -> Request]
  /\ run = [r \in Runs |-> run[r]]
  /\ \A r \in Runs :
       /\ run[r] = [status |-> run[r].status, period |-> run[r].period, lines |-> run[r].lines,
                   leave |-> run[r].leave, payout |-> run[r].payout]
       /\ run[r].status \in {"absent", "draft", "approved", "posted", "void"}
  /\ job = [stage |-> job.stage, id |-> job.id, period |-> job.period, lines |-> job.lines,
            leave |-> job.leave, payout |-> job.payout]

\* The entries in a register stay approved, and none of another unit is among them.
EntriesStand ==
  \A r \in Runs : \A e \in DOMAIN run[r].lines : e \in Own /\ entry[e].status = "approved"

\* What a preparation has found still holds: its register is not there yet, its period
\* is free, its entries are approved and in the period, and its leave is all there is.
PreparationHolds ==
  /\ job.stage \in {"none", "time", "leave"}
  /\ job.stage # "none" =>
       /\ job.id \in Runs /\ job.period \in Period
       /\ run[job.id].status = "absent" /\ ~ Covered(job.period)
       /\ \A e \in DOMAIN job.lines :
            e \in Own /\ entry[e].status = "approved" /\ entry[e].week \in job.period
  /\ job.stage = "leave" => DOMAIN job.leave = LeaveDays(job.period)

IInv == Shapes /\ EntriesStand /\ PreparationHolds /\ PeriodsDisjoint /\ LeaveStands

---------------------------------------------------------------------------
\* The days of leave of a period are the weeks in it that approved requests are for.
LEMMA LeaveDaysAre ==
  ASSUME NEW p, NEW d
  PROVE  d \in LeaveDays(p) <=>
           \E q \in Requests : request[q].status = "approved" /\ d \in {q} \X (request[q].weeks \cap p)
  BY DEF LeaveDays

\* They stay the same as long as approved requests neither come nor go in the period.
LEMMA LeaveDaysStay ==
  ASSUME NEW p,
         \A q \in Requests :
           \/ request'[q] = request[q]
           \/ /\ request[q].status = "approved" => request[q].weeks \cap p = {}
              /\ request'[q].status = "approved" => request'[q].weeks \cap p = {}
  PROVE  LeaveDays(p)' = LeaveDays(p)
<1>1. ASSUME NEW d PROVE d \in LeaveDays(p)' <=> d \in LeaveDays(p)
  <2>1. d \in LeaveDays(p)' <=>
          \E q \in Requests : request'[q].status = "approved" /\ d \in {q} \X (request'[q].weeks \cap p)
    BY DEF LeaveDays
  <2>2. ASSUME NEW q \in Requests, request[q].status = "approved", d \in {q} \X (request[q].weeks \cap p)
        PROVE  request'[q].status = "approved" /\ d \in {q} \X (request'[q].weeks \cap p)
    BY <2>2
  <2>3. ASSUME NEW q \in Requests, request'[q].status = "approved", d \in {q} \X (request'[q].weeks \cap p)
        PROVE  request[q].status = "approved" /\ d \in {q} \X (request[q].weeks \cap p)
    BY <2>3
  <2>4. QED BY <2>1, <2>2, <2>3, LeaveDaysAre
<1>2. QED BY <1>1

\* In the beginning there are no registers.
LEMMA InitIInv == Init => IInv
<1> SUFFICES ASSUME Init PROVE IInv
  OBVIOUS
<1>1. Shapes
  BY PayrollAssumption DEF Init, Shapes, NoRun, NoJob, NoRequest, NoLines, Week, LeaveType,
    Request, RequestStatus
<1>2. EntriesStand /\ PreparationHolds /\ PeriodsDisjoint /\ LeaveStands
  BY DEF Init, EntriesStand, PreparationHolds, PeriodsDisjoint, LeaveStands, NoRun, NoJob, NoLines, Live
<1>3. QED BY <1>1, <1>2 DEF IInv

\* A step that leaves the registers, the preparation, the entries and the requests alone.
LEMMA OtherIInv ==
  ASSUME IInv, UNCHANGED <<run, job, entry, request>>
  PROVE  IInv'
<1>1. \A p : LeaveDays(p)' = LeaveDays(p)
  BY DEF LeaveDays
<1>2. QED BY <1>1
  DEF IInv, Shapes, EntriesStand, PreparationHolds, PeriodsDisjoint, LeaveStands, Live, Covered

\* A preparation begins with a free period and approved entries.
LEMMA PrepareTimeIInv ==
  ASSUME IInv, NEW r \in Runs, NEW p \in Period, PrepareTime(r, p)
  PROVE  IInv'
<1>1. /\ job'.stage = "time" /\ job'.id = r /\ job'.period = p /\ job'.lines = Lines(p)
      /\ UNCHANGED <<run, entry, request>>
  BY DEF PrepareTime, NoJob, inputs
<1>2. \A e \in DOMAIN Lines(p) : e \in Own /\ entry[e].status = "approved" /\ entry[e].week \in p
  BY DEF PrepareTime, Lines, TimeReady, Involved
<1>3. run[r].status = "absent" /\ ~ Covered(p)
  BY DEF PrepareTime
<1>4. \A weeks : LeaveDays(weeks)' = LeaveDays(weeks)
  BY <1>1 DEF LeaveDays
<1>5. PreparationHolds'
  BY <1>1, <1>2, <1>3 DEF PreparationHolds, Covered, Live
<1>6. Shapes'
  BY <1>1 DEF PrepareTime, NoJob, IInv, Shapes
<1>7. QED BY <1>1, <1>4, <1>5, <1>6 DEF IInv, EntriesStand, PeriodsDisjoint, LeaveStands, Live

\* It goes on with all the leave of the period.
LEMMA PrepareLeaveIInv ==
  ASSUME IInv, PrepareLeave
  PROVE  IInv'
<1>1. \A weeks : LeaveDays(weeks)' = LeaveDays(weeks)
  BY DEF PrepareLeave, LeaveDays, inputs
<1>2. UNCHANGED <<run, entry, request>>
  BY DEF PrepareLeave, inputs
<1>3. PreparationHolds'
  <2>1. DOMAIN LeaveLines(job.period) = LeaveDays(job.period)
    BY DEF LeaveLines
  <2>2. /\ job'.stage = "leave" /\ job'.id = job.id /\ job'.period = job.period
        /\ job'.lines = job.lines /\ job'.leave = LeaveLines(job.period)
    BY DEF PrepareLeave, IInv, Shapes
  <2>3. QED BY <1>1, <1>2, <2>1, <2>2 DEF PrepareLeave, IInv, PreparationHolds, Covered, Live
<1>4. Shapes'
  BY <1>2 DEF PrepareLeave, IInv, Shapes
<1>5. QED BY <1>1, <1>2, <1>3, <1>4 DEF IInv, EntriesStand, PeriodsDisjoint, LeaveStands, Live

\* What it found is written, and the period it found free is free still.
LEMMA PrepareWriteIInv ==
  ASSUME IInv, PrepareWrite
  PROVE  IInv'
<1> DEFINE id == job.id
<1>1. /\ id \in Runs /\ run[id].status = "absent" /\ ~ Covered(job.period)
      /\ DOMAIN job.leave = LeaveDays(job.period)
      /\ \A e \in DOMAIN job.lines :
           e \in Own /\ entry[e].status = "approved" /\ entry[e].week \in job.period
  BY DEF PrepareWrite, IInv, PreparationHolds
<1>2. /\ run' = [run EXCEPT ![id] = [status |-> "draft", period |-> job.period, lines |-> job.lines,
                                     leave |-> job.leave, payout |-> job.payout]]
      /\ job' = NoJob /\ UNCHANGED <<entry, request>>
  BY DEF PrepareWrite, inputs
<1>3. /\ run'[id].status = "draft" /\ run'[id].period = job.period
      /\ run'[id].lines = job.lines /\ run'[id].leave = job.leave
      /\ \A s \in Runs \ {id} : run'[s] = run[s]
  BY <1>1, <1>2 DEF IInv, Shapes
<1>4. Shapes'
  BY <1>1, <1>2 DEF IInv, Shapes, NoJob
<1>5. EntriesStand'
  BY <1>1, <1>2, <1>3 DEF IInv, EntriesStand
<1>6. PreparationHolds'
  BY <1>2 DEF PreparationHolds, NoJob
<1>7. PeriodsDisjoint'
  <2>1. \A s \in Runs \ {id} : Live(s) => run[s].period \cap job.period = {}
    BY <1>1 DEF Covered
  <2>2. \A d \in LeaveDays(job.period) : d[2] \in job.period
    BY LeaveDaysAre
  <2>3. QED BY <1>1, <1>2, <1>3, <2>1, <2>2 DEF IInv, PeriodsDisjoint, Live
<1>8. LeaveStands'
  <2>1. \A p : LeaveDays(p)' = LeaveDays(p)
    BY <1>2 DEF LeaveDays
  <2>2. QED BY <1>1, <1>3, <2>1 DEF IInv, LeaveStands, Live
<1>9. QED BY <1>4, <1>5, <1>6, <1>7, <1>8 DEF IInv

\* Nothing has happened.
LEMMA AbandonIInv ==
  ASSUME IInv, Abandon
  PROVE  IInv'
<1>1. job' = NoJob /\ UNCHANGED <<run, entry, request>>
  BY DEF Abandon, inputs
<1>2. \A p : LeaveDays(p)' = LeaveDays(p)
  BY <1>1 DEF LeaveDays
<1>3. PreparationHolds' /\ Shapes'
  BY <1>1 DEF IInv, Shapes, PreparationHolds, NoJob
<1>4. QED BY <1>1, <1>2, <1>3 DEF IInv, EntriesStand, PeriodsDisjoint, LeaveStands, Live

\* A register that moves on keeps what is in it, or is void and has nothing in it.
LEMMA MoveIInv ==
  ASSUME IInv, NEW r \in Runs, Approve(r) \/ Post(r) \/ Void(r)
  PROVE  IInv'
<1>1. /\ job.stage = "none" /\ UNCHANGED <<job, entry, request>>
      /\ run[r].status \in {"draft", "approved"}
  BY DEF Approve, Post, Void, inputs
<1>2. /\ Shapes'
      /\ \A s \in Runs \ {r} : run'[s] = run[s]
      /\ run'[r].period = run[r].period
      /\ \/ /\ run'[r].status \in {"approved", "posted"}
            /\ run'[r].lines = run[r].lines /\ run'[r].leave = run[r].leave
         \/ run'[r].status = "void" /\ DOMAIN run'[r].lines = {}
  <2>1. CASE Approve(r)
    BY <1>1, <2>1 DEF Approve, IInv, Shapes
  <2>2. CASE Post(r)
    BY <1>1, <2>2 DEF Post, IInv, Shapes
  <2>3. CASE Void(r)
    BY <1>1, <2>3 DEF Void, IInv, Shapes, NoRun, NoLines
  <2>4. QED BY <2>1, <2>2, <2>3
<1>3. \A p : LeaveDays(p)' = LeaveDays(p)
  BY <1>1 DEF LeaveDays
<1>4. Live(r)
  BY <1>1 DEF Live
<1>5. EntriesStand'
  BY <1>1, <1>2 DEF IInv, EntriesStand
<1>6. PreparationHolds'
  BY <1>1 DEF PreparationHolds
<1>7. PeriodsDisjoint'
  BY <1>1, <1>2, <1>4 DEF IInv, PeriodsDisjoint, Live
<1>8. LeaveStands'
  BY <1>2, <1>3, <1>4 DEF IInv, LeaveStands, Live
<1>9. QED BY <1>2, <1>5, <1>6, <1>7, <1>8 DEF IInv

\* A change of an entry that no register has, and none that is prepared.
LEMMA EntryIInv ==
  ASSUME IInv, NEW e \in Entries,
         NEW row \in [status : {"absent", "pending", "approved"}, week : Week, hours : Nat],
         entry' = [entry EXCEPT ![e] = row], UNCHANGED <<run, job, request>>,
         ~ Payrolled(e), job.stage = "none" \/ e \notin DOMAIN job.lines
  PROVE  IInv'
<1>1. entry' \in [Entries -> [status : {"absent", "pending", "approved"}, week : Week, hours : Nat]]
      /\ \A d \in Entries \ {e} : entry'[d] = entry[d]
  BY DEF IInv, Shapes
<1>2. \A r \in Runs : \A d \in DOMAIN run[r].lines : d \in Entries /\ d # e
  BY PayrollAssumption DEF IInv, EntriesStand, Payrolled
<1>3. job.stage # "none" => \A d \in DOMAIN job.lines : d \in Entries /\ d # e
  BY PayrollAssumption DEF IInv, PreparationHolds
<1>4. \A p : LeaveDays(p)' = LeaveDays(p)
  BY DEF LeaveDays
<1>5. Shapes'
  BY <1>1 DEF IInv, Shapes
<1>6. EntriesStand'
  BY <1>1, <1>2 DEF IInv, EntriesStand
<1>7. PreparationHolds'
  BY <1>1, <1>3, <1>4 DEF IInv, PreparationHolds, Covered, Live
<1>8. PeriodsDisjoint'
  BY <1>1, <1>2 DEF IInv, PeriodsDisjoint, Live
<1>9. LeaveStands'
  BY <1>4 DEF IInv, LeaveStands, Live
<1>10. QED BY <1>5, <1>6, <1>7, <1>8, <1>9 DEF IInv

\* Only entries that are not there are added; the trigger refuses to correct those in a
\* register, and the lock those that one is prepared from.
LEMMA WriteEntryIInv ==
  ASSUME IInv, NEW e \in Entries, NEW w \in Week, NEW h \in Hours[e],
         AddEntry(e, w, h) \/ CorrectEntry(e, w, h)
  PROVE  IInv'
<1>1. /\ entry' = [entry EXCEPT ![e] = [status |-> "pending", week |-> w, hours |-> h]]
      /\ UNCHANGED <<run, job, request>>
  BY DEF AddEntry, CorrectEntry
<1>2. ~ Payrolled(e)
  BY DEF AddEntry, CorrectEntry, Payrolled, IInv, EntriesStand
<1>3. job.stage = "none" \/ e \notin DOMAIN job.lines
  BY DEF AddEntry, CorrectEntry, EntryLocked, IInv, PreparationHolds
<1>4. [status |-> "pending", week |-> w, hours |-> h]
        \in [status : {"absent", "pending", "approved"}, week : Week, hours : Nat]
  BY PayrollAssumption
<1>5. QED BY <1>1, <1>2, <1>3, <1>4, EntryIInv

\* Only entries that are pending are approved, and no register has one.
LEMMA ApproveEntryIInv ==
  ASSUME IInv, NEW e \in Entries, ApproveEntry(e)
  PROVE  IInv'
<1>1. /\ entry' = [entry EXCEPT ![e] = [entry[e] EXCEPT !.status = "approved"]]
      /\ UNCHANGED <<run, job, request>>
  BY DEF ApproveEntry
<1>2. ~ Payrolled(e) /\ (job.stage = "none" \/ e \notin DOMAIN job.lines)
  BY DEF ApproveEntry, Payrolled, IInv, EntriesStand, PreparationHolds
<1>3. [entry[e] EXCEPT !.status = "approved"]
        \in [status : {"absent", "pending", "approved"}, week : Week, hours : Nat]
  BY DEF IInv, Shapes
<1>4. QED BY <1>1, <1>2, <1>3, EntryIInv

\* A change of a request that is not approved, before or after, or that is for weeks
\* that no register covers, at a time when none is prepared.
LEMMA RequestIInv ==
  ASSUME IInv, NEW q \in Requests, NEW weeks, UNCHANGED <<run, job, entry>>, Shapes',
         \A o \in Requests \ {q} : request'[o] = request[o],
         \/ request[q].status # "approved" /\ request'[q].status # "approved"
         \/ /\ job.stage = "none" /\ ~ Covered(weeks)
            /\ request[q].status = "approved" => request[q].weeks = weeks
            /\ request'[q].status = "approved" => request'[q].weeks = weeks
  PROVE  IInv'
<1>1. ASSUME NEW r \in Runs, Live(r) PROVE LeaveDays(run[r].period)' = LeaveDays(run[r].period)
  <2> DEFINE p == run[r].period
  <2>1. \A o \in Requests :
          \/ request'[o] = request[o]
          \/ /\ request[o].status = "approved" => request[o].weeks \cap p = {}
             /\ request'[o].status = "approved" => request'[o].weeks \cap p = {}
    BY <1>1 DEF Covered
  <2>2. QED BY <2>1, LeaveDaysStay
<1>2. ASSUME job.stage # "none" PROVE LeaveDays(job.period)' = LeaveDays(job.period)
  <2>1. \A o \in Requests :
          \/ request'[o] = request[o]
          \/ /\ request[o].status = "approved" => request[o].weeks \cap job.period = {}
             /\ request'[o].status = "approved" => request'[o].weeks \cap job.period = {}
    BY <1>2
  <2>2. QED BY <2>1, LeaveDaysStay
<1>3. EntriesStand' /\ PeriodsDisjoint'
  BY DEF IInv, EntriesStand, PeriodsDisjoint, Live
<1>4. PreparationHolds'
  BY <1>2 DEF IInv, PreparationHolds, Covered, Live
<1>5. LeaveStands'
  BY <1>1 DEF IInv, LeaveStands, Live
<1>6. QED BY <1>3, <1>4, <1>5 DEF IInv

\* What a request is for are finitely many weeks.
LEMMA WeeksAreFinite ==
  ASSUME NEW weeks \in LeaveWeeks \union {{}}
  PROVE  Cardinality(weeks) \in Nat
<1>1. IsFiniteSet(1 .. LastWeek)
  BY PayrollAssumption, FS_Interval
<1>2. weeks \subseteq 1 .. LastWeek
  BY PayrollAssumption
<1>3. IsFiniteSet(weeks)
  BY <1>1, <1>2, FS_Subset
<1>4. QED BY <1>3, FS_CardinalityType

\* A request looks whether a register covers the weeks, and waits for one that is prepared.
LEMMA CreateRequestIInv ==
  ASSUME IInv, NEW q \in Requests, NEW t \in LeaveType, NEW weeks \in LeaveWeeks,
         CreateRequest(q, t, weeks)
  PROVE  IInv'
<1> DEFINE used == IF t = "sick" THEN Cardinality(weeks) ELSE 0
<1>1. used \in Int
  BY WeeksAreFinite
<1>2. /\ request' = [request EXCEPT ![q] =
           [status |-> IF t = "sick" THEN "approved" ELSE "pending", type |-> t, weeks |-> weeks,
            used |-> used]]
      /\ job.stage = "none" /\ request[q].status = "absent" /\ ~ Covered(weeks)
      /\ UNCHANGED <<run, job, entry>>
  BY DEF CreateRequest
<1> HIDE DEF used
<1>3. Shapes' /\ request'[q].weeks = weeks /\ \A o \in Requests \ {q} : request'[o] = request[o]
  BY <1>1, <1>2 DEF IInv, Shapes, Request, RequestStatus
<1>4. QED BY <1>2, <1>3, RequestIInv

\* So does a review; the employee withdraws only what is not approved.
LEMMA ReviewRequestIInv ==
  ASSUME IInv, NEW q \in Requests,
         ApproveRequest(q) \/ DenyRequest(q) \/ RevokeRequest(q) \/ WithdrawRequest(q)
  PROVE  IInv'
<1>1. request \in [Requests -> Request] /\ "approved" \in RequestStatus /\ "cancelled" \in RequestStatus
  BY DEF IInv, Shapes, RequestStatus
<1>2. UNCHANGED <<run, job, entry>>
  BY DEF ApproveRequest, DenyRequest, RevokeRequest, WithdrawRequest
<1>3. Cardinality(request[q].weeks) \in Nat
  BY WeeksAreFinite DEF IInv, Shapes, Request, RequestStatus
<1>4. /\ Shapes'
      /\ \A o \in Requests \ {q} : request'[o] = request[o]
      /\ request'[q].weeks = request[q].weeks
  <2>1. CASE ApproveRequest(q)
    <3> DEFINE used == request[q].used + Cardinality(request[q].weeks)
    <3>1. used \in Int
      BY <1>3 DEF IInv, Shapes, Request, RequestStatus
    <3>2. request' = [request EXCEPT ![q].status = "approved", ![q].used = used]
      BY <2>1 DEF ApproveRequest
    <3> HIDE DEF used
    <3>3. /\ request' \in [Requests -> Request]
          /\ request'[q].weeks = request[q].weeks
          /\ \A o \in Requests \ {q} : request'[o] = request[o]
      BY <1>1, <3>1, <3>2 DEF Request
    <3>4. QED BY <1>2, <3>3 DEF IInv, Shapes
  <2>2. CASE DenyRequest(q)
    BY <1>2, <2>2 DEF DenyRequest, IInv, Shapes, Request, RequestStatus
  <2>3. CASE RevokeRequest(q)
    <3> DEFINE used == request[q].used - Cardinality(request[q].weeks)
    <3>1. used \in Int
      BY <1>3 DEF IInv, Shapes, Request, RequestStatus
    <3>2. request' = [request EXCEPT ![q].status = "cancelled", ![q].used = used]
      BY <2>3 DEF RevokeRequest
    <3> HIDE DEF used
    <3>3. /\ request' \in [Requests -> Request]
          /\ request'[q].weeks = request[q].weeks
          /\ \A o \in Requests \ {q} : request'[o] = request[o]
      BY <1>1, <3>1, <3>2 DEF Request
    <3>4. QED BY <1>2, <3>3 DEF IInv, Shapes
  <2>4. CASE WithdrawRequest(q)
    BY <1>2, <2>4 DEF WithdrawRequest, IInv, Shapes, Request, RequestStatus
  <2>5. QED BY <2>1, <2>2, <2>3, <2>4
<1>5. \/ request[q].status # "approved" /\ request'[q].status # "approved"
      \/ job.stage = "none" /\ ~ Covered(request[q].weeks)
  <2>1. CASE ApproveRequest(q) \/ RevokeRequest(q)
    BY <2>1 DEF ApproveRequest, RevokeRequest
  <2>2. CASE DenyRequest(q) \/ WithdrawRequest(q)
    BY <2>2 DEF DenyRequest, WithdrawRequest, IInv, Shapes, Request, RequestStatus
  <2>3. QED BY <2>1, <2>2
<1>6. QED BY <1>2, <1>4, <1>5, RequestIInv

\* Every step keeps the invariant.
LEMMA StepIInv == IInv /\ [Next]_vars => IInv'
<1> SUFFICES ASSUME IInv, [Next]_vars PROVE IInv'
  OBVIOUS
<1>1. CASE Register
  BY <1>1, PrepareTimeIInv, PrepareLeaveIInv, PrepareWriteIInv, AbandonIInv, MoveIInv DEF Register
<1>2. CASE Change
  <2>1. ASSUME NEW e \in Entries, NEW w \in Week, NEW h \in Hours[e], AddEntry(e, w, h) \/ CorrectEntry(e, w, h)
        PROVE  IInv'
    BY <2>1, WriteEntryIInv
  <2>2. ASSUME NEW e \in Entries, ApproveEntry(e)
        PROVE  IInv'
    BY <2>2, ApproveEntryIInv
  <2>3. ASSUME NEW q \in Requests, NEW t \in LeaveType, NEW weeks \in LeaveWeeks, CreateRequest(q, t, weeks)
        PROVE  IInv'
    BY <2>3, CreateRequestIInv
  <2>4. ASSUME NEW q \in Requests,
               ApproveRequest(q) \/ DenyRequest(q) \/ RevokeRequest(q) \/ WithdrawRequest(q)
        PROVE  IInv'
    BY <2>4, ReviewRequestIInv
  <2>5. CASE UNCHANGED <<run, job, entry, request>>
    BY <2>5, OtherIInv
  <2>6. QED BY <1>2, <2>1, <2>2, <2>3, <2>4, <2>5
    DEF Change, SetPayrollRate, Terminate, Reinstate, EndWeek
<1>3. CASE UNCHANGED vars
  BY <1>3, OtherIInv DEF vars
<1>4. QED BY <1>1, <1>2, <1>3 DEF Next

\* The inductive invariant holds throughout.
LEMMA Invariance == Spec => []IInv
  BY InitIInv, StepIInv, PTL DEF Spec

---------------------------------------------------------------------------
\* However many registers are prepared, approved and voided, no week is covered by two,
\* and each pays for its own weeks only.
THEOREM NoWeekPaidTwice == Spec => []PeriodsDisjoint
<1>1. IInv => PeriodsDisjoint
  BY DEF IInv
<1>2. QED BY <1>1, Invariance, PTL

\* A register has all the approved leave of its weeks, and nothing else, until it is void.
THEOREM LeaveOfItsWeeks == Spec => []LeaveStands
<1>1. IInv => LeaveStands
  BY DEF IInv
<1>2. QED BY <1>1, Invariance, PTL

\* The registers keep what PayrollRegisters promises. A register appears in it when it is
\* written, and its period is free then because it was when the preparation began.
THEOREM Implementation == Spec => ImplementsRegisters
<1> DEFINE shown == [r \in Runs |-> [status |-> run[r].status, period |-> run[r].period]]
<1>1. Init => Registers!Init
  BY DEF Init, Registers!Init, NoRun
<1>2. ASSUME IInv, [Next]_vars PROVE [Registers!Next]_shown
  <2>1. ASSUME NEW p, Covered(p) \/ Registers!Covered(p) PROVE Covered(p) /\ Registers!Covered(p)
    BY <2>1 DEF Covered, Live, Registers!Covered, Registers!Live
  <2>2. CASE PrepareWrite
    <3>1. PICK r \in Runs, p \in Period :
            r = job.id /\ p = job.period /\ run[r].status = "absent" /\ ~ Covered(p)
      BY <1>2, <2>2 DEF PrepareWrite, IInv, PreparationHolds
    <3>2. run' = [run EXCEPT ![r] = [status |-> "draft", period |-> p, lines |-> job.lines,
                                     leave |-> job.leave, payout |-> job.payout]]
      BY <2>2, <3>1 DEF PrepareWrite
    <3>3. shown' = [shown EXCEPT ![r] = [status |-> "draft", period |-> p]]
      BY <1>2, <3>2 DEF IInv, Shapes
    <3>4. Registers!Prepare(r, p)
      BY <3>1, <3>3, <2>1 DEF Registers!Prepare
    <3>5. QED BY <3>4 DEF Registers!Next
  <2>3. ASSUME NEW r \in Runs, Approve(r) \/ Post(r) \/ Void(r)
        PROVE  Registers!Approve(r) \/ Registers!Post(r) \/ Registers!Void(r)
    <3>1. CASE Approve(r)
      BY <1>2, <3>1 DEF Approve, Registers!Approve, Registers!Move, IInv, Shapes
    <3>2. CASE Post(r)
      BY <1>2, <3>2 DEF Post, Registers!Post, Registers!Move, IInv, Shapes
    <3>3. CASE Void(r)
      BY <1>2, <3>3 DEF Void, Registers!Void, Registers!Move, IInv, Shapes, NoRun
    <3>4. QED BY <2>3, <3>1, <3>2, <3>3
  <2>4. PrepareWrite \/ (\E r \in Runs : Approve(r) \/ Post(r) \/ Void(r)) \/ UNCHANGED run
    <3>1. CASE Register
      BY <3>1 DEF Register, PrepareTime, PrepareLeave, Abandon
    <3>2. CASE Change
      BY <3>2 DEF Change, AddEntry, CorrectEntry, ApproveEntry, SetPayrollRate, Terminate, Reinstate,
        CreateRequest, ApproveRequest, DenyRequest, RevokeRequest, WithdrawRequest, EndWeek
    <3>3. QED BY <1>2, <3>1, <3>2 DEF Next, vars
  <2>5. CASE UNCHANGED run
    BY <2>5
  <2>6. CASE \E r \in Runs : Approve(r) \/ Post(r) \/ Void(r)
    BY <2>6, <2>3 DEF Registers!Next
  <2>7. QED BY <2>2, <2>4, <2>5, <2>6
<1>3. QED BY <1>1, <1>2, Invariance, PTL DEF Spec, ImplementsRegisters, Registers!Spec
---------------------------------------------------------------------------
(* Rates. What an approved register pays an hour is in force: a row is     *)
(* there, and it is not written again from a week that a register pays.    *)

InForce(w, hourly) == w \in Week /\ RateRow(w) # 0 /\ hourly = rate[RateRow(w)]

RatesHold ==
  \A r \in Runs : run[r].status \in {"approved", "posted"} =>
    /\ \A e \in DOMAIN run[r].lines : InForce(entry[e].week, run[r].lines[e].hourly)
    /\ \A d \in DOMAIN run[r].leave : InForce(d[2], run[r].leave[d].hourly)
    /\ \A t \in DOMAIN run[r].payout : InForce(run[r].payout[t].week, run[r].payout[t].hourly)

RateShapes ==
  /\ DOMAIN rate = Week /\ rate = [w \in Week |-> rate[w]]
  /\ employee.left \in Week \union {0} /\ employee = [active |-> employee.active, left |-> employee.left]

RInv == IInv /\ RateShapes /\ RatesHold

\* Natural numbers up to a bound have a largest, which Max finds.
LEMMA MaxIsMember ==
  ASSUME NEW k \in Nat, NEW S \in SUBSET (0 .. k), S # {}
  PROVE  Max(S) \in S
<1> DEFINE T == {n \in Nat : k - n \in S}
           R == {ss \in Nat \X Nat : ss[1] < ss[2]}
<1>1. T # {} /\ T \subseteq Nat
  <2>1. PICK s \in S : TRUE
    OBVIOUS
  <2>2. k - s \in Nat /\ k - (k - s) = s
    OBVIOUS
  <2>3. QED BY <2>1, <2>2
<1>2. PICK n \in T : \A m \in T : ~ (<<m, n>> \in R)
  <2>1. IsWellFoundedOn(R, Nat)
    BY NatLessThanWellFounded DEF OpToRel
  <2> HIDE DEF R
  <2>2. QED BY <1>1, <2>1, WFMin
<1>3. \A m \in T : ~ (m < n)
  BY <1>2
<1>4. k - n \in S /\ \A s \in S : k - n >= s
  <2>1. ASSUME NEW s \in S PROVE k - n >= s
    <3>1. k - s \in T
      OBVIOUS
    <3>2. QED BY <1>3, <3>1
  <2>2. QED BY <2>1
<1>5. QED BY <1>4 DEF Max
\* The row in force in a week is one of it or of a week before, if there is one.
LEMMA RowIsOfWeek ==
  ASSUME NEW w \in Week
  PROVE  RateRow(w) \in {v \in 1 .. w : rate[v] # 0} \union {0}
<1> DEFINE rows == {v \in 1 .. w : rate[v] # 0} \union {0}
<1>1. w \in Nat /\ rows \subseteq 0 .. w /\ 0 \in rows
  BY PayrollAssumption DEF Week
<1> HIDE DEF rows
<1>2. Max(rows) \in rows
  BY <1>1, MaxIsMember
<1>3. QED BY <1>2 DEF RateRow, rows

\* A rate set from a later week on leaves what is in force.
LEMMA InForceStays ==
  ASSUME RateShapes, NEW from \in Week, NEW amount, rate' = [rate EXCEPT ![from] = amount],
         NEW w, NEW hourly, InForce(w, hourly), w < from
  PROVE  InForce(w, hourly)'
<1>1. w \in Nat /\ from \in Nat /\ 1 .. w \subseteq Week /\ from \notin 1 .. w
  BY PayrollAssumption DEF InForce, Week
<1>2. \A v \in 1 .. w : rate'[v] = rate[v]
  BY <1>1 DEF RateShapes
<1>3. RateRow(w)' = RateRow(w)
  <2>1. {v \in 1 .. w : rate'[v] # 0} = {v \in 1 .. w : rate[v] # 0}
    BY <1>2
  <2>2. QED BY <2>1 DEF RateRow
<1>4. RateRow(w) \in 1 .. w
  BY RowIsOfWeek DEF InForce
<1>5. QED BY <1>2, <1>3, <1>4 DEF InForce

\* As long as no rate is set, what is in force is.
LEMMA InForceUnchanged ==
  ASSUME UNCHANGED rate, NEW w, NEW hourly
  PROVE  InForce(w, hourly)' <=> InForce(w, hourly)
BY DEF InForce, RateRow

\* In the beginning there is neither a rate nor a register.
LEMMA InitRates == Init => RateShapes /\ RatesHold
BY DEF Init, RateShapes, RatesHold, NoRun

\* What is verified at an approval is in force.
LEMMA CurrentIsInForce ==
  ASSUME IInv, RateShapes, NEW r \in Runs, Live(r), Current(r)
  PROVE  /\ \A e \in DOMAIN run[r].lines : InForce(entry[e].week, run[r].lines[e].hourly)
         /\ \A d \in DOMAIN run[r].leave : InForce(d[2], run[r].leave[d].hourly)
         /\ \A t \in DOMAIN run[r].payout : InForce(run[r].payout[t].week, run[r].payout[t].hourly)
<1> DEFINE p == run[r].period
<1>1. /\ TimeReady(p) /\ LeaveReady(p) /\ SeparationReady(p, r)
      /\ run[r].lines = Lines(p) /\ run[r].leave = LeaveLines(p) /\ run[r].payout = Payouts(p, r)
  BY DEF Current
<1>2. ASSUME NEW e \in DOMAIN run[r].lines
      PROVE  InForce(entry[e].week, run[r].lines[e].hourly)
  <2>1. e \in Involved(p) /\ e \in Own /\ e \in Entries /\ entry[e].week \in Week
    BY <1>1, <1>2, PayrollAssumption DEF Lines, Involved, IInv, Shapes
  <2>2. RateRow(entry[e].week) # 0
    BY <1>1, <2>1 DEF TimeReady
  <2>3. run[r].lines[e].hourly = rate[RateRow(entry[e].week)]
    BY <1>1, <1>2 DEF Lines, Line
  <2>4. QED BY <2>1, <2>2, <2>3 DEF InForce
<1>3. ASSUME NEW d \in DOMAIN run[r].leave
      PROVE  InForce(d[2], run[r].leave[d].hourly)
  <2>1. d \in LeaveDays(p)
    BY <1>1, <1>3 DEF LeaveLines
  <2>2. PICK q \in Requests : d \in {q} \X (request[q].weeks \cap p)
    BY <2>1, LeaveDaysAre
  <2>3. request[q].weeks \subseteq Week
    BY PayrollAssumption DEF IInv, Shapes, Request, Week
  <2>4. RateRow(d[2]) # 0 /\ run[r].leave[d].hourly = rate[RateRow(d[2])]
    BY <1>1, <2>1 DEF LeaveReady, LeaveLines
  <2>5. QED BY <2>2, <2>3, <2>4 DEF InForce
<1>4. ASSUME NEW t \in DOMAIN run[r].payout
      PROVE  InForce(run[r].payout[t].week, run[r].payout[t].hourly)
  <2>1. /\ t \in LeaveType /\ Separated(p) /\ Unpaid(t, r) > 0
        /\ run[r].payout[t].week = employee.left
        /\ run[r].payout[t].hourly = rate[RateRow(employee.left)]
    BY <1>1, <1>4 DEF Payouts
  <2>2. RateRow(employee.left) # 0
    BY <1>1, <2>1 DEF SeparationReady
  <2>3. employee.left # 0
    <3>1. {v \in 1 .. 0 : rate[v] # 0} \union {0} = {0} /\ {0} \in SUBSET (0 .. 0)
      OBVIOUS
    <3>2. Max({0}) = 0
      BY <3>1, MaxIsMember
    <3>3. RateRow(0) = 0
      BY <3>1, <3>2 DEF RateRow
    <3>4. QED BY <2>2, <3>3
  <2>4. QED BY <2>1, <2>2, <2>3 DEF RateShapes, InForce
<1>5. QED BY <1>2, <1>3, <1>4
\* A step that sets no rate, and keeps the registers and the weeks of their entries.
LEMMA RatesHoldOn ==
  ASSUME RatesHold, UNCHANGED <<run, rate>>,
         \A r \in Runs : \A e \in DOMAIN run[r].lines : entry'[e].week = entry[e].week
  PROVE  RatesHold'
BY InForceUnchanged DEF RatesHold

\* A register is written as a draft, or moves on from what is verified.
LEMMA RegisterRates ==
  ASSUME RInv, Register
  PROVE  RatesHold'
<1>1. UNCHANGED <<rate, entry>>
  BY DEF Register, PrepareTime, PrepareLeave, PrepareWrite, Abandon, Approve, Post, Void, inputs
<1>2. ASSUME NEW r \in Runs, Live(r), Current(r) \/ run[r].status = "approved",
             run' = [run EXCEPT ![r].status = "approved"] \/ run' = [run EXCEPT ![r].status = "posted"]
      PROVE  RatesHold'
  <2>1. /\ run'[r].lines = run[r].lines /\ run'[r].leave = run[r].leave /\ run'[r].payout = run[r].payout
        /\ \A s \in Runs \ {r} : run'[s] = run[s]
    BY <1>2 DEF RInv, IInv, Shapes
  <2>2. /\ \A e \in DOMAIN run[r].lines : InForce(entry[e].week, run[r].lines[e].hourly)
        /\ \A d \in DOMAIN run[r].leave : InForce(d[2], run[r].leave[d].hourly)
        /\ \A t \in DOMAIN run[r].payout : InForce(run[r].payout[t].week, run[r].payout[t].hourly)
    BY <1>2, CurrentIsInForce DEF RInv, RatesHold
  <2>3. QED BY <1>1, <2>1, <2>2, InForceUnchanged DEF RInv, RatesHold
<1>3. ASSUME NEW r \in Runs, NEW row, run' = [run EXCEPT ![r] = row], row.status \in {"draft", "void"}
      PROVE  RatesHold'
  <2>1. run'[r].status \in {"draft", "void"} /\ \A s \in Runs \ {r} : run'[s] = run[s]
    BY <1>3 DEF RInv, IInv, Shapes
  <2>2. QED BY <1>1, <2>1, InForceUnchanged DEF RInv, RatesHold
<1>4. CASE PrepareWrite
  BY <1>3, <1>4 DEF PrepareWrite, RInv, IInv, PreparationHolds
<1>5. ASSUME NEW r \in Runs, Approve(r) \/ Post(r)
      PROVE  RatesHold'
  BY <1>2, <1>5 DEF Approve, Post, Live
<1>6. ASSUME NEW r \in Runs, Void(r)
      PROVE  RatesHold'
  <2>1. run' = [run EXCEPT ![r] = [NoRun EXCEPT !.status = "void", !.period = run[r].period]]
    BY <1>6 DEF Void
  <2>2. [NoRun EXCEPT !.status = "void", !.period = run[r].period].status = "void"
    BY DEF NoRun
  <2>3. QED BY <1>3, <2>1, <2>2
<1>7. CASE UNCHANGED run
  BY <1>1, <1>7, RatesHoldOn DEF RInv
<1>8. QED BY <1>4, <1>5, <1>6, <1>7 DEF Register, PrepareTime, PrepareLeave, Abandon

\* A rate is set from a week on that no register reaches.
LEMMA SetRates ==
  ASSUME RInv, NEW w \in RateWeeks, NEW hourly \in Rates, SetPayrollRate(w, hourly)
  PROVE  RatesHold'
<1>1. w \in Week /\ rate' = [rate EXCEPT ![w] = hourly] /\ UNCHANGED <<run, entry>>
  BY PayrollAssumption DEF SetPayrollRate, Week
<1>2. w \in Int /\ Week \subseteq Int
  BY PayrollAssumption DEF Week
<1>3. ASSUME NEW r \in Runs, run[r].status \in {"approved", "posted"}
      PROVE  /\ \A e \in DOMAIN run[r].lines : InForce(entry[e].week, run[r].lines[e].hourly)'
             /\ \A d \in DOMAIN run[r].leave : InForce(d[2], run[r].leave[d].hourly)'
             /\ \A t \in DOMAIN run[r].payout : InForce(run[r].payout[t].week, run[r].payout[t].hourly)'
  <2>1. ASSUME NEW v, NEW amount, InForce(v, amount), v < w
        PROVE  InForce(v, amount)'
    BY <1>1, <2>1, InForceStays DEF RInv
  <2>2. ASSUME NEW e \in DOMAIN run[r].lines
        PROVE  InForce(entry[e].week, run[r].lines[e].hourly)'
    <3>1. InForce(entry[e].week, run[r].lines[e].hourly)
      BY <1>3 DEF RInv, RatesHold
    <3>2. entry[e].week < w
      <4>1. ~ (entry[e].week >= w)
        BY DEF SetPayrollRate, RateInUse
      <4>2. entry[e].week \in Int
        BY <1>2, <3>1 DEF InForce
      <4>3. QED BY <1>2, <4>1, <4>2
    <3>3. InForce(entry[e].week, run[r].lines[e].hourly)' <=>
            (entry[e].week \in Week /\ RateRow(entry[e].week)' # 0
               /\ run[r].lines[e].hourly = rate'[RateRow(entry[e].week)'])
      BY <1>1 DEF InForce
    <3>4. QED BY <1>1, <2>1, <3>1, <3>2, <3>3 DEF InForce
  <2>3. ASSUME NEW d \in DOMAIN run[r].leave
        PROVE  InForce(d[2], run[r].leave[d].hourly)'
    <3>1. InForce(d[2], run[r].leave[d].hourly)
      BY <1>3 DEF RInv, RatesHold
    <3>2. d[2] < w
      <4>1. ~ (d[2] >= w)
        BY DEF SetPayrollRate, RateInUse
      <4>2. d[2] \in Int
        BY <1>2, <3>1 DEF InForce
      <4>3. QED BY <1>2, <4>1, <4>2
    <3>3. QED BY <1>1, <2>1, <3>1, <3>2 DEF InForce
  <2>4. ASSUME NEW t \in DOMAIN run[r].payout
        PROVE  InForce(run[r].payout[t].week, run[r].payout[t].hourly)'
    <3>1. InForce(run[r].payout[t].week, run[r].payout[t].hourly)
      BY <1>3 DEF RInv, RatesHold
    <3>2. run[r].payout[t].week < w
      <4>1. ~ (run[r].payout[t].week >= w)
        BY DEF SetPayrollRate, RateInUse
      <4>2. run[r].payout[t].week \in Int
        BY <1>2, <3>1 DEF InForce
      <4>3. QED BY <1>2, <4>1, <4>2
    <3>3. QED BY <1>1, <2>1, <3>1, <3>2 DEF InForce
  <2>5. QED BY <2>2, <2>3, <2>4
<1>4. QED BY <1>1, <1>3 DEF RatesHold

\* The entries of a register keep their weeks, as they are not corrected.
LEMMA EntryRates ==
  ASSUME RInv, NEW e \in Entries,
         (\E w \in Week, h \in Hours[e] : AddEntry(e, w, h) \/ CorrectEntry(e, w, h)) \/ ApproveEntry(e)
  PROVE  RatesHold'
<1>1. UNCHANGED <<run, rate>>
  BY DEF AddEntry, CorrectEntry, ApproveEntry
<1>2. ~ Payrolled(e)
  BY DEF AddEntry, CorrectEntry, ApproveEntry, Payrolled, RInv, IInv, EntriesStand
<1>3. \A d \in Entries \ {e} : entry'[d] = entry[d]
  BY DEF AddEntry, CorrectEntry, ApproveEntry, RInv, IInv, Shapes
<1>4. \A r \in Runs : \A d \in DOMAIN run[r].lines : entry'[d].week = entry[d].week
  BY <1>2, <1>3, PayrollAssumption DEF Payrolled, RInv, IInv, EntriesStand
<1>5. QED BY <1>1, <1>4, RatesHoldOn DEF RInv

\* Every step keeps the rates of what is approved in force.
LEMMA StepRInv == RInv /\ [Next]_vars => RInv'
<1> SUFFICES ASSUME RInv, [Next]_vars PROVE RInv'
  OBVIOUS
<1>1. IInv'
  BY StepIInv DEF RInv
<1>2. CASE Register
  <2>1. UNCHANGED <<rate, employee>>
    BY <1>2 DEF Register, PrepareTime, PrepareLeave, PrepareWrite, Abandon, Approve, Post, Void, inputs
  <2>2. QED BY <1>1, <1>2, <2>1, RegisterRates DEF RInv, RateShapes
<1>3. ASSUME NEW w \in RateWeeks, NEW hourly \in Rates, SetPayrollRate(w, hourly)
      PROVE  RInv'
  <2>1. RateShapes'
    BY <1>3, PayrollAssumption DEF SetPayrollRate, RInv, RateShapes
  <2>2. QED BY <1>1, <1>3, <2>1, SetRates DEF RInv
<1>4. ASSUME NEW e \in Entries,
             (\E w \in Week, h \in Hours[e] : AddEntry(e, w, h) \/ CorrectEntry(e, w, h)) \/ ApproveEntry(e)
      PROVE  RInv'
  <2>1. UNCHANGED <<rate, employee>>
    BY <1>4 DEF AddEntry, CorrectEntry, ApproveEntry
  <2>2. QED BY <1>1, <1>4, <2>1, EntryRates DEF RInv, RateShapes
<1>5. CASE UNCHANGED <<run, rate, entry>> /\ employee'.left \in Week \union {0}
           /\ employee' = [active |-> employee'.active, left |-> employee'.left]
  BY <1>1, <1>5, RatesHoldOn DEF RInv, RateShapes
<1>6. CASE Change
  <2>1. ASSUME NEW w \in Separations, Terminate(w)
        PROVE  RInv'
    BY <1>5, <2>1, PayrollAssumption DEF Terminate, Week
  <2>2. CASE Reinstate
    BY <1>5, <2>2 DEF Reinstate
  <2>3. CASE UNCHANGED <<run, rate, entry, employee>>
    BY <1>5, <2>3 DEF RInv, RateShapes
  <2>4. QED BY <1>3, <1>4, <1>6, <2>1, <2>2, <2>3
    DEF Change, CreateRequest, ApproveRequest, DenyRequest, RevokeRequest, WithdrawRequest, EndWeek
<1>7. CASE UNCHANGED vars
  BY <1>5, <1>7 DEF vars, RInv, RateShapes
<1>8. QED BY <1>2, <1>6, <1>7 DEF Next

\* What an approved register pays an hour is the rate in effect, although rates may be
\* set while it is prepared, and after that it stays in effect for its weeks.
LEMMA RatesInvariance == Spec => []RInv
<1>1. Init => RInv
  BY InitIInv, InitRates DEF RInv
<1>2. QED BY <1>1, StepRInv, PTL DEF Spec

\* So the rates and the leave of a register stand, for any number of registers, entries,
\* rates and requests.
THEOREM TermsAlwaysStand == Spec => []TermsStand
<1>1. RInv => TermsStand
  BY DEF RInv, IInv, RatesHold, RatesStand, InForce, TermsStand
<1>2. QED BY <1>1, RatesInvariance, PTL

---------------------------------------------------------------------------
(* Work. Hours, leave and wages are sums, of integers over finite sets, so *)
(* that they come out as what they are made from says.                     *)

\* A register has lines for entries of the unit, for days of leave and for types of
\* payout, and counts them in integers.
Counted(register) ==
  /\ DOMAIN register.lines \subseteq Own
  /\ \A e \in DOMAIN register.lines :
       register.lines[e].regular \in Int /\ register.lines[e].overtime \in Int
       /\ register.lines[e].hourly \in Int
  /\ DOMAIN register.leave \subseteq Requests \X Week
  /\ \A d \in DOMAIN register.leave : register.leave[d].hourly \in Int
  /\ DOMAIN register.payout \subseteq LeaveType
  /\ \A t \in DOMAIN register.payout :
       register.payout[t].hours \in Int /\ register.payout[t].hourly \in Int

\* It pays the hours of its entries.
Pays(lines) == \A e \in DOMAIN lines : entry[e].hours = lines[e].regular + lines[e].overtime

RegistersCount == \A r \in Runs : Counted(run[r]) /\ Pays(run[r].lines)

PreparationCounts == Counted(job) /\ (job.stage # "none" => Pays(job.lines))

Columns == credit = [e \in Own |-> credit[e]] /\ \A w \in Week : rate[w] \in Int

Booked == accrued \in Int /\ AccruedAsRegistered

WInv == RInv /\ RegistersCount /\ PreparationCounts /\ Columns /\ LeaveAccounted /\ Booked

Before(e) == {d \in Involved({entry[e].week}) : d < e}
UsedBy(q, t) == IF request[q].type = t THEN request[q].used ELSE 0
PaidBy(r, t) == IF Live(r) /\ t \in DOMAIN run[r].payout THEN run[r].payout[t].hours ELSE 0
LinePays(line) == (2 * line.regular + 3 * line.overtime) * line.hourly
PayoutPays(payout) == 2 * payout.hours * payout.hourly

LineWages(lines) ==
  MapThenSumSet(LAMBDA e : (2 * lines[e].regular + 3 * lines[e].overtime) * lines[e].hourly, DOMAIN lines)
LeaveWages(leave) == MapThenSumSet(LAMBDA d : 2 * leave[d].hourly, DOMAIN leave)
PayoutWages(payout) == MapThenSumSet(LAMBDA t : 2 * payout[t].hours * payout[t].hourly, DOMAIN payout)
Wages(rs) == MapThenSumSet(LAMBDA r : Gross(run[r]), rs)

\* The sums of the model are such sums.
LEMMA PriorIs ==
  ASSUME NEW e, IsFiniteSet(Before(e))
  PROVE  Prior(e) = SumOver([d \in Before(e) |-> entry[d].hours], Before(e))
<1> DEFINE S == Before(e)
<1> DEFINE f == [d \in S |-> entry[d].hours]
           Is(g) == g = [s \in SUBSET S |-> IF s = {} THEN 0
                           ELSE LET x == (CHOOSE y \in s : TRUE) IN entry[x].hours + g[s \ {x}]]
           iter == CHOOSE g : Is(g)
<1>1. Prior(e) = iter[S]
  BY DEF Prior, Before, MapThenSumSet, MapThenFoldSet
<1> HIDE DEF S
<1>2. ASSUME NEW g PROVE Adds(g, f, S) <=> Is(g)
  <2>1. \A s \in SUBSET S : s # {} => f[First(s)] = entry[First(s)].hours
    BY FirstIsIn
  <2> HIDE DEF f
  <2>2. [s \in SUBSET S |-> IF s = {} THEN 0 ELSE f[First(s)] + g[s \ {First(s)}]]
        = [s \in SUBSET S |-> IF s = {} THEN 0
             ELSE LET x == (CHOOSE y \in s : TRUE) IN entry[x].hours + g[s \ {x}]]
    BY <2>1 DEF First
  <2>3. QED BY <2>2 DEF Adds
<1> HIDE DEF Is, f
<1>3. IsFiniteSet(S)
  BY DEF S
<1>4. Adds(iter, f, S)
  BY <1>2, <1>3, SumsExist
<1>5. QED BY <1>1, <1>3, <1>4, FoldIs DEF f, S

LEMMA EarnedIs ==
  ASSUME IsFiniteSet(Own)
  PROVE  Earned = SumOver([e \in Own |-> credit[e]], Own)
<1> DEFINE f == [e \in Own |-> credit[e]]
           Is(g) == g = [s \in SUBSET Own |-> IF s = {} THEN 0
                           ELSE LET x == (CHOOSE y \in s : TRUE) IN credit[x] + g[s \ {x}]]
           iter == CHOOSE g : Is(g)
<1>1. Earned = iter[Own]
  BY DEF Earned, MapThenSumSet, MapThenFoldSet
<1>2. ASSUME NEW g PROVE Adds(g, f, Own) <=> Is(g)
  <2>1. \A s \in SUBSET Own : s # {} => f[First(s)] = credit[First(s)]
    BY FirstIsIn
  <2> HIDE DEF f
  <2>2. [s \in SUBSET Own |-> IF s = {} THEN 0 ELSE f[First(s)] + g[s \ {First(s)}]]
        = [s \in SUBSET Own |-> IF s = {} THEN 0
             ELSE LET x == (CHOOSE y \in s : TRUE) IN credit[x] + g[s \ {x}]]
    BY <2>1 DEF First
  <2>3. QED BY <2>2 DEF Adds
<1> HIDE DEF Is, f
<1>3. IsFiniteSet(Own)
  OBVIOUS
<1>4. Adds(iter, f, Own)
  BY <1>2, <1>3, SumsExist
<1>5. QED BY <1>1, <1>3, <1>4, FoldIs DEF f

LEMMA UsedIs ==
  ASSUME NEW t, IsFiniteSet(Requests)
  PROVE  Used(t) = SumOver([q \in Requests |-> UsedBy(q, t)], Requests)
<1> DEFINE f == [q \in Requests |-> UsedBy(q, t)]
           Is(g) == g = [s \in SUBSET Requests |-> IF s = {} THEN 0
                           ELSE LET x == (CHOOSE y \in s : TRUE) IN UsedBy(x, t) + g[s \ {x}]]
           iter == CHOOSE g : Is(g)
<1>1. Used(t) = iter[Requests]
  BY DEF Used, UsedBy, MapThenSumSet, MapThenFoldSet
<1>2. ASSUME NEW g PROVE Adds(g, f, Requests) <=> Is(g)
  <2>1. \A s \in SUBSET Requests : s # {} => f[First(s)] = UsedBy(First(s), t)
    BY FirstIsIn
  <2> HIDE DEF f
  <2>2. [s \in SUBSET Requests |-> IF s = {} THEN 0 ELSE f[First(s)] + g[s \ {First(s)}]]
        = [s \in SUBSET Requests |-> IF s = {} THEN 0
             ELSE LET x == (CHOOSE y \in s : TRUE) IN UsedBy(x, t) + g[s \ {x}]]
    BY <2>1 DEF First
  <2>3. QED BY <2>2 DEF Adds
<1> HIDE DEF Is, f
<1>3. IsFiniteSet(Requests)
  OBVIOUS
<1>4. Adds(iter, f, Requests)
  BY <1>2, <1>3, SumsExist
<1>5. QED BY <1>1, <1>3, <1>4, FoldIs DEF f

LEMMA PaidOutIs ==
  ASSUME NEW t, NEW rs, IsFiniteSet(rs)
  PROVE  PaidOut(t, rs) = SumOver([r \in rs |-> PaidBy(r, t)], rs)
<1> DEFINE f == [r \in rs |-> PaidBy(r, t)]
           Is(g) == g = [s \in SUBSET rs |-> IF s = {} THEN 0
                           ELSE LET x == (CHOOSE y \in s : TRUE) IN PaidBy(x, t) + g[s \ {x}]]
           iter == CHOOSE g : Is(g)
<1>1. PaidOut(t, rs) = iter[rs]
  BY DEF PaidOut, PaidBy, MapThenSumSet, MapThenFoldSet
<1>2. ASSUME NEW g PROVE Adds(g, f, rs) <=> Is(g)
  <2>1. \A s \in SUBSET rs : s # {} => f[First(s)] = PaidBy(First(s), t)
    BY FirstIsIn
  <2> HIDE DEF f
  <2>2. [s \in SUBSET rs |-> IF s = {} THEN 0 ELSE f[First(s)] + g[s \ {First(s)}]]
        = [s \in SUBSET rs |-> IF s = {} THEN 0
             ELSE LET x == (CHOOSE y \in s : TRUE) IN PaidBy(x, t) + g[s \ {x}]]
    BY <2>1 DEF First
  <2>3. QED BY <2>2 DEF Adds
<1> HIDE DEF Is, f
<1>3. IsFiniteSet(rs)
  OBVIOUS
<1>4. Adds(iter, f, rs)
  BY <1>2, <1>3, SumsExist
<1>5. QED BY <1>1, <1>3, <1>4, FoldIs DEF f

LEMMA LineWagesAre ==
  ASSUME NEW lines, IsFiniteSet(DOMAIN lines)
  PROVE  LineWages(lines) = SumOver([e \in DOMAIN lines |-> LinePays(lines[e])], DOMAIN lines)
<1> DEFINE S == DOMAIN lines
<1> DEFINE f == [e \in S |-> LinePays(lines[e])]
           Is(g) == g = [s \in SUBSET S |-> IF s = {} THEN 0
                           ELSE LET x == (CHOOSE y \in s : TRUE) IN LinePays(lines[x]) + g[s \ {x}]]
           iter == CHOOSE g : Is(g)
<1>1. LineWages(lines) = iter[S]
  BY DEF LineWages, LinePays, MapThenSumSet, MapThenFoldSet
<1> HIDE DEF S
<1>2. ASSUME NEW g PROVE Adds(g, f, S) <=> Is(g)
  <2>1. \A s \in SUBSET S : s # {} => f[First(s)] = LinePays(lines[First(s)])
    BY FirstIsIn
  <2> HIDE DEF f
  <2>2. [s \in SUBSET S |-> IF s = {} THEN 0 ELSE f[First(s)] + g[s \ {First(s)}]]
        = [s \in SUBSET S |-> IF s = {} THEN 0
             ELSE LET x == (CHOOSE y \in s : TRUE) IN LinePays(lines[x]) + g[s \ {x}]]
    BY <2>1 DEF First
  <2>3. QED BY <2>2 DEF Adds
<1> HIDE DEF Is, f
<1>3. IsFiniteSet(S)
  BY DEF S
<1>4. Adds(iter, f, S)
  BY <1>2, <1>3, SumsExist
<1>5. QED BY <1>1, <1>3, <1>4, FoldIs DEF f, S

LEMMA LeaveWagesAre ==
  ASSUME NEW leave, IsFiniteSet(DOMAIN leave)
  PROVE  LeaveWages(leave) = SumOver([d \in DOMAIN leave |-> 2 * leave[d].hourly], DOMAIN leave)
<1> DEFINE S == DOMAIN leave
<1> DEFINE f == [d \in S |-> 2 * leave[d].hourly]
           Is(g) == g = [s \in SUBSET S |-> IF s = {} THEN 0
                           ELSE LET x == (CHOOSE y \in s : TRUE) IN 2 * leave[x].hourly + g[s \ {x}]]
           iter == CHOOSE g : Is(g)
<1>1. LeaveWages(leave) = iter[S]
  BY DEF LeaveWages, MapThenSumSet, MapThenFoldSet
<1> HIDE DEF S
<1>2. ASSUME NEW g PROVE Adds(g, f, S) <=> Is(g)
  <2>1. \A s \in SUBSET S : s # {} => f[First(s)] = 2 * leave[First(s)].hourly
    BY FirstIsIn
  <2> HIDE DEF f
  <2>2. [s \in SUBSET S |-> IF s = {} THEN 0 ELSE f[First(s)] + g[s \ {First(s)}]]
        = [s \in SUBSET S |-> IF s = {} THEN 0
             ELSE LET x == (CHOOSE y \in s : TRUE) IN 2 * leave[x].hourly + g[s \ {x}]]
    BY <2>1 DEF First
  <2>3. QED BY <2>2 DEF Adds
<1> HIDE DEF Is, f
<1>3. IsFiniteSet(S)
  BY DEF S
<1>4. Adds(iter, f, S)
  BY <1>2, <1>3, SumsExist
<1>5. QED BY <1>1, <1>3, <1>4, FoldIs DEF f, S

LEMMA PayoutWagesAre ==
  ASSUME NEW payout, IsFiniteSet(DOMAIN payout)
  PROVE  PayoutWages(payout) = SumOver([t \in DOMAIN payout |-> PayoutPays(payout[t])], DOMAIN payout)
<1> DEFINE S == DOMAIN payout
<1> DEFINE f == [t \in S |-> PayoutPays(payout[t])]
           Is(g) == g = [s \in SUBSET S |-> IF s = {} THEN 0
                           ELSE LET x == (CHOOSE y \in s : TRUE) IN PayoutPays(payout[x]) + g[s \ {x}]]
           iter == CHOOSE g : Is(g)
<1>1. PayoutWages(payout) = iter[S]
  BY DEF PayoutWages, PayoutPays, MapThenSumSet, MapThenFoldSet
<1> HIDE DEF S
<1>2. ASSUME NEW g PROVE Adds(g, f, S) <=> Is(g)
  <2>1. \A s \in SUBSET S : s # {} => f[First(s)] = PayoutPays(payout[First(s)])
    BY FirstIsIn
  <2> HIDE DEF f
  <2>2. [s \in SUBSET S |-> IF s = {} THEN 0 ELSE f[First(s)] + g[s \ {First(s)}]]
        = [s \in SUBSET S |-> IF s = {} THEN 0
             ELSE LET x == (CHOOSE y \in s : TRUE) IN PayoutPays(payout[x]) + g[s \ {x}]]
    BY <2>1 DEF First
  <2>3. QED BY <2>2 DEF Adds
<1> HIDE DEF Is, f
<1>3. IsFiniteSet(S)
  BY DEF S
<1>4. Adds(iter, f, S)
  BY <1>2, <1>3, SumsExist
<1>5. QED BY <1>1, <1>3, <1>4, FoldIs DEF f, S

LEMMA WagesAre ==
  ASSUME NEW rs, IsFiniteSet(rs)
  PROVE  Wages(rs) = SumOver([r \in rs |-> Gross(run[r])], rs)
<1> DEFINE f == [r \in rs |-> Gross(run[r])]
           Is(g) == g = [s \in SUBSET rs |-> IF s = {} THEN 0
                           ELSE LET x == (CHOOSE y \in s : TRUE) IN Gross(run[x]) + g[s \ {x}]]
           iter == CHOOSE g : Is(g)
<1>1. Wages(rs) = iter[rs]
  BY DEF Wages, MapThenSumSet, MapThenFoldSet
<1>2. ASSUME NEW g PROVE Adds(g, f, rs) <=> Is(g)
  <2>1. \A s \in SUBSET rs : s # {} => f[First(s)] = Gross(run[First(s)])
    BY FirstIsIn
  <2> HIDE DEF f
  <2>2. [s \in SUBSET rs |-> IF s = {} THEN 0 ELSE f[First(s)] + g[s \ {First(s)}]]
        = [s \in SUBSET rs |-> IF s = {} THEN 0
             ELSE LET x == (CHOOSE y \in s : TRUE) IN Gross(run[x]) + g[s \ {x}]]
    BY <2>1 DEF First
  <2>3. QED BY <2>2 DEF Adds
<1> HIDE DEF Is, f
<1>3. IsFiniteSet(rs)
  OBVIOUS
<1>4. Adds(iter, f, rs)
  BY <1>2, <1>3, SumsExist
<1>5. QED BY <1>1, <1>3, <1>4, FoldIs DEF f

\* Of two integers one is the larger, and one the smaller.
LEMMA MaxMinInt ==
  ASSUME NEW a \in Int, NEW b \in Int
  PROVE  Max({a, b}) \in Int /\ Min({a, b}) \in Int
<1>1. \E x \in {a, b} : \A y \in {a, b} : x >= y
  <2>1. a >= b \/ b >= a
    OBVIOUS
  <2>2. QED BY <2>1
<1>2. \E x \in {a, b} : \A y \in {a, b} : x =< y
  <2>1. a =< b \/ b =< a
    OBVIOUS
  <2>2. QED BY <2>1
<1>3. Max({a, b}) \in {a, b}
  BY <1>1 DEF Max
<1>4. Min({a, b}) \in {a, b}
  BY <1>2 DEF Min
<1>5. QED BY <1>3, <1>4

\* The lines of a preparation count, and pay the hours of its entries.
LEMMA LinesCount ==
  ASSUME WInv, NEW p, TimeReady(p), NEW e \in DOMAIN Lines(p)
  PROVE  /\ e \in Own /\ Lines(p)[e].regular \in Int /\ Lines(p)[e].overtime \in Int
         /\ Lines(p)[e].hourly \in Int
         /\ entry[e].hours = Lines(p)[e].regular + Lines(p)[e].overtime
<1>1. e \in Own /\ e \in Entries /\ e \in Involved(p) /\ Lines(p)[e] = Line(e)
  BY PayrollAssumption DEF Lines, Involved
<1>2. entry[e].hours \in Int /\ entry[e].week \in Week
  BY <1>1 DEF WInv, RInv, IInv, Shapes
<1>3. Prior(e) \in Int
  <2>1. Before(e) \subseteq Entries
    BY DEF Before, Involved
  <2>2. IsFiniteSet(Before(e))
    BY <2>1, PayrollAssumption, FS_Subset
  <2> DEFINE f == [d \in Before(e) |-> entry[d].hours]
  <2>3. \A d \in Before(e) : f[d] \in Int
    BY <2>1 DEF WInv, RInv, IInv, Shapes
  <2> HIDE DEF f
  <2>4. SumOver(f, Before(e)) \in Int
    BY <2>2, <2>3, SumIsInt
  <2>5. QED BY <2>2, <2>4, PriorIs DEF f
<1>4. rate[RateRow(entry[e].week)] \in Int
  <2>1. RateRow(entry[e].week) \in 1 .. entry[e].week
    BY <1>1, <1>2, RowIsOfWeek DEF TimeReady
  <2>2. RateRow(entry[e].week) \in Week
    BY <1>2, <2>1, PayrollAssumption DEF Week
  <2>3. QED BY <2>2 DEF WInv, Columns
<1> DEFINE hours == entry[e].hours
           regular == Max({0, Min({hours, Threshold - Prior(e)})})
<1>5. regular \in Int
  <2>1. Threshold - Prior(e) \in Int
    BY <1>3, PayrollAssumption
  <2>2. Min({hours, Threshold - Prior(e)}) \in Int
    BY <1>2, <2>1, MaxMinInt
  <2>3. QED BY <2>2, MaxMinInt
<1>6. /\ Line(e).regular = regular /\ Line(e).overtime = hours - regular
      /\ Line(e).hourly = rate[RateRow(entry[e].week)]
  BY DEF Line
<1> HIDE DEF regular
<1>7. QED BY <1>1, <1>2, <1>4, <1>5, <1>6

\* So does the leave.
LEMMA LeaveCounts ==
  ASSUME WInv, NEW p, LeaveReady(p)
  PROVE  /\ DOMAIN LeaveLines(p) \subseteq Requests \X Week
         /\ \A d \in DOMAIN LeaveLines(p) : LeaveLines(p)[d].hourly \in Int
<1> SUFFICES ASSUME NEW d \in LeaveDays(p)
             PROVE  d \in Requests \X Week /\ LeaveLines(p)[d].hourly \in Int
  BY DEF LeaveLines
<1>1. PICK q \in Requests : d \in {q} \X (request[q].weeks \cap p)
  BY LeaveDaysAre
<1>2. request[q].weeks \subseteq Week
  BY PayrollAssumption DEF WInv, RInv, IInv, Shapes, Request, Week
<1>3. d \in Requests \X Week /\ d[2] \in Week
  BY <1>1, <1>2
<1>4. RateRow(d[2]) \in 1 .. d[2]
  BY <1>3, RowIsOfWeek DEF LeaveReady
<1>5. RateRow(d[2]) \in Week
  BY <1>3, <1>4, PayrollAssumption DEF Week
<1>6. QED BY <1>3, <1>5 DEF LeaveLines, WInv, Columns

\* So does what is left to pay out.
LEMMA UnpaidIsInt ==
  ASSUME WInv, NEW t \in LeaveType, NEW r
  PROVE  Unpaid(t, r) \in Int
<1>1. Earned \in Int
  <2>1. IsFiniteSet(Own)
    BY PayrollAssumption, FS_Subset
  <2> DEFINE f == [e \in Own |-> credit[e]]
  <2>2. \A e \in Own : f[e] \in Int
    <3>1. ASSUME NEW e \in Own PROVE entry[e].hours \div WorkPerLeave \in Int
      <4>1. entry[e].hours \in Int /\ WorkPerLeave \in Int /\ WorkPerLeave > 0
        BY PayrollAssumption DEF WInv, RInv, IInv, Shapes
      <4>2. QED BY <4>1
    <3>2. QED BY <3>1 DEF WInv, LeaveAccounted
  <2> HIDE DEF f
  <2>3. QED BY <2>1, <2>2, SumIsInt, EarnedIs DEF f
<1>2. Used(t) \in Int
  <2>1. IsFiniteSet(Requests)
    BY PayrollAssumption
  <2> DEFINE f == [q \in Requests |-> UsedBy(q, t)]
  <2>2. \A q \in Requests : f[q] \in Int
    BY DEF UsedBy, WInv, RInv, IInv, Shapes, Request
  <2> HIDE DEF f
  <2>3. QED BY <2>1, <2>2, SumIsInt, UsedIs DEF f
<1>3. PaidOut(t, Runs \ {r}) \in Int
  <2> DEFINE S == Runs \ {r}
  <2>1. IsFiniteSet(S) /\ S \subseteq Runs
    BY PayrollAssumption, FS_Subset
  <2> HIDE DEF S
  <2> DEFINE f == [s \in S |-> PaidBy(s, t)]
  <2>2. \A s \in S : f[s] \in Int
    BY <2>1 DEF PaidBy, WInv, RegistersCount, Counted
  <2> HIDE DEF f
  <2>3. SumOver(f, S) \in Int
    BY <2>1, <2>2, SumIsInt
  <2>4. PaidOut(t, S) \in Int
    BY <2>1, <2>3, PaidOutIs DEF f
  <2>5. QED BY <2>4 DEF S
<1>4. QED BY <1>1, <1>2, <1>3 DEF Unpaid

LEMMA PayoutsCount ==
  ASSUME WInv, NEW p \in Period, NEW r, SeparationReady(p, r)
  PROVE  /\ DOMAIN Payouts(p, r) \subseteq LeaveType
         /\ \A t \in DOMAIN Payouts(p, r) :
              Payouts(p, r)[t].hours \in Int /\ Payouts(p, r)[t].hourly \in Int
<1>1. DOMAIN Payouts(p, r) = {t \in LeaveType : Separated(p) /\ Unpaid(t, r) > 0}
  BY DEF Payouts
<1>2. ASSUME NEW t \in DOMAIN Payouts(p, r)
      PROVE  Payouts(p, r)[t].hours \in Int /\ Payouts(p, r)[t].hourly \in Int
  <2>1. t \in LeaveType /\ Separated(p) /\ Unpaid(t, r) > 0
    BY <1>1
  <2>2. RateRow(employee.left) # 0 /\ employee.left \in p
    BY <2>1 DEF SeparationReady, Separated
  <2>3. employee.left \in Week
    <3>1. p \subseteq Week
      BY PayrollAssumption DEF Period, Week
    <3>2. QED BY <2>2, <3>1
  <2>4. RateRow(employee.left) \in 1 .. employee.left
    BY <2>2, <2>3, RowIsOfWeek
  <2>5. RateRow(employee.left) \in Week
    BY <2>3, <2>4, PayrollAssumption DEF Week
  <2>6. Payouts(p, r)[t].hours = Unpaid(t, r) /\ Payouts(p, r)[t].hourly = rate[RateRow(employee.left)]
    BY <2>1 DEF Payouts
  <2>7. QED BY <2>1, <2>5, <2>6, UnpaidIsInt DEF WInv, Columns
<1>3. QED BY <1>1, <1>2

\* What a register comes to is an integer.
LEMMA GrossIsInt ==
  ASSUME NEW register, Counted(register)
  PROVE  Gross(register) \in Int
<1> DEFINE lines == register.lines
           leave == register.leave
           payout == register.payout
<1>1. Gross(register) = LineWages(lines) + LeaveWages(leave) + PayoutWages(payout)
  BY DEF Gross, LineWages, LeaveWages, PayoutWages
<1>2. LineWages(lines) \in Int
  <2>1. IsFiniteSet(DOMAIN lines)
    BY PayrollAssumption, FS_Subset DEF Counted
  <2> DEFINE f == [e \in DOMAIN lines |-> LinePays(lines[e])]
  <2>2. \A e \in DOMAIN lines : f[e] \in Int
    BY DEF LinePays, Counted
  <2> HIDE DEF f, lines
  <2>3. QED BY <2>1, <2>2, SumIsInt, LineWagesAre DEF f
<1>3. LeaveWages(leave) \in Int
  <2>1. IsFiniteSet(DOMAIN leave)
    <3>1. IsFiniteSet(Week)
      BY PayrollAssumption, FS_Interval DEF Week
    <3>2. IsFiniteSet(Requests \X Week)
      BY <3>1, PayrollAssumption, FS_Product
    <3>3. QED BY <3>2, FS_Subset DEF Counted
  <2> DEFINE f == [d \in DOMAIN leave |-> 2 * leave[d].hourly]
  <2>2. \A d \in DOMAIN leave : f[d] \in Int
    BY DEF Counted
  <2> HIDE DEF f, leave
  <2>3. QED BY <2>1, <2>2, SumIsInt, LeaveWagesAre DEF f
<1>4. PayoutWages(payout) \in Int
  <2>1. IsFiniteSet(DOMAIN payout)
    <3>1. IsFiniteSet({"pto"} \union {"sick"})
      BY FS_Singleton, FS_AddElement
    <3>2. LeaveType = {"pto"} \union {"sick"}
      BY DEF LeaveType
    <3>3. QED BY <3>1, <3>2, FS_Subset DEF Counted
  <2> DEFINE f == [t \in DOMAIN payout |-> PayoutPays(payout[t])]
  <2>2. \A t \in DOMAIN payout : f[t] \in Int
    BY DEF PayoutPays, Counted
  <2> HIDE DEF f, payout
  <2>3. QED BY <2>1, <2>2, SumIsInt, PayoutWagesAre DEF f
<1>5. QED BY <1>1, <1>2, <1>3, <1>4

\* A register that keeps its lines, leave and payout comes to the same.
LEMMA GrossStays ==
  ASSUME NEW one, NEW other,
         one.lines = other.lines, one.leave = other.leave, one.payout = other.payout
  PROVE  Gross(one) = Gross(other) /\ (Counted(one) => Counted(other))
<1>1. ASSUME NEW register
      PROVE  Gross(register) = LineWages(register.lines) + LeaveWages(register.leave)
                                 + PayoutWages(register.payout)
  BY DEF Gross, LineWages, LeaveWages, PayoutWages
<1>2. Gross(one) = Gross(other)
  BY <1>1
<1>3. Counted(one) => Counted(other)
  BY DEF Counted
<1>4. QED BY <1>2, <1>3

Posted == {r \in Runs : run[r].status = "posted"}

LEMMA WagesAlways ==
  \A rs : IsFiniteSet(rs) => Wages(rs) = SumOver([r \in rs |-> Gross(run[r])], rs)
BY WagesAre

LEMMA WagesThen ==
  (\A rs : IsFiniteSet(rs) => Wages(rs) = SumOver([r \in rs |-> Gross(run[r])], rs))'
BY WagesAlways, PTL

LEMMA BookedIs == Booked <=> accrued \in Int /\ accrued = Wages(Posted)
BY DEF Booked, AccruedAsRegistered, Wages, Posted

LEMMA BookedIsThen == (Booked <=> accrued \in Int /\ accrued = Wages(Posted))'
BY BookedIs, PTL

\* The wages in the books stay as long as the posted registers do.
LEMMA BookedStays ==
  ASSUME WInv, accrued' = accrued,
         \A r \in Runs : \/ run'[r] = run[r]
                         \/ run[r].status # "posted" /\ run'[r].status # "posted"
  PROVE  Booked'
<1>1. Posted' = Posted /\ \A r \in Posted : run'[r] = run[r]
  BY DEF Posted
<1>2. IsFiniteSet(Posted)
  BY PayrollAssumption, FS_Subset DEF Posted
<1>3. Wages(Posted)' = SumOver([r \in Posted |-> Gross(run'[r])], Posted)
  BY <1>1, <1>2, WagesThen
<1> DEFINE f == [r \in Posted |-> Gross(run[r])]
           h == [r \in Posted |-> Gross(run'[r])]
<1>4. \A r \in Posted : f[r] = h[r]
  BY <1>1
<1>5. Wages(Posted) = SumOver(f, Posted)
  BY <1>2, WagesAlways
<1> HIDE DEF f, h
<1>6. SumOver(f, Posted) = SumOver(h, Posted)
  BY <1>2, <1>4, SumOfSame
<1>7. Wages(Posted)' = Wages(Posted)
  BY <1>3, <1>5, <1>6 DEF h
<1>8. QED BY <1>7, BookedIs, BookedIsThen DEF WInv

\* A register that is posted comes to them.
LEMMA BookedPosts ==
  ASSUME WInv, NEW r \in Runs, run[r].status # "posted",
         run' = [run EXCEPT ![r].status = "posted"], accrued' = accrued + Gross(run[r])
  PROVE  Booked'
<1>1. /\ run'[r].status = "posted" /\ run'[r].lines = run[r].lines
      /\ run'[r].leave = run[r].leave /\ run'[r].payout = run[r].payout
      /\ \A s \in Runs \ {r} : run'[s] = run[s]
  BY DEF WInv, RInv, IInv, Shapes
<1> DEFINE S == Posted
           T == Posted \union {r}
           f == [s \in T |-> Gross(run'[s])]
           h == [s \in S |-> Gross(run[s])]
<1>2. Posted' = T /\ r \notin S /\ S \subseteq Runs /\ T \subseteq Runs
  BY <1>1 DEF Posted
<1>3. IsFiniteSet(S) /\ IsFiniteSet(T)
  BY <1>2, PayrollAssumption, FS_Subset
<1>4. Gross(run'[r]) = Gross(run[r]) /\ \A s \in S : run'[s] = run[s] /\ s # r
  BY <1>1, <1>2, GrossStays
<1>5. \A s \in T : Gross(run[s]) \in Int
  BY <1>2, GrossIsInt DEF WInv, RegistersCount
<1>6. f[r] = Gross(run[r]) /\ (\A s \in S : f[s] = h[s]) /\ \A s \in S \union {r} : f[s] \in Int
  BY <1>4, <1>5
<1>7. Wages(Posted)' = SumOver(f, T)
  BY <1>2, <1>3, WagesThen
<1>8. Wages(Posted) = SumOver(h, S)
  BY <1>3, WagesAlways
<1> HIDE DEF f, h, S, T
<1>9. SumOver(f, S \union {r}) = f[r] + SumOver(f, S)
  BY <1>2, <1>3, <1>6, SumWith
<1>10. SumOver(f, S) = SumOver(h, S) /\ SumOver(h, S) \in Int
  BY <1>3, <1>6, SumOfSame, SumIsInt
<1>11. T = S \union {r}
  BY DEF S, T
<1>12. accrued = SumOver(h, S) /\ accrued \in Int
  BY <1>8, BookedIs DEF WInv
<1>13. f[r] \in Int /\ accrued' = SumOver(h, S) + f[r]
  BY <1>6, <1>12
<1>14. accrued' \in Int /\ accrued' = Wages(Posted)'
  BY <1>7, <1>9, <1>10, <1>11, <1>13
<1>15. QED BY <1>14, BookedIsThen

\* In the beginning there is nothing.
LEMMA InitWork == Init => RegistersCount /\ PreparationCounts /\ Columns /\ LeaveAccounted /\ Booked
<1> SUFFICES ASSUME Init
             PROVE  RegistersCount /\ PreparationCounts /\ Columns /\ LeaveAccounted /\ Booked
  OBVIOUS
<1>1. RegistersCount /\ PreparationCounts /\ Columns /\ LeaveAccounted
  BY PayrollAssumption DEF Init, RegistersCount, PreparationCounts, Columns, LeaveAccounted, Counted, Pays,
    NoRun, NoJob, NoLines, NoRequest
<1>2. Posted = {}
  BY DEF Init, Posted, NoRun
<1>3. Wages(Posted) = 0
  BY <1>2, FS_EmptySet, WagesAre, SumOfNothing
<1>4. accrued = 0
  BY DEF Init
<1>5. QED BY <1>1, <1>3, <1>4, BookedIs

\* A register counts what the preparation did, which found it counted.
LEMMA RegisterWork ==
  ASSUME WInv, Register
  PROVE  RegistersCount' /\ PreparationCounts' /\ Booked'
<1>1. UNCHANGED <<rate, entry, credit, request, employee>>
  BY DEF Register, PrepareTime, PrepareLeave, PrepareWrite, Abandon, Approve, Post, Void, inputs
<1>2. Counted(NoJob) /\ NoJob.stage = "none"
  BY DEF Counted, NoJob, NoLines
<1>3. ASSUME NEW r \in Runs, NEW p \in Period, PrepareTime(r, p)
      PROVE  RegistersCount' /\ PreparationCounts' /\ Booked'
  <2>1. /\ job'.lines = Lines(p) /\ job'.leave = NoLines /\ job'.payout = NoLines
        /\ UNCHANGED <<run, accrued>>
    BY <1>3 DEF PrepareTime, NoJob
  <2>2. Counted(job') /\ Pays(job'.lines)
    BY <1>3, <2>1, LinesCount DEF PrepareTime, Counted, Pays, NoLines
  <2>3. QED BY <1>1, <2>1, <2>2, BookedStays DEF WInv, RegistersCount, PreparationCounts, Pays
<1>4. CASE PrepareLeave
  <2> DEFINE p == job.period
  <2>1. /\ job'.lines = job.lines /\ job'.leave = LeaveLines(p) /\ job'.payout = Payouts(p, None)
        /\ p \in Period /\ job.stage # "none"
        /\ LeaveReady(p) /\ SeparationReady(p, None) /\ UNCHANGED <<run, accrued>>
    BY <1>4 DEF PrepareLeave, WInv, RInv, IInv, Shapes, PreparationHolds
  <2> HIDE DEF p
  <2>2. Counted(job') /\ Pays(job'.lines)
    BY <2>1, LeaveCounts, PayoutsCount DEF WInv, PreparationCounts, Counted, Pays
  <2>3. QED BY <1>1, <2>1, <2>2, BookedStays DEF WInv, RegistersCount, PreparationCounts, Pays
<1>5. CASE PrepareWrite
  <2> DEFINE id == job.id
  <2>1. /\ id \in Runs /\ run[id].status = "absent"
        /\ run'[id].lines = job.lines /\ run'[id].leave = job.leave /\ run'[id].payout = job.payout
        /\ run'[id].status = "draft" /\ \A s \in Runs \ {id} : run'[s] = run[s]
        /\ job' = NoJob /\ UNCHANGED accrued /\ job.stage # "none"
    BY <1>5 DEF PrepareWrite, WInv, RInv, IInv, Shapes, PreparationHolds
  <2> HIDE DEF id
  <2>2. Counted(run'[id]) /\ Pays(run'[id].lines)
    BY <2>1, GrossStays DEF WInv, PreparationCounts, Pays
  <2>3. RegistersCount'
    BY <1>1, <2>1, <2>2 DEF WInv, RegistersCount, Pays
  <2>4. Booked'
    BY <2>1, BookedStays
  <2>5. QED BY <1>2, <2>1, <2>3, <2>4 DEF PreparationCounts
<1>6. CASE Abandon
  <2>1. job' = NoJob /\ UNCHANGED <<run, accrued>>
    BY <1>6 DEF Abandon
  <2>2. QED BY <1>1, <1>2, <2>1, BookedStays DEF WInv, RegistersCount, PreparationCounts, Pays
<1>7. ASSUME NEW r \in Runs, Approve(r) \/ Post(r) \/ Void(r)
      PROVE  RegistersCount' /\ PreparationCounts' /\ Booked'
  <2>1. /\ \A s \in Runs \ {r} : run'[s] = run[s]
        /\ \/ run'[r].lines = run[r].lines /\ run'[r].leave = run[r].leave /\ run'[r].payout = run[r].payout
           \/ run'[r].lines = NoLines /\ run'[r].leave = NoLines /\ run'[r].payout = NoLines
        /\ UNCHANGED job
    <3>1. CASE Approve(r)
      BY <3>1 DEF Approve, WInv, RInv, IInv, Shapes
    <3>2. CASE Post(r)
      BY <3>2 DEF Post, WInv, RInv, IInv, Shapes
    <3>3. CASE Void(r)
      BY <3>3 DEF Void, NoRun, WInv, RInv, IInv, Shapes
    <3>4. QED BY <1>7, <3>1, <3>2, <3>3
  <2>2. Counted(run'[r]) /\ Pays(run'[r].lines)
    <3>1. CASE run'[r].lines = run[r].lines /\ run'[r].leave = run[r].leave /\ run'[r].payout = run[r].payout
      BY <3>1, GrossStays DEF WInv, RegistersCount
    <3>2. CASE run'[r].lines = NoLines /\ run'[r].leave = NoLines /\ run'[r].payout = NoLines
      BY <3>2 DEF Counted, Pays, NoLines
    <3>3. QED BY <2>1, <3>1, <3>2
  <2>3. RegistersCount' /\ PreparationCounts'
    BY <1>1, <2>1, <2>2 DEF WInv, RegistersCount, PreparationCounts, Pays
  <2>4. Booked'
    <3>1. CASE Post(r)
      BY <3>1, BookedPosts DEF Post
    <3>2. CASE Approve(r) \/ Void(r)
      <4>1. accrued' = accrued /\ run[r].status # "posted" /\ run'[r].status # "posted"
        BY <3>2 DEF Approve, Void, NoRun, WInv, RInv, IInv, Shapes
      <4>2. QED BY <2>1, <4>1, BookedStays
    <3>3. QED BY <1>7, <3>1, <3>2
  <2>5. QED BY <2>3, <2>4
<1>8. QED BY <1>3, <1>4, <1>5, <1>6, <1>7 DEF Register

\* A change of the entries, where none is in a register or prepared for one.
LEMMA EntriesWork ==
  ASSUME WInv, UNCHANGED <<run, job, accrued>>, NEW e,
         \A d \in Entries \ {e} : entry'[d].hours = entry[d].hours,
         \/ entry'[e].hours = entry[e].hours
         \/ ~ Payrolled(e) /\ (job.stage = "none" \/ e \notin DOMAIN job.lines)
  PROVE  RegistersCount' /\ PreparationCounts' /\ Booked'
<1>1. RegistersCount'
  BY PayrollAssumption DEF WInv, RegistersCount, Counted, Pays, Payrolled
<1>2. PreparationCounts'
  BY PayrollAssumption DEF WInv, PreparationCounts, Counted, Pays
<1>3. QED BY <1>1, <1>2, BookedStays

\* A request uses what it is for while it is approved.
LEMMA RequestsAccounted ==
  ASSUME WInv, NEW q \in Requests, UNCHANGED <<entry, credit>>,
         \A o \in Requests \ {q} : request'[o] = request[o],
         request'[q].used = IF request'[q].status = "approved" THEN Cardinality(request'[q].weeks) ELSE 0
  PROVE  LeaveAccounted'
BY DEF WInv, LeaveAccounted

\* Reviews and corrections keep the account of the leave.
LEMMA ChangeAccounts ==
  ASSUME WInv, Change
  PROVE  LeaveAccounted'
<1>1. /\ request \in [Requests -> Request]
      /\ entry \in [Entries -> [status : {"absent", "pending", "approved"}, week : Week, hours : Nat]]
      /\ LeaveAccounted /\ credit = [e \in Own |-> credit[e]] /\ Own \subseteq Entries
  BY PayrollAssumption DEF WInv, RInv, IInv, Shapes, Columns
<1>2. ASSUME NEW e \in Entries, NEW w \in Week, NEW h \in Hours[e], AddEntry(e, w, h)
      PROVE  LeaveAccounted'
  BY <1>1, <1>2 DEF AddEntry, LeaveAccounted
<1>3. ASSUME NEW e \in Entries, NEW w \in Week, NEW h \in Hours[e], CorrectEntry(e, w, h)
      PROVE  LeaveAccounted'
  BY <1>1, <1>3 DEF CorrectEntry, LeaveAccounted
<1>4. ASSUME NEW e \in Entries, ApproveEntry(e)
      PROVE  LeaveAccounted'
  <2>1. entry[e].hours \div WorkPerLeave \in Int
    <3>1. entry[e].hours \in Int /\ WorkPerLeave \in Int /\ WorkPerLeave > 0
      BY <1>1, PayrollAssumption
    <3>2. QED BY <3>1
  <2>2. entry'[e].status = "approved" /\ entry'[e].hours = entry[e].hours
        /\ \A d \in Entries \ {e} : entry'[d] = entry[d]
    BY <1>1, <1>4 DEF ApproveEntry
  <2> DEFINE earned == entry[e].hours \div WorkPerLeave
  <2>3. CASE e \in Own
    <3>1. credit[e] = 0
      BY <1>1, <1>4, <2>3 DEF ApproveEntry, LeaveAccounted
    <3>2. credit' = [credit EXCEPT ![e] = credit[e] + earned]
      BY <1>4, <2>3 DEF ApproveEntry
    <3>3. credit[e] + earned = earned
      BY <2>1, <3>1
    <3>4. credit'[e] = earned /\ \A d \in Own \ {e} : credit'[d] = credit[d]
      <4> HIDE DEF earned
      <4>1. QED BY <1>1, <2>3, <3>2, <3>3
    <3>5. QED BY <1>1, <1>4, <2>2, <3>4 DEF ApproveEntry, LeaveAccounted
  <2>4. CASE e \notin Own
    BY <1>1, <1>4, <2>2, <2>4 DEF ApproveEntry, LeaveAccounted
  <2>5. QED BY <2>3, <2>4
<1>5. ASSUME NEW q \in Requests, NEW t \in LeaveType, NEW weeks \in LeaveWeeks, CreateRequest(q, t, weeks)
      PROVE  LeaveAccounted'
  <2> DEFINE count == Cardinality(weeks)
  <2>1. /\ request' = [request EXCEPT ![q] =
             [status |-> IF t = "sick" THEN "approved" ELSE "pending", type |-> t, weeks |-> weeks,
              used |-> IF t = "sick" THEN count ELSE 0]]
        /\ UNCHANGED <<entry, credit>>
    BY <1>5 DEF CreateRequest
  <2>2. /\ request'[q].used = IF request'[q].status = "approved" THEN Cardinality(request'[q].weeks) ELSE 0
        /\ \A o \in Requests \ {q} : request'[o] = request[o]
    BY <1>1, <2>1
  <2>3. QED BY <2>1, <2>2, RequestsAccounted
<1>6. ASSUME NEW q \in Requests,
             ApproveRequest(q) \/ DenyRequest(q) \/ RevokeRequest(q) \/ WithdrawRequest(q)
      PROVE  LeaveAccounted'
  <2> DEFINE count == Cardinality(request[q].weeks)
  <2>1. count \in Nat
    BY <1>1, WeeksAreFinite DEF Request
  <2>2. request[q].used = IF request[q].status = "approved" THEN count ELSE 0
    BY <1>1 DEF LeaveAccounted
  <2>3. UNCHANGED <<entry, credit>>
    BY <1>6 DEF ApproveRequest, DenyRequest, RevokeRequest, WithdrawRequest
  <2>4. /\ \A o \in Requests \ {q} : request'[o] = request[o]
        /\ request'[q].weeks = request[q].weeks
        /\ request'[q].used = IF request'[q].status = "approved" THEN count ELSE 0
    <3>1. CASE ApproveRequest(q)
      <4>1. /\ request[q].status = "pending"
            /\ request' = [request EXCEPT ![q].status = "approved", ![q].used = request[q].used + count]
        BY <3>1 DEF ApproveRequest
      <4>2. request[q].used + count = count
        BY <2>1, <2>2, <4>1
      <4> HIDE DEF count
      <4>3. QED BY <1>1, <4>1, <4>2 DEF Request
    <3>2. CASE RevokeRequest(q)
      <4>1. /\ request[q].status = "approved"
            /\ request' = [request EXCEPT ![q].status = "cancelled", ![q].used = request[q].used - count]
        BY <3>2 DEF RevokeRequest
      <4>2. request[q].used - count = 0
        BY <2>1, <2>2, <4>1
      <4> HIDE DEF count
      <4>3. QED BY <1>1, <4>1, <4>2 DEF Request
    <3>3. CASE DenyRequest(q)
      BY <1>1, <2>2, <3>3 DEF DenyRequest, Request
    <3>4. CASE WithdrawRequest(q)
      BY <1>1, <2>2, <3>4 DEF WithdrawRequest, Request
    <3>5. QED BY <1>6, <3>1, <3>2, <3>3, <3>4
  <2>5. QED BY <2>3, <2>4, RequestsAccounted
<1>7. CASE UNCHANGED <<entry, credit, request>>
  BY <1>1, <1>7 DEF LeaveAccounted
<1>8. QED BY <1>2, <1>3, <1>4, <1>5, <1>6, <1>7 DEF Change, SetPayrollRate, Terminate, Reinstate, EndWeek

\* They keep what the registers pay too.
LEMMA ChangeWork ==
  ASSUME WInv, Change
  PROVE  RegistersCount' /\ PreparationCounts' /\ Booked'
<1>1. UNCHANGED <<run, job, accrued>>
  BY DEF Change, AddEntry, CorrectEntry, ApproveEntry, SetPayrollRate, Terminate, Reinstate,
    CreateRequest, ApproveRequest, DenyRequest, RevokeRequest, WithdrawRequest, EndWeek
<1>2. ASSUME NEW e \in Entries, NEW w \in Week, NEW h \in Hours[e],
             AddEntry(e, w, h) \/ CorrectEntry(e, w, h)
      PROVE  RegistersCount' /\ PreparationCounts' /\ Booked'
  <2>1. \A d \in Entries \ {e} : entry'[d] = entry[d]
    BY <1>2 DEF AddEntry, CorrectEntry, WInv, RInv, IInv, Shapes
  <2>2. ~ Payrolled(e)
    BY <1>2 DEF AddEntry, CorrectEntry, Payrolled, WInv, RInv, IInv, EntriesStand
  <2>3. job.stage = "none" \/ e \notin DOMAIN job.lines
    BY <1>2 DEF AddEntry, CorrectEntry, EntryLocked, WInv, RInv, IInv, PreparationHolds
  <2>4. QED BY <1>1, <2>1, <2>2, <2>3, EntriesWork
<1>3. ASSUME NEW e \in Entries, ApproveEntry(e)
      PROVE  RegistersCount' /\ PreparationCounts' /\ Booked'
  <2>1. \A d \in Entries : entry'[d].hours = entry[d].hours
    BY <1>3 DEF ApproveEntry, WInv, RInv, IInv, Shapes
  <2>2. QED BY <1>1, <2>1, EntriesWork
<1>4. CASE UNCHANGED entry
  BY <1>1, <1>4, EntriesWork
<1>5. QED BY <1>2, <1>3, <1>4 DEF Change, SetPayrollRate, Terminate, Reinstate,
    CreateRequest, ApproveRequest, DenyRequest, RevokeRequest, WithdrawRequest, EndWeek

LEMMA StepColumns ==
  ASSUME WInv, Register \/ Change
  PROVE  Columns'
<1>1. credit = [e \in Own |-> credit[e]] /\ (\A w \in Week : rate[w] \in Int) /\ DOMAIN rate = Week
  BY DEF WInv, RInv, RateShapes, Columns
<1>2. ASSUME NEW w \in RateWeeks, NEW hourly \in Rates, SetPayrollRate(w, hourly)
      PROVE  Columns'
  BY <1>1, <1>2, PayrollAssumption DEF SetPayrollRate, Columns, RInv, WInv, RateShapes
<1>3. ASSUME NEW e \in Entries,
             (\E w \in Week, h \in Hours[e] : AddEntry(e, w, h) \/ CorrectEntry(e, w, h)) \/ ApproveEntry(e)
      PROVE  Columns'
  <2>1. rate' = rate
    BY <1>3 DEF AddEntry, CorrectEntry, ApproveEntry
  <2>2. credit' = [d \in Own |-> credit'[d]]
    <3>1. credit' = credit \/ \E row : credit' = [credit EXCEPT ![e] = row]
      BY <1>3 DEF AddEntry, CorrectEntry, ApproveEntry
    <3>2. QED BY <1>1, <3>1
  <2>3. QED BY <1>1, <2>1, <2>2 DEF Columns
<1>4. CASE UNCHANGED <<credit, rate>>
  BY <1>1, <1>4 DEF Columns
<1>5. CASE Register
  BY <1>4, <1>5 DEF Register, PrepareTime, PrepareLeave, PrepareWrite, Abandon, Approve, Post, Void, inputs
<1>6. CASE Change
  BY <1>2, <1>3, <1>4, <1>6 DEF Change, Terminate, Reinstate,
    CreateRequest, ApproveRequest, DenyRequest, RevokeRequest, WithdrawRequest, EndWeek
<1>7. QED BY <1>5, <1>6

LEMMA StepWInv == WInv /\ [Next]_vars => WInv'
<1> SUFFICES ASSUME WInv, [Next]_vars PROVE WInv'
  OBVIOUS
<1>1. RInv'
  BY StepRInv DEF WInv
<1>2. CASE Register
  <2>1. LeaveAccounted'
    BY <1>2 DEF Register, PrepareTime, PrepareLeave, PrepareWrite, Abandon, Approve, Post, Void, inputs,
      WInv, LeaveAccounted
  <2>2. QED BY <1>1, <1>2, <2>1, RegisterWork, StepColumns DEF WInv
<1>3. CASE Change
  BY <1>1, <1>3, ChangeWork, ChangeAccounts, StepColumns DEF WInv
<1>4. CASE UNCHANGED vars
  <2>1. UNCHANGED <<run, job, accrued, entry, credit, rate, request>>
    BY <1>4 DEF vars
  <2>2. LeaveAccounted' /\ Columns'
    BY <2>1 DEF WInv, LeaveAccounted, Columns
  <2>3. QED BY <1>1, <2>1, <2>2, EntriesWork DEF WInv
<1>5. QED BY <1>2, <1>3, <1>4 DEF Next

\* What was worked is accounted for: a register pays the hours of its entries, the leave
\* earned and used is that of the approved entries and requests, and the wages in the
\* books are those of the posted registers, for any number of them.
THEOREM WorkAlwaysAccounted == Spec => []WorkAccounted
<1>1. Init => WInv
  BY InitIInv, InitRates, InitWork DEF WInv, RInv
<1>2. WInv => WorkAccounted
  BY DEF WInv, RInv, IInv, EntriesStand, RegistersCount, Pays, Booked, HoursStand, WorkAccounted
<1>3. QED BY <1>1, <1>2, StepWInv, PTL DEF Spec

---------------------------------------------------------------------------
(* The time entries that payroll counts (EmployeeTime).                     *)

\* An entry by itself. One that is clocked out at once lasts until after now.
EntryGood(e) ==
  /\ e.status = "open" => e.out = None /\ e.in <= clock
  /\ e.status \in {"submitted", "approved", "returned"} =>
       /\ e.out # None /\ e.in < e.out /\ (e.out <= clock + Ahead \/ e.out <= clock + 1)
       /\ Clock!BreaksFit(e)

Slack == IF Ahead < 2 THEN 0 ELSE Ahead - 2

\* Two entries. Next to an open one there is no other open one, and none begins
\* within its first second; one that begins later ends soon.
PairGood(a, b) ==
  /\ a.status = "open" /\ b.status # "absent" =>
       /\ b.status # "open"
       /\ b.out <= a.in \/ (b.in >= a.in + 2 /\ b.out <= a.in + Ahead)
  /\ a.status \notin {"absent", "open"} /\ b.status \notin {"absent", "open"} =>
       \/ a.out - b.in <= Slack \/ b.out - a.in <= Slack
       \/ a.out - a.in <= Slack \/ b.out - b.in <= Slack

TimesHold ==
  /\ \A i \in Ids : EntryGood(times[i])
  /\ \A i, j \in Ids : i # j => PairGood(times[i], times[j])

\* Whoever writes an entry that is there has it locked, and what is reviewed is to be
\* reviewed.
TimesLocked ==
  \A c \in Clients :
    LET i == transaction[c].id IN
    /\ transaction[c].stage \in {"entry", "review", "reviewing"} => i \in Ids
    /\ transaction[c].stage \in {"entry", "review"} => timeLock[i] = c
    /\ transaction[c].stage = "review" => times[i].status \in {"submitted", "returned"}

TimesIInv == Clock!TypeOK /\ TimesHold /\ TimesLocked

---------------------------------------------------------------------------
\* The time between two times is a number of seconds.
LEMMA SecondsAreNatural ==
  ASSUME NEW a \in Nat, NEW b \in Nat
  PROVE  Clock!SecondsBetween(a, b) \in Nat
  BY DEF Clock!SecondsBetween

\* A transaction that ends releases its locks, and only its own.
LEMMA FinishLocks ==
  ASSUME ClockAssumption, Clock!TypeOK, TimesLocked, NEW c \in Clients, Clock!Finish(c), times' = times
  PROVE  TimesLocked'
  BY DEF ClockAssumption, Clock!TypeOK, TimesLocked, Clock!Finish, Clock!Idle, Clock!Request

\* And what it leaves has the types of before.
LEMMA FinishTyped ==
  ASSUME ClockAssumption, Clock!TypeOK, NEW c \in Clients, Clock!Finish(c)
  PROVE  /\ employeeLock' \in Clients \union {None}
         /\ timeLock' \in [Ids -> Clients \union {None}]
         /\ transaction' \in [Clients -> Clock!Request]
  BY DEF ClockAssumption, Clock!TypeOK, Clock!Finish, Clock!Idle, Clock!Request, Clock!Time

\* A transaction writes an entry that is new or that it has locked, and ends.
LEMMA WriteKeeps ==
  ASSUME ClockAssumption, TimesIInv, NEW c \in Clients, NEW i \in Ids, NEW row \in Clock!Entry,
         Clock!Write(c, i, row),
         times[i].status = "absent" \/ timeLock[i] = c,
         EntryGood(row),
         \A j \in Ids \ {i} : PairGood(row, times[j]) /\ PairGood(times[j], row)
  PROVE  TimesIInv'
<1>1. times' = [times EXCEPT ![i] = row] /\ Clock!Finish(c) /\ clock' = clock
  BY DEF Clock!Write
<1>2. Clock!TypeOK'
  BY <1>1, FinishTyped DEF TimesIInv, Clock!TypeOK
<1>3. \A j \in Ids : times'[j] = IF j = i THEN row ELSE times[j]
  BY <1>1 DEF TimesIInv, Clock!TypeOK
<1>4. TimesHold'
  <2>1. ASSUME NEW j \in Ids PROVE EntryGood(times[j])'
    <3>1. EntryGood(times'[j])
      BY <1>3 DEF TimesIInv, TimesHold
    <3>2. QED BY <1>1, <3>1 DEF EntryGood, Clock!BreaksFit, Clock!SecondsBetween
  <2>2. ASSUME NEW j \in Ids, NEW k \in Ids, j # k PROVE PairGood(times[j], times[k])'
    <3>1. PairGood(times'[j], times'[k])
      BY <1>3, <2>2 DEF TimesIInv, TimesHold
    <3>2. QED BY <3>1 DEF PairGood, Slack
  <2>3. QED BY <2>1, <2>2 DEF TimesHold
<1>5. TimesLocked'
  BY <1>1, <1>3 DEF ClockAssumption, TimesIInv, Clock!TypeOK, TimesLocked, Clock!Finish,
    Clock!Idle, Clock!Request
<1>6. QED BY <1>2, <1>4, <1>5 DEF TimesIInv

\* A time span that none of the entries overlaps is good next to all of them.
LEMMA NoOverlapGood ==
  ASSUME ClockAssumption, TimesIInv, NEW start \in Clock!Time, NEW end \in Clock!Time, start < end,
         NEW exclude \in SUBSET Ids, Clock!AssertNoOverlap(start, end, exclude),
         NEW row \in Clock!Entry, row.in = start, row.out = end, row.status \notin {"open", "absent"},
         NEW j \in Ids \ exclude
  PROVE  PairGood(row, times[j]) /\ PairGood(times[j], row)
<1>1. times[j] \in Clock!Entry /\ EntryGood(times[j])
  BY DEF TimesIInv, TimesHold, Clock!TypeOK
<1>2. times[j].in \in Nat /\ times[j].out \in Nat \union {None} /\ start \in Nat /\ end \in Nat
      /\ Slack \in Nat
  BY <1>1 DEF ClockAssumption, Clock!Entry, Clock!Time, Slack
<1>3. times[j].status = "absent" \/ times[j].in >= end
      \/ (times[j].out # None /\ times[j].out <= start)
  BY DEF Clock!AssertNoOverlap
<1>4. times[j].status \in {"absent", "open", "submitted", "approved", "returned"}
  BY <1>1 DEF Clock!Entry
<1>5. CASE times[j].status = "absent"
  BY <1>5 DEF PairGood
<1>6. CASE times[j].status = "open"
  BY <1>1, <1>2, <1>3, <1>6 DEF PairGood, EntryGood, ClockAssumption
<1>7. CASE times[j].status \notin {"absent", "open"}
  BY <1>1, <1>2, <1>3, <1>4, <1>7 DEF PairGood, EntryGood
<1>8. QED BY <1>5, <1>6, <1>7

---------------------------------------------------------------------------
\* In the beginning there are no entries.
LEMMA TimesInit == ASSUME ClockAssumption, Clock!Init PROVE TimesIInv
  BY DEF ClockAssumption, Clock!Init, TimesIInv, Clock!TypeOK, TimesHold, TimesLocked, EntryGood, PairGood,
         Clock!NoEntry, Clock!Entry, Clock!Time, Clock!Idle, Clock!Request

\* An employee clocks in: nothing is open, and nothing covers the first second.
LEMMA ClockInKeeps ==
  ASSUME ClockAssumption, TimesIInv, NEW c \in Clients, Clock!ClockIn(c)
  PROVE  TimesIInv'
<1> DEFINE row == [Clock!NoEntry EXCEPT !.status = "open", !.in = clock]
<1>1. PICK i \in Ids : times[i].status = "absent" /\ Clock!Write(c, i, row)
  BY DEF Clock!ClockIn
<1>2. clock \in Nat /\ clock \in Clock!Time
  BY DEF ClockAssumption, TimesIInv, Clock!TypeOK, Clock!Time
<1>3. row \in Clock!Entry /\ row.status = "open" /\ row.in = clock /\ row.out = None
  BY <1>2 DEF ClockAssumption, Clock!NoEntry, Clock!Entry, Clock!Time
<1> HIDE DEF row
<1>4. EntryGood(row)
  BY <1>2, <1>3 DEF EntryGood
<1>5. ASSUME NEW j \in Ids \ {i} PROVE PairGood(row, times[j]) /\ PairGood(times[j], row)
  <2>1. times[j] \in Clock!Entry /\ EntryGood(times[j]) /\ times[j].status # "open"
    BY DEF TimesIInv, TimesHold, Clock!TypeOK, Clock!ClockIn, Clock!Open
  <2>2. times[j].status = "absent" \/ times[j].in >= clock + 2
        \/ (times[j].out # None /\ times[j].out <= clock)
    BY DEF Clock!ClockIn, Clock!AssertNoOverlap
  <2>3. times[j].in \in Nat /\ times[j].out \in Nat \union {None}
    BY <2>1 DEF ClockAssumption, Clock!Entry, Clock!Time
  <2>4. times[j].status \in {"absent", "open", "submitted", "approved", "returned"}
    BY <2>1 DEF Clock!Entry
  <2>5. QED BY <1>2, <1>3, <2>1, <2>2, <2>3, <2>4 DEF PairGood, EntryGood, ClockAssumption
<1>6. QED BY <1>1, <1>3, <1>4, <1>5, WriteKeeps

\* A manager enters a time span.
LEMMA ManualEntryKeeps ==
  ASSUME ClockAssumption, TimesIInv, NEW c \in Clients, Clock!ManualEntry(c)
  PROVE  TimesIInv'
<1>1. PICK i \in Ids, start \in Clock!Time, end \in Clock!Time, unpaid \in Breaks, paid \in Breaks :
        /\ Clock!ValidCorrection(start, end, unpaid, paid)
        /\ Clock!AssertNoOverlap(start, end, {})
        /\ times[i].status = "absent"
        /\ Clock!Write(c, i, [Clock!NoEntry EXCEPT !.status = "submitted", !.in = start, !.out = end,
                                !.paidSeconds = paid, !.unpaidSeconds = unpaid])
  BY DEF Clock!ManualEntry
<1> DEFINE row == [Clock!NoEntry EXCEPT !.status = "submitted", !.in = start, !.out = end,
                     !.paidSeconds = paid, !.unpaidSeconds = unpaid]
<1>2. /\ row \in Clock!Entry /\ row.status = "submitted" /\ row.in = start /\ row.out = end
      /\ row.paidSeconds = paid /\ row.unpaidSeconds = unpaid
  BY DEF ClockAssumption, Clock!NoEntry, Clock!Entry, Clock!Time
<1>3. Clock!Write(c, i, row)
  BY <1>1
<1> HIDE DEF row
<1>4. start \in Nat /\ end \in Nat /\ clock \in Nat /\ unpaid \in Nat /\ paid \in Nat
  BY DEF ClockAssumption, Clock!Time, TimesIInv, Clock!TypeOK
<1>5. start < end /\ EntryGood(row)
  <2>1. start < end /\ end <= clock + Ahead /\ unpaid + paid <= Clock!SecondsBetween(start, end)
    BY <1>1 DEF Clock!ValidCorrection
  <2>2. QED BY <1>2, <1>4, <2>1 DEF EntryGood, Clock!BreaksFit, ClockAssumption
<1>6. ASSUME NEW j \in Ids \ {i} PROVE PairGood(row, times[j]) /\ PairGood(times[j], row)
  BY <1>1, <1>2, <1>5, NoOverlapGood
<1>7. QED BY <1>1, <1>2, <1>3, <1>5, <1>6, WriteKeeps

\* An open entry that keeps its beginning and stays open is as good as before.
LEMMA OpenStays ==
  ASSUME ClockAssumption, TimesIInv, NEW c \in Clients, NEW i \in Ids, timeLock[i] = c, Clock!Open(i),
         NEW row \in Clock!Entry, row.status = "open", row.in = times[i].in, row.out = None,
         Clock!Write(c, i, row)
  PROVE  TimesIInv'
<1>1. EntryGood(row)
  BY DEF TimesIInv, TimesHold, EntryGood, Clock!Open
<1>2. ASSUME NEW j \in Ids \ {i} PROVE PairGood(row, times[j]) /\ PairGood(times[j], row)
  <2>1. PairGood(times[i], times[j]) /\ PairGood(times[j], times[i]) /\ times[j] \in Clock!Entry
    BY DEF TimesIInv, TimesHold, Clock!TypeOK
  <2>2. QED BY <2>1 DEF PairGood, Clock!Open, Clock!Entry
<1>3. QED BY <1>1, <1>2, WriteKeeps

\* The breaks that an entry has had, once its break has ended.
LEMMA WithBreakTyped ==
  ASSUME ClockAssumption, NEW e \in Clock!Entry, NEW end \in Clock!Time
  PROVE  LET row == Clock!WithBreak(e, end) IN
         /\ row \in Clock!Entry
         /\ row.status = e.status /\ row.in = e.in /\ row.out = e.out
<1> DEFINE seconds == IF e.break = None THEN 0 ELSE Clock!SecondsBetween(e.break, end)
<1>1. e.break \in Nat \union {None} /\ end \in Nat
  BY DEF ClockAssumption, Clock!Entry, Clock!Time
<1>2. seconds \in Nat
  BY <1>1, SecondsAreNatural
<1>3. e.paidSeconds \in Nat /\ e.unpaidSeconds \in Nat
  BY DEF Clock!Entry
<1> HIDE DEF seconds
<1>4. e.paidSeconds + (IF e.paid THEN seconds ELSE 0) \in Nat
      /\ e.unpaidSeconds + (IF e.paid THEN 0 ELSE seconds) \in Nat
  BY <1>2, <1>3
<1>5. Clock!WithBreak(e, end) =
        [e EXCEPT !.break = None, !.paid = FALSE,
                  !.paidSeconds = e.paidSeconds + (IF e.paid THEN seconds ELSE 0),
                  !.unpaidSeconds = e.unpaidSeconds + (IF e.paid THEN 0 ELSE seconds)]
  BY DEF Clock!WithBreak, seconds, Clock!Entry
<1>6. QED BY <1>4, <1>5 DEF Clock!Entry

\* A break begins.
LEMMA StartBreakKeeps ==
  ASSUME ClockAssumption, TimesIInv, NEW c \in Clients, Clock!StartBreak(c)
  PROVE  TimesIInv'
<1> DEFINE i == transaction[c].id
<1>1. i \in Ids /\ timeLock[i] = c /\ Clock!Open(i) /\ times[i] \in Clock!Entry
  BY DEF Clock!StartBreak, TimesIInv, TimesLocked, Clock!TypeOK
<1>2. PICK paid \in BOOLEAN : Clock!Write(c, i, [times[i] EXCEPT !.break = transaction[c].began, !.paid = paid])
  BY DEF Clock!StartBreak
<1> DEFINE row == [times[i] EXCEPT !.break = transaction[c].began, !.paid = paid]
<1>3. row \in Clock!Entry /\ row.status = times[i].status /\ row.in = times[i].in /\ row.out = times[i].out
  BY <1>1 DEF TimesIInv, Clock!TypeOK, Clock!Entry, Clock!Request
<1>4. row.status = "open" /\ row.out = None
  BY <1>1, <1>3 DEF Clock!Open, TimesIInv, TimesHold, EntryGood
<1> HIDE DEF row, i
<1>5. Clock!Write(c, i, row)
  BY <1>2 DEF row
<1>6. QED BY <1>1, <1>3, <1>4, <1>5, OpenStays

\* A break ends.
LEMMA EndBreakKeeps ==
  ASSUME ClockAssumption, TimesIInv, NEW c \in Clients, Clock!EndBreak(c)
  PROVE  TimesIInv'
<1> DEFINE i == transaction[c].id
           row == Clock!WithBreak(times[i], clock)
<1>1. i \in Ids /\ timeLock[i] = c /\ Clock!Open(i) /\ times[i] \in Clock!Entry /\ clock \in Clock!Time
  BY DEF Clock!EndBreak, TimesIInv, TimesLocked, Clock!TypeOK, ClockAssumption, Clock!Time
<1>2. Clock!Write(c, i, row)
  BY DEF Clock!EndBreak
<1>3. row \in Clock!Entry /\ row.status = times[i].status /\ row.in = times[i].in /\ row.out = times[i].out
  BY <1>1, WithBreakTyped
<1>4. row.status = "open" /\ row.out = None
  BY <1>1, <1>3 DEF Clock!Open, TimesIInv, TimesHold, EntryGood
<1> HIDE DEF row, i
<1>5. QED BY <1>1, <1>2, <1>3, <1>4, OpenStays

\* An employee clocks out: nothing is checked but the breaks, as nothing has come
\* close to the open entry meanwhile.
LEMMA ClockOutKeeps ==
  ASSUME ClockAssumption, TimesIInv, NEW c \in Clients, Clock!ClockOut(c)
  PROVE  TimesIInv'
<1> DEFINE i == transaction[c].id
           end == IF clock <= times[i].in THEN times[i].in + 1 ELSE clock
           ended == Clock!WithBreak(times[i], end)
           row == [ended EXCEPT !.out = end, !.status = "submitted"]
<1>1. i \in Ids /\ timeLock[i] = c /\ Clock!Open(i) /\ times[i] \in Clock!Entry /\ clock \in Nat
  BY DEF Clock!ClockOut, TimesIInv, TimesLocked, Clock!TypeOK
<1>2. Clock!Write(c, i, row) /\ end \in Clock!Time /\ Clock!BreaksFit(row)
  BY DEF Clock!ClockOut
<1>3. times[i].in \in Nat /\ times[i].in <= clock
  BY <1>1 DEF Clock!Open, TimesIInv, TimesHold, EntryGood, Clock!Entry, Clock!Time
<1>4. end \in Nat /\ times[i].in < end /\ end <= clock + 1
  BY <1>1, <1>3
<1>5. ended \in Clock!Entry /\ ended.in = times[i].in
  BY <1>1, <1>2, WithBreakTyped
<1> HIDE DEF ended, end, i
<1>6. row \in Clock!Entry /\ row.status = "submitted" /\ row.in = times[i].in /\ row.out = end
  BY <1>2, <1>5 DEF Clock!Entry
<1> HIDE DEF row
<1>7. EntryGood(row)
  BY <1>2, <1>4, <1>6 DEF EntryGood, ClockAssumption
<1>8. ASSUME NEW j \in Ids \ {i} PROVE PairGood(row, times[j]) /\ PairGood(times[j], row)
  <2>1. PairGood(times[i], times[j]) /\ times[j] \in Clock!Entry /\ EntryGood(times[j])
    BY <1>1 DEF TimesIInv, TimesHold, Clock!TypeOK
  <2>2. times[j].in \in Nat /\ times[j].out \in Nat \union {None} /\ Slack \in Nat /\ Ahead \in Nat
    BY <2>1 DEF ClockAssumption, Clock!Entry, Clock!Time, Slack
  <2>3. times[j].status \in {"absent", "submitted", "approved", "returned"}
    BY <1>1, <2>1 DEF Clock!Entry, PairGood, Clock!Open
  <2>4. CASE times[j].status = "absent"
    BY <2>4, <1>6 DEF PairGood
  <2>5. CASE times[j].status # "absent"
    <3>1. times[j].out \in Nat /\ times[j].in < times[j].out
      BY <2>1, <2>2, <2>3, <2>5 DEF EntryGood
    <3>2. times[j].out <= times[i].in \/ (times[j].in >= times[i].in + 2 /\ times[j].out <= times[i].in + Ahead)
      BY <1>1, <2>1, <2>5 DEF PairGood, Clock!Open
    <3>3. times[j].out - times[i].in <= Slack \/ times[j].out - times[j].in <= Slack
      BY <1>3, <2>2, <3>1, <3>2 DEF Slack
    <3>4. QED BY <1>6, <2>3, <2>5, <3>3 DEF PairGood
  <2>6. QED BY <2>4, <2>5
<1>9. QED BY <1>1, <1>2, <1>6, <1>7, <1>8, WriteKeeps

\* A manager sets the times of an entry.
LEMMA TimesSet ==
  ASSUME ClockAssumption, TimesIInv, NEW c \in Clients, NEW i \in Ids, timeLock[i] = c,
         NEW row \in Clock!Entry, row.status = "submitted",
         NEW start \in Clock!Time, NEW end \in Clock!Time, row.in = start, row.out = end,
         Clock!ValidCorrection(start, end, row.unpaidSeconds, row.paidSeconds),
         Clock!AssertNoOverlap(start, end, {i}),
         Clock!Write(c, i, row)
  PROVE  TimesIInv'
<1>1. start \in Nat /\ end \in Nat /\ clock \in Nat /\ row.unpaidSeconds \in Nat /\ row.paidSeconds \in Nat
  BY DEF ClockAssumption, Clock!Time, TimesIInv, Clock!TypeOK, Clock!Entry
<1>2. start < end /\ end <= clock + Ahead
      /\ row.unpaidSeconds + row.paidSeconds <= Clock!SecondsBetween(start, end)
  BY DEF Clock!ValidCorrection
<1>3. EntryGood(row)
  BY <1>1, <1>2 DEF EntryGood, Clock!BreaksFit, ClockAssumption
<1>4. ASSUME NEW j \in Ids \ {i} PROVE PairGood(row, times[j]) /\ PairGood(times[j], row)
  BY <1>2, NoOverlapGood
<1>5. QED BY <1>3, <1>4, WriteKeeps

\* A manager closes an open entry.
LEMMA ManagerCloseKeeps ==
  ASSUME ClockAssumption, TimesIInv, NEW c \in Clients, Clock!ManagerClose(c)
  PROVE  TimesIInv'
<1> DEFINE i == transaction[c].id
<1>1. i \in Ids /\ timeLock[i] = c /\ times[i] \in Clock!Entry
  BY DEF Clock!ManagerClose, TimesIInv, TimesLocked, Clock!TypeOK
<1>2. PICK start \in Clock!Time, end \in Clock!Time, given \in SUBSET {"unpaid", "paid"},
           unpaid \in Breaks, paid \in Breaks :
        LET ended == Clock!WithBreak(times[i], end)
            row == [ended EXCEPT !.in = start, !.out = end, !.status = "submitted",
                      !.unpaidSeconds = IF "unpaid" \in given THEN unpaid ELSE @,
                      !.paidSeconds = IF "paid" \in given THEN paid ELSE @]
        IN /\ times[i].break # None /\ end < times[i].break => given # {}
           /\ Clock!ValidCorrection(start, end, row.unpaidSeconds, row.paidSeconds)
           /\ Clock!AssertNoOverlap(start, end, {i})
           /\ Clock!Write(c, i, row)
  BY Zenon DEF Clock!ManagerClose
<1> DEFINE ended == Clock!WithBreak(times[i], end)
           row == [ended EXCEPT !.in = start, !.out = end, !.status = "submitted",
                     !.unpaidSeconds = IF "unpaid" \in given THEN unpaid ELSE @,
                     !.paidSeconds = IF "paid" \in given THEN paid ELSE @]
<1>3. ended \in Clock!Entry
  BY <1>1, WithBreakTyped
<1> HIDE DEF i
<1>4. row = [ended EXCEPT !.in = start, !.out = end, !.status = "submitted",
                !.unpaidSeconds = IF "unpaid" \in given THEN unpaid ELSE @,
                !.paidSeconds = IF "paid" \in given THEN paid ELSE @]
  OBVIOUS
<1>5. /\ Clock!ValidCorrection(start, end, row.unpaidSeconds, row.paidSeconds)
      /\ Clock!AssertNoOverlap(start, end, {i}) /\ Clock!Write(c, i, row)
  BY <1>2
<1> HIDE DEF ended, row
<1>6. row \in Clock!Entry /\ row.status = "submitted" /\ row.in = start /\ row.out = end
  BY <1>3, <1>4 DEF ClockAssumption, Clock!Entry
<1>7. QED BY <1>1, <1>5, <1>6, TimesSet

\* A manager corrects a closed entry.
LEMMA CorrectKeeps ==
  ASSUME ClockAssumption, TimesIInv, NEW c \in Clients, Clock!Correct(c)
  PROVE  TimesIInv'
<1> DEFINE i == transaction[c].id
<1>1. i \in Ids /\ timeLock[i] = c /\ times[i] \in Clock!Entry
  BY DEF Clock!Correct, TimesIInv, TimesLocked, Clock!TypeOK
<1>2. PICK start \in Clock!Time, end \in Clock!Time, unpaid \in Breaks \union {times[i].unpaidSeconds},
           paid \in Breaks \union {times[i].paidSeconds} :
        /\ Clock!ValidCorrection(start, end, unpaid, paid)
        /\ Clock!AssertNoOverlap(start, end, {i})
        /\ Clock!Write(c, i, [times[i] EXCEPT !.in = start, !.out = end, !.status = "submitted",
                                !.unpaidSeconds = unpaid, !.paidSeconds = paid])
  BY DEF Clock!Correct
<1> DEFINE row == [times[i] EXCEPT !.in = start, !.out = end, !.status = "submitted",
                     !.unpaidSeconds = unpaid, !.paidSeconds = paid]
<1>3. /\ row \in Clock!Entry /\ row.status = "submitted" /\ row.in = start /\ row.out = end
      /\ row.unpaidSeconds = unpaid /\ row.paidSeconds = paid
  BY <1>1 DEF ClockAssumption, Clock!Entry
<1> HIDE DEF i
<1>4. Clock!Write(c, i, row)
  BY <1>2
<1> HIDE DEF row
<1>5. QED BY <1>1, <1>2, <1>3, <1>4, TimesSet

\* A review changes the status only.
LEMMA ReviewKeeps ==
  ASSUME ClockAssumption, TimesIInv, NEW c \in Clients, Clock!Review(c)
  PROVE  TimesIInv'
<1> DEFINE i == transaction[c].id
<1>1. i \in Ids /\ timeLock[i] = c /\ times[i] \in Clock!Entry /\ times[i].status \in {"submitted", "returned"}
  BY DEF Clock!Review, TimesIInv, TimesLocked, Clock!TypeOK
<1>2. PICK decision \in {"approved", "returned"} : Clock!Write(c, i, [times[i] EXCEPT !.status = decision])
  BY DEF Clock!Review
<1> DEFINE row == [times[i] EXCEPT !.status = decision]
<1>3. /\ row \in Clock!Entry /\ row.status \in {"approved", "returned"} /\ row.in = times[i].in
      /\ row.out = times[i].out /\ row.paidSeconds = times[i].paidSeconds
      /\ row.unpaidSeconds = times[i].unpaidSeconds
  BY <1>1 DEF Clock!Entry
<1> HIDE DEF i, row
<1>4. EntryGood(row)
  BY <1>1, <1>3 DEF TimesIInv, TimesHold, EntryGood, Clock!BreaksFit
<1>5. ASSUME NEW j \in Ids \ {i} PROVE PairGood(row, times[j]) /\ PairGood(times[j], row)
  <2>1. PairGood(times[i], times[j]) /\ PairGood(times[j], times[i]) /\ times[j] \in Clock!Entry
    BY <1>1 DEF TimesIInv, TimesHold, Clock!TypeOK
  <2>2. QED BY <1>1, <1>3, <2>1 DEF PairGood, Clock!Entry
<1>6. QED BY <1>1, <1>2, <1>3, <1>4, <1>5, WriteKeeps DEF row

---------------------------------------------------------------------------
\* What changes no entry leaves the entries good, later too.
LEMMA UnwrittenHolds ==
  ASSUME ClockAssumption, Clock!TypeOK, TimesHold, times' = times, clock' \in Nat, clock <= clock'
  PROVE  TimesHold'
<1>1. clock \in Nat
  BY DEF Clock!TypeOK
<1>2. ASSUME NEW i \in Ids PROVE EntryGood(times[i])'
  <2>1. EntryGood(times[i]) /\ times[i].in \in Nat /\ times[i].out \in Nat \union {None}
    BY DEF TimesHold, Clock!TypeOK, Clock!Entry, Clock!Time, ClockAssumption
  <2>2. QED BY <1>1, <2>1 DEF EntryGood, ClockAssumption, Clock!BreaksFit, Clock!SecondsBetween
<1>3. ASSUME NEW i \in Ids, NEW j \in Ids, i # j PROVE PairGood(times[i], times[j])'
  BY <1>3 DEF TimesHold, PairGood, Slack
<1>4. QED BY <1>2, <1>3 DEF TimesHold

\* Beginning, and waiting for locks and getting them.
LEMMA LockStepsKeep ==
  ASSUME ClockAssumption, TimesIInv, NEW c \in Clients, UNCHANGED <<clock, times>>,
         Clock!Begin(c) \/ Clock!Lock(c) \/ \E i \in Ids : Clock!BeginReview(c, i) \/ Clock!ChooseEntry(c, i)
  PROVE  TimesIInv'
<1>1. TimesHold'
  BY UnwrittenHolds DEF TimesIInv, Clock!TypeOK
<1>2. CASE Clock!Begin(c)
  <2>1. clock \in Clock!Time
    BY DEF ClockAssumption, TimesIInv, Clock!TypeOK, Clock!Time
  <2>2. [stage |-> "begun", id |-> None, began |-> clock] \in Clock!Request
    BY <2>1 DEF Clock!Request
  <2>3. Clock!TypeOK' /\ TimesLocked'
    BY <1>2, <2>2 DEF Clock!Begin, TimesIInv, TimesLocked, Clock!TypeOK
  <2>4. QED BY <1>1, <2>3 DEF TimesIInv
<1>3. ASSUME NEW i \in Ids, Clock!BeginReview(c, i) PROVE TimesIInv'
  <2> DEFINE begun == [stage |-> "reviewing", id |-> i, began |-> 0]
  <2>1. begun \in Clock!Request
    BY DEF ClockAssumption, Clock!Time, Clock!Request
  <2>2. transaction' = [transaction EXCEPT ![c] = begun] /\ UNCHANGED <<clock, times, employeeLock, timeLock>>
    BY <1>3 DEF Clock!BeginReview
  <2>3. Clock!TypeOK' /\ TimesLocked'
    BY <1>3, <2>1, <2>2 DEF TimesIInv, TimesLocked, Clock!TypeOK
  <2>4. QED BY <1>1, <2>3 DEF TimesIInv
<1>4. ASSUME NEW i \in Ids, Clock!ChooseEntry(c, i) PROVE TimesIInv'
  BY <1>1, <1>4 DEF Clock!ChooseEntry, TimesIInv, TimesLocked, Clock!TypeOK, Clock!Request
<1>5. CASE Clock!LockEmployee(c)
  BY <1>1, <1>5 DEF Clock!LockEmployee, TimesIInv, TimesLocked, Clock!TypeOK, Clock!Request
<1>6. CASE Clock!LockEntry(c)
  BY <1>1, <1>6 DEF ClockAssumption, Clock!LockEntry, TimesIInv, TimesLocked, Clock!TypeOK, Clock!Request
<1>7. CASE Clock!LockForReview(c)
  <2>1. UNCHANGED <<clock, times, employeeLock>>
    BY <1>7 DEF Clock!LockForReview
  <2>2. Clock!TypeOK'
    BY <1>7, <2>1 DEF ClockAssumption, Clock!LockForReview, TimesIInv, TimesLocked, Clock!TypeOK,
      Clock!Request, Clock!Idle, Clock!Time
  <2>3. TimesLocked'
    BY <1>7, <2>1 DEF ClockAssumption, Clock!LockForReview, TimesIInv, TimesLocked, Clock!TypeOK,
      Clock!Request, Clock!Idle
  <2>4. QED BY <1>1, <2>2, <2>3 DEF TimesIInv
<1>8. QED BY <1>2, <1>3, <1>4, <1>5, <1>6, <1>7 DEF Clock!Lock

\* Every step preserves the inductive invariant.
LEMMA TimesStep ==
  ASSUME ClockAssumption, TimesIInv, [Clock!Next]_(Clock!vars)
  PROVE  TimesIInv'
<1>1. CASE UNCHANGED Clock!vars
  BY <1>1 DEF Clock!vars, TimesIInv, Clock!TypeOK, TimesHold, TimesLocked, EntryGood, PairGood, Slack,
              Clock!BreaksFit, Clock!SecondsBetween
<1>2. CASE Clock!Tick
  <2>1. clock' \in Nat /\ clock <= clock' /\ clock' \in 0 .. MaxTime
    BY <1>2 DEF Clock!Tick, ClockAssumption, TimesIInv, Clock!TypeOK
  <2>2. UNCHANGED <<times, employeeLock, timeLock, transaction>>
    BY <1>2 DEF Clock!Tick
  <2>3. TimesHold'
    BY <2>1, <2>2, UnwrittenHolds DEF TimesIInv
  <2>4. QED BY <2>1, <2>2, <2>3 DEF TimesIInv, Clock!TypeOK, TimesLocked
<1>3. ASSUME NEW c \in Clients, Clock!Commit(c) PROVE TimesIInv'
  BY <1>3, ClockInKeeps, ManualEntryKeeps, StartBreakKeeps, EndBreakKeeps, ClockOutKeeps, ManagerCloseKeeps,
     CorrectKeeps, ReviewKeeps
  DEF Clock!Commit
<1>4. ASSUME NEW c \in Clients, Clock!Abandon(c) \/ Clock!AbortDeadlock(c) PROVE TimesIInv'
  <2>1. Clock!Finish(c) /\ UNCHANGED <<clock, times>>
    BY <1>4 DEF Clock!Abandon, Clock!AbortDeadlock
  <2>2. TimesHold'
    BY <2>1, UnwrittenHolds DEF TimesIInv, Clock!TypeOK
  <2>3. QED BY <2>1, <2>2, FinishLocks, FinishTyped DEF TimesIInv, Clock!TypeOK
<1>5. ASSUME NEW c \in Clients,
             Clock!Begin(c) \/ Clock!Lock(c) \/ \E i \in Ids : Clock!BeginReview(c, i) \/ Clock!ChooseEntry(c, i)
      PROVE  TimesIInv'
  <2>1. UNCHANGED <<clock, times>>
    BY <1>5 DEF Clock!Begin, Clock!Lock, Clock!LockEmployee, Clock!LockEntry, Clock!LockForReview,
                Clock!BeginReview, Clock!ChooseEntry
  <2>2. QED BY <1>5, <2>1, LockStepsKeep
<1>6. QED BY <1>1, <1>2, <1>3, <1>4, <1>5 DEF Clock!Next, Clock!Proceed

\* The inductive invariant holds throughout.
\* The transactions on entries, whether they go on or not
ClockSteps == Clock!Init /\ [][Clock!Next]_(Clock!vars)

LEMMA TimesInvariance == ClockSteps => []TimesIInv
<1>1. ClockAssumption
  BY AttendanceAssumption
<1>2. TimesIInv /\ [Clock!Next]_(Clock!vars) => TimesIInv'
  BY <1>1, TimesStep
<1>3. QED BY <1>1, <1>2, TimesInit, PTL DEF ClockSteps

---------------------------------------------------------------------------
\* No two entries of an employee share more time than an entry may reach ahead, and
\* breaks fit into their entries, whatever the order of clocking and correcting.
THEOREM TimesAlwaysFit == ClockSteps => []TimesFit
<1> USE AttendanceAssumption
<1>1. ASSUME TimesIInv PROVE Clock!OverlapBounded
  <2> SUFFICES ASSUME NEW i \in Ids, NEW j \in Ids, i # j, Clock!Entered(i), Clock!Entered(j)
               PROVE  Clock!Shared(i, j) <= Slack
    BY DEF Clock!OverlapBounded, Slack
  <2>1. /\ EntryGood(times[i]) /\ EntryGood(times[j])
        /\ PairGood(times[i], times[j]) /\ PairGood(times[j], times[i])
        /\ times[i] \in Clock!Entry /\ times[j] \in Clock!Entry /\ clock \in Nat
    BY <1>1 DEF TimesIInv, TimesHold, Clock!TypeOK
  <2>2. /\ times[i].in \in Nat /\ times[j].in \in Nat /\ Slack \in Nat /\ Ahead \in Nat
        /\ times[i].out \in Nat \union {None} /\ times[j].out \in Nat \union {None}
        /\ times[i].status \in {"open", "submitted", "approved", "returned"}
        /\ times[j].status \in {"open", "submitted", "approved", "returned"}
    BY <2>1 DEF Clock!Entry, Clock!Time, ClockAssumption, Slack, Clock!Entered
  <2>3. CASE times[i].status = "open"
    <3>1. times[i].out = None /\ times[j].status # "open" /\ times[j].out \in Nat /\ times[j].in < times[j].out
      BY <2>1, <2>2, <2>3 DEF EntryGood, PairGood
    <3>2. times[j].out <= times[i].in \/ times[j].out - times[j].in <= Slack
      BY <2>1, <2>2, <2>3, <3>1 DEF PairGood, Slack
    <3>3. times[j].out # None
      BY <3>1 DEF ClockAssumption
    <3>4. QED BY <2>1, <2>2, <3>1, <3>2, <3>3 DEF Clock!Shared, Clock!LastsTo
  <2>4. CASE times[j].status = "open"
    <3>1. times[j].out = None /\ times[i].status # "open" /\ times[i].out \in Nat /\ times[i].in < times[i].out
      BY <2>1, <2>2, <2>4 DEF EntryGood, PairGood
    <3>2. times[i].out <= times[j].in \/ times[i].out - times[i].in <= Slack
      BY <2>1, <2>2, <2>4, <3>1 DEF PairGood, Slack
    <3>3. times[i].out # None
      BY <3>1 DEF ClockAssumption
    <3>4. QED BY <2>1, <2>2, <3>1, <3>2, <3>3 DEF Clock!Shared, Clock!LastsTo
  <2>5. CASE times[i].status # "open" /\ times[j].status # "open"
    <3>1. /\ times[i].out # None /\ times[j].out # None
          /\ times[i].out - times[j].in <= Slack \/ times[j].out - times[i].in <= Slack
             \/ times[i].out - times[i].in <= Slack \/ times[j].out - times[j].in <= Slack
      BY <2>1, <2>2, <2>5 DEF EntryGood, PairGood
    <3>2. QED BY <2>2, <3>1 DEF Clock!Shared, Clock!LastsTo
  <2>6. QED BY <2>3, <2>4, <2>5
<1>2. ASSUME TimesIInv PROVE Clock!ClosedBreaksFit
  BY <1>2 DEF TimesIInv, TimesHold, EntryGood, Clock!ClosedBreaksFit, Clock!Closed
<1>3. TimesIInv => TimesFit
  BY <1>1, <1>2 DEF TimesFit, Clock!TimesFit
<1>4. QED BY <1>3, TimesInvariance, PTL

\* An approved entry stays as it was approved, as whoever reviews an entry has had
\* it locked since it was found to be reviewed.
THEOREM ApprovedStays == ClockSteps => ApprovedAsReviewed
<1> USE AttendanceAssumption
<1> DEFINE Stays == \A i \in Ids : times[i].status = "approved" /\ times'[i].status = "approved" => times'[i] = times[i]
<1>1. ASSUME TimesIInv, [Clock!Next]_(Clock!vars) PROVE [Stays]_(Clock!vars)
  <2> SUFFICES ASSUME Clock!Next PROVE Stays
    BY <1>1
  <2>1. \/ times' = times
        \/ \E i \in Ids : /\ \/ times[i].status \in {"absent", "open", "submitted", "returned"}
                             \/ times'[i].status # "approved"
                          /\ \A j \in Ids \ {i} : times'[j] = times[j]
    <3>1. CASE Clock!Tick
      BY <3>1 DEF Clock!Tick
    <3>2. ASSUME NEW c \in Clients,
                 Clock!Abandon(c) \/ Clock!AbortDeadlock(c) \/ Clock!Begin(c) \/ Clock!Lock(c)
                 \/ \E i \in Ids : Clock!BeginReview(c, i) \/ Clock!ChooseEntry(c, i)
          PROVE  times' = times
      BY <3>2 DEF Clock!Abandon, Clock!AbortDeadlock, Clock!Begin, Clock!Lock,
        Clock!LockEmployee, Clock!LockEntry,
                  Clock!LockForReview, Clock!BeginReview, Clock!ChooseEntry
    <3>3. ASSUME NEW c \in Clients, NEW i \in Ids, NEW row, Clock!Write(c, i, row)
          PROVE  times'[i] = row /\ \A j \in Ids \ {i} : times'[j] = times[j]
      BY <1>1, <3>3 DEF Clock!Write, TimesIInv, Clock!TypeOK
    <3>4. ASSUME NEW c \in Clients, Clock!ClockIn(c) \/ Clock!ManualEntry(c)
          PROVE  \E i \in Ids : times[i].status = "absent" /\ \E row : Clock!Write(c, i, row)
      BY <3>4 DEF Clock!ClockIn, Clock!ManualEntry
    <3>5. ASSUME NEW c \in Clients,
                 Clock!StartBreak(c) \/ Clock!EndBreak(c) \/ Clock!ClockOut(c) \/ Clock!ManagerClose(c)
          PROVE  \E i \in Ids : times[i].status = "open" /\ \E row : Clock!Write(c, i, row)
      <4>1. transaction[c].id \in Ids /\ times[transaction[c].id].status = "open"
        BY <1>1, <3>5 DEF Clock!StartBreak, Clock!EndBreak, Clock!ClockOut, Clock!ManagerClose, Clock!Open,
                          TimesIInv, TimesLocked
      <4>2. \E row : Clock!Write(c, transaction[c].id, row)
        <5>1. ASSUME Clock!ManagerClose(c) PROVE \E row : Clock!Write(c, transaction[c].id, row)
          <6>1. PICK start \in Clock!Time, end \in Clock!Time, given \in SUBSET {"unpaid", "paid"},
                     unpaid \in Breaks, paid \in Breaks :
                  LET ended == Clock!WithBreak(times[transaction[c].id], end)
                      row == [ended EXCEPT !.in = start, !.out = end, !.status = "submitted",
                                !.unpaidSeconds = IF "unpaid" \in given THEN unpaid ELSE @,
                                !.paidSeconds = IF "paid" \in given THEN paid ELSE @]
                  IN /\ times[transaction[c].id].break # None /\ end < times[transaction[c].id].break => given # {}
                     /\ Clock!ValidCorrection(start, end, row.unpaidSeconds, row.paidSeconds)
                     /\ Clock!AssertNoOverlap(start, end, {transaction[c].id})
                     /\ Clock!Write(c, transaction[c].id, row)
            BY <5>1, Zenon DEF Clock!ManagerClose
          <6>2. QED BY <6>1, Zenon
        <5>2. CASE Clock!ClockOut(c)
          BY <5>2, Zenon DEF Clock!ClockOut
        <5>3. CASE Clock!StartBreak(c) \/ Clock!EndBreak(c)
          BY <5>3 DEF Clock!StartBreak, Clock!EndBreak
        <5>4. QED BY <3>5, <5>1, <5>2, <5>3
      <4>3. QED BY <4>1, <4>2
    <3>6. ASSUME NEW c \in Clients, Clock!Correct(c)
          PROVE  \E i \in Ids : \E row : row.status = "submitted" /\ Clock!Write(c, i, row)
      <4>1. transaction[c].id \in Ids /\ times[transaction[c].id] \in Clock!Entry
        BY <1>1, <3>6 DEF Clock!Correct, TimesIInv, TimesLocked, Clock!TypeOK
      <4>2. QED BY <3>6, <4>1 DEF Clock!Correct, Clock!Entry
    <3>7. ASSUME NEW c \in Clients, Clock!Review(c)
          PROVE  \E i \in Ids : times[i].status \in {"submitted", "returned"} /\ \E row : Clock!Write(c, i, row)
      BY <1>1, <3>7 DEF Clock!Review, TimesIInv, TimesLocked
    <3>8. QED BY <3>1, <3>2, <3>3, <3>4, <3>5, <3>6, <3>7 DEF Clock!Next, Clock!Proceed, Clock!Commit
  <2>2. QED BY <2>1
<1>2. QED BY <1>1, TimesInvariance, PTL DEF ClockSteps, ApprovedAsReviewed, Clock!ApprovedAsReviewed

---------------------------------------------------------------------------
\* Registers and entries run each by themselves.
THEOREM PartsRunAlone == PayrollSpec => Spec /\ ClockSteps
<1>1. PayrollInit => Init /\ Clock!Init
  BY DEF PayrollInit
<1>2. [PayrollNext]_payrolls => [Next]_vars
  BY DEF PayrollNext, payrolls
<1>3. [PayrollNext]_payrolls => [Clock!Next]_(Clock!vars)
  BY DEF PayrollNext, payrolls, attendance, Clock!vars
<1>4. QED BY <1>1, <1>2, <1>3, PTL DEF PayrollSpec, Spec, ClockSteps

\* Payroll keeps all that its parts promise: no week is paid twice, what was worked is
\* accounted for on the terms of its day, and the entries it is made of fit and stay as
\* they were approved.
THEOREM PayrollHolds ==
  PayrollSpec => /\ [](PeriodsDisjoint /\ TermsStand /\ WorkAccounted /\ TimesFit)
                 /\ ImplementsRegisters /\ ApprovedAsReviewed
BY PartsRunAlone, NoWeekPaidTwice, TermsAlwaysStand, WorkAlwaysAccounted, TimesAlwaysFit,
   Implementation, ApprovedStays, PTL
=============================================================================
