------------------------- MODULE PayrollSettlement -------------------------
(***************************************************************************)
(* How the registers of one business unit are settled, for one employee:   *)
(* the native calculation of the gross wages with their adjustments, the   *)
(* withholding on it, the record of a payment made outside, or the export  *)
(* to a payroll provider.                                                  *)
(*                                                                         *)
(* Every operation locks the unit, except those on native calculations,    *)
(* which lock the register; what these read besides never changes once it  *)
(* is there. So each operation is one step. Of withholding there is what   *)
(* the wages are counted from, not the amounts; elections and deductions   *)
(* only change these. Time is counted in weeks, and a payday is the first  *)
(* day of its week.                                                        *)
(***************************************************************************)
EXTENDS Integers, Sequences, FiniteSets, FiniteSetsExt

CONSTANTS
  Runs,        \* payroll registers
  Periods,     \* the sets of weeks that a register may cover
  LastWeek,    \* weeks are 1 .. LastWeek + 1
  Wages,       \* the gross wages that a register may come to
  Adjustments, \* rows of payroll_adjustments
  Amounts,     \* their amounts
  ServiceWeeks, \* the weeks they may be dated
  Paydays,     \* the weeks in which payday may be
  Priors,      \* the wages that may be verified as paid before
  MaxOpenings, \* bound on the rows of verified wages
  None

VARIABLES
  register,    \* payroll_runs: status and period
  now,         \* the current week
  wages,       \* payroll_runs: the gross wages of each register
  native,      \* payroll_native_calculations: the one that is not void
  adjustment,  \* payroll_adjustments
  opening,     \* payroll_tax_opening_wages, in the order of their creation
  tax,         \* payroll_tax_calculations: the one that is not void
  payments,    \* payroll_payments with their reversals
  provider,    \* payroll_provider_batches: status
  accrued      \* adjustments in the journal

settlement == <<native, adjustment, opening, tax, payments, provider, accrued>>
vars == <<register, now, wages, settlement>>

Registers == INSTANCE PayrollRegisters

ASSUME SettlementAssumption ==
  /\ LastWeek \in Nat /\ MaxOpenings \in Nat
  /\ Periods \subseteq SUBSET (1 .. LastWeek) \ {{}} /\ Paydays \subseteq Nat
  /\ IsFiniteSet(Adjustments) /\ None \notin Runs \union Adjustments
  /\ ServiceWeeks \subseteq 1 .. LastWeek + 1
  /\ Wages \subseteq Nat /\ Priors \subseteq Nat /\ Amounts \subseteq Int \ {0}

Category == {"retro_pay", "wage_correction"}

NoAdjustment ==
  [status |-> "absent", category |-> "retro_pay", run |-> None, week |-> 0, amount |-> 0,
   reverses |-> None]

NoNative == [status |-> "none", gross |-> 0, included |-> {}]

NoTax == [status |-> "none", payday |-> 0, opening |-> 0]

Init ==
  /\ Registers!Init
  /\ now = 1
  /\ wages = [r \in Runs |-> 0]
  /\ native = [r \in Runs |-> NoNative]
  /\ adjustment = [a \in Adjustments |-> NoAdjustment]
  /\ opening = [r \in Runs |-> << >>]
  /\ tax = [r \in Runs |-> NoTax]
  /\ payments = << >>
  /\ provider = [r \in Runs |-> "none"]
  /\ accrued = 0

---------------------------------------------------------------------------
(* The registers.                                                           *)

PrepareRun(r, p, w) ==
  /\ \A v \in p : v < now
  /\ Registers!Prepare(r, p)
  /\ wages' = [wages EXCEPT ![r] = w]
  /\ UNCHANGED <<now, settlement>>

ApproveRun(r) == Registers!Approve(r) /\ UNCHANGED <<now, wages, settlement>>
PostRun(r) == Registers!Post(r) /\ UNCHANGED <<now, wages, settlement>>
VoidRun(r) == Registers!Void(r) /\ UNCHANGED <<now, wages, settlement>>

---------------------------------------------------------------------------
(* Adjustments.                                                             *)

\* linkedRun
LinkHolds(run) == run # None => register[run].status = "posted"

\* adjustmentSchema
Allowed(category, amount, run) ==
  (category = "wage_correction" \/ amount < 0) => run # None

CreateAdjustment(a, category, run, week, amount) ==
  /\ adjustment[a].status = "absent" /\ week <= now
  /\ Allowed(category, amount, run) /\ LinkHolds(run)
  /\ adjustment' = [adjustment EXCEPT ![a] =
       [status |-> "draft", category |-> category, run |-> run, week |-> week,
        amount |-> amount, reverses |-> None]]
  /\ UNCHANGED <<register, now, wages, native, opening, tax, payments, provider, accrued>>

ApproveAdjustment(a) ==
  /\ adjustment[a].status = "draft" /\ LinkHolds(adjustment[a].run)
  /\ adjustment' = [adjustment EXCEPT ![a].status = "approved"]
  /\ UNCHANGED <<register, now, wages, native, opening, tax, payments, provider, accrued>>

PostAdjustment(a) ==
  /\ adjustment[a].status = "approved" /\ LinkHolds(adjustment[a].run)
  /\ adjustment' = [adjustment EXCEPT ![a].status = "posted"]
  /\ accrued' = accrued + adjustment[a].amount
  /\ UNCHANGED <<register, now, wages, native, opening, tax, payments, provider>>

VoidAdjustment(a) ==
  /\ adjustment[a].status \in {"draft", "approved"}
  /\ adjustment' = [adjustment EXCEPT ![a].status = "void"]
  /\ UNCHANGED <<register, now, wages, native, opening, tax, payments, provider, accrued>>

ReversalOf(a) == {b \in Adjustments : adjustment[b].reverses = a}

\* The reversal b is approved and posted at once, dated today.
ReverseAdjustment(a, b) ==
  /\ adjustment[a].status = "posted" /\ adjustment[a].reverses = None
  /\ adjustment[b].status = "absent" /\ ReversalOf(a) = {}
  /\ adjustment' = [adjustment EXCEPT ![b] =
       [adjustment[a] EXCEPT !.week = now, !.amount = - @, !.reverses = a]]
  /\ accrued' = accrued - adjustment[a].amount
  /\ UNCHANGED <<register, now, wages, native, opening, tax, payments, provider>>

---------------------------------------------------------------------------
(* The native calculation.                                                  *)

Sum(as) == MapThenSumSet(LAMBDA a : adjustment[a].amount, as)

IncludedByDate(r) ==
  {a \in Adjustments :
     /\ adjustment[a].status = "posted"
     /\ \/ adjustment[a].run = r
        \/ adjustment[a].week \in register[r].period}

\* snapshot: a linked adjustment follows its register, another its date.
Included(r) ==
  {a \in Adjustments :
     /\ adjustment[a].status = "posted"
     /\ \/ adjustment[a].run = r
        \/ adjustment[a].run = None /\ adjustment[a].week \in register[r].period}

NativeGross(r) == wages[r] + Sum(Included(r))

\* activeRun
Active(r) == register[r].status \notin {"absent", "void"}

PrepareNative(r) ==
  /\ Active(r) /\ native[r].status = "none"
  /\ NativeGross(r) >= 0
  /\ native' = [native EXCEPT ![r] =
       [status |-> "draft", gross |-> NativeGross(r), included |-> Included(r)]]
  /\ UNCHANGED <<register, now, wages, adjustment, opening, tax, payments, provider, accrued>>

ApproveNative(r) ==
  /\ register[r].status \in {"approved", "posted"} /\ native[r].status = "draft"
  /\ native[r].included = Included(r) /\ native[r].gross = NativeGross(r)
  /\ native' = [native EXCEPT ![r].status = "approved"]
  /\ UNCHANGED <<register, now, wages, adjustment, opening, tax, payments, provider, accrued>>

VoidNative(r) ==
  /\ Active(r) /\ native[r].status = "draft"
  /\ native' = [native EXCEPT ![r] = NoNative]
  /\ UNCHANGED <<register, now, wages, adjustment, opening, tax, payments, provider, accrued>>

---------------------------------------------------------------------------
(* Withholding.                                                             *)

\* getNative
NativeReady(r) == native[r].status = "approved" /\ register[r].status # "void"

\* The row of verified wages that counts for a payday, 0 if there is none.
LatestOpening(r, payday) == Max({i \in DOMAIN opening[r] : opening[r][i].payday = payday} \union {0})

AddOpening(r, payday, prior) ==
  /\ NativeReady(r) /\ tax[r].status # "approved"
  /\ MapThenSumSet(LAMBDA s : Len(opening[s]), Runs) < MaxOpenings
  /\ opening' = [opening EXCEPT ![r] = Append(@, [payday |-> payday, prior |-> prior])]
  /\ UNCHANGED <<register, now, wages, native, adjustment, tax, payments, provider, accrued>>

\* calcSource: a correction needs a classification that there is no way to record.
TaxReady(r, payday) ==
  /\ NativeReady(r)
  /\ \A v \in register[r].period : v < payday
  /\ LatestOpening(r, payday) # 0
  /\ \A a \in native[r].included : adjustment[a].category # "wage_correction"
  /\ Sum(native[r].included) \in 0 .. native[r].gross

PrepareTax(r, payday) ==
  /\ tax[r].status = "none" /\ TaxReady(r, payday)
  /\ tax' = [tax EXCEPT ![r] =
       [status |-> "draft", payday |-> payday, opening |-> LatestOpening(r, payday)]]
  /\ UNCHANGED <<register, now, wages, native, adjustment, opening, payments, provider, accrued>>

ApproveTax(r) ==
  /\ tax[r].status = "draft" /\ TaxReady(r, tax[r].payday)
  /\ tax[r].opening = LatestOpening(r, tax[r].payday)
  /\ tax' = [tax EXCEPT ![r].status = "approved"]
  /\ UNCHANGED <<register, now, wages, native, adjustment, opening, payments, provider, accrued>>

VoidTax(r) ==
  /\ tax[r].status = "draft"
  /\ tax' = [tax EXCEPT ![r] = NoTax]
  /\ UNCHANGED <<register, now, wages, native, adjustment, opening, payments, provider, accrued>>

---------------------------------------------------------------------------
(* Payments and provider batches.                                           *)

\* Payments with no reversal, by their place in the order of creation.
Standing == {i \in DOMAIN payments : ~ payments[i].reversed}
StandingBefore(i) == {j \in Standing : j < i}

Paid(is) == MapThenSumSet(LAMBDA i : payments[i].gross, is)

Prior(r) == opening[r][tax[r].opening].prior

RecordPayment(r) ==
  /\ tax[r].status = "approved" /\ tax[r].payday <= now
  /\ register[r].status \in {"approved", "posted"}
  /\ \A i \in DOMAIN payments : payments[i].run # r
  /\ provider[r] = "none"
  /\ \A i \in Standing : payments[i].payday <= tax[r].payday
  /\ Prior(r) >= Paid(Standing)
  /\ payments' = Append(payments,
       [run |-> r, payday |-> tax[r].payday, gross |-> native[r].gross, prior |-> Prior(r),
        ytd |-> Paid(Standing) + native[r].gross, reversed |-> FALSE])
  /\ UNCHANGED <<register, now, wages, native, adjustment, opening, tax, provider, accrued>>

ReverseEarlierPayment(i) ==
  /\ ~ payments[i].reversed
  /\ payments' = [payments EXCEPT ![i].reversed = TRUE]
  /\ UNCHANGED <<register, now, wages, native, adjustment, opening, tax, provider, accrued>>

ReversePayment(i) ==
  /\ ~ payments[i].reversed
  /\ \A j \in Standing : j <= i
  /\ payments' = [payments EXCEPT ![i].reversed = TRUE]
  /\ UNCHANGED <<register, now, wages, native, adjustment, opening, tax, provider, accrued>>

PrepareProviderUnchecked(r) ==
  /\ register[r].status = "posted" /\ provider[r] = "none"
  /\ provider' = [provider EXCEPT ![r] = "prepared"]
  /\ UNCHANGED <<register, now, wages, native, adjustment, opening, tax, payments, accrued>>

PrepareProvider(r) ==
  /\ register[r].status = "posted" /\ provider[r] = "none"
  /\ \A i \in DOMAIN payments : payments[i].run # r
  /\ provider' = [provider EXCEPT ![r] = "prepared"]
  /\ UNCHANGED <<register, now, wages, native, adjustment, opening, tax, payments, accrued>>

\* recordProviderSubmission
SubmitProvider(r) ==
  /\ register[r].status = "posted" /\ provider[r] = "prepared"
  /\ provider' = [provider EXCEPT ![r] = "submitted"]
  /\ UNCHANGED <<register, now, wages, native, adjustment, opening, tax, payments, accrued>>

\* importProviderResults
ImportProvider(r) ==
  /\ register[r].status = "posted" /\ provider[r] = "submitted"
  /\ provider' = [provider EXCEPT ![r] = "imported"]
  /\ UNCHANGED <<register, now, wages, native, adjustment, opening, tax, payments, accrued>>

EndWeek ==
  /\ now <= LastWeek
  /\ now' = now + 1
  /\ UNCHANGED <<register, wages, settlement>>

Settle(r) ==
  \/ PrepareNative(r) \/ ApproveNative(r) \/ VoidNative(r)
  \/ \E payday \in Paydays : PrepareTax(r, payday) \/ \E prior \in Priors : AddOpening(r, payday, prior)
  \/ ApproveTax(r) \/ VoidTax(r)
  \/ RecordPayment(r)
  \/ PrepareProvider(r) \/ SubmitProvider(r) \/ ImportProvider(r)

Adjust(a) ==
  \/ \E category \in Category, run \in Runs \union {None}, week \in ServiceWeeks, amount \in Amounts :
       CreateAdjustment(a, category, run, week, amount)
  \/ ApproveAdjustment(a) \/ PostAdjustment(a) \/ VoidAdjustment(a)
  \/ \E b \in Adjustments : ReverseAdjustment(a, b)

Next ==
  \/ \E r \in Runs : \/ \E p \in Periods, w \in Wages : PrepareRun(r, p, w)
                     \/ ApproveRun(r) \/ PostRun(r) \/ VoidRun(r)
                     \/ Settle(r)
  \/ \E a \in Adjustments : Adjust(a)
  \/ \E i \in DOMAIN payments : ReversePayment(i)
  \/ EndWeek

Spec == Init /\ [][Next]_vars

---------------------------------------------------------------------------
TypeOK ==
  /\ Registers!TypeOK
  /\ now \in 1 .. LastWeek + 1
  /\ wages \in [Runs -> Wages \union {0}]
  /\ native \in [Runs -> [status : {"none", "draft", "approved"}, gross : Nat,
                          included : SUBSET Adjustments]]
  /\ adjustment \in [Adjustments -> [status : {"absent", "draft", "approved", "posted", "void"},
                                     category : Category, run : Runs \union {None},
                                     week : 0 .. LastWeek + 1, amount : Int,
                                     reverses : Adjustments \union {None}]]
  /\ opening \in [Runs -> Seq([payday : Paydays, prior : Priors])]
  /\ tax \in [Runs -> [status : {"none", "draft", "approved"}, payday : Nat, opening : Nat]]
  /\ payments \in Seq([run : Runs, payday : Paydays, gross : Nat, prior : Nat, ytd : Nat,
                       reversed : BOOLEAN])
  /\ provider \in [Runs -> {"none", "prepared", "submitted", "imported"}]
  /\ accrued \in Int

\* A register is settled by recorded payments or by a provider, never by both, whichever
\* was first: each looks for the other, and a reversed payment still counts.
SettledOneWay ==
  \A i \in DOMAIN payments : provider[payments[i].run] = "none"

\* Every payment, and what was withheld from it, stays traceable to the calculations that
\* were approved for it: these are what they were when it was recorded, and as long as the
\* register lives they come to its wages and the adjustments they name, all in the books.
PaidAsCalculated ==
  \A i \in DOMAIN payments :
    LET r == payments[i].run IN
    /\ native[r].status = "approved" /\ native[r].gross = payments[i].gross
    /\ tax[r].status = "approved" /\ tax[r].payday = payments[i].payday
    /\ Prior(r) = payments[i].prior
    /\ payments[i].gross = wages[r] + Sum(native[r].included)
    /\ \A a \in native[r].included : adjustment[a].status = "posted"

\* The year to date on a statement is what has been paid and not returned up to it, in the
\* order of paydays, whatever is reversed later; and the wages verified as paid before, from
\* which the withholding was counted, do not fall short of it.
YearToDateAdds ==
  \A i \in Standing :
    /\ payments[i].ytd = Paid(StandingBefore(i)) + payments[i].gross
    /\ payments[i].prior >= Paid(StandingBefore(i))
    /\ \A j \in StandingBefore(i) : payments[j].payday <= payments[i].payday

\* Approved withholding counts from the last wages verified for its payday: none are
\* verified after the approval, and a draft made from earlier ones is not approved.
OpeningStands ==
  \A r \in Runs : tax[r].status = "approved" => tax[r].opening = LatestOpening(r, tax[r].payday)

\* No adjustment is in the calculations of two registers, whether it follows a register or
\* its date.
AdjustedOnce ==
  \A r, s \in Runs :
    (r # s /\ Registers!Live(r) /\ Registers!Live(s)) => native[r].included \cap native[s].included = {}

\* The adjustments in the books are those posted and not reversed: a reversal takes out
\* exactly what its original put in, once.
AccruedAdjustments ==
  accrued = Sum({a \in Adjustments : /\ adjustment[a].status = "posted"
                                     /\ adjustment[a].reverses = None /\ ReversalOf(a) = {}})

\* A statement is what was calculated, verified and paid before, and stays so whatever is
\* calculated, verified or returned afterwards (recordPayment, reversePayment).
StatementsStand == YearToDateAdds /\ PaidAsCalculated /\ OpeningStands

\* An adjustment is paid with one register and is in the books once, reversed or not
\* (prepareNativeCalculation, postAdjustment, reverseAdjustment).
AdjustmentsCount == AdjustedOnce /\ AccruedAdjustments

\* The repository says that wages are not paid again without a reviewed correction: no two
\* payments that stand are for the same week.
WeekPaidOnce ==
  \A i, j \in Standing :
    i # j => register[payments[i].run].period \cap register[payments[j].run].period = {}
=============================================================================
