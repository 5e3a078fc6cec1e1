----------------------- MODULE PayrollSettlementProofs -----------------------
(***************************************************************************)
(* What settlement keeps, for any registers, adjustments and weeks: it     *)
(* uses the registers as PayrollRegisters promises them, pays each one     *)
(* way, and pays an adjustment with one of them, as no week is covered     *)
(* twice; and what it shows of the amounts adds up. And what a return      *)
(* keeps (PayrollFilings), for any wages, rounding included.               *)
(***************************************************************************)
EXTENDS MCPayrollSettlement, SequenceTheorems, Sums, TLAPS

NativeShape ==
  native = [r \in Runs |->
    [status |-> native[r].status, gross |-> native[r].gross, included |-> native[r].included]]

TaxShape ==
  tax = [r \in Runs |->
    [status |-> tax[r].status, payday |-> tax[r].payday, opening |-> tax[r].opening]]

OpeningShape == opening = [r \in Runs |-> opening[r]]

AdjustmentType ==
  adjustment \in
    [Adjustments -> [status : {"absent", "draft", "approved", "posted", "void"},
                     category : Category, run : Runs \union {None},
                     week : 0 .. LastWeek + 1, amount : Int, reverses : Adjustments \union {None}]]

\* Amounts are left open here; what they add up to is below.
Payment(p) ==
  /\ p = [run |-> p.run, payday |-> p.payday, gross |-> p.gross, prior |-> p.prior,
          ytd |-> p.ytd, reversed |-> p.reversed]
  /\ p.run \in Runs

PaymentsShape ==
  /\ payments \in Seq({payments[i] : i \in DOMAIN payments})
  /\ \A i \in DOMAIN payments : Payment(payments[i])

ProviderType == provider \in [Runs -> {"none", "prepared", "submitted", "imported"}]

Types ==
  /\ now \in 1 .. LastWeek + 1
  /\ NativeShape /\ TaxShape /\ OpeningShape /\ AdjustmentType /\ PaymentsShape /\ ProviderType

\* What a calculation includes is posted, and follows its register or its date.
Follows(a, r) ==
  /\ a \in Adjustments /\ adjustment[a].status = "posted"
  /\ \/ adjustment[a].run = r
     \/ adjustment[a].run = None /\ adjustment[a].week \in register[r].period

IncludedFollow ==
  \A r \in Runs :
    /\ \A a \in native[r].included : Follows(a, r)
    /\ register[r].status = "absent" => native[r].included = {}

RegistersHold == Registers!TypeOK /\ Registers!Disjoint

IInv == Types /\ RegistersHold /\ SettledOneWay /\ IncludedFollow /\ OpeningStands

---------------------------------------------------------------------------
(* The registers.                                                           *)

\* A register that moves on covers what it covered, and if it is live now, it was before.
LEMMA MoveKeeps ==
  ASSUME Registers!TypeOK, NEW r \in Runs,
         Registers!Approve(r) \/ Registers!Post(r) \/ Registers!Void(r)
  PROVE  /\ Registers!TypeOK'
         /\ \A s \in Runs : /\ register'[s].period = register[s].period
                            /\ Registers!Live(s)' => Registers!Live(s)
                            /\ register'[s].status = "absent" => register[s].status = "absent"
<1>1. PICK from \in {{"draft"}, {"approved"}, {"draft", "approved"}}, to \in {"approved", "posted", "void"} :
        Registers!Move(r, from, to)
  BY DEF Registers!Approve, Registers!Post, Registers!Void
<1>2. Registers!TypeOK'
  BY <1>1 DEF Registers!TypeOK, Registers!Move
<1>3. \A s \in Runs : /\ register'[s].period = register[s].period
                      /\ Registers!Live(s)' => Registers!Live(s)
                      /\ register'[s].status = "absent" => register[s].status = "absent"
  BY <1>1 DEF Registers!TypeOK, Registers!Move, Registers!Live
<1>4. QED BY <1>2, <1>3

\* A register is prepared for weeks that no other covers.
LEMMA PrepareKeeps ==
  ASSUME RegistersHold, NEW r \in Runs, NEW p \in Periods, Registers!Prepare(r, p)
  PROVE  /\ RegistersHold'
         /\ \A s \in Runs \ {r} : register'[s] = register[s]
         /\ register[r].status = "absent" /\ register'[r].status # "absent"
<1>1. register' = [register EXCEPT ![r] = [status |-> "draft", period |-> p]]
  BY DEF Registers!Prepare
<1>2. Registers!TypeOK'
  BY <1>1 DEF RegistersHold, Registers!TypeOK
<1>3. \A s \in Runs \ {r} : register'[s] = register[s]
  BY <1>1 DEF RegistersHold, Registers!TypeOK
<1>4. register'[r] = [status |-> "draft", period |-> p]
  BY <1>1 DEF RegistersHold, Registers!TypeOK
<1>5. \A s \in Runs \ {r} : Registers!Live(s) => register[s].period \cap p = {}
  BY DEF Registers!Prepare, Registers!Covered
<1>6. Registers!Disjoint'
  BY <1>3, <1>4, <1>5 DEF RegistersHold, Registers!Disjoint, Registers!Live
<1>7. QED BY <1>2, <1>3, <1>4, <1>6 DEF RegistersHold, Registers!Prepare

\* What follows from the specification of the registers alone, for any registers and any
\* sets of weeks: no week is covered by two registers that are not void.
THEOREM NoWeekCoveredTwice == Registers!Spec => []RegistersHold
<1>1. Registers!Init => RegistersHold
  BY DEF RegistersHold, Registers!Init, Registers!TypeOK, Registers!Disjoint, Registers!Live
<1>2. ASSUME RegistersHold, [Registers!Next]_register
      PROVE  RegistersHold'
  <2>1. CASE UNCHANGED register
    BY <1>2, <2>1 DEF RegistersHold, Registers!TypeOK, Registers!Disjoint, Registers!Live
  <2>2. ASSUME NEW r \in Runs, NEW p \in Periods, Registers!Prepare(r, p)
        PROVE  RegistersHold'
    BY <1>2, <2>2, PrepareKeeps
  <2>3. ASSUME NEW r \in Runs, Registers!Approve(r) \/ Registers!Post(r) \/ Registers!Void(r)
        PROVE  RegistersHold'
    BY <1>2, <2>3, MoveKeeps DEF RegistersHold, Registers!Disjoint
  <2>4. QED BY <1>2, <2>1, <2>2, <2>3 DEF Registers!Next
<1>3. QED BY <1>1, <1>2, PTL DEF Registers!Spec

---------------------------------------------------------------------------
(* The invariant.                                                           *)

LEMMA InitIInv == Init => IInv
<1> SUFFICES ASSUME Init PROVE IInv
  OBVIOUS
<1> USE DEF Init
<1>1. now \in 1 .. LastWeek + 1
  BY SettlementAssumption
<1>2. NativeShape /\ TaxShape /\ OpeningShape
  BY DEF NativeShape, TaxShape, OpeningShape, NoNative, NoTax
<1>3. AdjustmentType
  BY SettlementAssumption DEF AdjustmentType, NoAdjustment, Category
<1>4. PaymentsShape /\ ProviderType
  BY DEF PaymentsShape, ProviderType
<1>5. RegistersHold
  BY DEF RegistersHold, Registers!Init, Registers!TypeOK, Registers!Disjoint, Registers!Live
<1>6. SettledOneWay
  BY DEF SettledOneWay
<1>7. IncludedFollow
  BY DEF IncludedFollow, NoNative
<1>8. OpeningStands
  BY DEF OpeningStands, NoTax
<1>9. QED
  BY <1>1, <1>2, <1>3, <1>4, <1>5, <1>6, <1>7, <1>8 DEF IInv, Types

\* What a calculation includes now is posted and follows its register or its date.
LEMMA IncludedNow ==
  ASSUME NEW r \in Runs, NEW a \in Included(r)
  PROVE  Follows(a, r)
BY DEF Included, Follows

\* A step of the registers.
LEMMA RegisterIInv ==
  ASSUME IInv, UNCHANGED settlement, NEW r \in Runs,
         \/ \E p \in Periods, w \in Wages : PrepareRun(r, p, w)
         \/ ApproveRun(r) \/ PostRun(r) \/ VoidRun(r)
  PROVE  IInv'
<1> USE DEF IInv, settlement
<1>1. now' = now
  BY DEF PrepareRun, ApproveRun, PostRun, VoidRun
<1>2. Types'
  BY <1>1 DEF Types, NativeShape, TaxShape, OpeningShape, AdjustmentType, PaymentsShape, Payment, ProviderType
<1>3. SettledOneWay'
  BY DEF SettledOneWay
<1>4. OpeningStands'
  BY DEF OpeningStands, LatestOpening
<1>5. CASE \E p \in Periods, w \in Wages : PrepareRun(r, p, w)
  <2>1. PICK p \in Periods : Registers!Prepare(r, p)
    BY <1>5 DEF PrepareRun
  <2>2. RegistersHold' /\ IncludedFollow'
    BY <2>1, PrepareKeeps DEF IncludedFollow, Follows
  <2>3. QED BY <1>2, <1>3, <1>4, <2>2
<1>6. CASE ApproveRun(r) \/ PostRun(r) \/ VoidRun(r)
  <2>1. Registers!Approve(r) \/ Registers!Post(r) \/ Registers!Void(r)
    BY <1>6 DEF ApproveRun, PostRun, VoidRun
  <2>2. RegistersHold'
    BY <2>1, MoveKeeps DEF RegistersHold, Registers!Disjoint
  <2>3. IncludedFollow'
    BY <2>1, MoveKeeps DEF RegistersHold, IncludedFollow, Follows
  <2>4. QED BY <1>2, <1>3, <1>4, <2>2, <2>3
<1>7. QED BY <1>5, <1>6

\* A step of an adjustment. One that is posted stays what it is.
LEMMA AdjustIInv ==
  ASSUME IInv, NEW a \in Adjustments, Adjust(a)
  PROVE  IInv'
<1> USE DEF IInv
<1>1. UNCHANGED <<register, now, wages, native, opening, tax, payments, provider>>
  BY DEF Adjust, CreateAdjustment, ApproveAdjustment, PostAdjustment, VoidAdjustment, ReverseAdjustment
<1> DEFINE PostedStay == \A b \in Adjustments : adjustment[b].status = "posted" => adjustment'[b] = adjustment[b]
<1>2. AdjustmentType' /\ PostedStay
  <2> USE DEF Types, AdjustmentType
  <2>1. ASSUME NEW category \in Category, NEW run \in Runs \union {None}, NEW week \in ServiceWeeks,
               NEW amount \in Amounts, CreateAdjustment(a, category, run, week, amount)
        PROVE  AdjustmentType' /\ PostedStay
    BY <2>1, SettlementAssumption DEF CreateAdjustment
  <2>2. ASSUME ApproveAdjustment(a) \/ PostAdjustment(a) \/ VoidAdjustment(a)
        PROVE  AdjustmentType' /\ PostedStay
    BY <2>2 DEF ApproveAdjustment, PostAdjustment, VoidAdjustment
  <2>3. ASSUME NEW b \in Adjustments, ReverseAdjustment(a, b)
        PROVE  AdjustmentType' /\ PostedStay
    <3>1. /\ adjustment[b].status = "absent" /\ adjustment[a].status = "posted"
          /\ adjustment' = [adjustment EXCEPT ![b] =
               [adjustment[a] EXCEPT !.week = now, !.amount = - @, !.reverses = a]]
      BY <2>3 DEF ReverseAdjustment
    <3>2. adjustment[a].amount \in Int
      OBVIOUS
    <3>3. adjustment'[b] = [status |-> adjustment[a].status, category |-> adjustment[a].category,
                           run |-> adjustment[a].run, week |-> now, amount |-> - adjustment[a].amount,
                           reverses |-> a]
      BY <3>1
    <3>4. - adjustment[a].amount \in Int /\ now \in 0 .. LastWeek + 1
      BY <3>2, SettlementAssumption
    <3>5. AdjustmentType'
      BY <3>1, <3>3, <3>4
    <3>6. PostedStay
      BY <3>1
    <3>7. QED BY <3>5, <3>6
  <2>4. QED BY <2>1, <2>2, <2>3 DEF Adjust
<1>3. Types'
  BY <1>1, <1>2 DEF Types, NativeShape, TaxShape, OpeningShape, PaymentsShape, Payment, ProviderType
<1>4. RegistersHold'
  BY <1>1 DEF RegistersHold, Registers!TypeOK, Registers!Disjoint, Registers!Live
<1>5. SettledOneWay' /\ OpeningStands'
  BY <1>1 DEF SettledOneWay, OpeningStands, LatestOpening
<1>6. IncludedFollow'
  BY <1>1, <1>2 DEF IncludedFollow, Follows
<1>7. QED BY <1>3, <1>4, <1>5, <1>6

\* A step of a native calculation.
LEMMA NativeIInv ==
  ASSUME IInv, NEW r \in Runs, PrepareNative(r) \/ ApproveNative(r) \/ VoidNative(r)
  PROVE  IInv'
<1> USE DEF IInv
<1>1. UNCHANGED <<register, now, wages, adjustment, opening, tax, payments, provider, accrued>>
  BY DEF PrepareNative, ApproveNative, VoidNative
<1>2. /\ NativeShape'
      /\ \A s \in Runs : \/ native'[s].included = native[s].included
                         \/ native'[s].included = {}
                         \/ s = r /\ Active(r) /\ native'[s].included = Included(r)
  <2> USE DEF Types, NativeShape
  <2>1. CASE PrepareNative(r)
    BY <2>1 DEF PrepareNative
  <2>2. CASE ApproveNative(r)
    BY <2>2 DEF ApproveNative
  <2>3. CASE VoidNative(r)
    BY <2>3 DEF VoidNative, NoNative
  <2>4. QED BY <2>1, <2>2, <2>3
<1>3. Types'
  BY <1>1, <1>2 DEF Types, TaxShape, OpeningShape, AdjustmentType, PaymentsShape, Payment, ProviderType
<1>4. RegistersHold'
  BY <1>1 DEF RegistersHold, Registers!TypeOK, Registers!Disjoint, Registers!Live
<1>5. SettledOneWay' /\ OpeningStands'
  BY <1>1 DEF SettledOneWay, OpeningStands, LatestOpening
<1>6. IncludedFollow'
  BY <1>1, <1>2, IncludedNow DEF IncludedFollow, Follows, Active
<1>7. QED BY <1>3, <1>4, <1>5, <1>6

\* A step of withholding. Wages are verified for a register only before its withholding
\* is approved, and it is approved only from the last verified.
LEMMA TaxIInv ==
  ASSUME IInv, NEW r \in Runs,
         \/ \E payday \in Paydays : PrepareTax(r, payday) \/ \E prior \in Priors : AddOpening(r, payday, prior)
         \/ ApproveTax(r) \/ VoidTax(r)
  PROVE  IInv'
<1> USE DEF IInv
<1>1. UNCHANGED <<register, now, wages, native, adjustment, payments, provider, accrued>>
  BY DEF PrepareTax, AddOpening, ApproveTax, VoidTax
<1>2. TaxShape' /\ OpeningShape' /\ OpeningStands'
  <2> USE DEF Types, TaxShape, OpeningShape, OpeningStands, LatestOpening
  <2>1. ASSUME NEW payday \in Paydays, PrepareTax(r, payday)
        PROVE  TaxShape' /\ OpeningShape' /\ OpeningStands'
    BY <2>1 DEF PrepareTax
  <2>2. ASSUME NEW payday \in Paydays, NEW prior \in Priors, AddOpening(r, payday, prior)
        PROVE  TaxShape' /\ OpeningShape' /\ OpeningStands'
    <3>1. /\ tax' = tax /\ tax[r].status # "approved"
          /\ opening' = [opening EXCEPT ![r] = Append(@, [payday |-> payday, prior |-> prior])]
      BY <2>2 DEF AddOpening
    <3>2. OpeningShape' /\ \A s \in Runs \ {r} : opening'[s] = opening[s]
      BY <3>1 DEF OpeningShape
    <3>3. TaxShape' /\ OpeningStands'
      BY <3>1, <3>2 DEF TaxShape, OpeningStands, LatestOpening
    <3>4. QED BY <3>2, <3>3
  <2>3. CASE ApproveTax(r)
    <3>1. /\ opening' = opening /\ tax' = [tax EXCEPT ![r].status = "approved"]
          /\ tax[r].opening = LatestOpening(r, tax[r].payday)
      BY <2>3 DEF ApproveTax
    <3>2. /\ TaxShape'
          /\ \A s \in Runs : tax'[s].opening = tax[s].opening /\ tax'[s].payday = tax[s].payday
          /\ \A s \in Runs \ {r} : tax'[s].status = tax[s].status
      BY <3>1
    <3>3. OpeningShape'
      BY <3>1
    <3> HIDE DEF LatestOpening
    <3>4. \A s \in Runs : \A payday : LatestOpening(s, payday)' = LatestOpening(s, payday)
      BY <3>1 DEF LatestOpening
    <3>5. OpeningStands'
      BY <3>1, <3>2, <3>4
    <3>6. QED BY <3>2, <3>3, <3>5
  <2>4. CASE VoidTax(r)
    BY <2>4 DEF VoidTax, NoTax
  <2>5. QED BY <2>1, <2>2, <2>3, <2>4
<1>3. Types'
  BY <1>1, <1>2 DEF Types, NativeShape, AdjustmentType, PaymentsShape, Payment, ProviderType
<1>4. RegistersHold'
  BY <1>1 DEF RegistersHold, Registers!TypeOK, Registers!Disjoint, Registers!Live
<1>5. SettledOneWay' /\ IncludedFollow'
  BY <1>1 DEF SettledOneWay, IncludedFollow, Follows
<1>6. QED BY <1>2, <1>3, <1>4, <1>5

\* A payment is recorded of a register without a batch.
LEMMA RecordIInv ==
  ASSUME IInv, NEW r \in Runs, RecordPayment(r)
  PROVE  IInv'
<1> USE DEF IInv
<1>1. UNCHANGED <<register, now, wages, native, adjustment, opening, tax, provider>> /\ provider[r] = "none"
  BY DEF RecordPayment
<1> DEFINE p == [run |-> r, payday |-> tax[r].payday, gross |-> native[r].gross, prior |-> Prior(r),
                 ytd |-> Paid(Standing) + native[r].gross, reversed |-> FALSE]
<1>2. payments' = Append(payments, p)
  BY DEF RecordPayment
<1>3. Payment(p)
  BY DEF Payment
<1> HIDE DEF p
<1>4. PaymentsShape' /\ SettledOneWay'
  <2> DEFINE S == {payments[i] : i \in DOMAIN payments}
  <2>1. payments \in Seq(S \union {p})
    BY SeqMonotonic DEF Types, PaymentsShape
  <2>2. /\ payments' \in Seq(S \union {p}) /\ DOMAIN payments' = 1 .. Len(payments) + 1
        /\ \A i \in 1 .. Len(payments) : payments'[i] = payments[i]
        /\ payments'[Len(payments) + 1] = p
    BY <1>2, <2>1, AppendProperties
  <2>3. DOMAIN payments = 1 .. Len(payments) /\ Len(payments) \in Nat
    BY <2>1
  <2>4. \A i \in DOMAIN payments' : payments'[i] = p \/ (i \in DOMAIN payments /\ payments'[i] = payments[i])
    BY <2>2, <2>3
  <2>5. payments' \in Seq({payments'[i] : i \in DOMAIN payments'})
    BY <2>2
  <2>6. PaymentsShape'
    BY <1>3, <2>4, <2>5 DEF Types, PaymentsShape, Payment
  <2>7. SettledOneWay'
    <3>1. p.run = r
      BY DEF p
    <3>2. QED BY <1>1, <2>4, <3>1 DEF SettledOneWay
  <2>8. QED BY <2>6, <2>7
<1>5. Types'
  BY <1>1, <1>4 DEF Types, NativeShape, TaxShape, OpeningShape, AdjustmentType, ProviderType
<1>6. RegistersHold'
  BY <1>1 DEF RegistersHold, Registers!TypeOK, Registers!Disjoint, Registers!Live
<1>7. IncludedFollow' /\ OpeningStands'
  BY <1>1 DEF IncludedFollow, Follows, OpeningStands, LatestOpening
<1>8. QED BY <1>4, <1>5, <1>6, <1>7

\* A payment is reversed; it stays, and stays a payment of its register.
LEMMA ReverseIInv ==
  ASSUME IInv, NEW i \in DOMAIN payments, ReversePayment(i)
  PROVE  IInv'
<1> USE DEF IInv
<1>1. /\ UNCHANGED <<register, now, wages, native, adjustment, opening, tax, provider>>
      /\ payments' = [payments EXCEPT ![i].reversed = TRUE]
  BY DEF ReversePayment
<1>2. \A j \in DOMAIN payments : Payment(payments[j])
  BY DEF Types, PaymentsShape
<1>3. DOMAIN payments' = DOMAIN payments
  BY <1>1
<1>4. \A j \in DOMAIN payments : Payment(payments'[j]) /\ payments'[j].run = payments[j].run
  <2>1. \A j \in DOMAIN payments \ {i} : payments'[j] = payments[j]
    BY <1>1
  <2>2. payments'[i] = [payments[i] EXCEPT !.reversed = TRUE]
    BY <1>1
  <2>3. payments'[i] = [run |-> payments[i].run, payday |-> payments[i].payday, gross |-> payments[i].gross,
                        prior |-> payments[i].prior, ytd |-> payments[i].ytd, reversed |-> TRUE]
    BY <1>2, <2>2 DEF Payment
  <2>4. QED BY <1>2, <2>1, <2>3 DEF Payment
<1>5. payments' \in Seq({payments'[j] : j \in DOMAIN payments'})
  <2>1. payments \in Seq({payments[j] : j \in DOMAIN payments})
    BY DEF Types, PaymentsShape
  <2>2. PICK n \in Nat : DOMAIN payments = 1 .. n
    BY <2>1
  <2>3. payments' = [j \in 1 .. n |-> payments'[j]]
    BY <1>1, <2>1, <2>2
  <2>4. QED BY <1>3, <2>2, <2>3
<1>6. PaymentsShape' /\ SettledOneWay'
  BY <1>1, <1>3, <1>4, <1>5 DEF PaymentsShape, SettledOneWay
<1>7. Types'
  BY <1>1, <1>6 DEF Types, NativeShape, TaxShape, OpeningShape, AdjustmentType, ProviderType
<1>8. RegistersHold'
  BY <1>1 DEF RegistersHold, Registers!TypeOK, Registers!Disjoint, Registers!Live
<1>9. IncludedFollow' /\ OpeningStands'
  BY <1>1 DEF IncludedFollow, Follows, OpeningStands, LatestOpening
<1>10. QED BY <1>6, <1>7, <1>8, <1>9

\* A step of a batch: it is prepared of a register without payments, and only moves on after.
LEMMA ProviderIInv ==
  ASSUME IInv, NEW r \in Runs, PrepareProvider(r) \/ SubmitProvider(r) \/ ImportProvider(r)
  PROVE  IInv'
<1> USE DEF IInv
<1>1. UNCHANGED <<register, now, wages, native, adjustment, opening, tax, payments>>
  BY DEF PrepareProvider, SubmitProvider, ImportProvider
<1>2. ProviderType' /\ SettledOneWay'
  <2> USE DEF Types, ProviderType, SettledOneWay
  <2>1. \A i \in DOMAIN payments : payments[i].run \in Runs
    BY DEF PaymentsShape, Payment
  <2>2. CASE PrepareProvider(r)
    BY <2>1, <2>2 DEF PrepareProvider
  <2>3. CASE SubmitProvider(r) \/ ImportProvider(r)
    BY <2>1, <2>3 DEF SubmitProvider, ImportProvider
  <2>4. QED BY <2>2, <2>3
<1>3. Types'
  BY <1>1, <1>2 DEF Types, NativeShape, TaxShape, OpeningShape, AdjustmentType, PaymentsShape, Payment
<1>4. RegistersHold'
  BY <1>1 DEF RegistersHold, Registers!TypeOK, Registers!Disjoint, Registers!Live
<1>5. IncludedFollow' /\ OpeningStands'
  BY <1>1 DEF IncludedFollow, Follows, OpeningStands, LatestOpening
<1>6. QED BY <1>2, <1>3, <1>4, <1>5

\* The end of a week, and a step of something else.
LEMMA ElseIInv == ASSUME IInv, EndWeek \/ UNCHANGED vars PROVE IInv'
<1>1. UNCHANGED <<register, wages, settlement>> /\ now' \in 1 .. LastWeek + 1
  BY SettlementAssumption DEF IInv, Types, EndWeek, vars
<1>2. Types'
  BY <1>1 DEF IInv, Types, settlement, NativeShape, TaxShape, OpeningShape, AdjustmentType, PaymentsShape,
              Payment, ProviderType
<1>3. RegistersHold'
  BY <1>1 DEF IInv, RegistersHold, Registers!TypeOK, Registers!Disjoint, Registers!Live
<1>4. SettledOneWay' /\ IncludedFollow' /\ OpeningStands'
  BY <1>1 DEF IInv, settlement, SettledOneWay, IncludedFollow, Follows, OpeningStands, LatestOpening
<1>5. QED BY <1>2, <1>3, <1>4 DEF IInv

LEMMA StepIInv == IInv /\ [Next]_vars => IInv'
<1> SUFFICES ASSUME IInv, [Next]_vars PROVE IInv'
  OBVIOUS
<1>1. ASSUME NEW r \in Runs, NEW p \in Periods, NEW w \in Wages, PrepareRun(r, p, w)
      PROVE  IInv'
  BY <1>1, RegisterIInv DEF PrepareRun
<1>2. ASSUME NEW r \in Runs, ApproveRun(r) \/ PostRun(r) \/ VoidRun(r)
      PROVE  IInv'
  BY <1>2, RegisterIInv DEF ApproveRun, PostRun, VoidRun
<1>3. ASSUME NEW r \in Runs, Settle(r)
      PROVE  IInv'
  BY <1>3, NativeIInv, TaxIInv, RecordIInv, ProviderIInv DEF Settle
<1>4. ASSUME NEW a \in Adjustments, Adjust(a)
      PROVE  IInv'
  BY <1>4, AdjustIInv
<1>5. ASSUME NEW i \in DOMAIN payments, ReversePayment(i)
      PROVE  IInv'
  BY <1>5, ReverseIInv
<1>6. CASE EndWeek \/ UNCHANGED vars
  BY <1>6, ElseIInv
<1>7. QED BY <1>1, <1>2, <1>3, <1>4, <1>5, <1>6 DEF Next

---------------------------------------------------------------------------
(* The theorems.                                                            *)

\* The registers that settlement works on are registers as PayrollRegisters has them:
\* what settlement does leaves them alone.
THEOREM UsesRegisters == Spec => Registers!Spec
<1>1. Init => Registers!Init
  BY DEF Init
<1>2. [Next]_vars => [Registers!Next]_register
  <2> SUFFICES ASSUME [Next]_vars PROVE [Registers!Next]_register
    OBVIOUS
  <2>1. ASSUME NEW r \in Runs, NEW p \in Periods, NEW w \in Wages, PrepareRun(r, p, w)
        PROVE  Registers!Next
    BY <2>1 DEF PrepareRun, Registers!Next
  <2>2. ASSUME NEW r \in Runs, ApproveRun(r) \/ PostRun(r) \/ VoidRun(r)
        PROVE  Registers!Next
    BY <2>2 DEF ApproveRun, PostRun, VoidRun, Registers!Next
  <2>3. ASSUME NEW r \in Runs, Settle(r)
        PROVE  UNCHANGED register
    BY <2>3 DEF Settle, PrepareNative, ApproveNative, VoidNative, PrepareTax, AddOpening, ApproveTax, VoidTax,
                RecordPayment, PrepareProvider, SubmitProvider, ImportProvider
  <2>4. ASSUME NEW a \in Adjustments, Adjust(a)
        PROVE  UNCHANGED register
    BY <2>4 DEF Adjust, CreateAdjustment, ApproveAdjustment, PostAdjustment, VoidAdjustment, ReverseAdjustment
  <2>5. CASE (\E i \in DOMAIN payments : ReversePayment(i)) \/ EndWeek \/ UNCHANGED vars
    BY <2>5 DEF ReversePayment, EndWeek, vars
  <2>6. QED BY <2>1, <2>2, <2>3, <2>4, <2>5 DEF Next
<1>3. QED BY <1>1, <1>2, PTL DEF Spec, Registers!Spec

\* No register is both paid and exported to a provider (recordPayment, prepareProvider).
THEOREM PaidOrExported == Spec => []SettledOneWay
<1>1. IInv => SettledOneWay
  BY DEF IInv
<1>2. QED BY <1>1, InitIInv, StepIInv, PTL DEF Spec

\* Approved withholding counts from the last wages verified (addOpening, approveTax).
THEOREM WithholdingStands == Spec => []OpeningStands
<1>1. IInv => OpeningStands
  BY DEF IInv
<1>2. QED BY <1>1, InitIInv, StepIInv, PTL DEF Spec

\* No adjustment is calculated with two registers, as no week is covered by two that are
\* not void: an adjustment that follows its date is in the one that covers it
\* (prepareNativeCalculation).
THEOREM NoAdjustmentTwice == Spec => []AdjustedOnce
<1>1. ASSUME IInv PROVE AdjustedOnce
  <2> SUFFICES ASSUME NEW r \in Runs, NEW s \in Runs, r # s, Registers!Live(r), Registers!Live(s),
                      NEW a \in native[r].included \cap native[s].included
               PROVE  FALSE
    BY DEF AdjustedOnce
  <2>1. Follows(a, r) /\ Follows(a, s)
    BY <1>1 DEF IInv, IncludedFollow
  <2>2. register[r].period \cap register[s].period = {}
    BY <1>1 DEF IInv, RegistersHold, Registers!Disjoint
  <2>3. None \notin Runs
    BY SettlementAssumption
  <2>4. QED BY <2>1, <2>2, <2>3 DEF Follows
<1>2. QED BY <1>1, InitIInv, StepIInv, PTL DEF Spec

---------------------------------------------------------------------------
(* Amounts. What a calculation, a statement or the books have summed up     *)
(* still adds up, as nothing that was summed changes or goes.               *)

\* A reversal is posted at once, and what it reverses is posted and no reversal.
ReversalsHold ==
  \A a \in Adjustments :
    adjustment[a].reverses # None =>
      adjustment[a].status = "posted" /\ adjustment[adjustment[a].reverses].status = "posted"

\* A calculation is of a register that is there, and adds up.
NativeAdds ==
  \A r \in Runs : native[r].status # "none" =>
    register[r].status # "absent" /\ native[r].gross = wages[r] + Sum(native[r].included)

\* Withholding is on an approved calculation.
TaxOnNative == \A r \in Runs : tax[r].status # "none" => native[r].status = "approved"

AmountsIInv ==
  /\ IInv
  /\ accrued \in Int /\ ReversalsHold /\ AccruedAdjustments
  /\ NativeAdds /\ TaxOnNative
  /\ YearToDateAdds /\ PaidAsCalculated

\* The adjustments whose amounts the books have.
InBooks ==
  {a \in Adjustments : adjustment[a].status = "posted" /\ adjustment[a].reverses = None /\ ReversalOf(a) = {}}

---------------------------------------------------------------------------
\* The sums of adjustments and of payments.
LEMMA SumIs ==
  \A as : IsFiniteSet(as) => Sum(as) = SumOver([a \in as |-> adjustment[a].amount], as)
<1> SUFFICES ASSUME NEW S, IsFiniteSet(S) PROVE Sum(S) = SumOver([a \in S |-> adjustment[a].amount], S)
  OBVIOUS
<1> DEFINE f == [a \in S |-> adjustment[a].amount]
           Is(g) == g = [s \in SUBSET S |-> IF s = {} THEN 0
                           ELSE LET x == (CHOOSE y \in s : TRUE) IN adjustment[x].amount + g[s \ {x}]]
           iter == CHOOSE g : Is(g)
<1>1. Sum(S) = iter[S]
  BY DEF Sum, MapThenSumSet, MapThenFoldSet
<1>2. ASSUME NEW g PROVE Adds(g, f, S) <=> Is(g)
  <2>1. \A s \in SUBSET S : s # {} => f[First(s)] = adjustment[First(s)].amount
    BY FirstIsIn
  <2> HIDE DEF f
  <2>2. [s \in SUBSET S |-> IF s = {} THEN 0 ELSE f[First(s)] + g[s \ {First(s)}]]
        = [s \in SUBSET S |-> IF s = {} THEN 0
             ELSE LET x == (CHOOSE y \in s : TRUE) IN adjustment[x].amount + g[s \ {x}]]
    BY <2>1 DEF First
  <2>3. QED BY <2>2 DEF Adds
<1> HIDE DEF Is, f
<1>3. PICK g : Adds(g, f, S) /\ SumOver(f, S) = g[S]
  BY SumOverIs
<1>4. Adds(iter, f, S)
  BY <1>2, <1>3
<1>5. iter[S] = g[S]
  BY <1>3, <1>4, SumsAgree
<1>6. QED BY <1>1, <1>3, <1>5 DEF f

LEMMA PaidIs ==
  \A is : IsFiniteSet(is) => Paid(is) = SumOver([i \in is |-> payments[i].gross], is)
<1> SUFFICES ASSUME NEW S, IsFiniteSet(S) PROVE Paid(S) = SumOver([i \in S |-> payments[i].gross], S)
  OBVIOUS
<1> DEFINE f == [i \in S |-> payments[i].gross]
           Is(g) == g = [s \in SUBSET S |-> IF s = {} THEN 0
                           ELSE LET x == (CHOOSE y \in s : TRUE) IN payments[x].gross + g[s \ {x}]]
           iter == CHOOSE g : Is(g)
<1>1. Paid(S) = iter[S]
  BY DEF Paid, MapThenSumSet, MapThenFoldSet
<1>2. ASSUME NEW g PROVE Adds(g, f, S) <=> Is(g)
  <2>1. \A s \in SUBSET S : s # {} => f[First(s)] = payments[First(s)].gross
    BY FirstIsIn
  <2> HIDE DEF f
  <2>2. [s \in SUBSET S |-> IF s = {} THEN 0 ELSE f[First(s)] + g[s \ {First(s)}]]
        = [s \in SUBSET S |-> IF s = {} THEN 0
             ELSE LET x == (CHOOSE y \in s : TRUE) IN payments[x].gross + g[s \ {x}]]
    BY <2>1 DEF First
  <2>3. QED BY <2>2 DEF Adds
<1> HIDE DEF Is, f
<1>3. PICK g : Adds(g, f, S) /\ SumOver(f, S) = g[S]
  BY SumOverIs
<1>4. Adds(iter, f, S)
  BY <1>2, <1>3
<1>5. iter[S] = g[S]
  BY <1>3, <1>4, SumsAgree
<1>6. QED BY <1>1, <1>3, <1>5 DEF f

LEMMA SumIsThen ==
  (\A as : IsFiniteSet(as) => Sum(as) = SumOver([a \in as |-> adjustment[a].amount], as))'
  BY SumIs, PTL

LEMMA PaidIsThen ==
  (\A is : IsFiniteSet(is) => Paid(is) = SumOver([i \in is |-> payments[i].gross], is))'
  BY PaidIs, PTL

\* A sum stays as long as its parts do.
LEMMA SumStays ==
  ASSUME NEW S \in SUBSET Adjustments, \A a \in S : adjustment'[a] = adjustment[a]
  PROVE  Sum(S)' = Sum(S)
<1>1. IsFiniteSet(S)
  BY SettlementAssumption, FS_Subset
<1>2. Sum(S)' = SumOver([a \in S |-> adjustment'[a].amount], S)
  BY <1>1, SumIsThen
<1>3. Sum(S) = SumOver([a \in S |-> adjustment[a].amount], S)
  BY <1>1, SumIs
<1> DEFINE f == [a \in S |-> adjustment[a].amount]
           h == [a \in S |-> adjustment'[a].amount]
<1>4. \A a \in S : f[a] = h[a]
  OBVIOUS
<1> HIDE DEF f, h
<1>5. SumOver(f, S) = SumOver(h, S)
  BY <1>1, <1>4, SumOfSame
<1>6. QED BY <1>2, <1>3, <1>5 DEF f, h

LEMMA PaidStays ==
  ASSUME NEW S, IsFiniteSet(S), \A i \in S : payments'[i].gross = payments[i].gross
  PROVE  Paid(S)' = Paid(S)
<1>1. Paid(S)' = SumOver([i \in S |-> payments'[i].gross], S)
  BY PaidIsThen
<1>2. Paid(S) = SumOver([i \in S |-> payments[i].gross], S)
  BY PaidIs
<1> DEFINE f == [i \in S |-> payments[i].gross]
           h == [i \in S |-> payments'[i].gross]
<1>3. \A i \in S : f[i] = h[i]
  OBVIOUS
<1> HIDE DEF f, h
<1>4. SumOver(f, S) = SumOver(h, S)
  BY <1>3, SumOfSame
<1>5. QED BY <1>1, <1>2, <1>4 DEF f, h

\* The sum over the adjustments of the books changes by what comes or goes.
LEMMA InBooksAdds ==
  ASSUME NEW S \in SUBSET Adjustments, NEW a \in Adjustments \ S,
         \A b \in S \union {a} : adjustment[b].amount \in Int
  PROVE  Sum(S \union {a}) = adjustment[a].amount + Sum(S) /\ Sum(S) \in Int
<1> DEFINE T == S \union {a}
           f == [b \in T |-> adjustment[b].amount]
           h == [b \in S |-> adjustment[b].amount]
<1>1. IsFiniteSet(S) /\ IsFiniteSet(T)
  BY SettlementAssumption, FS_Subset
<1>2. Sum(T) = SumOver(f, T) /\ Sum(S) = SumOver(h, S)
  BY <1>1, SumIs
<1>3. \A b \in T : f[b] = adjustment[b].amount /\ f[b] \in Int
  OBVIOUS
<1>4. \A b \in S : f[b] = h[b] /\ h[b] \in Int
  OBVIOUS
<1> HIDE DEF f, h
<1>5. SumOver(f, S \union {a}) = f[a] + SumOver(f, S)
  BY <1>1, <1>3, SumWith
<1>6. SumOver(f, S) = SumOver(h, S) /\ SumOver(h, S) \in Int
  BY <1>1, <1>4, SumOfSame, SumIsInt
<1>7. QED BY <1>2, <1>3, <1>5, <1>6

\* The payments that stand are finitely many.
LEMMA StandingFinite ==
  ASSUME PaymentsShape
  PROVE  IsFiniteSet(Standing) /\ \A i : IsFiniteSet(StandingBefore(i))
<1>1. PICK n \in Nat : DOMAIN payments = 1 .. n
  BY DEF PaymentsShape
<1>2. IsFiniteSet(1 .. n)
  BY FS_Interval
<1>3. QED BY <1>1, <1>2, FS_Subset DEF Standing, StandingBefore

---------------------------------------------------------------------------
\* In the beginning there are no amounts.
LEMMA AmountsInit == Init => AmountsIInv
<1> SUFFICES ASSUME Init PROVE AmountsIInv
  OBVIOUS
<1>1. IInv
  BY InitIInv
<1>2. InBooks = {}
  BY DEF Init, InBooks, NoAdjustment
<1>3. Sum({}) = 0
  <2>1. Sum({}) = SumOver([a \in {} |-> adjustment[a].amount], {})
    BY SumIs, FS_EmptySet
  <2>2. QED BY <2>1, SumOfNothing
<1>4. AccruedAdjustments
  BY <1>2, <1>3 DEF AccruedAdjustments, InBooks, Init
<1>5. QED
  BY <1>1, <1>4
  DEF Init, AmountsIInv, ReversalsHold, NativeAdds, TaxOnNative, YearToDateAdds, PaidAsCalculated, Standing,
      NoAdjustment, NoNative, NoTax

\* A step that leaves adjustments and the books alone, registers that are there with their
\* wages, and calculations and verified wages that payments are of, leaves the amounts.
LEMMA PaidStaysCalculated ==
  ASSUME AmountsIInv, UNCHANGED payments,
         \A r \in Runs : register[r].status # "absent" => wages'[r] = wages[r],
         \A r \in Runs : native[r].status = "approved" => native'[r] = native[r],
         \A r \in Runs : tax[r].status = "approved" => tax'[r] = tax[r] /\ opening'[r] = opening[r],
         \A a \in Adjustments : adjustment[a].status = "posted" => adjustment'[a] = adjustment[a]
  PROVE  YearToDateAdds' /\ PaidAsCalculated'
<1>1. YearToDateAdds'
  <2>1. Standing' = Standing /\ \A i : StandingBefore(i)' = StandingBefore(i)
    BY DEF Standing, StandingBefore
  <2>2. \A i : Paid(StandingBefore(i))' = Paid(StandingBefore(i))
    <3>1. SUFFICES ASSUME NEW i PROVE Paid(StandingBefore(i))' = Paid(StandingBefore(i))
      OBVIOUS
    <3>2. IsFiniteSet(StandingBefore(i))
      BY StandingFinite DEF AmountsIInv, IInv, Types
    <3>3. PICK S : S = StandingBefore(i)
      OBVIOUS
    <3>4. Paid(S)' = Paid(S)
      BY <3>2, <3>3, PaidStays
    <3>5. Paid(StandingBefore(i))' = Paid(S)' /\ Paid(StandingBefore(i)) = Paid(S)
      BY <2>1, <3>3
    <3>6. QED BY <3>4, <3>5
  <2>3. QED BY <2>1, <2>2 DEF AmountsIInv, YearToDateAdds
<1>2. PaidAsCalculated'
  <2>1. SUFFICES ASSUME NEW i \in DOMAIN payments,
                        NEW r \in Runs, r = payments[i].run
                 PROVE  /\ native'[r].status = "approved" /\ native'[r].gross = payments[i].gross
                        /\ tax'[r].status = "approved" /\ tax'[r].payday = payments[i].payday
                        /\ Prior(r)' = payments[i].prior
                        /\ payments[i].gross = wages'[r] + Sum(native[r].included)'
                        /\ native'[r] = native[r]
                        /\ \A a \in native[r].included : adjustment'[a].status = "posted"
    <3>1. \A i \in DOMAIN payments : payments[i].run \in Runs
      BY DEF AmountsIInv, IInv, Types, PaymentsShape, Payment
    <3>2. QED BY <3>1 DEF PaidAsCalculated
  <2>2. /\ native[r].status = "approved" /\ native[r].gross = payments[i].gross
        /\ tax[r].status = "approved" /\ tax[r].payday = payments[i].payday
        /\ Prior(r) = payments[i].prior
        /\ payments[i].gross = wages[r] + Sum(native[r].included)
        /\ \A a \in native[r].included : adjustment[a].status = "posted"
    BY <2>1 DEF AmountsIInv, PaidAsCalculated
  <2>3. native'[r] = native[r] /\ tax'[r] = tax[r] /\ opening'[r] = opening[r] /\ wages'[r] = wages[r]
    BY <2>2 DEF AmountsIInv, NativeAdds
  <2>4. Prior(r)' = Prior(r)
    BY <2>3 DEF Prior
  <2>5. native[r].included \in SUBSET Adjustments
    BY DEF AmountsIInv, IInv, IncludedFollow, Follows
  <2>6. PICK S \in SUBSET Adjustments : S = native[r].included
    BY <2>5
  <2>7. Sum(S)' = Sum(S)
    BY <2>2, <2>6, SumStays
  <2>8. Sum(native[r].included)' = Sum(native[r].included)
    BY <2>3, <2>6, <2>7
  <2>9. QED BY <2>2, <2>3, <2>4, <2>6, <2>7, <2>8
<1>3. QED BY <1>1, <1>2

\* A calculation that stays adds up as before.
LEMMA NativeStays ==
  ASSUME AmountsIInv, NEW r \in Runs, native[r].status # "none",
         native'[r].included = native[r].included, native'[r].gross = native[r].gross, wages'[r] = wages[r],
         \A a \in Adjustments : adjustment[a].status = "posted" => adjustment'[a] = adjustment[a]
  PROVE  native'[r].gross = wages'[r] + Sum(native[r].included)'
<1>1. native[r].included \in SUBSET Adjustments /\ \A a \in native[r].included : adjustment[a].status = "posted"
  BY DEF AmountsIInv, IInv, IncludedFollow, Follows
<1>2. PICK S \in SUBSET Adjustments : S = native[r].included
  BY <1>1
<1>3. Sum(S)' = Sum(S)
  BY <1>1, <1>2, SumStays
<1>4. Sum(native[r].included)' = Sum(native[r].included)
  BY <1>2, <1>3
<1>5. QED BY <1>4 DEF AmountsIInv, NativeAdds

\* The books do not change with what is not posted.
LEMMA BooksStay ==
  ASSUME AmountsIInv, InBooks' = InBooks, accrued' = accrued,
         \A a \in InBooks : adjustment'[a] = adjustment[a]
  PROVE  AccruedAdjustments'
<1>1. PICK S \in SUBSET Adjustments : S = InBooks
  BY DEF InBooks
<1>2. Sum(S)' = Sum(S)
  BY <1>1, SumStays
<1>3. Sum(InBooks)' = Sum(InBooks)
  BY <1>1, <1>2
<1>4. QED BY <1>3 DEF AmountsIInv, AccruedAdjustments, InBooks

\* An adjustment is posted: the books have one more.
LEMMA PostAdds ==
  ASSUME AmountsIInv, NEW a \in Adjustments, PostAdjustment(a)
  PROVE  accrued' \in Int /\ AccruedAdjustments' /\ ReversalsHold'
<1>1. /\ adjustment[a].status = "approved" /\ accrued' = accrued + adjustment[a].amount
      /\ adjustment' = [adjustment EXCEPT ![a].status = "posted"]
  BY DEF PostAdjustment
<1>2. AdjustmentType /\ ReversalsHold
  BY DEF AmountsIInv, IInv, Types
<1>3. \A b \in Adjustments : /\ adjustment'[b].amount = adjustment[b].amount
                             /\ adjustment'[b].reverses = adjustment[b].reverses
                             /\ b # a => adjustment'[b] = adjustment[b]
  BY <1>1, <1>2 DEF AdjustmentType
<1>4. adjustment'[a].status = "posted" /\ adjustment[a].reverses = None /\ ReversalOf(a) = {}
  BY <1>1, <1>2, SettlementAssumption DEF AdjustmentType, ReversalsHold, ReversalOf
<1>5. \A b : ReversalOf(b)' = ReversalOf(b)
  BY <1>3 DEF ReversalOf
<1>6. InBooks' = InBooks \union {a} /\ a \notin InBooks /\ InBooks \subseteq Adjustments
  BY <1>1, <1>3, <1>4, <1>5 DEF InBooks
<1>7. PICK S \in SUBSET Adjustments : S = InBooks
  BY <1>6
<1>8. \A b \in Adjustments : adjustment[b].amount \in Int /\ adjustment'[b].amount \in Int
  BY <1>2, <1>3 DEF AdjustmentType
<1>9. Sum(S \union {a}) = adjustment[a].amount + Sum(S) /\ Sum(S) \in Int
  BY <1>6, <1>7, <1>8, InBooksAdds
<1>10. Sum(S \union {a})' = Sum(S \union {a})
  <2> DEFINE T == S \union {a}
             f == [b \in T |-> adjustment[b].amount]
             h == [b \in T |-> adjustment'[b].amount]
  <2>1. IsFiniteSet(T)
    BY SettlementAssumption, FS_Subset
  <2>2. Sum(T) = SumOver(f, T) /\ Sum(T)' = SumOver(h, T)
    BY <2>1, SumIs, SumIsThen
  <2>3. \A b \in T : f[b] = h[b]
    BY <1>3
  <2> HIDE DEF f, h
  <2>4. SumOver(f, T) = SumOver(h, T)
    BY <2>1, <2>3, SumOfSame
  <2>5. QED BY <2>2, <2>4
<1>11. accrued = Sum(S) /\ Sum(InBooks)' = Sum(S \union {a})'
  BY <1>6, <1>7 DEF AmountsIInv, AccruedAdjustments, InBooks
<1>12. accrued' = Sum(InBooks)' /\ accrued' \in Int
  BY <1>1, <1>8, <1>9, <1>10, <1>11
<1>13. AccruedAdjustments'
  BY <1>12 DEF AccruedAdjustments, InBooks
<1>14. ReversalsHold'
  BY <1>1, <1>2, <1>3, <1>4 DEF ReversalsHold, AdjustmentType
<1>15. QED BY <1>12, <1>13, <1>14

\* An adjustment is reversed: what it put in is taken out, and the reversal is not one of
\* those that the books have.
LEMMA ReverseTakesOut ==
  ASSUME AmountsIInv, NEW a \in Adjustments, NEW b \in Adjustments, ReverseAdjustment(a, b)
  PROVE  accrued' \in Int /\ AccruedAdjustments' /\ ReversalsHold'
<1>1. /\ adjustment[a].status = "posted" /\ adjustment[a].reverses = None
      /\ adjustment[b].status = "absent" /\ ReversalOf(a) = {} /\ a # b
      /\ accrued' = accrued - adjustment[a].amount
      /\ adjustment' = [adjustment EXCEPT ![b] =
           [adjustment[a] EXCEPT !.week = now, !.amount = - @, !.reverses = a]]
  BY DEF ReverseAdjustment
<1>2. AdjustmentType /\ ReversalsHold /\ None \notin Adjustments
  BY SettlementAssumption DEF AmountsIInv, IInv, Types
<1>3. \A d \in Adjustments \ {b} : adjustment'[d] = adjustment[d]
  BY <1>1, <1>2 DEF AdjustmentType
<1>4. adjustment'[b].status = "posted" /\ adjustment'[b].reverses = a
  <2>1. adjustment'[b] = [adjustment[a] EXCEPT !.week = now, !.amount = - @, !.reverses = a]
    BY <1>1, <1>2 DEF AdjustmentType
  <2>2. adjustment[a] = [status |-> adjustment[a].status, category |-> adjustment[a].category,
                         run |-> adjustment[a].run, week |-> adjustment[a].week,
                         amount |-> adjustment[a].amount, reverses |-> adjustment[a].reverses]
    BY <1>2 DEF AdjustmentType
  <2>3. adjustment'[b] = [status |-> adjustment[a].status, category |-> adjustment[a].category,
                          run |-> adjustment[a].run, week |-> now,
                          amount |-> - adjustment[a].amount, reverses |-> a]
    BY <2>1, <2>2
  <2>4. QED BY <1>1, <2>3
<1>5. adjustment[b].reverses = None /\ \A d \in Adjustments : adjustment[d].reverses # b
  BY <1>1, <1>2 DEF ReversalsHold
<1>6. \A d \in Adjustments : ReversalOf(d)' = IF d = a THEN {b} ELSE ReversalOf(d)
  BY <1>1, <1>2, <1>3, <1>4, <1>5 DEF ReversalOf
<1>7. InBooks' = InBooks \ {a} /\ a \in InBooks /\ b \notin InBooks
  BY <1>1, <1>2, <1>3, <1>4, <1>6 DEF InBooks
<1>8. PICK S \in SUBSET (Adjustments \ {a}) : S = InBooks \ {a}
  BY DEF InBooks
<1>9. InBooks = S \union {a} /\ a \notin S
  BY <1>7, <1>8
<1>10. \A d \in Adjustments : adjustment[d].amount \in Int
  BY <1>2 DEF AdjustmentType
<1>11. Sum(S \union {a}) = adjustment[a].amount + Sum(S) /\ Sum(S) \in Int
  BY <1>9, <1>10, InBooksAdds
<1>12. \A d \in S : adjustment'[d] = adjustment[d]
  BY <1>3, <1>7, <1>8
<1>13. Sum(S)' = Sum(S)
  BY <1>12, SumStays
<1>14. accrued = Sum(S \union {a}) /\ Sum(InBooks)' = Sum(S)'
  BY <1>7, <1>8, <1>9 DEF AmountsIInv, AccruedAdjustments, InBooks
<1>15. accrued' = Sum(InBooks)' /\ accrued' \in Int
  BY <1>1, <1>10, <1>11, <1>13, <1>14
<1>16. AccruedAdjustments'
  BY <1>15 DEF AccruedAdjustments, InBooks
<1>17. ReversalsHold'
  BY <1>1, <1>2, <1>3, <1>4 DEF ReversalsHold
<1>18. QED BY <1>15, <1>16, <1>17

\* An adjustment before it is posted is not in the books.
LEMMA DraftsStayOut ==
  ASSUME AmountsIInv, NEW a \in Adjustments,
         adjustment[a].status # "posted", adjustment'[a].status # "posted", accrued' = accrued,
         adjustment'[a].reverses = None,
         \A b \in Adjustments \ {a} : adjustment'[b] = adjustment[b]
  PROVE  accrued' \in Int /\ AccruedAdjustments' /\ ReversalsHold'
<1>1. ReversalsHold /\ None \notin Adjustments /\ adjustment[a].reverses = None
  BY SettlementAssumption DEF AmountsIInv, ReversalsHold
<1>2. \A d \in Adjustments : ReversalOf(d)' = ReversalOf(d)
  BY <1>1 DEF ReversalOf
<1>3. InBooks' = InBooks /\ a \notin InBooks /\ InBooks \subseteq Adjustments
  BY <1>2 DEF InBooks
<1>4. AccruedAdjustments'
  BY <1>3, BooksStay
<1>5. \A d \in Adjustments : adjustment[d].reverses \in Adjustments \union {None}
  BY DEF AmountsIInv, IInv, Types, AdjustmentType
<1>6. ReversalsHold'
  BY <1>1, <1>5 DEF ReversalsHold
<1>7. QED BY <1>4, <1>6 DEF AmountsIInv

\* A step of an adjustment.
LEMMA AmountsAdjust ==
  ASSUME AmountsIInv, NEW a \in Adjustments, Adjust(a)
  PROVE  AmountsIInv'
<1>1. UNCHANGED <<register, now, wages, native, opening, tax, payments, provider>>
  BY DEF Adjust, CreateAdjustment, ApproveAdjustment, PostAdjustment, VoidAdjustment, ReverseAdjustment
<1>2. AdjustmentType /\ IInv'
  BY AdjustIInv DEF AmountsIInv, IInv, Types
<1>3. \A b \in Adjustments : adjustment[b].status = "posted" => adjustment'[b] = adjustment[b]
  BY <1>2 DEF AdjustmentType, Adjust, CreateAdjustment, ApproveAdjustment, PostAdjustment, VoidAdjustment, ReverseAdjustment
<1>4. accrued' \in Int /\ AccruedAdjustments' /\ ReversalsHold'
  <2>1. ASSUME NEW category \in Category, NEW run \in Runs \union {None}, NEW week \in ServiceWeeks,
               NEW amount \in Amounts, CreateAdjustment(a, category, run, week, amount)
        PROVE  accrued' \in Int /\ AccruedAdjustments' /\ ReversalsHold'
    <3>1. /\ adjustment[a].status = "absent" /\ adjustment'[a].status = "draft" /\ accrued' = accrued
          /\ adjustment'[a].reverses = None /\ \A b \in Adjustments \ {a} : adjustment'[b] = adjustment[b]
      BY <1>2, <2>1 DEF CreateAdjustment, AdjustmentType
    <3>2. QED BY <3>1, DraftsStayOut
  <2>2. CASE ApproveAdjustment(a) \/ VoidAdjustment(a)
    <3>1. /\ adjustment[a].status \in {"draft", "approved"} /\ accrued' = accrued
          /\ adjustment'[a].status \in {"approved", "void"} /\ adjustment'[a].reverses = adjustment[a].reverses
          /\ \A b \in Adjustments \ {a} : adjustment'[b] = adjustment[b]
      BY <1>2, <2>2 DEF ApproveAdjustment, VoidAdjustment, AdjustmentType
    <3>2. adjustment[a].reverses = None
      BY <3>1 DEF AmountsIInv, ReversalsHold
    <3>3. QED BY <3>1, <3>2, DraftsStayOut
  <2>3. CASE PostAdjustment(a)
    BY <2>3, PostAdds
  <2>4. ASSUME NEW b \in Adjustments, ReverseAdjustment(a, b)
        PROVE  accrued' \in Int /\ AccruedAdjustments' /\ ReversalsHold'
    BY <2>4, ReverseTakesOut
  <2>5. QED BY <2>1, <2>2, <2>3, <2>4 DEF Adjust
<1>5. NativeAdds'
  <2>1. SUFFICES ASSUME NEW r \in Runs, native[r].status # "none"
                 PROVE  register[r].status # "absent" /\ native[r].gross = wages[r] + Sum(native[r].included)'
    BY <1>1 DEF NativeAdds
  <2>2. native'[r].gross = wages'[r] + Sum(native[r].included)'
    BY <1>1, <1>3, <2>1, NativeStays
  <2>3. QED BY <1>1, <2>1, <2>2 DEF AmountsIInv, NativeAdds
<1>6. TaxOnNative'
  BY <1>1 DEF AmountsIInv, TaxOnNative
<1>7. YearToDateAdds' /\ PaidAsCalculated'
  BY <1>1, <1>3, PaidStaysCalculated
<1>8. QED BY <1>2, <1>4, <1>5, <1>6, <1>7 DEF AmountsIInv

\* What is no adjustment leaves the books.
LEMMA BooksAlone ==
  ASSUME AmountsIInv, UNCHANGED <<adjustment, accrued>>
  PROVE  accrued' \in Int /\ AccruedAdjustments' /\ ReversalsHold'
<1>1. InBooks' = InBooks /\ InBooks \subseteq Adjustments
  BY DEF InBooks, ReversalOf
<1>2. AccruedAdjustments'
  BY <1>1, BooksStay
<1>3. QED BY <1>2 DEF AmountsIInv, ReversalsHold

\* A register moves on, or a new one is prepared: it had no calculations.
LEMMA AmountsRegister ==
  ASSUME AmountsIInv, UNCHANGED settlement, NEW r \in Runs,
         \/ \E p \in Periods, w \in Wages : PrepareRun(r, p, w)
         \/ ApproveRun(r) \/ PostRun(r) \/ VoidRun(r)
  PROVE  AmountsIInv'
<1>1. IInv'
  BY RegisterIInv DEF AmountsIInv
<1>2. \A s \in Runs : register[s].status # "absent" => register'[s].status # "absent" /\ wages'[s] = wages[s]
  <2>1. RegistersHold
    BY DEF AmountsIInv, IInv
  <2>2. CASE \E p \in Periods, w \in Wages : PrepareRun(r, p, w)
    <3>1. PICK p \in Periods, w \in Wages : Registers!Prepare(r, p) /\ wages' = [wages EXCEPT ![r] = w]
      BY <2>2 DEF PrepareRun
    <3>2. QED BY <2>1, <3>1, PrepareKeeps
  <2>3. CASE ApproveRun(r) \/ PostRun(r) \/ VoidRun(r)
    <3>1. wages' = wages /\ (Registers!Approve(r) \/ Registers!Post(r) \/ Registers!Void(r))
      BY <2>3 DEF ApproveRun, PostRun, VoidRun
    <3>2. QED BY <2>1, <3>1, MoveKeeps DEF RegistersHold
  <2>4. QED BY <2>2, <2>3
<1>3. UNCHANGED <<native, adjustment, opening, tax, payments, provider, accrued>>
  BY DEF settlement
<1>4. accrued' \in Int /\ AccruedAdjustments' /\ ReversalsHold'
  BY <1>3, BooksAlone
<1>5. NativeAdds'
  <2>1. SUFFICES ASSUME NEW s \in Runs, native[s].status # "none"
                 PROVE  register'[s].status # "absent" /\ native[s].gross = wages'[s] + Sum(native[s].included)'
    BY <1>3 DEF NativeAdds
  <2>2. register[s].status # "absent"
    BY <2>1 DEF AmountsIInv, NativeAdds
  <2>3. native'[s].gross = wages'[s] + Sum(native[s].included)'
    BY <1>2, <1>3, <2>1, <2>2, NativeStays
  <2>4. QED BY <1>2, <1>3, <2>2, <2>3
<1>6. TaxOnNative'
  BY <1>3 DEF AmountsIInv, TaxOnNative
<1>7. YearToDateAdds' /\ PaidAsCalculated'
  BY <1>2, <1>3, PaidStaysCalculated
<1>8. QED BY <1>1, <1>4, <1>5, <1>6, <1>7 DEF AmountsIInv

\* A calculation is made of what is posted, approved, or given up.
LEMMA AmountsNative ==
  ASSUME AmountsIInv, NEW r \in Runs, PrepareNative(r) \/ ApproveNative(r) \/ VoidNative(r)
  PROVE  AmountsIInv'
<1>1. UNCHANGED <<register, now, wages, adjustment, opening, tax, payments, provider, accrued>>
  BY DEF PrepareNative, ApproveNative, VoidNative
<1>2. IInv' /\ NativeShape
  BY NativeIInv DEF AmountsIInv, IInv, Types
<1>3. accrued' \in Int /\ AccruedAdjustments' /\ ReversalsHold'
  BY <1>1, BooksAlone
<1>4. /\ \A s \in Runs \ {r} : native'[s] = native[s]
      /\ native[r].status # "approved"
      /\ \/ /\ native[r].status = "none" /\ register[r].status # "absent"
            /\ native'[r] = [status |-> "draft", gross |-> NativeGross(r), included |-> Included(r)]
         \/ /\ native[r].status = "draft" /\ native'[r].included = native[r].included
            /\ native'[r].gross = native[r].gross
         \/ native'[r].status = "none"
  BY <1>2 DEF PrepareNative, ApproveNative, VoidNative, Active, NativeShape, NoNative
<1>5. NativeAdds'
  <2>1. SUFFICES ASSUME NEW s \in Runs, native'[s].status # "none"
                 PROVE  register'[s].status # "absent" /\ native'[s].gross = wages'[s] + Sum(native[s].included)'
    BY DEF NativeAdds
  <2>2. CASE /\ native[s].status # "none" /\ native'[s].included = native[s].included
             /\ native'[s].gross = native[s].gross
    <3>1. native'[s].gross = wages'[s] + Sum(native[s].included)'
      BY <1>1, <2>2, NativeStays
    <3>2. QED BY <1>1, <2>2, <3>1 DEF AmountsIInv, NativeAdds
  <2>3. CASE /\ s = r /\ register[r].status # "absent"
             /\ native'[r] = [status |-> "draft", gross |-> NativeGross(r), included |-> Included(r)]
    <3>1. PICK S \in SUBSET Adjustments : S = Included(r)
      BY DEF Included
    <3>2. Sum(S)' = Sum(S)
      BY <1>1, SumStays
    <3>3. native'[s].included = S /\ native'[s].gross = wages[s] + Sum(S)
      BY <2>3, <3>1 DEF NativeGross
    <3>4. Sum(native[s].included)' = Sum(S)'
      BY <3>3
    <3>5. QED BY <1>1, <2>3, <3>2, <3>3, <3>4
  <2>4. QED BY <1>4, <2>1, <2>2, <2>3
<1>6. TaxOnNative'
  BY <1>1, <1>4 DEF AmountsIInv, TaxOnNative
<1>7. \A s \in Runs : native[s].status = "approved" => native'[s] = native[s]
  BY <1>4
<1>8. YearToDateAdds' /\ PaidAsCalculated'
  BY <1>1, <1>7, PaidStaysCalculated
<1>9. QED BY <1>2, <1>3, <1>5, <1>6, <1>8 DEF AmountsIInv

\* Withholding is on an approved calculation, and what it counts from is verified before.
LEMMA AmountsTax ==
  ASSUME AmountsIInv, NEW r \in Runs,
         \/ \E payday \in Paydays : PrepareTax(r, payday) \/ \E prior \in Priors : AddOpening(r, payday, prior)
         \/ ApproveTax(r) \/ VoidTax(r)
  PROVE  AmountsIInv'
<1>1. UNCHANGED <<register, now, wages, native, adjustment, payments, provider, accrued>>
  BY DEF PrepareTax, AddOpening, ApproveTax, VoidTax
<1>2. IInv' /\ TaxShape /\ OpeningShape
  BY TaxIInv DEF AmountsIInv, IInv, Types
<1>3. accrued' \in Int /\ AccruedAdjustments' /\ ReversalsHold'
  BY <1>1, BooksAlone
<1>4. /\ \A s \in Runs \ {r} : tax'[s] = tax[s] /\ opening'[s] = opening[s]
      /\ tax'[r] = tax[r] \/ native[r].status = "approved" \/ tax'[r].status = "none"
      /\ tax[r].status # "approved"
  <2>1. ASSUME NEW payday \in Paydays, PrepareTax(r, payday)
        PROVE  /\ \A s \in Runs \ {r} : tax'[s] = tax[s] /\ opening'[s] = opening[s]
               /\ native[r].status = "approved" /\ tax[r].status # "approved"
    BY <1>2, <2>1 DEF PrepareTax, TaxReady, NativeReady, TaxShape
  <2>2. ASSUME NEW payday \in Paydays, NEW prior \in Priors, AddOpening(r, payday, prior)
        PROVE  /\ \A s \in Runs \ {r} : tax'[s] = tax[s] /\ opening'[s] = opening[s]
               /\ native[r].status = "approved" /\ tax[r].status # "approved"
    BY <1>2, <2>2 DEF AddOpening, NativeReady, OpeningShape
  <2>3. CASE ApproveTax(r)
    BY <1>2, <2>3 DEF ApproveTax, TaxReady, NativeReady, TaxShape
  <2>4. CASE VoidTax(r)
    BY <1>2, <2>4 DEF VoidTax, TaxShape, NoTax
  <2>5. QED BY <2>1, <2>2, <2>3, <2>4
<1>5. NativeAdds'
  <2>1. SUFFICES ASSUME NEW s \in Runs, native[s].status # "none"
                 PROVE  register[s].status # "absent" /\ native[s].gross = wages[s] + Sum(native[s].included)'
    BY <1>1 DEF NativeAdds
  <2>2. native'[s].gross = wages'[s] + Sum(native[s].included)'
    BY <1>1, <2>1, NativeStays
  <2>3. QED BY <1>1, <2>1, <2>2 DEF AmountsIInv, NativeAdds
<1>6. TaxOnNative'
  BY <1>1, <1>4 DEF AmountsIInv, TaxOnNative
<1>7. \A s \in Runs : tax[s].status = "approved" => tax'[s] = tax[s] /\ opening'[s] = opening[s]
  BY <1>4
<1>8. YearToDateAdds' /\ PaidAsCalculated'
  BY <1>1, <1>7, PaidStaysCalculated
<1>9. QED BY <1>2, <1>3, <1>5, <1>6, <1>8 DEF AmountsIInv

\* What is neither register, wages nor adjustment leaves the calculations.
LEMMA NativeAlone ==
  ASSUME AmountsIInv, UNCHANGED <<register, wages, native, adjustment, tax>>
  PROVE  NativeAdds' /\ TaxOnNative'
<1>1. NativeAdds'
  <2>1. SUFFICES ASSUME NEW s \in Runs, native[s].status # "none"
                 PROVE  register[s].status # "absent" /\ native[s].gross = wages[s] + Sum(native[s].included)'
    BY DEF NativeAdds
  <2>2. native'[s].gross = wages'[s] + Sum(native[s].included)'
    BY <2>1, NativeStays
  <2>3. QED BY <2>1, <2>2 DEF AmountsIInv, NativeAdds
<1>2. QED BY <1>1 DEF AmountsIInv, TaxOnNative

\* A payment is recorded after all that stand: these come to its year to date.
LEMMA AmountsRecord ==
  ASSUME AmountsIInv, NEW r \in Runs, RecordPayment(r)
  PROVE  AmountsIInv'
<1>1. UNCHANGED <<register, now, wages, native, adjustment, opening, tax, provider, accrued>>
  BY DEF RecordPayment
<1>2. IInv' /\ PaymentsShape
  BY RecordIInv DEF AmountsIInv, IInv, Types
<1>3. accrued' \in Int /\ AccruedAdjustments' /\ ReversalsHold' /\ NativeAdds' /\ TaxOnNative'
  BY <1>1, BooksAlone, NativeAlone
<1> DEFINE p == [run |-> r, payday |-> tax[r].payday, gross |-> native[r].gross, prior |-> Prior(r),
                 ytd |-> Paid(Standing) + native[r].gross, reversed |-> FALSE]
<1>4. payments' = Append(payments, p)
  BY DEF RecordPayment
<1>5. /\ p.run = r /\ p.payday = tax[r].payday /\ p.gross = native[r].gross /\ p.prior = Prior(r)
      /\ p.ytd = Paid(Standing) + p.gross /\ p.reversed = FALSE
  OBVIOUS
<1> HIDE DEF p
<1>6. PICK n \in Nat :
        /\ DOMAIN payments = 1 .. n /\ DOMAIN payments' = 1 .. n + 1
        /\ payments'[n + 1] = p /\ \A i \in 1 .. n : payments'[i] = payments[i]
  <2> DEFINE S == {payments[i] : i \in DOMAIN payments}
  <2>1. payments \in Seq(S \union {p})
    BY <1>2, SeqMonotonic DEF PaymentsShape
  <2> HIDE DEF S
  <2>2. /\ Len(payments) \in Nat /\ DOMAIN payments = 1 .. Len(payments)
        /\ Len(payments') = Len(payments) + 1 /\ DOMAIN payments' = 1 .. Len(payments) + 1
        /\ payments'[Len(payments) + 1] = p
        /\ \A i \in 1 .. Len(payments) : payments'[i] = payments[i]
    BY <1>4, <2>1, AppendProperties
  <2>3. QED BY <2>2
<1>7. YearToDateAdds'
  <2>1. Standing' = Standing \union {n + 1} /\ Standing \subseteq 1 .. n
    BY <1>5, <1>6 DEF Standing
  <2>2. \A i \in 1 .. n : StandingBefore(i)' = StandingBefore(i) /\ StandingBefore(i) \subseteq 1 .. n
    <3>1. SUFFICES ASSUME NEW i \in 1 .. n
                   PROVE  StandingBefore(i)' = StandingBefore(i) /\ StandingBefore(i) \subseteq 1 .. n
      OBVIOUS
    <3>2. StandingBefore(i)' = {j \in Standing' : j < i} /\ StandingBefore(i) = {j \in Standing : j < i}
      BY DEF StandingBefore
    <3>3. ~ (n + 1 < i)
      OBVIOUS
    <3>4. QED BY <2>1, <3>2, <3>3
  <2>3. StandingBefore(n + 1)' = Standing
    <3>1. StandingBefore(n + 1)' = {j \in Standing' : j < n + 1}
      BY DEF StandingBefore
    <3>2. \A j \in Standing : j \in 1 .. n
      BY <2>1
    <3>3. (\A j \in Standing : j < n + 1) /\ ~ (n + 1 < n + 1)
      BY <3>2
    <3>4. QED BY <2>1, <3>1, <3>3
  <2>4. \A T \in SUBSET (1 .. n) : Paid(T)' = Paid(T)
    <3>1. SUFFICES ASSUME NEW T \in SUBSET (1 .. n) PROVE Paid(T)' = Paid(T)
      OBVIOUS
    <3>2. IsFiniteSet(1 .. n)
      BY FS_Interval
    <3>3. IsFiniteSet(T)
      BY <3>2, FS_Subset
    <3>4. \A i \in T : payments'[i].gross = payments[i].gross
      BY <1>6
    <3>5. QED BY <3>3, <3>4, PaidStays
  <2>5. ASSUME NEW i \in Standing
        PROVE  /\ payments'[i].ytd = Paid(StandingBefore(i))' + payments'[i].gross
               /\ payments'[i].prior >= Paid(StandingBefore(i))'
               /\ \A j \in StandingBefore(i)' : payments'[j].payday <= payments'[i].payday
    <3>1. PICK T \in SUBSET (1 .. n) : T = StandingBefore(i) /\ T = StandingBefore(i)'
      BY <2>1, <2>2
    <3>2. Paid(StandingBefore(i))' = Paid(T)' /\ Paid(StandingBefore(i)) = Paid(T) /\ Paid(T)' = Paid(T)
      BY <2>4, <3>1
    <3>3. i \in 1 .. n /\ payments'[i] = payments[i] /\ \A j \in T : payments'[j] = payments[j]
      BY <1>6, <2>1
    <3>4. QED BY <3>1, <3>2, <3>3 DEF AmountsIInv, YearToDateAdds
  <2>6. /\ payments'[n + 1].ytd = Paid(StandingBefore(n + 1))' + payments'[n + 1].gross
        /\ payments'[n + 1].prior >= Paid(StandingBefore(n + 1))'
        /\ \A j \in StandingBefore(n + 1)' : payments'[j].payday <= payments'[n + 1].payday
    <3>1. PICK T \in SUBSET (1 .. n) : T = Standing
      BY <2>1
    <3>2. Paid(StandingBefore(n + 1))' = Paid(T)' /\ Paid(T)' = Paid(Standing)
      BY <2>3, <2>4, <3>1
    <3>3. Prior(r) >= Paid(Standing) /\ \A j \in Standing : payments[j].payday <= tax[r].payday
      BY DEF RecordPayment
    <3>4. \A j \in Standing : payments'[j] = payments[j]
      BY <1>6, <2>1
    <3>5. QED BY <1>5, <1>6, <2>3, <3>2, <3>3, <3>4
  <2>7. QED BY <2>1, <2>5, <2>6 DEF YearToDateAdds
<1>8. PaidAsCalculated'
  <2>1. SUFFICES ASSUME NEW i \in 1 .. n + 1, NEW s, s = payments'[i].run
                 PROVE  /\ native'[s].status = "approved" /\ native'[s].gross = payments'[i].gross
                        /\ tax'[s].status = "approved" /\ tax'[s].payday = payments'[i].payday
                        /\ Prior(s)' = payments'[i].prior
                        /\ payments'[i].gross = wages'[s] + Sum(native[s].included)'
                        /\ \A a \in native'[s].included : adjustment'[a].status = "posted"
    BY <1>1, <1>6 DEF PaidAsCalculated
  <2>2. Prior(s)' = Prior(s)
    BY <1>1 DEF Prior
  <2>3. s \in Runs
    BY <1>2, <1>5, <1>6, <2>1 DEF PaymentsShape, Payment
  <2>4. /\ native[s].status = "approved" /\ native[s].gross = payments'[i].gross
        /\ tax[s].status = "approved" /\ tax[s].payday = payments'[i].payday
        /\ Prior(s) = payments'[i].prior
    <3>1. CASE i \in 1 .. n
      BY <1>6, <2>1, <3>1 DEF AmountsIInv, PaidAsCalculated
    <3>2. CASE i = n + 1
      <4>1. tax[r].status = "approved" /\ native[r].status = "approved"
        BY DEF RecordPayment, AmountsIInv, TaxOnNative
      <4>2. QED BY <1>5, <1>6, <2>1, <3>2, <4>1
    <3>3. QED BY <3>1, <3>2
  <2>5. native[s].gross = wages'[s] + Sum(native[s].included)'
    BY <1>1, <2>3, <2>4, NativeStays
  <2>6. \A a \in native[s].included : adjustment[a].status = "posted"
    BY <2>3 DEF AmountsIInv, IInv, IncludedFollow, Follows
  <2>7. QED BY <1>1, <2>2, <2>4, <2>5, <2>6
<1>9. QED BY <1>2, <1>3, <1>7, <1>8 DEF AmountsIInv

\* The last payment that stands is reversed: it was in no other's year to date.
LEMMA AmountsReverse ==
  ASSUME AmountsIInv, NEW i \in DOMAIN payments, ReversePayment(i)
  PROVE  AmountsIInv'
<1>1. /\ UNCHANGED <<register, now, wages, native, adjustment, opening, tax, provider, accrued>>
      /\ payments' = [payments EXCEPT ![i].reversed = TRUE]
      /\ \A j \in Standing : j <= i
  BY DEF ReversePayment
<1>2. IInv' /\ PaymentsShape
  BY ReverseIInv DEF AmountsIInv, IInv, Types
<1>3. accrued' \in Int /\ AccruedAdjustments' /\ ReversalsHold' /\ NativeAdds' /\ TaxOnNative'
  BY <1>1, BooksAlone, NativeAlone
<1>4. PICK n \in Nat : DOMAIN payments = 1 .. n /\ DOMAIN payments' = 1 .. n
  BY <1>1, <1>2 DEF PaymentsShape
<1>5. \A j \in 1 .. n : /\ payments'[j].run = payments[j].run /\ payments'[j].payday = payments[j].payday
                        /\ payments'[j].gross = payments[j].gross /\ payments'[j].prior = payments[j].prior
                        /\ payments'[j].ytd = payments[j].ytd
                        /\ j # i => payments'[j].reversed = payments[j].reversed
  <2>1. \A j \in 1 .. n : Payment(payments[j])
    BY <1>2, <1>4 DEF PaymentsShape
  <2>2. \A j \in (1 .. n) \ {i} : payments'[j] = payments[j]
    BY <1>1, <1>4
  <2>3. payments'[i] = [payments[i] EXCEPT !.reversed = TRUE]
    BY <1>1
  <2>4. payments'[i] = [run |-> payments[i].run, payday |-> payments[i].payday, gross |-> payments[i].gross,
                        prior |-> payments[i].prior, ytd |-> payments[i].ytd, reversed |-> TRUE]
    BY <1>4, <2>1, <2>3 DEF Payment
  <2>5. QED BY <2>2, <2>4
<1>6. payments'[i].reversed
  <2>1. Payment(payments[i])
    BY <1>2 DEF PaymentsShape
  <2>2. payments'[i] = [payments[i] EXCEPT !.reversed = TRUE]
    BY <1>1
  <2>3. payments'[i] = [run |-> payments[i].run, payday |-> payments[i].payday, gross |-> payments[i].gross,
                        prior |-> payments[i].prior, ytd |-> payments[i].ytd, reversed |-> TRUE]
    BY <2>1, <2>2 DEF Payment
  <2>4. QED BY <2>3
<1>7. YearToDateAdds'
  <2>1. Standing' = Standing \ {i} /\ Standing \subseteq 1 .. n
    BY <1>4, <1>5, <1>6 DEF Standing
  <2>2. SUFFICES ASSUME NEW j \in Standing, j # i
                 PROVE  /\ payments'[j].ytd = Paid(StandingBefore(j))' + payments'[j].gross
                        /\ payments'[j].prior >= Paid(StandingBefore(j))'
                        /\ \A k \in StandingBefore(j)' : payments'[k].payday <= payments'[j].payday
    BY <2>1 DEF YearToDateAdds
  <2>3. StandingBefore(j)' = StandingBefore(j) /\ StandingBefore(j) \subseteq 1 .. n
    <3>1. j \in Int /\ i \in Int /\ j < i
      BY <1>1, <1>4, <2>1, <2>2
    <3>2. StandingBefore(j)' = {k \in Standing' : k < j} /\ StandingBefore(j) = {k \in Standing : k < j}
      BY DEF StandingBefore
    <3>3. ~ (i < j)
      BY <3>1
    <3>4. QED BY <2>1, <3>2, <3>3
  <2>4. PICK T \in SUBSET (1 .. n) : T = StandingBefore(j)
    BY <2>3
  <2>5. Paid(T)' = Paid(T)
    <3>1. IsFiniteSet(1 .. n)
      BY FS_Interval
    <3>2. IsFiniteSet(T)
      BY <3>1, FS_Subset
    <3>3. \A k \in T : payments'[k].gross = payments[k].gross
      BY <1>5
    <3>4. QED BY <3>2, <3>3, PaidStays
  <2>6. Paid(StandingBefore(j))' = Paid(T)' /\ Paid(StandingBefore(j)) = Paid(T)
    BY <2>3, <2>4
  <2>7. /\ payments[j].ytd = Paid(StandingBefore(j)) + payments[j].gross
        /\ payments[j].prior >= Paid(StandingBefore(j))
        /\ \A k \in StandingBefore(j) : payments[k].payday <= payments[j].payday
    BY DEF AmountsIInv, YearToDateAdds
  <2>8. QED BY <1>5, <2>1, <2>3, <2>4, <2>5, <2>6, <2>7
<1>8. PaidAsCalculated'
  <2>1. SUFFICES ASSUME NEW j \in 1 .. n, NEW s, s = payments[j].run
                 PROVE  /\ native[s].status = "approved" /\ native[s].gross = payments[j].gross
                        /\ tax[s].status = "approved" /\ tax[s].payday = payments[j].payday
                        /\ Prior(s)' = payments[j].prior
                        /\ payments[j].gross = wages[s] + Sum(native[s].included)'
                        /\ \A a \in native[s].included : adjustment[a].status = "posted"
    BY <1>1, <1>4, <1>5 DEF PaidAsCalculated
  <2>2. Prior(s)' = Prior(s)
    BY <1>1 DEF Prior
  <2>3. s \in Runs
    BY <1>2, <1>4, <2>1 DEF PaymentsShape, Payment
  <2>4. /\ native[s].status = "approved" /\ native[s].gross = payments[j].gross
        /\ tax[s].status = "approved" /\ tax[s].payday = payments[j].payday
        /\ Prior(s) = payments[j].prior
        /\ \A a \in native[s].included : adjustment[a].status = "posted"
    BY <1>4, <2>1 DEF AmountsIInv, PaidAsCalculated
  <2>5. native'[s].gross = wages'[s] + Sum(native[s].included)'
    BY <1>1, <2>3, <2>4, NativeStays
  <2>6. QED BY <1>1, <2>2, <2>4, <2>5
<1>9. QED BY <1>2, <1>3, <1>7, <1>8 DEF AmountsIInv

\* Batches, the weeks, and what is not payroll leave the amounts.
LEMMA AmountsElse ==
  ASSUME AmountsIInv, IInv',
         UNCHANGED <<register, wages, native, adjustment, opening, tax, payments, accrued>>
  PROVE  AmountsIInv'
<1>1. accrued' \in Int /\ AccruedAdjustments' /\ ReversalsHold' /\ NativeAdds' /\ TaxOnNative'
  BY BooksAlone, NativeAlone
<1>2. YearToDateAdds' /\ PaidAsCalculated'
  BY PaidStaysCalculated
<1>3. QED BY <1>1, <1>2 DEF AmountsIInv

\* Every step preserves the inductive invariant.
LEMMA AmountsStep == AmountsIInv /\ [Next]_vars => AmountsIInv'
<1> SUFFICES ASSUME AmountsIInv, [Next]_vars PROVE AmountsIInv'
  OBVIOUS
<1>1. IInv'
  BY StepIInv DEF AmountsIInv
<1>2. ASSUME NEW r \in Runs, \/ \E p \in Periods, w \in Wages : PrepareRun(r, p, w)
                             \/ ApproveRun(r) \/ PostRun(r) \/ VoidRun(r)
      PROVE  AmountsIInv'
  <2>1. UNCHANGED settlement
    BY <1>2 DEF PrepareRun, ApproveRun, PostRun, VoidRun
  <2>2. QED BY <1>2, <2>1, AmountsRegister
<1>3. ASSUME NEW r \in Runs, PrepareProvider(r) \/ SubmitProvider(r) \/ ImportProvider(r)
      PROVE  AmountsIInv'
  BY <1>1, <1>3, AmountsElse DEF PrepareProvider, SubmitProvider, ImportProvider
<1>4. ASSUME NEW r \in Runs, Settle(r)
      PROVE  AmountsIInv'
  BY <1>3, <1>4, AmountsNative, AmountsTax, AmountsRecord DEF Settle
<1>5. ASSUME NEW a \in Adjustments, Adjust(a)
      PROVE  AmountsIInv'
  BY <1>5, AmountsAdjust
<1>6. ASSUME NEW i \in DOMAIN payments, ReversePayment(i)
      PROVE  AmountsIInv'
  BY <1>6, AmountsReverse
<1>7. CASE EndWeek \/ UNCHANGED vars
  BY <1>1, <1>7, AmountsElse DEF EndWeek, vars, settlement
<1>8. QED BY <1>2, <1>4, <1>5, <1>6, <1>7 DEF Next

\* The inductive invariant holds throughout.
LEMMA AmountsInvariance == Spec => []AmountsIInv
  BY AmountsInit, AmountsStep, PTL DEF Spec

---------------------------------------------------------------------------
\* A statement is what was calculated, verified and paid before, and stays so: nothing
\* that is approved is calculated again, and payments are reversed last first.
THEOREM StatementsAlwaysStand == Spec => []StatementsStand
<1>1. AmountsIInv => StatementsStand
  BY DEF AmountsIInv, IInv, StatementsStand
<1>2. QED BY <1>1, AmountsInvariance, PTL

\* An adjustment is paid with one register, and the books have the sum of those posted
\* and not reversed, however many there are.
THEOREM AdjustmentsAlwaysCount == Spec => []AdjustmentsCount
<1>1. AmountsIInv => AccruedAdjustments
  BY DEF AmountsIInv
<1>2. QED BY <1>1, AmountsInvariance, NoAdjustmentTwice, PTL DEF AdjustmentsCount

---------------------------------------------------------------------------
(* Returns (PayrollFilings). What a return shows is a sum over payments,   *)
(* of which each was taken with what was verified before it.               *)

Quantity(p) == p.gross \in Nat /\ p.prior \in Nat /\ p.priorSs \in Nat

\* The larger and the smaller of two integers.
LEMMA LargerOfTwo ==
  ASSUME NEW a \in Int, NEW b \in Int
  PROVE  Max({a, b}) = IF a >= b THEN a ELSE b
<1>1. ASSUME NEW x \in {a, b}, \A y \in {a, b} : x >= y PROVE x = IF a >= b THEN a ELSE b
  BY <1>1
<1>2. \E x \in {a, b} : \A y \in {a, b} : x >= y
  <2>1. a >= b \/ b >= a
    OBVIOUS
  <2>2. QED BY <2>1
<1>3. QED BY <1>1, <1>2 DEF Max

LEMMA SmallerOfTwo ==
  ASSUME NEW a \in Int, NEW b \in Int
  PROVE  Min({a, b}) = IF a <= b THEN a ELSE b
<1>1. ASSUME NEW x \in {a, b}, \A y \in {a, b} : x =< y PROVE x = IF a <= b THEN a ELSE b
  BY <1>1
<1>2. \E x \in {a, b} : \A y \in {a, b} : x =< y
  <2>1. a =< b \/ b =< a
    OBVIOUS
  <2>2. QED BY <2>1
<1>3. QED BY <1>1, <1>2 DEF Min

\* What is beyond the threshold, taxed by social security, and taxed in addition.
LEMMA OverIs ==
  ASSUME NEW w \in Int
  PROVE  Returns!Over(w) = IF w >= Threshold THEN w - Threshold ELSE 0
<1>1. w - Threshold \in Int /\ Threshold \in Int
  BY ReturnsAssumption
<1> DEFINE d == w - Threshold
<1>2. Returns!Over(w) = Max({0, d})
  BY DEF Returns!Over, Returns!Max, Max
<1>3. d \in Int
  BY <1>1
<1> HIDE DEF d
<1>4. Max({0, d}) = IF 0 >= d THEN 0 ELSE d
  BY <1>3, LargerOfTwo
<1>5. QED BY <1>1, <1>2, <1>4 DEF d

LEMMA SsWagesAre ==
  ASSUME NEW p, Quantity(p)
  PROVE  /\ Returns!SsWages(p) \in Nat /\ Returns!SsWages(p) <= p.gross
         /\ p.priorSs >= SsBase => Returns!SsWages(p) = 0
         /\ p.priorSs < SsBase => Returns!SsWages(p) <= SsBase - p.priorSs
<1> DEFINE left == SsBase - p.priorSs
           base == Max({0, left})
<1>1. left \in Int /\ p.gross \in Nat /\ p.priorSs \in Nat /\ SsBase \in Nat
  BY ReturnsAssumption DEF Quantity
<1>2. Returns!SsWages(p) = Min({p.gross, base})
  BY DEF Returns!SsWages, Returns!Max, Returns!Min, Max, Min
<1> HIDE DEF base
<1>3. base = IF 0 >= left THEN 0 ELSE left
  <2> HIDE DEF left
  <2>1. QED BY <1>1, LargerOfTwo DEF base
<1>4. base \in Nat
  BY <1>1, <1>3
<1>5. Min({p.gross, base}) = IF p.gross <= base THEN p.gross ELSE base
  BY <1>1, <1>4, SmallerOfTwo
<1>6. QED BY <1>1, <1>2, <1>3, <1>4, <1>5

LEMMA AdditionalIs ==
  ASSUME NEW p, Quantity(p)
  PROVE  /\ Returns!AdditionalWages(p) = Returns!Over(p.prior + p.gross) - Returns!Over(p.prior)
         /\ Returns!AdditionalWages(p) \in Nat
<1>1. p.gross \in Nat /\ p.prior \in Nat /\ p.prior + p.gross \in Int /\ Threshold \in Nat
  BY ReturnsAssumption DEF Quantity
<1> DEFINE beyond == Returns!Over(p.prior + p.gross)
<1>2. Returns!AdditionalWages(p) = Min({p.gross, beyond})
  BY DEF Returns!AdditionalWages, Returns!Min, Min
<1>3. beyond = IF p.prior + p.gross >= Threshold THEN p.prior + p.gross - Threshold ELSE 0
  BY <1>1, OverIs
<1>4. Returns!Over(p.prior) = IF p.prior >= Threshold THEN p.prior - Threshold ELSE 0
  BY <1>1, OverIs
<1>5. beyond \in Nat
  BY <1>1, <1>3
<1> HIDE DEF beyond
<1>6. Min({p.gross, beyond}) = IF p.gross <= beyond THEN p.gross ELSE beyond
  BY <1>1, <1>5, SmallerOfTwo
<1>7. QED BY <1>1, <1>2, <1>3, <1>4, <1>5, <1>6 DEF beyond

\* So that what a return recognises is what is withheld.
LEMMA WithheldReconciles ==
  ASSUME NEW p, Quantity(p)
  PROVE  Returns!Reconciles(p)
BY AdditionalIs DEF Returns!Reconciles, Returns!AdditionalWithheld

\* A number has the greatest value somewhere in a finite set.
LEMMA Greatest ==
  ASSUME NEW S, IsFiniteSet(S), S # {}, NEW k, \A x \in S : k[x] \in Int
  PROVE  \E x \in S : \A y \in S : k[y] <= k[x]
<1> DEFINE Good(s) == \E x \in s : \A y \in s : k[y] <= k[x]
           Bad == {s \in SUBSET S : s # {} /\ ~ Good(s)}
<1> SUFFICES ASSUME Bad # {} PROVE FALSE
  OBVIOUS
<1>1. PICK s \in Bad : \A t \in Bad : Cardinality(s) <= Cardinality(t)
  <2>1. Bad \in SUBSET (SUBSET S)
    OBVIOUS
  <2> HIDE DEF Bad
  <2>2. QED BY <2>1, SmallestSet
<1>2. s \in SUBSET S /\ s # {} /\ ~ Good(s) /\ IsFiniteSet(s)
  BY FS_Subset
<1>3. PICK z \in s : TRUE
  BY <1>2
<1> DEFINE t == s \ {z}
<1>4. t \in SUBSET S /\ Cardinality(t) < Cardinality(s) /\ Cardinality(t) \in Nat /\ Cardinality(s) \in Nat
  BY <1>2, SmallerWithout
<1>5. t \notin Bad
  <2> HIDE DEF Bad, t
  <2>1. QED BY <1>1, <1>4
<1>6. CASE t = {}
  <2>1. \A y \in s : k[y] <= k[z]
    BY <1>2, <1>6
  <2>2. QED BY <1>2, <2>1
<1>7. CASE t # {}
  <2>1. PICK x \in t : \A y \in t : k[y] <= k[x]
    BY <1>4, <1>5, <1>7
  <2>2. k[x] \in Int /\ k[z] \in Int /\ \A y \in s : k[y] \in Int
    BY <1>2, <2>1
  <2>3. CASE k[z] <= k[x]
    BY <1>2, <2>1, <2>3
  <2>4. CASE k[x] <= k[z]
    <3>1. \A y \in s : k[y] <= k[z]
      BY <2>1, <2>2, <2>4
    <3>2. QED BY <1>2, <3>1
  <2>5. QED BY <2>2, <2>3, <2>4
<1>8. QED BY <1>6, <1>7

\* A finite set of natural numbers has a least, which Min finds.
LEMMA MinIs ==
  ASSUME NEW T \in SUBSET Nat, T # {}
  PROVE  Min(T) \in T /\ \A n \in T : Min(T) <= n
<1>1. \E n \in T : \A m \in T : n =< m
  BY LeastNumber
<1>2. QED BY <1>1 DEF Min

\* The last of some payments: of those with the most wages before them the largest.
Last(p, D) ==
  p \in D /\ \A q \in D : q.prior < p.prior \/ (q.prior = p.prior /\ q.gross <= p.gross)

Begins(b, D) == (\E p \in D : b = p.prior) /\ \A p \in D : b <= p.prior

LEMMA LastIsThere ==
  ASSUME NEW D, IsFiniteSet(D), D # {}, \A p \in D : Quantity(p)
  PROVE  \E p \in D : Last(p, D)
<1> DEFINE before == [p \in D |-> p.prior]
<1>1. \A p \in D : before[p] = p.prior /\ p.prior \in Int /\ p.gross \in Int
  BY DEF Quantity
<1> HIDE DEF before
<1>2. PICK x \in D : \A y \in D : before[y] <= before[x]
  BY <1>1, Greatest
<1> DEFINE T == {y \in D : y.prior = x.prior}
           gross == [p \in T |-> p.gross]
<1>3. IsFiniteSet(T) /\ T # {} /\ (\A p \in T : gross[p] = p.gross /\ gross[p] \in Int)
  BY <1>1, FS_Subset
<1> HIDE DEF gross, T
<1>4. PICK p \in T : \A q \in T : gross[q] <= gross[p]
  BY <1>3, Greatest
<1>5. p \in D /\ p.prior = x.prior /\ \A q \in D : q.prior = p.prior => q.gross <= p.gross
  BY <1>3, <1>4 DEF T
<1>6. \A q \in D : q.prior < p.prior \/ q.prior = p.prior
  BY <1>1, <1>2, <1>5
<1>7. ASSUME NEW q \in D PROVE q.prior < p.prior \/ (q.prior = p.prior /\ q.gross <= p.gross)
  BY <1>5, <1>6
<1>8. Last(p, D)
  BY <1>5, <1>7 DEF Last
<1>9. QED BY <1>5, <1>8

\* Without the last one they are still chained.
LEMMA ChainedWithout ==
  ASSUME NEW D, \A p \in D : Quantity(p), Returns!Chained(D), NEW z, Last(z, D)
  PROVE  Returns!Chained(D \ {z})
<1>1. \A p \in D : {q \in D \ {z} : q.person = p.person /\ q.prior < p.prior}
                   = {q \in D : q.person = p.person /\ q.prior < p.prior}
  BY DEF Last, Quantity
<1>2. \A p \in D : {q \in (D \ {z}) \ {p} : q.person = p.person /\ q.prior = p.prior}
                   \subseteq {q \in D \ {p} : q.person = p.person /\ q.prior = p.prior}
  OBVIOUS
<1> SUFFICES ASSUME NEW p \in D \ {z}
             PROVE  LET T == D \ {z}
                        same    == {q \in T \ {p} : q.person = p.person /\ q.prior = p.prior}
                        earlier == {q \in T : q.person = p.person /\ q.prior < p.prior} IN
                    /\ \A q \in same : (q.gross = 0 \/ p.gross = 0) /\ (q.payday < p.payday => q.gross = 0)
                    /\ earlier # {} =>
                         \E q \in earlier : p.prior = q.prior + q.gross /\ \A o \in earlier : o.prior <= q.prior
  BY DEF Returns!Chained
<1>3. LET same    == {q \in D \ {p} : q.person = p.person /\ q.prior = p.prior}
          earlier == {q \in D : q.person = p.person /\ q.prior < p.prior} IN
      /\ \A q \in same : (q.gross = 0 \/ p.gross = 0) /\ (q.payday < p.payday => q.gross = 0)
      /\ earlier # {} =>
           \E q \in earlier : p.prior = q.prior + q.gross /\ \A o \in earlier : o.prior <= q.prior
  BY DEF Returns!Chained
<1>4. QED BY <1>1, <1>2, <1>3

\* The last one begins where the last of the others ends.
LEMMA LastFollows ==
  ASSUME NEW D, \A p \in D : Quantity(p), NEW person, \A p \in D : p.person = person,
         Returns!Chained(D), NEW z, Last(z, D), NEW y, Last(y, D \ {z})
  PROVE  z.prior = y.prior + y.gross
<1>1. /\ y \in D /\ z \in D /\ y # z
      /\ \A p \in D : p.prior \in Nat /\ p.gross \in Nat /\ p.person = person
  BY DEF Last, Quantity
<1>2. \A p, q \in D : p # q /\ p.prior = q.prior => p.gross = 0 \/ q.gross = 0
  BY DEF Returns!Chained
<1>3. CASE y.prior = z.prior
  <2>1. y.gross <= z.gross /\ (y.gross = 0 \/ z.gross = 0)
    BY <1>1, <1>2, <1>3 DEF Last
  <2>2. QED BY <1>1, <1>3, <2>1
<1>4. CASE y.prior < z.prior
  <2> DEFINE earlier == {q \in D : q.person = z.person /\ q.prior < z.prior}
  <2>1. y \in earlier
    BY <1>1, <1>4
  <2>2. PICK q \in earlier : z.prior = q.prior + q.gross /\ \A o \in earlier : o.prior <= q.prior
    BY <1>1, <2>1 DEF Returns!Chained
  <2>3. q \in D /\ q # z /\ q.prior < z.prior /\ y.prior <= q.prior
    BY <1>1, <2>1, <2>2
  <2>4. q.prior < y.prior \/ (q.prior = y.prior /\ q.gross <= y.gross)
    BY <2>3 DEF Last
  <2>5. q.prior = y.prior /\ q.gross <= y.gross /\ q.gross # 0
    BY <1>1, <2>2, <2>3, <2>4
  <2>6. q = y
    BY <1>1, <1>2, <2>3, <2>5
  <2>7. QED BY <2>2, <2>6
<1>5. y.prior < z.prior \/ y.prior = z.prior
  BY <1>1 DEF Last
<1>6. QED BY <1>3, <1>4, <1>5

\* Together they reach from where they begin to where the last one ends, and what is
\* taxed in addition is what is beyond the threshold between the two.
LEMMA ChainAdds ==
  ASSUME NEW S, IsFiniteSet(S), \A p \in S : Quantity(p), NEW person, \A p \in S : p.person = person,
         Returns!Chained(S), NEW f, NEW a,
         \A p \in S : f[p] = p.gross /\ a[p] = Returns!AdditionalWages(p),
         NEW b, Begins(b, S)
  PROVE  SumOver(a, S) = Returns!Over(b + SumOver(f, S)) - Returns!Over(b)
<1> DEFINE Good(s) ==
             \A c, z : Begins(c, s) /\ Last(z, s) =>
               /\ c + SumOver(f, s) = z.prior + z.gross
               /\ SumOver(a, s) = Returns!Over(z.prior + z.gross) - Returns!Over(c)
           Bad == {s \in SUBSET S : s # {} /\ Returns!Chained(s) /\ ~ Good(s)}
<1>0. \A p \in S : f[p] \in Int /\ a[p] \in Int /\ p.prior \in Nat /\ p.gross \in Nat
  BY AdditionalIs DEF Quantity
<1>1. Bad = {}
  <2> SUFFICES ASSUME Bad # {} PROVE FALSE
    OBVIOUS
  <2>1. PICK s \in Bad : \A t \in Bad : Cardinality(s) <= Cardinality(t)
    <3>1. Bad \in SUBSET (SUBSET S)
      OBVIOUS
    <3> HIDE DEF Bad
    <3>2. QED BY <3>1, SmallestSet
  <2>2. s \in SUBSET S /\ s # {} /\ Returns!Chained(s) /\ IsFiniteSet(s)
    BY FS_Subset
  <2>3. PICK c, z : /\ Begins(c, s) /\ Last(z, s)
                    /\ ~ (/\ c + SumOver(f, s) = z.prior + z.gross
                          /\ SumOver(a, s) = Returns!Over(z.prior + z.gross) - Returns!Over(c))
    OBVIOUS
  <2> DEFINE t == s \ {z}
  <2>4. /\ z \in s /\ z \in S /\ Quantity(z) /\ t \in SUBSET S /\ IsFiniteSet(t)
        /\ Cardinality(t) < Cardinality(s) /\ Cardinality(t) \in Nat /\ Cardinality(s) \in Nat
    BY <2>2, <2>3, SmallerWithout DEF Last
  <2>5. /\ SumOver(f, s) = f[z] + SumOver(f, t) /\ SumOver(f, t) \in Int
        /\ SumOver(a, s) = a[z] + SumOver(a, t) /\ SumOver(a, t) \in Int
    BY <1>0, <2>2, <2>4, SumWithout, SumIsInt
  <2>6. a[z] = Returns!Over(z.prior + z.gross) - Returns!Over(z.prior) /\ f[z] = z.gross
        /\ z.gross \in Nat /\ z.prior \in Nat /\ c \in Nat
    <3>1. c \in Nat
      BY <1>0, <2>2, <2>3 DEF Begins
    <3>2. QED BY <1>0, <2>4, <3>1, AdditionalIs
  <2>7. ASSUME NEW w \in Int PROVE Returns!Over(w) \in Int
    BY <2>7, OverIs, ReturnsAssumption
  <2>8. CASE t = {}
    <3>1. s = {z} /\ c = z.prior
      BY <2>3, <2>4, <2>8 DEF Begins
    <3>2. SumOver(f, t) = 0 /\ SumOver(a, t) = 0
      BY <2>8, SumOfNothing
    <3>3. QED BY <2>3, <2>5, <2>6, <2>7, <3>1, <3>2
  <2>9. CASE t # {}
    <3>1. Returns!Chained(t)
      BY <2>2, <2>3, ChainedWithout
    <3>2. t \notin Bad
      <4> HIDE DEF Bad, t
      <4>1. QED BY <2>1, <2>4
    <3>3. Good(t)
      <4> HIDE DEF Good
      <4>1. QED BY <2>4, <2>9, <3>1, <3>2
    <3>4. PICK y \in t : Last(y, t)
      BY <2>4, <2>9, LastIsThere
    <3>5. Begins(c, t)
      BY <1>0, <2>2, <2>3, <2>4, <3>4 DEF Begins, Last
    <3>6. z.prior = y.prior + y.gross
      BY <2>2, <2>3, <3>4, LastFollows
    <3>7. /\ c + SumOver(f, t) = z.prior
          /\ SumOver(a, t) = Returns!Over(z.prior) - Returns!Over(c)
      <4>1. /\ c + SumOver(f, t) = y.prior + y.gross
            /\ SumOver(a, t) = Returns!Over(y.prior + y.gross) - Returns!Over(c)
        BY <3>3, <3>4, <3>5
      <4>2. QED BY <3>6, <4>1
    <3> DEFINE over == Returns!Over(z.prior)
               beyond == Returns!Over(z.prior + z.gross)
               start == Returns!Over(c)
    <3>8. over \in Int /\ beyond \in Int /\ start \in Int
      BY <2>6, <2>7
    <3>9. SumOver(a, s) = beyond - start
      <4>1. SumOver(a, s) = a[z] + SumOver(a, t) /\ a[z] = beyond - over /\ SumOver(a, t) = over - start
        BY <2>5, <2>6, <3>7
      <4> HIDE DEF over, beyond, start
      <4>2. QED BY <3>8, <4>1
    <3>10. c + SumOver(f, s) = z.prior + z.gross
      BY <2>5, <2>6, <3>7
    <3>11. QED BY <2>3, <3>9, <3>10
  <2>10. QED BY <2>8, <2>9
<1>2. S # {} /\ S \in SUBSET S
  BY DEF Begins
<1>3. Good(S)
  <2> HIDE DEF Good
  <2>1. QED BY <1>1, <1>2
<1>4. PICK z \in S : Last(z, S)
  BY <1>2, LastIsThere
<1>5. b + SumOver(f, S) = z.prior + z.gross /\ SumOver(a, S) = Returns!Over(z.prior + z.gross) - Returns!Over(b)
  BY <1>3, <1>4
<1>6. QED BY <1>5

---------------------------------------------------------------------------
(* The sums of the model are such sums.                                     *)

CheckRows ==
  [id: Runs, status: {"draft", "approved", "paid", "reversed"}, person: Adjustments, payday: Months,
   gross: Nat, priorSs: Nat, prior: Nat]

Wage == [p \in CheckRows |-> p.gross]
Taxed == [p \in CheckRows |-> Returns!SsWages(p)]
Beyond == [p \in CheckRows |-> Returns!AdditionalWages(p)]
Withheld(p) == Returns!SsWithheld(p) + Returns!MedicareWithheld(p) + Returns!AdditionalWithheld(p)
Shares(p) == 2 * (Returns!SsWithheld(p) + Returns!MedicareWithheld(p)) + Returns!AdditionalWithheld(p)
AllWithheld == [p \in CheckRows |-> Withheld(p)]
AllShares == [p \in CheckRows |-> Shares(p)]

LEMMA WagesAre ==
  ASSUME NEW S \in SUBSET CheckRows, IsFiniteSet(S)
  PROVE  Returns!MapThenSumSet(Returns!Gross, S) = SumOver(Wage, S)
<1> DEFINE Is(g) == g = [s \in SUBSET S |-> IF s = {} THEN 0
                           ELSE LET x == (CHOOSE y \in s : TRUE) IN x.gross + g[s \ {x}]]
           iter == CHOOSE g : Is(g)
<1>1. Returns!MapThenSumSet(Returns!Gross, S) = iter[S]
  BY DEF Returns!MapThenSumSet, Returns!MapThenFoldSet, Returns!Gross
<1>2. ASSUME NEW g PROVE Adds(g, Wage, S) <=> Is(g)
  <2>1. \A s \in SUBSET S : s # {} => Wage[First(s)] = First(s).gross
    BY FirstIsIn DEF Wage
  <2>2. [s \in SUBSET S |-> IF s = {} THEN 0 ELSE Wage[First(s)] + g[s \ {First(s)}]]
        = [s \in SUBSET S |-> IF s = {} THEN 0
             ELSE LET x == (CHOOSE y \in s : TRUE) IN x.gross + g[s \ {x}]]
    BY <2>1 DEF First
  <2>3. QED BY <2>2 DEF Adds
<1> HIDE DEF Is
<1>3. Adds(iter, Wage, S)
  BY <1>2, SumsExist
<1>4. QED BY <1>1, <1>3, FoldIs

LEMMA TaxedAre ==
  ASSUME NEW S \in SUBSET CheckRows, IsFiniteSet(S)
  PROVE  Returns!MapThenSumSet(Returns!SsWages, S) = SumOver(Taxed, S)
<1> DEFINE Is(g) == g = [s \in SUBSET S |-> IF s = {} THEN 0
                           ELSE LET x == (CHOOSE y \in s : TRUE) IN Returns!SsWages(x) + g[s \ {x}]]
           iter == CHOOSE g : Is(g)
<1>1. Returns!MapThenSumSet(Returns!SsWages, S) = iter[S]
  BY DEF Returns!MapThenSumSet, Returns!MapThenFoldSet
<1>2. ASSUME NEW g PROVE Adds(g, Taxed, S) <=> Is(g)
  <2>1. \A s \in SUBSET S : s # {} => Taxed[First(s)] = Returns!SsWages(First(s))
    BY FirstIsIn DEF Taxed
  <2>2. [s \in SUBSET S |-> IF s = {} THEN 0 ELSE Taxed[First(s)] + g[s \ {First(s)}]]
        = [s \in SUBSET S |-> IF s = {} THEN 0
             ELSE LET x == (CHOOSE y \in s : TRUE) IN Returns!SsWages(x) + g[s \ {x}]]
    BY <2>1 DEF First
  <2>3. QED BY <2>2 DEF Adds
<1> HIDE DEF Is
<1>3. Adds(iter, Taxed, S)
  BY <1>2, SumsExist
<1>4. QED BY <1>1, <1>3, FoldIs

LEMMA BeyondAre ==
  ASSUME NEW S \in SUBSET CheckRows, IsFiniteSet(S)
  PROVE  Returns!MapThenSumSet(Returns!AdditionalWages, S) = SumOver(Beyond, S)
<1> DEFINE Is(g) == g = [s \in SUBSET S |-> IF s = {} THEN 0
                           ELSE LET x == (CHOOSE y \in s : TRUE) IN Returns!AdditionalWages(x) + g[s \ {x}]]
           iter == CHOOSE g : Is(g)
<1>1. Returns!MapThenSumSet(Returns!AdditionalWages, S) = iter[S]
  BY DEF Returns!MapThenSumSet, Returns!MapThenFoldSet
<1>2. ASSUME NEW g PROVE Adds(g, Beyond, S) <=> Is(g)
  <2>1. \A s \in SUBSET S : s # {} => Beyond[First(s)] = Returns!AdditionalWages(First(s))
    BY FirstIsIn DEF Beyond
  <2>2. [s \in SUBSET S |-> IF s = {} THEN 0 ELSE Beyond[First(s)] + g[s \ {First(s)}]]
        = [s \in SUBSET S |-> IF s = {} THEN 0
             ELSE LET x == (CHOOSE y \in s : TRUE) IN Returns!AdditionalWages(x) + g[s \ {x}]]
    BY <2>1 DEF First
  <2>3. QED BY <2>2 DEF Adds
<1> HIDE DEF Is
<1>3. Adds(iter, Beyond, S)
  BY <1>2, SumsExist
<1>4. QED BY <1>1, <1>3, FoldIs

LEMMA WithheldAre ==
  ASSUME NEW S \in SUBSET CheckRows, IsFiniteSet(S)
  PROVE  Returns!MapThenSumSet(LAMBDA p : Returns!SsWithheld(p) + Returns!MedicareWithheld(p) + Returns!AdditionalWithheld(p), S) = SumOver(AllWithheld, S)
<1> DEFINE Is(g) == g = [s \in SUBSET S |-> IF s = {} THEN 0
                           ELSE LET x == (CHOOSE y \in s : TRUE) IN Withheld(x) + g[s \ {x}]]
           iter == CHOOSE g : Is(g)
<1>1. Returns!MapThenSumSet(LAMBDA p : Returns!SsWithheld(p) + Returns!MedicareWithheld(p) + Returns!AdditionalWithheld(p), S) = iter[S]
  BY DEF Returns!MapThenSumSet, Returns!MapThenFoldSet, Withheld
<1>2. ASSUME NEW g PROVE Adds(g, AllWithheld, S) <=> Is(g)
  <2>1. \A s \in SUBSET S : s # {} => AllWithheld[First(s)] = Withheld(First(s))
    BY FirstIsIn DEF AllWithheld
  <2>2. [s \in SUBSET S |-> IF s = {} THEN 0 ELSE AllWithheld[First(s)] + g[s \ {First(s)}]]
        = [s \in SUBSET S |-> IF s = {} THEN 0
             ELSE LET x == (CHOOSE y \in s : TRUE) IN Withheld(x) + g[s \ {x}]]
    BY <2>1 DEF First
  <2>3. QED BY <2>2 DEF Adds
<1> HIDE DEF Is
<1>3. Adds(iter, AllWithheld, S)
  BY <1>2, SumsExist
<1>4. QED BY <1>1, <1>3, FoldIs

LEMMA SharesAre ==
  ASSUME NEW S \in SUBSET CheckRows, IsFiniteSet(S)
  PROVE  Returns!MapThenSumSet(LAMBDA p : 2 * (Returns!SsWithheld(p) + Returns!MedicareWithheld(p))
                                  + Returns!AdditionalWithheld(p), S) = SumOver(AllShares, S)
<1> DEFINE Is(g) == g = [s \in SUBSET S |-> IF s = {} THEN 0
                           ELSE LET x == (CHOOSE y \in s : TRUE) IN Shares(x) + g[s \ {x}]]
           iter == CHOOSE g : Is(g)
<1>1. Returns!MapThenSumSet(LAMBDA p : 2 * (Returns!SsWithheld(p) + Returns!MedicareWithheld(p))
                                  + Returns!AdditionalWithheld(p), S) = iter[S]
  BY DEF Returns!MapThenSumSet, Returns!MapThenFoldSet, Shares
<1>2. ASSUME NEW g PROVE Adds(g, AllShares, S) <=> Is(g)
  <2>1. \A s \in SUBSET S : s # {} => AllShares[First(s)] = Shares(First(s))
    BY FirstIsIn DEF AllShares
  <2>2. [s \in SUBSET S |-> IF s = {} THEN 0 ELSE AllShares[First(s)] + g[s \ {First(s)}]]
        = [s \in SUBSET S |-> IF s = {} THEN 0
             ELSE LET x == (CHOOSE y \in s : TRUE) IN Shares(x) + g[s \ {x}]]
    BY <2>1 DEF First
  <2>3. QED BY <2>2 DEF Adds
<1> HIDE DEF Is
<1>3. Adds(iter, AllShares, S)
  BY <1>2, SumsExist
<1>4. QED BY <1>1, <1>3, FoldIs

---------------------------------------------------------------------------
(* What a return owes, which is rounded once, and what was withheld, which  *)
(* was rounded for each payment, differ by a cent or so a payment.          *)

LEMMA TaxIsNear ==
  ASSUME NEW c \in Int, NEW r \in Int
  PROVE  /\ Returns!Tax(c, r) \in Int
         /\ 10000 * Returns!Tax(c, r) <= c * r + 5000
         /\ 10000 * Returns!Tax(c, r) >= c * r - 4999
<1> DEFINE m == c * r + 5000
           t == m \div 10000
<1>1. m \in Int /\ c * r \in Int
  OBVIOUS
<1>2. t \in Int /\ 10000 * t <= m /\ m - 10000 * t <= 9999
  <2> HIDE DEF m
  <2>1. QED BY <1>1
<1>3. Returns!Tax(c, r) = t
  BY DEF Returns!Tax
<1> DEFINE cr == c * r
<1>4. m = cr + 5000 /\ cr \in Int
  BY <1>1
<1> HIDE DEF t, m, cr
<1>5. 10000 * t <= cr + 5000 /\ 10000 * t >= cr - 4999
  BY <1>2, <1>4
<1>6. QED BY <1>2, <1>3, <1>5 DEF cr

\* A sum of sums.
LEMMA SumOfTwo ==
  ASSUME NEW S, IsFiniteSet(S), NEW f, NEW h, NEW k,
         \A x \in S : f[x] = h[x] + k[x] /\ h[x] \in Int /\ k[x] \in Int
  PROVE  SumOver(f, S) = SumOver(h, S) + SumOver(k, S)
<1> DEFINE Good(s) == SumOver(f, s) = SumOver(h, s) + SumOver(k, s)
           Bad == {s \in SUBSET S : ~ Good(s)}
<1>0. \A x \in S : f[x] \in Int
  OBVIOUS
<1> SUFFICES ASSUME Bad # {} PROVE FALSE
  OBVIOUS
<1>1. PICK s \in Bad : \A t \in Bad : Cardinality(s) <= Cardinality(t)
  <2>1. Bad \in SUBSET (SUBSET S)
    OBVIOUS
  <2> HIDE DEF Bad
  <2>2. QED BY <2>1, SmallestSet
<1>2. s \in SUBSET S /\ ~ Good(s) /\ IsFiniteSet(s)
  BY FS_Subset
<1>3. s # {}
  <2>1. Good({})
    BY SumOfNothing
  <2> HIDE DEF Good
  <2>2. QED BY <1>2, <2>1
<1>4. PICK x \in s : TRUE
  BY <1>3
<1> DEFINE t == s \ {x}
<1>5. t \in SUBSET S /\ IsFiniteSet(t) /\ Cardinality(t) < Cardinality(s) /\ Cardinality(t) \in Nat /\ Cardinality(s) \in Nat
  BY <1>2, SmallerWithout
<1>6. /\ SumOver(f, s) = f[x] + SumOver(f, t)
      /\ SumOver(h, s) = h[x] + SumOver(h, t)
      /\ SumOver(k, s) = k[x] + SumOver(k, t)
  BY <1>0, <1>2, SumWithout
<1> HIDE DEF t
<1>7. Good(t)
  <2> HIDE DEF Good
  <2>1. t \notin Bad
    <3> HIDE DEF Bad
    <3>1. QED BY <1>1, <1>5
  <2>2. QED BY <1>5, <2>1
<1>8. SumOver(h, t) \in Int /\ SumOver(k, t) \in Int
  BY <1>5, SumIsInt
<1>9. f[x] = h[x] + k[x] /\ h[x] \in Int /\ k[x] \in Int
  BY <1>2
<1>10. QED BY <1>2, <1>6, <1>7, <1>8, <1>9

\* What is withheld of each is near to its two rates of what is taxed and of the wages.
Near(k, h, g, S) ==
  \A x \in S : /\ k[x] \in Int /\ h[x] \in Int /\ g[x] \in Int
               /\ 10000 * k[x] <= 620 * h[x] + 145 * g[x] + 10000
               /\ 10000 * k[x] >= 620 * h[x] + 145 * g[x] - 10000

LEMMA RoundingAdds ==
  ASSUME NEW S, IsFiniteSet(S), NEW k, NEW h, NEW g, Near(k, h, g, S)
  PROVE  /\ 10000 * SumOver(k, S) <= 620 * SumOver(h, S) + 145 * SumOver(g, S) + 10000 * Cardinality(S)
         /\ 10000 * SumOver(k, S) >= 620 * SumOver(h, S) + 145 * SumOver(g, S) - 10000 * Cardinality(S)
<1> DEFINE Good(s) ==
             /\ 10000 * SumOver(k, s) <= 620 * SumOver(h, s) + 145 * SumOver(g, s) + 10000 * Cardinality(s)
             /\ 10000 * SumOver(k, s) >= 620 * SumOver(h, s) + 145 * SumOver(g, s) - 10000 * Cardinality(s)
           Bad == {s \in SUBSET S : ~ Good(s)}
<1> SUFFICES ASSUME Bad # {} PROVE FALSE
  <2>1. S \in SUBSET S
    OBVIOUS
  <2>2. Bad = {} => Good(S)
    <3> HIDE DEF Good
    <3>1. QED BY <2>1
  <2> HIDE DEF Bad
  <2>3. QED BY <2>2
<1>1. PICK s \in Bad : \A t \in Bad : Cardinality(s) <= Cardinality(t)
  <2>1. Bad \in SUBSET (SUBSET S)
    OBVIOUS
  <2> HIDE DEF Bad
  <2>2. QED BY <2>1, SmallestSet
<1>2. s \in SUBSET S /\ ~ Good(s) /\ IsFiniteSet(s)
  BY FS_Subset
<1>3. s # {}
  <2>1. Cardinality({}) = 0 /\ SumOver(k, {}) = 0 /\ SumOver(h, {}) = 0 /\ SumOver(g, {}) = 0
    BY SumOfNothing, FS_EmptySet
  <2>2. Good({})
    BY <2>1
  <2> HIDE DEF Good
  <2>3. s = {} => Good(s)
    BY <2>2
  <2>4. QED BY <1>2, <2>3
<1>4. PICK x \in s : TRUE
  BY <1>3
<1> DEFINE t == s \ {x}
<1>5. /\ t \in SUBSET S /\ IsFiniteSet(t) /\ Cardinality(t) \in Nat /\ Cardinality(s) \in Nat
      /\ Cardinality(t) = Cardinality(s) - 1 /\ Cardinality(t) < Cardinality(s)
  <2>1. t \in SUBSET S
    BY <1>2
  <2>2. IsFiniteSet(t) /\ Cardinality(t) = Cardinality(s) - 1
    BY <1>2, FS_RemoveElement
  <2>3. Cardinality(t) \in Nat /\ Cardinality(s) \in Nat /\ Cardinality(t) < Cardinality(s)
    BY <1>2, SmallerWithout
  <2>4. QED BY <2>1, <2>2, <2>3
<1>6. /\ SumOver(k, s) = k[x] + SumOver(k, t)
      /\ SumOver(h, s) = h[x] + SumOver(h, t)
      /\ SumOver(g, s) = g[x] + SumOver(g, t)
  BY <1>2, SumWithout DEF Near
<1> HIDE DEF t
<1>7. Good(t)
  <2> HIDE DEF Good
  <2>1. t \notin Bad
    <3> HIDE DEF Bad
    <3>1. QED BY <1>1, <1>5
  <2>2. QED BY <1>5, <2>1
<1>8. SumOver(h, t) \in Int /\ SumOver(k, t) \in Int /\ SumOver(g, t) \in Int
  BY <1>5, SumIsInt DEF Near
<1>9. /\ k[x] \in Int /\ h[x] \in Int /\ g[x] \in Int
      /\ 10000 * k[x] <= 620 * h[x] + 145 * g[x] + 10000
      /\ 10000 * k[x] >= 620 * h[x] + 145 * g[x] - 10000
  BY <1>2 DEF Near
<1>10. QED
  <2> DEFINE a == SumOver(h, t)
             b == SumOver(k, t)
             c == SumOver(g, t)
  <2>1. SumOver(k, s) = k[x] + b /\ SumOver(h, s) = h[x] + a /\ SumOver(g, s) = g[x] + c
    BY <1>6
  <2>2. a \in Int /\ b \in Int /\ c \in Int
    BY <1>8
  <2>3. 10000 * b <= 620 * a + 145 * c + 10000 * Cardinality(t) /\ 10000 * b >= 620 * a + 145 * c - 10000 * Cardinality(t)
    BY <1>7
  <2> HIDE DEF a, b, c
  <2>4. QED BY <1>2, <1>5, <1>9, <2>1, <2>2, <2>3

---------------------------------------------------------------------------
(* The inductive invariant: a row is of its own check, and what is taxed of *)
(* a person's standing payments stays within the base, whatever was         *)
(* verified before each of them.                                            *)

RowsTypeOK ==
  /\ check \in [Runs -> CheckRows \union {Returns!NoCheck}]
  /\ \A c \in Runs : check[c].status # "none" => check[c] \in CheckRows /\ check[c].id = c

TaxedWithinBase == \A person \in Adjustments : SumOver(Taxed, Returns!Standing(person)) <= SsBase

PacketShape ==
  packet # None =>
    packet = [quarter |-> packet.quarter, evidence |-> packet.evidence, reviewed |-> packet.reviewed,
              downloaded |-> packet.downloaded]

ReturnsIInv == RowsTypeOK /\ TaxedWithinBase /\ PacketShape

LEMMA RowsAreQuantities ==
  ASSUME NEW p \in CheckRows
  PROVE  Quantity(p) /\ Wage[p] = p.gross /\ Wage[p] \in Nat /\ Taxed[p] = Returns!SsWages(p) /\ Taxed[p] \in Nat
<1>1. Quantity(p)
  BY DEF CheckRows, Quantity
<1>2. Returns!SsWages(p) \in Nat
  BY <1>1, SsWagesAre
<1>3. QED BY <1>1, <1>2 DEF Wage, Taxed, Quantity

LEMMA RowsFinite ==
  RowsTypeOK => IsFiniteSet(Returns!Rows)
<1> SUFFICES ASSUME RowsTypeOK PROVE IsFiniteSet(Returns!Rows)
  OBVIOUS
<1>1. Returns!Rows = {check[c] : c \in Runs}
  BY DEF Returns!Rows
<1>2. check \in Surjection(Runs, Returns!Rows)
  BY <1>1 DEF RowsTypeOK, Surjection
<1>3. QED BY <1>2, ReturnsAssumption, FS_Surjection

LEMMA StandingRows ==
  ASSUME RowsTypeOK, NEW person
  PROVE  Returns!Standing(person) \in SUBSET CheckRows /\ IsFiniteSet(Returns!Standing(person))
<1>1. Returns!Standing(person) \in SUBSET Returns!Rows
  BY DEF Returns!Standing
<1>2. IsFiniteSet(Returns!Standing(person))
  BY <1>1, RowsFinite, FS_Subset
<1>3. Returns!Standing(person) \in SUBSET CheckRows
  BY DEF RowsTypeOK, Returns!Standing, Returns!Rows
<1>4. QED BY <1>2, <1>3

\* A payment is taxed for no more than is left of the base.
LEMMA RecordedWithinBase ==
  ASSUME RowsTypeOK, NEW c \in Runs, Returns!RecordPayment(c),
         SumOver(Taxed, Returns!Standing(check[c].person)) <= SsBase
  PROVE  SumOver(Taxed, Returns!Standing(check[c].person)) + Returns!SsWages(check[c]) <= SsBase
<1> DEFINE p == check[c]
           S == Returns!Standing(check[c].person)
           recorded == SumOver(Wage, S)
           taxed == SumOver(Taxed, S)
<1>1. p \in CheckRows /\ S \in SUBSET CheckRows /\ IsFiniteSet(S)
  BY StandingRows DEF RowsTypeOK, Returns!RecordPayment
<1>2. \A q \in S : Quantity(q) /\ Wage[q] = q.gross /\ Wage[q] \in Nat /\ Taxed[q] = Returns!SsWages(q) /\ Taxed[q] \in Nat
  BY <1>1, RowsAreQuantities
<1>3. recorded \in Nat /\ taxed \in Nat
  BY <1>1, <1>2, SumIsNat
<1>4. taxed <= recorded
  <2>1. \A q \in S : Taxed[q] \in Int /\ Wage[q] \in Int /\ Taxed[q] <= Wage[q]
    BY <1>2, SsWagesAre
  <2>2. QED BY <1>1, <2>1, SumAtMost
<1>5. p.priorSs >= Min({recorded, SsBase})
  <2>1. p.priorSs >= Returns!Min({Returns!MapThenSumSet(Returns!Gross, S), SsBase})
    BY DEF Returns!RecordPayment
  <2>2. Returns!MapThenSumSet(Returns!Gross, S) = recorded
    BY <1>1, WagesAre
  <2>3. QED BY <2>1, <2>2 DEF Min, Returns!Min
<1>6. Quantity(p)
  BY <1>1, RowsAreQuantities
<1>7. Min({recorded, SsBase}) = IF recorded <= SsBase THEN recorded ELSE SsBase
  BY <1>3, ReturnsAssumption, SmallerOfTwo
<1>8. /\ Returns!SsWages(p) \in Nat /\ Returns!SsWages(p) <= p.gross
      /\ p.priorSs >= SsBase => Returns!SsWages(p) = 0
      /\ p.priorSs < SsBase => Returns!SsWages(p) <= SsBase - p.priorSs
  BY <1>6, SsWagesAre
<1>9. p.priorSs \in Nat /\ SsBase \in Nat /\ taxed <= SsBase
  BY <1>6, ReturnsAssumption DEF Quantity
<1> DEFINE more == Returns!SsWages(p)
           prior == p.priorSs
<1>10. taxed + more <= SsBase
  <2>1. /\ taxed \in Nat /\ recorded \in Nat /\ more \in Nat /\ prior \in Nat /\ SsBase \in Nat
        /\ taxed <= SsBase /\ taxed <= recorded
        /\ prior >= IF recorded <= SsBase THEN recorded ELSE SsBase
        /\ prior >= SsBase => more = 0
        /\ prior < SsBase => more <= SsBase - prior
    BY <1>3, <1>4, <1>5, <1>7, <1>8, <1>9
  <2> HIDE DEF taxed, recorded, more, prior
  <2>2. QED BY <2>1
<1>11. QED BY <1>10

LEMMA ReturnsInit == Returns!Init => ReturnsIInv
<1> SUFFICES ASSUME Returns!Init PROVE ReturnsIInv
  OBVIOUS
<1>1. RowsTypeOK
  BY DEF Returns!Init, Returns!NoCheck, RowsTypeOK
<1>2. TaxedWithinBase
  <2>1. \A person \in Adjustments : Returns!Standing(person) = {}
    BY DEF Returns!Init, Returns!NoCheck, Returns!Standing, Returns!Rows
  <2>2. QED BY <2>1, SumOfNothing, ReturnsAssumption DEF TaxedWithinBase
<1>3. PacketShape
  BY DEF Returns!Init, PacketShape
<1>4. QED BY <1>1, <1>2, <1>3 DEF ReturnsIInv

\* A check that is not a payment, before or after, is none of what is taxed.
LEMMA OtherCheck ==
  ASSUME RowsTypeOK, NEW c \in Runs, NEW row, check' = [check EXCEPT ![c] = row],
         check[c].status # "paid", row.status # "paid", NEW person
  PROVE  Returns!Standing(person)' = Returns!Standing(person)
<1>1. check'[c] = row /\ \A d \in Runs \ {c} : check'[d] = check[d]
  BY DEF RowsTypeOK
<1>2. \A p : p \in Returns!Standing(person)'
             <=> \E d \in Runs : check'[d] = p /\ p.status = "paid" /\ p.person = person
  BY DEF Returns!Standing, Returns!Rows
<1>3. \A p : p \in Returns!Standing(person)
             <=> \E d \in Runs : check[d] = p /\ p.status = "paid" /\ p.person = person
  BY DEF Returns!Standing, Returns!Rows
<1>4. \A p : p \in Returns!Standing(person)' <=> p \in Returns!Standing(person)
  BY <1>1, <1>2, <1>3
<1>5. QED BY <1>4

LEMMA RecordedCheck ==
  ASSUME RowsTypeOK, NEW c \in Runs, NEW row, check' = [check EXCEPT ![c] = row], row.id = c,
         check[c].status # "paid", row.status = "paid", NEW person
  PROVE  /\ row.person # person => Returns!Standing(person)' = Returns!Standing(person)
         /\ row.person = person => /\ Returns!Standing(person)' = Returns!Standing(person) \union {row}
                                   /\ row \notin Returns!Standing(person)
<1>1. check'[c] = row /\ \A d \in Runs \ {c} : check'[d] = check[d]
  BY DEF RowsTypeOK
<1>2. \A p : p \in Returns!Standing(person)'
             <=> \E d \in Runs : check'[d] = p /\ p.status = "paid" /\ p.person = person
  BY DEF Returns!Standing, Returns!Rows
<1>3. \A p : p \in Returns!Standing(person)
             <=> \E d \in Runs : check[d] = p /\ p.status = "paid" /\ p.person = person
  BY DEF Returns!Standing, Returns!Rows
<1>4. \A d \in Runs \ {c} : check[d] # row
  BY DEF RowsTypeOK
<1>5. row \notin Returns!Standing(person)
  BY <1>3, <1>4
<1>6. CASE row.person # person
  <2>1. \A p : p \in Returns!Standing(person)' <=> p \in Returns!Standing(person)
    BY <1>1, <1>2, <1>3, <1>6
  <2>2. QED BY <1>6, <2>1
<1>7. CASE row.person = person
  <2>1. \A p : p \in Returns!Standing(person)' <=> (p \in Returns!Standing(person) \/ p = row)
    BY <1>1, <1>2, <1>3, <1>7
  <2>2. Returns!Standing(person)' = Returns!Standing(person) \union {row}
    BY <2>1
  <2>3. QED BY <1>5, <1>7, <2>2
<1>8. QED BY <1>6, <1>7

LEMMA ReversedCheck ==
  ASSUME RowsTypeOK, NEW c \in Runs, NEW row, check' = [check EXCEPT ![c] = row], row.status # "paid", NEW person
  PROVE  Returns!Standing(person)' \in SUBSET Returns!Standing(person)
<1>1. check'[c] = row /\ \A d \in Runs \ {c} : check'[d] = check[d]
  BY DEF RowsTypeOK
<1>2. QED BY <1>1 DEF Returns!Standing, Returns!Rows

\* What is taxed of fewer payments is no more.
LEMMA FewerTaxed ==
  ASSUME NEW S \in SUBSET CheckRows, IsFiniteSet(S), NEW T \in SUBSET S
  PROVE  SumOver(Taxed, T) <= SumOver(Taxed, S)
<1> DEFINE Good(s) == SumOver(Taxed, s \intersect T) <= SumOver(Taxed, s)
           Bad == {s \in SUBSET S : ~ Good(s)}
<1>0. \A p \in S : Taxed[p] \in Nat
  BY RowsAreQuantities
<1>1. Bad = {}
  <2> SUFFICES ASSUME Bad # {} PROVE FALSE
    OBVIOUS
  <2>1. PICK s \in Bad : \A t \in Bad : Cardinality(s) <= Cardinality(t)
    <3>1. Bad \in SUBSET (SUBSET S)
      OBVIOUS
    <3> HIDE DEF Bad
    <3>2. QED BY <3>1, SmallestSet
  <2>2. s \in SUBSET S /\ ~ Good(s) /\ IsFiniteSet(s)
    BY FS_Subset
  <2>3. s # {}
    <3>1. {} \intersect T = {} /\ SumOver(Taxed, {}) = 0
      BY SumOfNothing
    <3>2. Good({})
      BY <3>1
    <3> HIDE DEF Good
    <3>3. QED BY <2>2, <3>2
  <2>4. PICK x \in s : TRUE
    BY <2>3
  <2> DEFINE t == s \ {x}
  <2>5. t \in SUBSET S /\ IsFiniteSet(t) /\ Cardinality(t) < Cardinality(s) /\ Cardinality(t) \in Nat /\ Cardinality(s) \in Nat
    BY <2>2, SmallerWithout
  <2>6. SumOver(Taxed, s) = Taxed[x] + SumOver(Taxed, t) /\ Taxed[x] \in Nat /\ x \in S
    BY <1>0, <2>2, SumWithout
  <2>7. SumOver(Taxed, t \intersect T) <= SumOver(Taxed, t)
    <3>1. t \notin Bad
      <4> HIDE DEF Bad, t
      <4>1. QED BY <2>1, <2>5
    <3> HIDE DEF t
    <3>2. QED BY <2>5, <3>1
  <2>8. SumOver(Taxed, t) \in Int
    BY <1>0, <2>5, SumIsInt
  <2> DEFINE u == t \intersect T
             v == s \intersect T
  <2>9. u \in SUBSET S /\ IsFiniteSet(u) /\ IsFiniteSet(v) /\ v \in SUBSET S
    <3>1. u \in SUBSET t /\ v \in SUBSET s
      OBVIOUS
    <3>2. IsFiniteSet(u) /\ IsFiniteSet(v)
      <4> HIDE DEF u, v
      <4>1. QED BY <2>2, <2>5, <3>1, FS_Subset
    <3>3. QED BY <2>2, <2>5, <3>1, <3>2
  <2>10. SumOver(Taxed, u) \in Int
    <3> HIDE DEF u
    <3>1. QED BY <1>0, <2>9, SumIsInt
  <2>11. SumOver(Taxed, v) <= Taxed[x] + SumOver(Taxed, u)
    <3>1. CASE x \in T
      <4>1. x \in v /\ v \ {x} = u
        BY <3>1
      <4>2. SumOver(Taxed, v) = Taxed[x] + SumOver(Taxed, v \ {x})
        <5>1. \A p \in v : Taxed[p] \in Int
          BY <1>0, <2>9
        <5> HIDE DEF v
        <5>2. QED BY <2>9, <4>1, <5>1, SumWithout
      <4>3. SumOver(Taxed, v) = Taxed[x] + SumOver(Taxed, u)
        BY <4>1, <4>2
      <4> HIDE DEF u, v
      <4>4. QED BY <2>6, <2>10, <4>3
    <3>2. CASE x \notin T
      <4>1. v = u
        BY <3>2
      <4> HIDE DEF u, v
      <4>2. QED BY <2>6, <2>10, <4>1
    <3>3. QED BY <3>1, <3>2
  <2>12. SumOver(Taxed, v) \in Int
    <3> HIDE DEF v
    <3>1. QED BY <1>0, <2>9, SumIsInt
  <2>13. SumOver(Taxed, v) > SumOver(Taxed, s)
    <3>1. SumOver(Taxed, s) \in Int
      BY <2>6, <2>8
    <3>2. ~ (SumOver(Taxed, v) <= SumOver(Taxed, s))
      BY <2>2
    <3> HIDE DEF v
    <3>3. QED BY <2>12, <3>1, <3>2
  <2> DEFINE a == SumOver(Taxed, u)
             b == SumOver(Taxed, v)
             d == SumOver(Taxed, t)
  <2>14. a <= d /\ a \in Int /\ d \in Int /\ b \in Int /\ b <= Taxed[x] + a /\ b > Taxed[x] + d
    BY <2>6, <2>7, <2>8, <2>10, <2>11, <2>12, <2>13
  <2> HIDE DEF a, b, d
  <2>15. QED BY <2>6, <2>14
<1>2. S \intersect T = T
  OBVIOUS
<1>3. Good(S)
  <2> HIDE DEF Good
  <2>1. QED BY <1>1
<1>4. QED BY <1>2, <1>3

LEMMA RowsKept ==
  ASSUME RowsTypeOK, NEW c \in Runs, NEW row, check' = [check EXCEPT ![c] = row],
         row = Returns!NoCheck \/ (row \in CheckRows /\ row.id = c)
  PROVE  RowsTypeOK'
<1>1. check'[c] = row /\ \A d \in Runs \ {c} : check'[d] = check[d]
  BY DEF RowsTypeOK
<1>2. check' \in [Runs -> CheckRows \union {Returns!NoCheck}]
  BY DEF RowsTypeOK
<1>3. Returns!NoCheck.status = "none"
  BY DEF Returns!NoCheck
<1>4. \A d \in Runs : check'[d].status # "none" => check'[d] \in CheckRows /\ check'[d].id = d
  BY <1>1, <1>3 DEF RowsTypeOK
<1>5. QED BY <1>2, <1>4 DEF RowsTypeOK

LEMMA BaseKept ==
  ASSUME TaxedWithinBase, \A person : Returns!Standing(person)' = Returns!Standing(person)
  PROVE  TaxedWithinBase'
BY DEF TaxedWithinBase, Taxed

LEMMA ReturnsStep == ReturnsIInv /\ [Returns!Next]_(Returns!filings) => ReturnsIInv'
<1> SUFFICES ASSUME ReturnsIInv, [Returns!Next]_(Returns!filings) PROVE ReturnsIInv'
  OBVIOUS
<1> USE DEF ReturnsIInv
<1>0. ASSUME UNCHANGED packet PROVE PacketShape'
  BY <1>0 DEF PacketShape
<1>1. ASSUME UNCHANGED check PROVE RowsTypeOK' /\ TaxedWithinBase'
  <2>1. \A person : Returns!Standing(person)' = Returns!Standing(person)
    BY <1>1 DEF Returns!Standing, Returns!Rows
  <2>2. QED BY <1>1, <2>1, BaseKept DEF RowsTypeOK
<1>2. ASSUME NEW c \in Runs, NEW person \in Adjustments, NEW payday \in Months, NEW gross \in Grosses,
             NEW prior \in Verified, Returns!PrepareTax(c, person, payday, gross, prior[1], prior[2])
      PROVE  ReturnsIInv'
  <2> DEFINE row == [id |-> c, status |-> "draft", person |-> person, payday |-> payday, gross |-> gross,
                     priorSs |-> prior[1], prior |-> prior[2]]
  <2>1. check' = [check EXCEPT ![c] = row] /\ check[c].status = "none" /\ UNCHANGED packet
    BY <1>2 DEF Returns!PrepareTax
  <2>2. row \in CheckRows /\ row.id = c /\ row.status = "draft"
    BY ReturnsAssumption DEF CheckRows
  <2> HIDE DEF row
  <2>3. RowsTypeOK'
    BY <2>1, <2>2, RowsKept
  <2>4. \A p : Returns!Standing(p)' = Returns!Standing(p)
    BY <2>1, <2>2, OtherCheck
  <2>5. QED BY <1>0, <2>1, <2>3, <2>4, BaseKept
<1>3. ASSUME NEW c \in Runs, Returns!ApproveTax(c) PROVE ReturnsIInv'
  <2> DEFINE row == [check[c] EXCEPT !.status = "approved"]
  <2>1. check' = [check EXCEPT ![c] = row] /\ check[c].status = "draft" /\ UNCHANGED packet
    BY <1>3 DEF Returns!ApproveTax
  <2>2. row \in CheckRows /\ row.id = c /\ row.status = "approved"
    BY <2>1 DEF RowsTypeOK, CheckRows
  <2> HIDE DEF row
  <2>3. RowsTypeOK'
    BY <2>1, <2>2, RowsKept
  <2>4. \A p : Returns!Standing(p)' = Returns!Standing(p)
    BY <2>1, <2>2, OtherCheck
  <2>5. QED BY <1>0, <2>1, <2>3, <2>4, BaseKept
<1>4. ASSUME NEW c \in Runs, Returns!VoidTax(c) PROVE ReturnsIInv'
  <2>1. check' = [check EXCEPT ![c] = Returns!NoCheck] /\ check[c].status = "draft" /\ UNCHANGED packet
    BY <1>4 DEF Returns!VoidTax
  <2>2. Returns!NoCheck.status = "none"
    BY DEF Returns!NoCheck
  <2>3. RowsTypeOK'
    BY <2>1, RowsKept
  <2>4. \A p : Returns!Standing(p)' = Returns!Standing(p)
    BY <2>1, <2>2, OtherCheck
  <2>5. QED BY <1>0, <2>1, <2>3, <2>4, BaseKept
<1>5. ASSUME NEW c \in Runs, Returns!RecordPayment(c) PROVE ReturnsIInv'
  <2> DEFINE row == [check[c] EXCEPT !.status = "paid"]
  <2>1. check' = [check EXCEPT ![c] = row] /\ check[c].status = "approved" /\ UNCHANGED packet
    BY <1>5 DEF Returns!RecordPayment
  <2>2. /\ row \in CheckRows /\ row.id = c /\ row.status = "paid" /\ check[c] \in CheckRows
        /\ row.person = check[c].person /\ row.gross = check[c].gross /\ row.priorSs = check[c].priorSs
    BY <2>1 DEF RowsTypeOK, CheckRows
  <2>3. Taxed[row] = Returns!SsWages(check[c]) /\ row.person \in Adjustments
    BY <2>2, RowsAreQuantities DEF Returns!SsWages, CheckRows
  <2> HIDE DEF row
  <2>4. RowsTypeOK'
    BY <2>1, <2>2, RowsKept
  <2>5. ASSUME NEW person \in Adjustments
        PROVE  SumOver(Taxed, Returns!Standing(person)') <= SsBase
    <3> DEFINE S == Returns!Standing(person)
    <3>1. S \in SUBSET CheckRows /\ IsFiniteSet(S) /\ SumOver(Taxed, S) <= SsBase
      BY StandingRows DEF TaxedWithinBase
    <3>2. CASE row.person # person
      BY <2>1, <2>2, <3>1, <3>2, RecordedCheck
    <3>3. CASE row.person = person
      <4>1. Returns!Standing(person)' = S \union {row} /\ row \notin S
        BY <2>1, <2>2, <3>3, RecordedCheck
      <4>2. SumOver(Taxed, S) + Taxed[row] <= SsBase
        <5>1. S = Returns!Standing(check[c].person)
          BY <2>2, <3>3
        <5>2. SumOver(Taxed, Returns!Standing(check[c].person)) <= SsBase
          BY <3>1, <5>1
        <5>3. SumOver(Taxed, Returns!Standing(check[c].person)) + Returns!SsWages(check[c]) <= SsBase
          BY <1>5, <5>2, RecordedWithinBase
        <5>4. QED BY <2>3, <5>1, <5>3
      <4> HIDE DEF S
      <4>3. \A p \in S \union {row} : Taxed[p] \in Int
        BY <2>2, <3>1, RowsAreQuantities
      <4>4. SumOver(Taxed, S \union {row}) = Taxed[row] + SumOver(Taxed, S)
        BY <3>1, <4>1, <4>3, SumWith
      <4>5. SumOver(Taxed, S) \in Int /\ Taxed[row] \in Int
        BY <3>1, <4>3, SumIsInt
      <4>6. QED BY <4>1, <4>2, <4>4, <4>5
    <3>4. QED BY <3>2, <3>3
  <2>6. TaxedWithinBase'
    BY <2>5 DEF TaxedWithinBase, Taxed
  <2>7. QED BY <1>0, <2>1, <2>4, <2>6
<1>6. ASSUME NEW c \in Runs, Returns!ReversePayment(c) PROVE ReturnsIInv'
  <2> DEFINE row == [check[c] EXCEPT !.status = "reversed"]
  <2>1. check' = [check EXCEPT ![c] = row] /\ check[c].status = "paid" /\ UNCHANGED packet
    BY <1>6 DEF Returns!ReversePayment
  <2>2. row \in CheckRows /\ row.id = c /\ row.status = "reversed"
    BY <2>1 DEF RowsTypeOK, CheckRows
  <2> HIDE DEF row
  <2>3. RowsTypeOK'
    BY <2>1, <2>2, RowsKept
  <2>4. ASSUME NEW person \in Adjustments
        PROVE  SumOver(Taxed, Returns!Standing(person)') <= SsBase
    <3> DEFINE S == Returns!Standing(person)
               T == Returns!Standing(person)'
    <3>1. S \in SUBSET CheckRows /\ IsFiniteSet(S) /\ SumOver(Taxed, S) <= SsBase
      BY StandingRows DEF TaxedWithinBase
    <3>2. T \in SUBSET S
      BY <2>1, <2>2, ReversedCheck
    <3> HIDE DEF S, T
    <3>3. SumOver(Taxed, T) <= SumOver(Taxed, S)
      BY <3>1, <3>2, FewerTaxed
    <3>4. SumOver(Taxed, T) \in Int /\ SumOver(Taxed, S) \in Int
      <4>1. (\A p \in S : Taxed[p] \in Int) /\ IsFiniteSet(T) /\ \A p \in T : Taxed[p] \in Int
        BY <3>1, <3>2, RowsAreQuantities, FS_Subset
      <4>2. QED BY <3>1, <4>1, SumIsInt
    <3>5. SumOver(Taxed, T) <= SsBase
      BY <3>1, <3>3, <3>4, ReturnsAssumption
    <3>6. QED BY <3>5 DEF T
  <2>5. TaxedWithinBase'
    BY <2>4 DEF TaxedWithinBase, Taxed
  <2>6. QED BY <1>0, <2>1, <2>3, <2>5
<1>7. ASSUME NEW kind, NEW quarter, Returns!RecordExternalTax(kind, quarter) PROVE ReturnsIInv'
  BY <1>0, <1>1, <1>7 DEF Returns!RecordExternalTax
<1>8. ASSUME NEW quarter, Returns!PrepareFiling(quarter) PROVE ReturnsIInv'
  <2>1. PacketShape'
    BY <1>8 DEF Returns!PrepareFiling, PacketShape
  <2>2. QED BY <1>1, <1>8, <2>1 DEF Returns!PrepareFiling
<1>9. ASSUME Returns!ReviewFiling PROVE ReturnsIInv'
  <2>1. PacketShape'
    BY <1>9 DEF Returns!ReviewFiling, PacketShape
  <2>2. QED BY <1>1, <1>9, <2>1 DEF Returns!ReviewFiling
<1>10. ASSUME Returns!Download941 PROVE ReturnsIInv'
  <2>1. PacketShape'
    BY <1>10 DEF Returns!Download941, PacketShape
  <2>2. QED BY <1>1, <1>10, <2>1 DEF Returns!Download941
<1>11. ASSUME Returns!EndMonth PROVE ReturnsIInv'
  BY <1>0, <1>1, <1>11 DEF Returns!EndMonth
<1>12. ASSUME UNCHANGED Returns!filings PROVE ReturnsIInv'
  BY <1>0, <1>1, <1>12 DEF Returns!filings
<1>13. QED
  BY <1>2, <1>3, <1>4, <1>5, <1>6, <1>7, <1>8, <1>9, <1>10, <1>11, <1>12 DEF Returns!Next

---------------------------------------------------------------------------
(* The return that is handed out.                                           *)

\* A return is of the payments due, before a return was filed.
LEMMA ReturnedAreDue ==
  ASSUME Returns!Download941
  PROVE  /\ Returns!Returned(packet.evidence) = Returns!Due
         /\ [kind |-> "filing", quarter |-> packet.quarter] \notin activity
         /\ Returns!Chained(Returns!Due)
         /\ Returns!Due \in SUBSET Returns!Rows
         /\ \A p \in Returns!Due : p.status = "paid"
<1>1. /\ packet.evidence = Returns!Evidence(packet.quarter)
      /\ \A p \in packet.evidence.checks : p.status = "paid"
      /\ \A a \in packet.evidence.activity : a.kind # "filing"
      /\ Returns!Chained(Returns!Returned(packet.evidence))
  BY DEF Returns!Download941, Returns!Complete, Returns!Stands
<1>2. /\ packet.evidence.checks = Returns!Due
      /\ packet.evidence.activity = {a \in activity : a.quarter = packet.quarter}
  BY <1>1 DEF Returns!Evidence, Returns!Due
<1>3. Returns!Returned(packet.evidence) = Returns!Due
  BY <1>1, <1>2 DEF Returns!Returned
<1>4. [kind |-> "filing", quarter |-> packet.quarter] \notin activity
  <2> SUFFICES ASSUME [kind |-> "filing", quarter |-> packet.quarter] \in activity PROVE FALSE
    OBVIOUS
  <2> DEFINE a == [kind |-> "filing", quarter |-> packet.quarter]
  <2>1. a \in packet.evidence.activity /\ a.kind = "filing"
    BY <1>2
  <2> HIDE DEF a
  <2>2. QED BY <1>1, <2>1
<1>5. QED BY <1>1, <1>2, <1>3, <1>4 DEF Returns!Due

\* A person's part of the return taxes their wages once.
LEMMA PersonTaxedOnce ==
  ASSUME ReturnsIInv, NEW ps \in SUBSET Returns!Rows, \A p \in ps : p.status = "paid",
         Returns!Chained(ps), NEW person \in {p.person : p \in ps}
  PROVE  LET own == {p \in ps : p.person = person}
             first == Returns!Min({p.prior : p \in own}) IN
         /\ Returns!MapThenSumSet(Returns!SsWages, own) <= SsBase
         /\ Returns!MapThenSumSet(Returns!AdditionalWages, own)
              = Returns!Over(first + Returns!MapThenSumSet(Returns!Gross, own)) - Returns!Over(first)
<1> DEFINE own == {p \in ps : p.person = person}
           S == Returns!Standing(person)
           priors == {p.prior : p \in own}
           first == Min(priors)
<1>1. own \in SUBSET S /\ own # {} /\ RowsTypeOK
  BY DEF ReturnsIInv, Returns!Standing
<1>2. S \in SUBSET CheckRows /\ IsFiniteSet(S) /\ IsFiniteSet(own) /\ own \in SUBSET CheckRows
  <2>1. S \in SUBSET CheckRows /\ IsFiniteSet(S)
    BY <1>1, StandingRows
  <2> HIDE DEF own, S
  <2>2. QED BY <1>1, <2>1, FS_Subset
<1>3. \A p \in own : Quantity(p) /\ p.person = person /\ Wage[p] = p.gross /\ Taxed[p] = Returns!SsWages(p)
                     /\ Beyond[p] = Returns!AdditionalWages(p)
  BY <1>2, RowsAreQuantities DEF Beyond
<1>4. Returns!MapThenSumSet(Returns!SsWages, own) <= SsBase
  <2>1. person \in Adjustments
    BY <1>1, <1>2 DEF CheckRows
  <2>2. SumOver(Taxed, S) <= SsBase
    BY <2>1 DEF ReturnsIInv, TaxedWithinBase
  <2> HIDE DEF own, S
  <2>3. SumOver(Taxed, own) <= SumOver(Taxed, S)
    BY <1>1, <1>2, FewerTaxed
  <2>4. SumOver(Taxed, own) \in Int /\ SumOver(Taxed, S) \in Int
    <3>1. (\A p \in S : Taxed[p] \in Int) /\ \A p \in own : Taxed[p] \in Int
      BY <1>1, <1>2, RowsAreQuantities
    <3>2. QED BY <1>2, <3>1, SumIsInt
  <2>5. Returns!MapThenSumSet(Returns!SsWages, own) = SumOver(Taxed, own)
    BY <1>2, TaxedAre
  <2>6. QED BY <2>2, <2>3, <2>4, <2>5, ReturnsAssumption
<1>5. Returns!Chained(own)
  <2> SUFFICES ASSUME NEW p \in own
               PROVE  LET same    == {q \in own \ {p} : q.person = p.person /\ q.prior = p.prior}
                          earlier == {q \in own : q.person = p.person /\ q.prior < p.prior} IN
                      /\ \A q \in same : (q.gross = 0 \/ p.gross = 0) /\ (q.payday < p.payday => q.gross = 0)
                      /\ earlier # {} =>
                           \E q \in earlier : p.prior = q.prior + q.gross /\ \A o \in earlier : o.prior <= q.prior
    BY DEF Returns!Chained
  <2>1. LET same    == {q \in ps \ {p} : q.person = p.person /\ q.prior = p.prior}
            earlier == {q \in ps : q.person = p.person /\ q.prior < p.prior} IN
        /\ \A q \in same : (q.gross = 0 \/ p.gross = 0) /\ (q.payday < p.payday => q.gross = 0)
        /\ earlier # {} =>
             \E q \in earlier : p.prior = q.prior + q.gross /\ \A o \in earlier : o.prior <= q.prior
    BY DEF Returns!Chained
  <2>2. /\ {q \in ps \ {p} : q.person = p.person /\ q.prior = p.prior}
           = {q \in own \ {p} : q.person = p.person /\ q.prior = p.prior}
        /\ {q \in ps : q.person = p.person /\ q.prior < p.prior}
           = {q \in own : q.person = p.person /\ q.prior < p.prior}
    OBVIOUS
  <2>3. QED BY <2>1, <2>2
<1>6. Begins(first, own) /\ Returns!Min(priors) = first
  <2>1. priors \in SUBSET Nat /\ priors # {}
    BY <1>1, <1>3 DEF Quantity
  <2>2. Returns!Min(priors) = first
    BY DEF Returns!Min, Min
  <2>3. first \in priors /\ \A n \in priors : first <= n
    <3> HIDE DEF priors
    <3>1. QED BY <2>1, MinIs
  <2> HIDE DEF first
  <2>4. QED BY <2>2, <2>3 DEF Begins
<1>7. SumOver(Beyond, own) = Returns!Over(first + SumOver(Wage, own)) - Returns!Over(first)
  <2> HIDE DEF own, first
  <2>1. QED BY <1>2, <1>3, <1>5, <1>6, ChainAdds
<1>8. /\ Returns!MapThenSumSet(Returns!AdditionalWages, own) = SumOver(Beyond, own)
      /\ Returns!MapThenSumSet(Returns!Gross, own) = SumOver(Wage, own)
  <2> HIDE DEF own
  <2>1. QED BY <1>2, BeyondAre, WagesAre
<1>9. QED BY <1>4, <1>6, <1>7, <1>8

\* What is owed is what was withheld and as much again, to a cent or so a payment.
LEMMA OwedAsWithheld ==
  ASSUME RowsTypeOK, NEW ps \in SUBSET Returns!Rows, \A p \in ps : p.status = "paid"
  PROVE  LET shares == Returns!MapThenSumSet(
               LAMBDA p : 2 * (Returns!SsWithheld(p) + Returns!MedicareWithheld(p))
                            + Returns!AdditionalWithheld(p), ps) IN
         Returns!Liability(ps) - shares \in - (Cardinality(ps) + 2) .. Cardinality(ps) + 2
<1>1. ps \in SUBSET CheckRows /\ IsFiniteSet(ps) /\ Cardinality(ps) \in Nat
  <2>1. ps \in SUBSET CheckRows
    BY DEF RowsTypeOK, Returns!Rows
  <2>2. QED BY <2>1, RowsFinite, FS_Subset, FS_CardinalityType
<1> DEFINE both == [p \in CheckRows |-> Returns!SsWithheld(p) + Returns!MedicareWithheld(p)]
<1>2. ASSUME NEW p \in ps
      PROVE  /\ both[p] \in Int /\ Taxed[p] \in Nat /\ Wage[p] \in Nat
             /\ 10000 * both[p] <= 620 * Taxed[p] + 145 * Wage[p] + 10000
             /\ 10000 * both[p] >= 620 * Taxed[p] + 145 * Wage[p] - 10000
             /\ AllShares[p] = AllWithheld[p] + both[p] /\ AllWithheld[p] \in Int /\ AllShares[p] \in Int
  <2>1. p \in CheckRows /\ Quantity(p) /\ Wage[p] = p.gross /\ Wage[p] \in Nat
        /\ Taxed[p] = Returns!SsWages(p) /\ Taxed[p] \in Nat
    BY <1>1, RowsAreQuantities
  <2> DEFINE s == Returns!SsWithheld(p)
             m == Returns!MedicareWithheld(p)
             a == Returns!AdditionalWithheld(p)
  <2>2. s = Returns!Tax(Taxed[p], 620) /\ m = Returns!Tax(Wage[p], 145)
    BY <2>1 DEF Returns!SsWithheld, Returns!MedicareWithheld
  <2>3. /\ s \in Int /\ 10000 * s <= Taxed[p] * 620 + 5000 /\ 10000 * s >= Taxed[p] * 620 - 4999
        /\ m \in Int /\ 10000 * m <= Wage[p] * 145 + 5000 /\ 10000 * m >= Wage[p] * 145 - 4999
    <3> DEFINE t == Taxed[p]
               w == Wage[p]
    <3>1. t \in Int /\ w \in Int /\ s = Returns!Tax(t, 620) /\ m = Returns!Tax(w, 145)
      BY <2>1, <2>2
    <3> HIDE DEF s, m, t, w
    <3>2. s \in Int /\ 10000 * s <= t * 620 + 5000 /\ 10000 * s >= t * 620 - 4999
      BY <3>1, TaxIsNear
    <3>3. m \in Int /\ 10000 * m <= w * 145 + 5000 /\ 10000 * m >= w * 145 - 4999
      BY <3>1, TaxIsNear
    <3>4. QED BY <3>2, <3>3 DEF t, w
  <2>4. a \in Int
    <3>1. Returns!AdditionalWages(p) \in Int /\ Returns!Over(p.prior + p.gross) - Returns!Over(p.prior) \in Int
      BY <2>1, AdditionalIs
    <3>2. QED BY <3>1, TaxIsNear DEF Returns!AdditionalWithheld
  <2>5. both[p] = s + m /\ AllWithheld[p] = s + m + a /\ AllShares[p] = 2 * (s + m) + a
    BY <2>1 DEF AllWithheld, AllShares, Withheld, Shares
  <2> DEFINE t == Taxed[p]
             w == Wage[p]
  <2>6. /\ t \in Nat /\ w \in Nat /\ s \in Int /\ m \in Int
        /\ 10000 * s <= t * 620 + 5000 /\ 10000 * s >= t * 620 - 4999
        /\ 10000 * m <= w * 145 + 5000 /\ 10000 * m >= w * 145 - 4999
    BY <2>1, <2>3
  <2> HIDE DEF s, m, a, t, w
  <2>7. 10000 * (s + m) <= 620 * t + 145 * w + 10000 /\ 10000 * (s + m) >= 620 * t + 145 * w - 10000
    BY <2>6
  <2>8. s + m \in Int /\ s + m + a \in Int /\ 2 * (s + m) + a \in Int /\ 2 * (s + m) + a = (s + m + a) + (s + m)
    BY <2>4, <2>6
  <2> HIDE DEF both
  <2>9. QED BY <2>1, <2>5, <2>7, <2>8 DEF t, w
<1> HIDE DEF both
<1> DEFINE n == Cardinality(ps)
           b == SumOver(both, ps)
           t == SumOver(Taxed, ps)
           w == SumOver(Wage, ps)
           x == SumOver(Beyond, ps)
           held == SumOver(AllWithheld, ps)
           shares == SumOver(AllShares, ps)
<1>3. b \in Int /\ t \in Int /\ w \in Int /\ x \in Int /\ held \in Int /\ shares \in Int
  <2>1. \A p \in ps : Beyond[p] \in Int
    BY <1>1, RowsAreQuantities, AdditionalIs DEF Beyond
  <2>2. \A p \in ps : both[p] \in Int /\ Taxed[p] \in Int /\ Wage[p] \in Int /\ AllWithheld[p] \in Int
                      /\ AllShares[p] \in Int
    BY <1>2
  <2>3. QED BY <1>1, <2>1, <2>2, SumIsInt
<1>4. 10000 * b <= 620 * t + 145 * w + 10000 * n /\ 10000 * b >= 620 * t + 145 * w - 10000 * n
  <2>1. \A p \in ps : /\ both[p] \in Int /\ Taxed[p] \in Int /\ Wage[p] \in Int
                      /\ 10000 * both[p] <= 620 * Taxed[p] + 145 * Wage[p] + 10000
                      /\ 10000 * both[p] >= 620 * Taxed[p] + 145 * Wage[p] - 10000
    BY <1>2
  <2>2. Near(both, Taxed, Wage, ps)
    BY <2>1 DEF Near
  <2>3. QED BY <1>1, <2>2, RoundingAdds
<1>5. shares = held + b
  <2>1. \A p \in ps : AllShares[p] = AllWithheld[p] + both[p] /\ AllWithheld[p] \in Int /\ both[p] \in Int
    BY <1>2
  <2>2. QED BY <1>1, <2>1, SumOfTwo
<1> DEFINE t2 == Returns!Tax(t, 1240)
           t1 == Returns!Tax(t, 620)
           w2 == Returns!Tax(w, 290)
           w1 == Returns!Tax(w, 145)
           x1 == Returns!Tax(x, 90)
<1>6. Returns!Liability(ps) = t2 + w2 + x1 + held - t1 - w1 - x1
  <2> DEFINE mt == Returns!MapThenSumSet(Returns!SsWages, ps)
             mw == Returns!MapThenSumSet(Returns!Gross, ps)
             mx == Returns!MapThenSumSet(Returns!AdditionalWages, ps)
             mheld == Returns!MapThenSumSet(
               LAMBDA p : Returns!SsWithheld(p) + Returns!MedicareWithheld(p) + Returns!AdditionalWithheld(p), ps)
  <2>1. mt = t /\ mw = w /\ mx = x /\ mheld = held
    BY <1>1, TaxedAre, WagesAre, BeyondAre, WithheldAre
  <2>2. Returns!Liability(ps) =
          Returns!Tax(mt, 1240) + Returns!Tax(mw, 290) + Returns!Tax(mx, 90) + mheld
          - Returns!Tax(mt, 620) - Returns!Tax(mw, 145) - Returns!Tax(mx, 90)
    BY DEF Returns!Liability
  <2> HIDE DEF t, w, x, held, mt, mw, mx, mheld
  <2>3. QED BY <2>1, <2>2
<1>7. Returns!MapThenSumSet(LAMBDA p : 2 * (Returns!SsWithheld(p) + Returns!MedicareWithheld(p))
                            + Returns!AdditionalWithheld(p), ps) = shares
  BY <1>1, SharesAre
<1>8. /\ t2 \in Int /\ 10000 * t2 <= t * 1240 + 5000 /\ 10000 * t2 >= t * 1240 - 4999
      /\ t1 \in Int /\ 10000 * t1 <= t * 620 + 5000 /\ 10000 * t1 >= t * 620 - 4999
      /\ w2 \in Int /\ 10000 * w2 <= w * 290 + 5000 /\ 10000 * w2 >= w * 290 - 4999
      /\ w1 \in Int /\ 10000 * w1 <= w * 145 + 5000 /\ 10000 * w1 >= w * 145 - 4999
      /\ x1 \in Int
  <2>1. t2 = Returns!Tax(t, 1240) /\ t1 = Returns!Tax(t, 620) /\ w2 = Returns!Tax(w, 290)
        /\ w1 = Returns!Tax(w, 145) /\ x1 = Returns!Tax(x, 90)
    OBVIOUS
  <2> HIDE DEF t, w, x, t2, t1, w2, w1, x1
  <2>2. t2 \in Int /\ 10000 * t2 <= t * 1240 + 5000 /\ 10000 * t2 >= t * 1240 - 4999
    BY <1>3, <2>1, TaxIsNear
  <2>3. t1 \in Int /\ 10000 * t1 <= t * 620 + 5000 /\ 10000 * t1 >= t * 620 - 4999
    BY <1>3, <2>1, TaxIsNear
  <2>4. w2 \in Int /\ 10000 * w2 <= w * 290 + 5000 /\ 10000 * w2 >= w * 290 - 4999
    BY <1>3, <2>1, TaxIsNear
  <2>5. w1 \in Int /\ 10000 * w1 <= w * 145 + 5000 /\ 10000 * w1 >= w * 145 - 4999
    BY <1>3, <2>1, TaxIsNear
  <2>6. x1 \in Int
    BY <1>3, <2>1, TaxIsNear
  <2>7. QED BY <2>2, <2>3, <2>4, <2>5, <2>6
<1> DEFINE owed == t2 + w2 + x1 + held - t1 - w1 - x1
<1>9. owed - shares \in - (n + 2) .. n + 2
  <2>1. n \in Nat
    BY <1>1
  <2> HIDE DEF n, b, t, w, x, held, shares, t2, t1, w2, w1, x1
  <2>2. owed - shares = t2 + w2 - t1 - w1 - b
    BY <1>3, <1>5, <1>8
  <2>3. 10000 * (t2 + w2 - t1 - w1 - b) <= 20000 + 10000 * n /\ 10000 * (t2 + w2 - t1 - w1 - b) >= - (20000 + 10000 * n)
    BY <1>3, <1>4, <1>8, <2>1
  <2> DEFINE gap == t2 + w2 - t1 - w1 - b
  <2>4. gap \in Int
    BY <1>3, <1>8
  <2> HIDE DEF gap
  <2>5. gap <= n + 2 /\ gap >= - (n + 2)
    <3>1. 10000 * gap <= 20000 + 10000 * n /\ 10000 * gap >= - (20000 + 10000 * n)
      BY <2>3 DEF gap
    <3>2. QED BY <2>1, <2>4, <3>1
  <2>6. QED BY <2>1, <2>2, <2>4, <2>5 DEF gap
<1>10. QED
  <2> DEFINE all == Returns!MapThenSumSet(
               LAMBDA p : 2 * (Returns!SsWithheld(p) + Returns!MedicareWithheld(p))
                            + Returns!AdditionalWithheld(p), ps)
  <2>1. all = shares
    BY <1>7
  <2>2. Returns!Liability(ps) = owed
    BY <1>6
  <2> HIDE DEF shares, owed, all
  <2>3. Returns!Liability(ps) - all \in - (n + 2) .. n + 2
    BY <1>9, <2>1, <2>2
  <2>4. QED BY <2>3 DEF all

\* The module that is instantiated counts as this one does.
LEMMA SameCardinality == \A S : Returns!Cardinality(S) = Cardinality(S)
BY Zenon DEF Returns!Cardinality, Cardinality

LEMMA DownloadStands ==
  ASSUME ReturnsIInv, Returns!Download941
  PROVE  LET ps == Returns!Returned(packet.evidence)
             of(person) == {p \in ps : p.person = person}
             first(person) == Returns!Min({p.prior : p \in of(person)})
             shares == Returns!MapThenSumSet(
               LAMBDA p : 2 * (Returns!SsWithheld(p) + Returns!MedicareWithheld(p))
                            + Returns!AdditionalWithheld(p), ps)
         IN
         /\ ps = Returns!Due
         /\ [kind |-> "filing", quarter |-> packet.quarter] \notin activity
         /\ \A person \in {p.person : p \in ps} :
              /\ Returns!MapThenSumSet(Returns!SsWages, of(person)) <= SsBase
              /\ Returns!MapThenSumSet(Returns!AdditionalWages, of(person))
                   = Returns!Over(first(person) + Returns!MapThenSumSet(Returns!Gross, of(person)))
                       - Returns!Over(first(person))
         /\ Returns!Liability(ps) - shares
              \in - (Returns!Cardinality(ps) + 2) .. Returns!Cardinality(ps) + 2
<1> DEFINE ps == Returns!Returned(packet.evidence)
<1>1. /\ ps = Returns!Due /\ [kind |-> "filing", quarter |-> packet.quarter] \notin activity
      /\ Returns!Chained(ps) /\ ps \in SUBSET Returns!Rows /\ \A p \in ps : p.status = "paid"
  BY ReturnedAreDue
<1> HIDE DEF ps
<1>2. \A person \in {p.person : p \in ps} :
        LET own == {p \in ps : p.person = person}
            first == Returns!Min({p.prior : p \in own}) IN
        /\ Returns!MapThenSumSet(Returns!SsWages, own) <= SsBase
        /\ Returns!MapThenSumSet(Returns!AdditionalWages, own)
             = Returns!Over(first + Returns!MapThenSumSet(Returns!Gross, own)) - Returns!Over(first)
  BY <1>1, PersonTaxedOnce
<1>3. Returns!Liability(ps)
        - Returns!MapThenSumSet(LAMBDA p : 2 * (Returns!SsWithheld(p) + Returns!MedicareWithheld(p))
                                  + Returns!AdditionalWithheld(p), ps)
      \in - (Returns!Cardinality(ps) + 2) .. Returns!Cardinality(ps) + 2
  BY <1>1, OwedAsWithheld, SameCardinality DEF ReturnsIInv
<1>4. QED BY <1>1, <1>2, <1>3, Zenon DEF ps

\* Only a download is a return.
LEMMA ReturningIsDownload ==
  ASSUME ReturnsIInv, [Returns!Next]_(Returns!filings), Returns!Returning
  PROVE  Returns!Download941
<1> USE DEF Returns!Returning
<1>1. packet' # packet
  OBVIOUS
<1>2. \A c \in Runs :
        /\ \A person \in Adjustments, payday \in Months, gross \in Grosses, prior \in Verified :
             ~ Returns!PrepareTax(c, person, payday, gross, prior[1], prior[2])
        /\ ~ Returns!ApproveTax(c) /\ ~ Returns!VoidTax(c) /\ ~ Returns!RecordPayment(c) /\ ~ Returns!ReversePayment(c)
  BY <1>1 DEF Returns!PrepareTax, Returns!ApproveTax, Returns!VoidTax, Returns!RecordPayment,
              Returns!ReversePayment
<1>3. \A quarter : /\ \A kind : ~ Returns!RecordExternalTax(kind, quarter)
                   /\ ~ Returns!PrepareFiling(quarter)
  BY <1>1 DEF Returns!RecordExternalTax, Returns!PrepareFiling
<1>4. ~ Returns!ReviewFiling
  BY DEF Returns!ReviewFiling, ReturnsIInv, PacketShape
<1>5. ~ Returns!EndMonth /\ ~ UNCHANGED Returns!filings
  BY <1>1 DEF Returns!EndMonth, Returns!filings
<1>6. QED BY <1>2, <1>3, <1>4, <1>5 DEF Returns!Next

LEMMA RowsReconcile ==
  ASSUME RowsTypeOK
  PROVE  \A p \in Returns!Rows : Returns!Reconciles(p)
<1>1. ASSUME NEW p \in Returns!Rows PROVE Quantity(p)
  <2>1. p \in CheckRows \/ p = Returns!NoCheck
    BY DEF RowsTypeOK, Returns!Rows
  <2>2. Quantity(Returns!NoCheck)
    BY DEF Quantity, Returns!NoCheck
  <2>3. QED BY <2>1, <2>2, RowsAreQuantities
<1>2. QED BY <1>1, WithheldReconciles

LEMMA ReturnsInvariance == Returns!Spec => []ReturnsIInv
<1>1. QED BY ReturnsInit, ReturnsStep, PTL DEF Returns!Spec

\* The settlement and the returns are run one at a time.
THEOREM PartsRunAlone == PayrollSpec => Spec /\ Returns!Spec
<1>1. PayrollInit => Init /\ Returns!Init
  BY DEF PayrollInit
<1>2. [PayrollNext]_<<part, vars, returns>> => [Next]_vars /\ [Returns!Next]_(Returns!filings)
  BY DEF PayrollNext, returns, Returns!filings
<1>3. QED BY <1>1, <1>2, PTL DEF PayrollSpec, Spec, Returns!Spec

\* Each return that is handed out has what was paid in its quarter and taxes a person's
\* wages once, and no withholding is calculated that a return does not recognise
\* (download941, filingFigures).
THEOREM ReturnsAlwaysStand == PayrollSpec => ReturnsStand
<1>1. ReturnsIInv => \A p \in Returns!Rows : Returns!Reconciles(p)
  BY RowsReconcile DEF ReturnsIInv
<1> DEFINE Stands ==
      Returns!Returning =>
          LET ps == Returns!Returned(packet.evidence)
              of(person) == {p \in ps : p.person = person}
              first(person) == Returns!Min({p.prior : p \in of(person)})
              shares == Returns!MapThenSumSet(
                LAMBDA p : 2 * (Returns!SsWithheld(p) + Returns!MedicareWithheld(p))
                             + Returns!AdditionalWithheld(p), ps)
          IN
          /\ ps = Returns!Due
          /\ [kind |-> "filing", quarter |-> packet.quarter] \notin activity
          /\ \A person \in {p.person : p \in ps} :
               /\ Returns!MapThenSumSet(Returns!SsWages, of(person)) <= SsBase
               /\ Returns!MapThenSumSet(Returns!AdditionalWages, of(person))
                    = Returns!Over(first(person) + Returns!MapThenSumSet(Returns!Gross, of(person)))
                        - Returns!Over(first(person))
          /\ Returns!Liability(ps) - shares
               \in - (Returns!Cardinality(ps) + 2) .. Returns!Cardinality(ps) + 2
<1>2. ReturnsIInv /\ [Returns!Next]_(Returns!filings) => [Stands]_(Returns!filings)
  <2> SUFFICES ASSUME ReturnsIInv, [Returns!Next]_(Returns!filings), Returns!Returning PROVE Stands
    OBVIOUS
  <2>1. Returns!Download941
    BY ReturningIsDownload
  <2>2. QED BY <2>1, DownloadStands, Zenon
<1>3. QED
  <2>1. Returns!Spec => []ReturnsIInv /\ [][Returns!Next]_(Returns!filings)
    BY ReturnsInvariance, PTL DEF Returns!Spec
  <2>2. QED BY <1>1, <1>2, <2>1, PartsRunAlone, PTL DEF ReturnsStand, Returns!ReturnsStand

\* And settlement beside them promises what it does alone (recordPayment, prepareProvider,
\* prepareTax).
THEOREM SettlementHolds == PayrollSpec => [](SettledOneWay /\ StatementsStand /\ AdjustmentsCount)
BY PaidOrExported, StatementsAlwaysStand, AdjustmentsAlwaysCount, PartsRunAlone, PTL
=============================================================================
