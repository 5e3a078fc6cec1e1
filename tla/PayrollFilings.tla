--------------------------- MODULE PayrollFilings ---------------------------
(***************************************************************************)
(* The quarterly return of one employer: a packet is prepared from the     *)
(* payments recorded, the calculations not yet paid and the tax activity   *)
(* recorded for the quarter, reviewed once the quarter is over, and its    *)
(* return downloaded. Payments, tax activity and packets lock the employer *)
(* and calculations only their business unit, but each reads what it       *)
(* depends on at one point, so that every operation is one step. A payday  *)
(* is counted by its month. How wages come to be approved is in            *)
(* PayrollSettlement: here a register pays one employee, any wages, with   *)
(* any wages verified as paid before. Income taxes, which a return only    *)
(* adds up, deposits and what is typed into the form are left out.         *)
(***************************************************************************)
EXTENDS Integers, Sequences, FiniteSets, FiniteSetsExt

CONSTANTS
  Checks,      \* what an employee is to be paid by one register
  People,
  Grosses,     \* the wages of a check, in cents
  Verified,    \* the wages verified as paid before it, those taxed and all of them
  Paydays,     \* the months in which payday may be
  LastMonth,   \* bound on the clock
  SsBase,      \* SS_WAGE_BASE_CENTS
  Threshold,   \* ADDITIONAL_MEDICARE_THRESHOLD_CENTS
  MaxActivity, \* bound on the tax activity recorded
  None

VARIABLES
  check,       \* payroll_tax_calculations with their lines, and whether these were paid
  paid,        \* payroll_payments in the order of their creation
  activity,    \* payroll_tax_external_records, those of the IRS
  packet,      \* a row of payroll_filing_packets, with its review and downloads
  month        \* the current month

filings == <<check, paid, activity, packet, month>>

Quarter(m) == (m + 2) \div 3
Quarters == {Quarter(m) : m \in Paydays}

NoCheck ==
  [id |-> None, status |-> "none", person |-> None, payday |-> 0, gross |-> 0, priorSs |-> 0,
   prior |-> 0]

Init ==
  /\ check = [c \in Checks |-> NoCheck]
  /\ paid = << >>
  /\ activity = {}
  /\ packet = None
  /\ month = Min(Paydays)

Gross(p) == p.gross
Rows == {check[c] : c \in Checks}

---------------------------------------------------------------------------
(* Calculations and payments.                                               *)

PrepareTax(c, person, payday, gross, priorSs, prior) ==
  /\ check[c].status = "none"
  /\ check' = [check EXCEPT ![c] =
       [id |-> c, status |-> "draft", person |-> person, payday |-> payday, gross |-> gross,
        priorSs |-> priorSs, prior |-> prior]]
  /\ UNCHANGED <<paid, activity, packet, month>>

ApproveTax(c) ==
  /\ check[c].status = "draft"
  /\ check' = [check EXCEPT ![c].status = "approved"]
  /\ UNCHANGED <<paid, activity, packet, month>>

VoidTax(c) ==
  /\ check[c].status = "draft"
  /\ check' = [check EXCEPT ![c] = NoCheck]
  /\ UNCHANGED <<paid, activity, packet, month>>

\* The payments of a person that are not reversed
Standing(person) == {p \in Rows : p.status = "paid" /\ p.person = person}

RecordPayment(c) ==
  LET before == Standing(check[c].person)
      recorded == MapThenSumSet(Gross, before)
  IN
  /\ check[c].status = "approved" /\ check[c].payday <= month
  /\ \A p \in before : p.payday <= check[c].payday
  /\ check[c].priorSs >= Min({recorded, SsBase}) /\ check[c].prior >= recorded
  /\ check' = [check EXCEPT ![c].status = "paid"]
  /\ paid' = Append(paid, c)
  /\ UNCHANGED <<activity, packet, month>>

ReversePayment(c) ==
  /\ check[c].status = "paid"
  /\ \A i, j \in DOMAIN paid :
       paid[i] = c /\ check[paid[j]] \in Standing(check[c].person) => j <= i
  /\ check' = [check EXCEPT ![c].status = "reversed"]
  /\ UNCHANGED <<paid, activity, packet, month>>

RecordExternalTax(kind, quarter) ==
  /\ Cardinality(activity) < MaxActivity
  /\ activity' = activity \union {[kind |-> kind, quarter |-> quarter]}
  /\ UNCHANGED <<check, paid, packet, month>>

---------------------------------------------------------------------------
(* Withholding and the figures of a return. Rates are in basis points, and  *)
(* half a cent is rounded up.                                               *)

Tax(cents, bps) == (cents * bps + 5000) \div 10000

\* calculateTax2026: what is withheld from an employee
Over(wages) == Max({0, wages - Threshold})
SsWages(p) == Min({p.gross, Max({0, SsBase - p.priorSs})})
SsWithheld(p) == Tax(SsWages(p), 620)
MedicareWithheld(p) == Tax(p.gross, 145)
AdditionalWithheld(p) == Tax(Over(p.prior + p.gross) - Over(p.prior), 90)

\* filingFigures finds the wages above the threshold by a formula of its own, and
\* compares.
AdditionalWages(p) == Min({p.gross, Over(p.prior + p.gross)})
Reconciles(p) == AdditionalWithheld(p) = Tax(AdditionalWages(p), 90)

\* What is owed on some payments: lines 5a, 5c and 5d of the return, and line 7 for
\* the employees' share, which was rounded for each payment.
Liability(ps) ==
  LET ss == MapThenSumSet(SsWages, ps)
      wages == MapThenSumSet(Gross, ps)
      additional == Tax(MapThenSumSet(AdditionalWages, ps), 90)
      withheld == MapThenSumSet(LAMBDA p : SsWithheld(p) + MedicareWithheld(p) + AdditionalWithheld(p), ps)
  IN
  Tax(ss, 1240) + Tax(wages, 290) + additional
    + withheld - Tax(ss, 620) - Tax(wages, 145) - additional

---------------------------------------------------------------------------
(* Packets.                                                                 *)

\* source, of which a digest is kept
Evidence(quarter) ==
  [checks |-> {p \in Rows : p.status # "none" /\ Quarter(p.payday) = quarter},
   activity |-> {a \in activity : a.quarter = quarter}]

\* The payments of a packet that are not reversed
Returned(evidence) == {p \in evidence.checks : p.status = "paid"}

\* The payments of a person, sorted by the wages verified before them and then by their
\* days, each begin where the one before ended: of some that begin with the same, all
\* but the last are of nothing.
Chained(ps) ==
  \A p \in ps :
    LET same    == {q \in ps \ {p} : q.person = p.person /\ q.prior = p.prior}
        earlier == {q \in ps : q.person = p.person /\ q.prior < p.prior} IN
    /\ \A q \in same : (q.gross = 0 \/ p.gross = 0) /\ (q.payday < p.payday => q.gross = 0)
    /\ earlier # {} =>
         \E q \in earlier : p.prior = q.prior + q.gross /\ \A o \in earlier : o.prior <= q.prior

\* calculate: there are no blockers, of those that are not about the form.
Complete(evidence) ==
  LET ps == Returned(evidence) IN
  /\ \A p \in evidence.checks : p.status = "paid"
  /\ \A a \in evidence.activity : a.kind # "filing"
  /\ \A p \in ps : Reconciles(p)
  /\ Chained(ps)

Closed(quarter) == month > 3 * quarter

PrepareFiling(quarter) ==
  /\ packet = None
  /\ packet' = [quarter |-> quarter, evidence |-> Evidence(quarter), reviewed |-> FALSE,
                downloaded |-> FALSE]
  /\ UNCHANGED <<check, paid, activity, month>>

StandsReviewed == packet.reviewed \/ packet.evidence = Evidence(packet.quarter)
Stands == packet.evidence = Evidence(packet.quarter)

ReviewFiling ==
  /\ packet # None /\ Stands
  /\ Closed(packet.quarter) /\ Complete(packet.evidence)
  /\ packet' = [packet EXCEPT !.reviewed = TRUE]
  /\ UNCHANGED <<check, paid, activity, month>>

Download941 ==
  /\ packet # None /\ packet.reviewed /\ Closed(packet.quarter)
  /\ Complete(packet.evidence) /\ Stands
  /\ packet' = [packet EXCEPT !.downloaded = TRUE]
  /\ UNCHANGED <<check, paid, activity, month>>

EndMonth ==
  /\ month < LastMonth
  /\ month' = month + 1
  /\ UNCHANGED <<check, paid, activity, packet>>

Next ==
  \/ \E c \in Checks :
       \/ \E person \in People, payday \in Paydays, gross \in Grosses, prior \in Verified :
            PrepareTax(c, person, payday, gross, prior[1], prior[2])
       \/ ApproveTax(c) \/ VoidTax(c) \/ RecordPayment(c) \/ ReversePayment(c)
  \/ \E quarter \in Quarters :
       \/ \E kind \in {"filing", "remittance"} : RecordExternalTax(kind, quarter)
       \/ PrepareFiling(quarter)
  \/ ReviewFiling \/ Download941
  \/ EndMonth

Spec == Init /\ [][Next]_filings

---------------------------------------------------------------------------
(* Properties.                                                              *)

Returning == packet # None /\ ~ packet.downloaded /\ packet'.downloaded

\* The checks of the quarter that are not void
Due == {p \in Rows : p.status # "none" /\ Quarter(p.payday) = packet.quarter}

\* A return that is handed out, however long after it was prepared and reviewed, has
\* the wages of all checks of its quarter, each paid by then and none reversed, before
\* a return was filed (download941). It taxes a person's wages once: up to the base,
\* and beyond the threshold what is beyond it of all the wages since the first payment
\* of the quarter; and what is owed is what was withheld from the employees and as
\* much again of the employer, but for the additional tax, to a cent or so a payment.
\* No withholding is calculated that a return does not recognise.
ReturnsStand ==
  /\ [](\A p \in Rows : Reconciles(p))
  /\ [][Returning =>
          LET ps == Returned(packet.evidence)
              of(person) == {p \in ps : p.person = person}
              first(person) == Min({p.prior : p \in of(person)})
              shares == MapThenSumSet(LAMBDA p : 2 * (SsWithheld(p) + MedicareWithheld(p))
                                         + AdditionalWithheld(p), ps)
          IN
          /\ ps = Due
          /\ [kind |-> "filing", quarter |-> packet.quarter] \notin activity
          /\ \A person \in {p.person : p \in ps} :
               /\ MapThenSumSet(SsWages, of(person)) <= SsBase
               /\ MapThenSumSet(AdditionalWages, of(person))
                    = Over(first(person) + MapThenSumSet(Gross, of(person))) - Over(first(person))
          /\ Liability(ps) - shares \in - (Cardinality(ps) + 2) .. Cardinality(ps) + 2]_filings
=============================================================================
