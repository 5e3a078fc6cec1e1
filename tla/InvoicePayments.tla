--------------------------- MODULE InvoicePayments ---------------------------
(***************************************************************************)
(* One invoice with its payments, whose sum is stored in it, the accounting *)
(* event of each payment, and the journal entries posted for events, which  *)
(* anybody may reverse. The sum is read before the invoice is locked, the   *)
(* invoice before it is edited, an event before its entry is made, and an   *)
(* entry before it is posted or reversed.                                   *)
(***************************************************************************)
EXTENDS Integers, FiniteSets, FiniteSetsExt

CONSTANTS
  Payments, Requests,
  Totals,      \* of the invoice; amounts of payments are below the largest
  None

VARIABLES
  invoice,     \* invoices: status, total_cents, amount_paid_cents
  payment,     \* payments: status and amount
  event,       \* accounting_events payment.completed: status and journal_entry_id
  entry,       \* journal_entries: of a request, the one it made: source_id and status; a draft
               \* without source that is voided counts as one
  task,        \* requests under way
  stale        \* history: the invoice got a sum or a total from what was no longer so

invoices == <<invoice, payment, event, entry, task, stale>>

NotBegun == [pc |-> "none"]
Ended == [pc |-> "ended"]
Statuses == {"pending", "completed", "void"}   \* refunded and failed are like void

\* Entries that count: a reversed one stays, with its reversal.
InBook(e) == entry[e].status \in {"posted", "reversed"}

Completed(rows) == {p \in Payments : rows[p] # None /\ rows[p].status = "completed"}
SumOf(rows) == MapThenSumSet(LAMBDA p : rows[p].amount, Completed(rows))

Init ==
  /\ \E total \in Totals : invoice = [status |-> "sent", total |-> total, paid |-> 0]
  /\ payment = [p \in Payments |-> None]
  /\ event = [p \in Payments |-> None]
  /\ entry = [r \in Requests |-> None]
  /\ task = [r \in Requests |-> NotBegun]
  /\ stale = FALSE

Begin(r, what) == task[r] = NotBegun /\ task' = [task EXCEPT ![r] = what]
End(r) == task' = [task EXCEPT ![r] = Ended]
Paying(p) == {q \in Requests : task[q].pc \in {"sum", "write"} /\ task[q].payment = p}

\* createPayment inserts a payment, whose foreign key holds the invoice until the end ...
Create(r, p, amount, status) ==
  /\ payment[p] = None /\ Paying(p) = {} /\ invoice.status # "void"
  /\ Begin(r, [pc |-> "sum", payment |-> p, new |-> TRUE,
               row |-> [status |-> status, amount |-> amount]])
  /\ UNCHANGED <<invoice, payment, event, entry, stale>>

\* ... and updatePayment locks one and changes its status.
Update(r, p, status) ==
  /\ payment[p] # None /\ Paying(p) = {} /\ invoice.status # "void"
  /\ Begin(r, [pc |-> "sum", payment |-> p, new |-> FALSE,
               row |-> [payment[p] EXCEPT !.status = status]])
  /\ UNCHANGED <<invoice, payment, event, entry, stale>>

Changed(r) == [payment EXCEPT ![task[r].payment] = task[r].row]

\* recalculateInvoice sums what is committed and its own change ...
ReadSum(r) ==
  /\ task[r].pc = "sum"
  /\ task' = [task EXCEPT ![r] =
       [pc |-> "write", payment |-> @.payment, new |-> @.new, row |-> @.row, sum |-> SumOf(Changed(r))]]
  /\ UNCHANGED <<invoice, payment, event, entry, stale>>

NextStatus(paid) ==
  IF invoice.status = "void" THEN "void"
  ELSE IF paid >= invoice.total /\ invoice.total > 0 THEN "paid"
  ELSE IF paid > 0 THEN "partial" ELSE "sent"

\* syncAccountingEvent
Synced(p, row) ==
  IF event[p] # None /\ event[p].status = "posted" THEN event
  ELSE IF row.status = "completed"
  THEN [event EXCEPT ![p] = [status |-> "pending", entry |-> None]]
  ELSE IF event[p] = None THEN event ELSE [event EXCEPT ![p].status = "ignored"]

WriteAny(r) ==
  LET q == task[r] IN
  /\ q.pc = "write"
  /\ \A other \in Requests \ {r} : ~(task[other].pc \in {"sum", "write"} /\ task[other].new)
  /\ payment' = Changed(r)
  /\ invoice' = [invoice EXCEPT !.paid = q.sum, !.status = NextStatus(q.sum)]
  /\ event' = Synced(q.payment, q.row)
  /\ stale' = (stale \/ q.sum # SumOf(payment'))
  /\ End(r) /\ UNCHANGED entry

\* ... then locks the invoice, for which it waits on other insertions, and writes the
\* sum; the event of the payment follows, and all of it is committed.
Write(r) ==
  LET q == task[r] IN
  /\ q.pc = "write" /\ q.sum <= invoice.total
  /\ \A other \in Requests \ {r} : ~(task[other].pc \in {"sum", "write"} /\ task[other].new)
  /\ payment' = Changed(r)
  /\ invoice' = [invoice EXCEPT !.paid = q.sum, !.status = NextStatus(q.sum)]
  /\ event' = Synced(q.payment, q.row)
  /\ stale' = (stale \/ q.sum # SumOf(payment'))
  /\ End(r) /\ UNCHANGED entry

\* updateInvoice reads the invoice, whose tax may change even when it is paid ...
EditRead(r, total, status) ==
  /\ invoice.paid <= total \/ status = "void"
  /\ Begin(r, [pc |-> "edit", total |-> total, status |-> status, paid |-> invoice.paid])
  /\ UNCHANGED <<invoice, payment, event, entry, stale>>

\* ... and writes status and total, not what was paid.
EditWrite(r) ==
  LET q == task[r] IN
  /\ q.pc = "edit"
  /\ invoice' = [invoice EXCEPT !.total = q.total, !.status = q.status]
  /\ stale' = (stale \/ q.paid # invoice.paid)
  /\ End(r) /\ UNCHANGED <<payment, event, entry>>

\* postAccountingEvent reads an event, and createJournal makes a draft of its source.
EventRead(r, p) ==
  /\ event[p] # None /\ event[p].status = "pending"
  /\ Begin(r, [pc |-> "draft", source |-> p])
  /\ UNCHANGED <<invoice, payment, event, entry, stale>>

Draft(r) ==
  /\ task[r].pc = "draft"
  /\ entry' = [entry EXCEPT ![r] = [source |-> task[r].source, status |-> "draft"]]
  /\ task' = [task EXCEPT ![r] = [pc |-> "post", entry |-> r]]
  /\ UNCHANGED <<invoice, payment, event, stale>>

\* A draft by hand has any source, or none, whatever its event is.
JournalByHand(r, source) ==
  /\ Begin(r, Ended)
  /\ entry' = [entry EXCEPT ![r] = [source |-> source, status |-> "draft"]]
  /\ UNCHANGED <<invoice, payment, event, stale>>

\* postJournal reads a draft, made by hand or for an event.
PostRead(r, e) ==
  /\ entry[e] # None /\ entry[e].status = "draft"
  /\ Begin(r, [pc |-> "post", entry |-> e])
  /\ UNCHANGED <<invoice, payment, event, entry, stale>>

\* An event that gets an entry; guard_accounting_event_journal_link leaves it as it
\* was where the entry has another source.
Linked(p, e) ==
  IF entry[e].source = p THEN [status |-> "posted", entry |-> e] ELSE event[p]

\* It posts the entry, whatever that is by now; one that was not posted has a trigger
\* post the pending events of its source ...
Post(r) ==
  LET e == task[r].entry
      source == entry[e].source IN
  /\ task[r].pc = "post"
  /\ entry' = [entry EXCEPT ![e].status = "posted"]
  /\ event' = [p \in Payments |->
       IF event[p] # None /\ event[p].status = "pending" /\ source = p /\ entry[e].status # "posted"
       THEN Linked(p, e) ELSE event[p]]
  /\ task' = [task EXCEPT ![r] = [pc |-> "mark", entry |-> e]]
  /\ UNCHANGED <<invoice, payment, stale>>

\* ... and then itself updates the pending events of the source, or all of them when
\* there is none.
Mark(r) ==
  LET e == task[r].entry
      source == entry[e].source IN
  /\ task[r].pc = "mark"
  /\ event' = [p \in Payments |->
       IF event[p] # None /\ event[p].status = "pending" /\ source \in {None, p}
       THEN Linked(p, e) ELSE event[p]]
  /\ IF e # r THEN End(r) ELSE task' = [task EXCEPT ![r] = [pc |-> "link", entry |-> r]]
  /\ UNCHANGED <<invoice, payment, entry, stale>>

\* The end of postAccountingEvent, whatever event and entry are by now.
Link(r) ==
  /\ task[r].pc = "link"
  /\ event' = [event EXCEPT ![entry[r].source] = Linked(entry[r].source, r)]
  /\ End(r) /\ UNCHANGED <<invoice, payment, entry, stale>>

\* reverseJournal reads an entry that is posted, and in a transaction posts another, which
\* has no source, and marks the first as reversed. No event is touched.
ReverseRead(r, e) ==
  /\ entry[e] # None /\ entry[e].status = "posted"
  /\ Begin(r, [pc |-> "reverse", entry |-> e])
  /\ UNCHANGED <<invoice, payment, event, entry, stale>>

ReverseWrite(r) ==
  /\ task[r].pc = "reverse"
  /\ entry' = [entry EXCEPT ![task[r].entry].status = "reversed",
                            ![r] = [source |-> None, status |-> "posted"]]
  /\ End(r) /\ UNCHANGED <<invoice, payment, event, stale>>

\* A check fails, a deadlock is resolved, or the server stops.
Fail(r) ==
  /\ task[r].pc \notin {"none", "ended"}
  /\ End(r) /\ UNCHANGED <<invoice, payment, event, entry, stale>>

Next ==
  \E r \in Requests :
    \/ \E p \in Payments, status \in Statuses :
         \/ \E total \in Totals : Create(r, p, total - 1, status)
         \/ Update(r, p, status)
    \/ \E total \in Totals, status \in {invoice.status, "sent", "void"} : EditRead(r, total, status)
    \/ \E p \in Payments : EventRead(r, p)
    \/ \E source \in Payments \union {None} : JournalByHand(r, source)
    \/ \E e \in Requests : PostRead(r, e) \/ ReverseRead(r, e)
    \/ ReadSum(r) \/ Write(r) \/ EditWrite(r)
    \/ Draft(r) \/ Post(r) \/ Mark(r) \/ Link(r) \/ ReverseWrite(r) \/ Fail(r)

Spec == Init /\ [][Next]_invoices

---------------------------------------------------------------------------
(* Properties.                                                              *)

\* What is stored as paid is the sum of the completed payments, and no more than the
\* total of an invoice that is not void, unless a payment changed between the sum and
\* its writing, or was paid between the reading of an invoice and its update
\* (recalculateInvoice, updateInvoice).
PaidIsSummed ==
  stale \/
  /\ invoice.paid = SumOf(payment)
  /\ invoice.status # "void" => invoice.paid <= invoice.total

\* An event that is posted names an entry of its own payment that is in the book,
\* however many events an entry by hand tried to mark; it is posted still when that
\* entry has been reversed. Of the others those are pending whose payment is completed
\* (syncAccountingEvent, postJournal, reverseJournal, postAccountingEvent).
EventsMatch ==
  \A p \in Payments : event[p] # None =>
    IF event[p].status = "posted"
    THEN /\ entry[event[p].entry] # None
         /\ entry[event[p].entry].source = p /\ InBook(event[p].entry)
    ELSE event[p].status = "pending" <=> payment[p].status = "completed"
=============================================================================
