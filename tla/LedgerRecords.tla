--------------------------- MODULE LedgerRecords ---------------------------
(***************************************************************************)
(* Expenses, revenue records and transfers: rows of their own tables that  *)
(* are drafts until they are posted, by one transaction, as a journal      *)
(* entry. Composes with JournalEntries, whose table the entries live in:   *)
(* they are reversed by the same service as any other entry.               *)
(*                                                                         *)
(* Expenses and revenue records have the same life; transfers differ in    *)
(* what an edit writes, in how they are voided and in the mark that their  *)
(* reversal leaves. Manual entries, which touch neither the records nor    *)
(* their entries, are left to JournalEntries. As there, a definition whose *)
(* name extends that of the definition after it is a wrong variant of it.  *)
(***************************************************************************)
EXTENDS Integers, Sequences

CONSTANTS
  Clients, Numbers, Periods, LineSets, None,  \* as in JournalEntries
  Records,    \* the ids of all the records
  Transfers   \* those of bookkeeping_transfers

VARIABLES
  journals, period, request,  \* as in JournalEntries
  source,   \* the source_type and source_id of each entry
  records,  \* the rows of expenses, revenue_records, bookkeeping_transfers
  lock,     \* the request that holds the row lock of a record
  task      \* what each request is doing to a record

vars == <<journals, period, request, source, records, lock, task>>
ledger == <<journals, period, request>>

J == INSTANCE JournalEntries

NoLines == << >>

Record == [status : {"absent", "draft", "posted", "void", "reversed"},
           lines  : LineSets \union {NoLines},   \* NoLines: an account is missing
           period : Periods \union {None},
           entry  : Numbers \union {None}]

NoRecord == [status |-> "absent", lines |-> NoLines,
             period |-> None, entry |-> None]

Task == [op : {"idle", "update", "post", "reverse"},
         record : Records \union {None}]

Idle == [op |-> "idle", record |-> None]

Init ==
  /\ J!Init
  /\ source = [n \in Numbers |-> None]
  /\ records = [r \in Records |-> NoRecord]
  /\ lock = [r \in Records |-> None]
  /\ task = [c \in Clients |-> Idle]

\* The status the API reports: that of the row, unless its entry is reversed.
Status(r) ==
  IF /\ records[r].entry # None
     /\ journals[records[r].entry].status = "reversed"
    THEN "reversed" ELSE records[r].status

Available(c) == task[c] = Idle /\ request[c].op = "idle"

Start(c, op, r) == task' = [task EXCEPT ![c] = [op |-> op, record |-> r]]
Finish(c) == task' = [task EXCEPT ![c] = Idle]

---------------------------------------------------------------------------
\* createExpense, createRevenue, createTransfer. A transfer names both of its
\* accounts.
CreateRecord(r, p, lines) ==
  /\ records[r].status = "absent"
  /\ r \in Transfers => lines # NoLines
  /\ J!IsOpen(p)
  /\ records' = [records EXCEPT ![r] = [status |-> "draft", lines |-> lines,
                                        period |-> p, entry |-> None]]
  /\ UNCHANGED <<ledger, source, lock, task>>

\* updateExpense and updateRevenue refuse a posted row, updateTransfer all but
\* a draft. None of them keeps the row locked.
UpdateRead(c, r) ==
  /\ Available(c)
  /\ IF r \in Transfers THEN Status(r) = "draft"
                        ELSE records[r].status \in {"draft", "void"}
  /\ Start(c, "update", r)
  /\ UNCHANGED <<ledger, source, records, lock>>

\* The period triggers: an expense or a revenue record never changes in a
\* closed period, a transfer does once it is no draft.
ChangeAllowed(r, p) ==
  r \notin Transfers \/ records[r].status = "draft" =>
    J!IsOpen(records[r].period) /\ J!IsOpen(p)

\* The columns a request does not name are written back as it read them. For
\* an expense or a revenue record the status is one of those columns, and it
\* was not "posted" when it was read.
UpdateWrite(c, p, lines, status) ==
  LET r == task[c].record IN
  /\ task[c].op = "update"
  /\ lock[r] = None
  /\ ChangeAllowed(r, p)
  /\ IF r \in Transfers THEN lines # NoLines /\ status = records[r].status
                        ELSE status \in {"draft", "void"}
  /\ records' = [records EXCEPT ![r].status = status,
                                ![r].lines = lines,
                                ![r].period = p]
  /\ Finish(c)
  /\ UNCHANGED <<ledger, source, lock>>

\* voidBookkeepingTransaction of a transfer repeats its condition. That of an
\* expense or a revenue record is an update.
VoidTransfer(r) ==
  /\ r \in Transfers
  /\ lock[r] = None
  /\ records[r].status = "draft"
  /\ J!IsOpen(records[r].period)
  /\ records' = [records EXCEPT ![r].status = "void"]
  /\ UNCHANGED <<ledger, source, lock, task>>

PostBeginUnlocked(c, r) ==
  /\ Available(c)
  /\ records[r].status = "draft"
  /\ records[r].lines # NoLines
  /\ Start(c, "post", r)
  /\ UNCHANGED <<ledger, source, records, lock>>

\* postExpenseAtomic, postRevenueAtomic, postTransfer: SELECT ... FOR UPDATE.
PostBegin(c, r) ==
  /\ Available(c)
  /\ lock[r] = None
  /\ records[r].status = "draft"
  /\ records[r].lines # NoLines
  /\ lock' = [lock EXCEPT ![r] = c]
  /\ Start(c, "post", r)
  /\ UNCHANGED <<ledger, source, records>>

\* The entry is inserted, posted and linked, and everything commits at once.
PostCommit(c, n) ==
  LET r == task[c].record
      row == records[r]
  IN
  /\ task[c].op = "post"
  /\ J!PostAtomically(n, row.period, row.lines)
  /\ source' = [source EXCEPT ![n] = r]
  /\ records' = [records EXCEPT ![r].status = "posted", ![r].entry = n]
  /\ lock' = [lock EXCEPT ![r] = None]
  /\ Finish(c)

\* reverseBookkeepingTransaction checks the record and calls reverseJournal.
ReverseRecord(c, r) ==
  /\ Available(c)
  /\ Status(r) = "posted"
  /\ J!ReverseRead(c, records[r].entry)
  /\ Start(c, "reverse", r)
  /\ UNCHANGED <<source, records, lock>>

\* reverseJournal called for the entry itself.
ReverseEntry(c, n) ==
  /\ Available(c)
  /\ J!ReverseRead(c, n)
  /\ UNCHANGED <<source, records, lock, task>>

ReverseStep(c) ==
  /\ \/ \E m \in Numbers, p \in Periods : J!ReverseInsert(c, m, p)
     \/ J!ReverseCommit(c)
  /\ UNCHANGED <<source, records, lock, task>>

\* Once reverseJournal has returned, the row of a transfer is marked, by a
\* statement of its own.
MarkReversed(c) ==
  LET r == task[c].record IN
  /\ task[c].op = "reverse"
  /\ request[c].op = "idle"
  /\ IF r \in Transfers
       THEN /\ lock[r] = None
            /\ records' = [records EXCEPT ![r].status = "reversed"]
       ELSE UNCHANGED records
  /\ Finish(c)
  /\ UNCHANGED <<ledger, source, lock>>

\* A check fails, the connection is lost or the process stops, before, during
\* or between the transactions of a request.
Abandon(c) ==
  /\ ~ Available(c)
  /\ request' = [request EXCEPT ![c] = J!Idle]
  /\ lock' = [r \in Records |-> IF lock[r] = c THEN None ELSE lock[r]]
  /\ Finish(c)
  /\ UNCHANGED <<journals, period, source, records>>

PeriodStep ==
  /\ \E p \in Periods : J!ReopenPeriod(p) \/ J!ClosePeriod(p, "closed")
  /\ UNCHANGED <<source, records, lock, task>>

---------------------------------------------------------------------------
ClientStep(c) ==
  \/ \E r \in Records : UpdateRead(c, r) \/ PostBegin(c, r) \/ ReverseRecord(c, r)
  \/ \E p \in Periods, lines \in LineSets \union {NoLines},
        status \in {"draft", "void", "posted", "reversed"} :
       UpdateWrite(c, p, lines, status)
  \/ \E n \in Numbers : PostCommit(c, n) \/ ReverseEntry(c, n)
  \/ ReverseStep(c)
  \/ MarkReversed(c)
  \/ Abandon(c)

Next ==
  \/ \E r \in Records, p \in Periods, lines \in LineSets \union {NoLines} :
       CreateRecord(r, p, lines)
  \/ \E r \in Records : VoidTransfer(r)
  \/ \E c \in Clients : ClientStep(c)
  \/ PeriodStep

Spec == Init /\ [][Next]_vars

---------------------------------------------------------------------------
(* Properties                                                              *)

TypeOK ==
  /\ J!TypeOK
  /\ source \in [Numbers -> Records \union {None}]
  /\ records \in [Records -> Record]
  /\ lock \in [Records -> Clients \union {None}]
  /\ task \in [Clients -> Task]

Expenses == Records \ Transfers

EntriesOf(r) == {n \in Numbers : source[n] = r}

\* A record that says it is posted has its own entry in the book: posting
\* links and marks in one transaction, and no edit takes the link away.
PostedHasEntry ==
  \A r \in Records :
    records[r].status \in {"posted", "reversed"} =>
      records[r].entry \in EntriesOf(r) /\ J!InBook(records[r].entry)

\* A transfer is posted at most once, and then never again a draft or void:
\* the row lock of the posting, the repeated condition of the void and an edit
\* that leaves the status alone together see to it.
TransferPostedOnce ==
  \A r \in Transfers, n \in Numbers :
    n \in EntriesOf(r) =>
      records[r].entry = n /\ records[r].status \in {"posted", "reversed"}

\* An expense or a revenue record that says it is posted agrees with its entry
\* on accounts, amount and date. (A stale edit makes it say something else.)
PostedExpenseAgrees ==
  \A r \in Expenses :
    records[r].status = "posted" =>
      /\ records[r].lines = journals[records[r].entry].lines
      /\ records[r].period = journals[records[r].entry].period

\* The mark of a reversed transfer comes after its reversal: it is never set
\* while the entry still counts in full.
MarkedWasReversed ==
  \A r \in Transfers :
    records[r].status = "reversed" => journals[records[r].entry].status = "reversed"

\* Records and book agree as far as the row locks, the linking of entry and record in
\* one transaction, and the order of a reversal go (postBookkeepingTransaction,
\* postExpenseAtomic, reverseBookkeepingTransaction).
RecordsInBook == PostedHasEntry /\ TransferPostedOnce /\ PostedExpenseAgrees /\ MarkedWasReversed

\* docs/BOOKKEEPING_TRANSACTIONS.md:88, "posted transactions cannot be voided."
PostedNotVoided ==
  \A r \in Expenses : records[r].status = "void" => EntriesOf(r) = {}

\* docs/BOOKKEEPING_TRANSACTIONS.md:79, "Only draft transactions can be posted":
\* what has been posted is not posted again.
PostedOnce ==
  \A m, n \in Numbers : source[m] # None /\ source[m] = source[n] => m = n

\* docs/BOOKKEEPING_OPERATIONS.md:44, "Posted transactions are immutable": a
\* posted transfer keeps the accounts, the amount and the date it was posted
\* with.
PostedTransferAgrees ==
  \A r \in Transfers :
    records[r].status = "posted" =>
      /\ records[r].lines = journals[records[r].entry].lines
      /\ records[r].period = journals[records[r].entry].period
===========================================================================
