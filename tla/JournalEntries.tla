-------------------------- MODULE JournalEntries --------------------------
(***************************************************************************)
(* The journal_entries and journal_lines tables of one legal entity, the   *)
(* accounting periods that guard them, and the services that create, edit, *)
(* post, void and reverse entries on behalf of concurrent HTTP requests.   *)
(*                                                                         *)
(* PostgreSQL runs every statement at READ COMMITTED. A service reads the  *)
(* entry with one statement and writes it with another, so a request is a  *)
(* read step followed, any number of steps of other requests later, by a   *)
(* write step. A statement and the triggers it fires are one step; so is   *)
(* a transaction of which no other request can see an intermediate state.  *)
(* The reversal transaction is two steps, its checks and its commit.       *)
(*                                                                         *)
(* A date is represented by the accounting period it falls into; a date    *)
(* that no period covers is in a period that is never closed.              *)
(*                                                                         *)
(* A definition whose name extends that of the definition after it is a    *)
(* wrong variant of it, which no specification uses: the project checks    *)
(* that its properties tell the two apart.                                 *)
(***************************************************************************)
EXTENDS Integers, Sequences, Functions

CONSTANTS
  Clients,   \* concurrent requests
  Numbers,   \* entry numbers, UNIQUE (legal_entity_id, entry_number)
  Periods,   \* accounting periods
  LineSets,  \* the collections of lines a request may submit
  None       \* SQL NULL

VARIABLES
  journals,  \* the committed rows, by entry number
  period,    \* the status of each accounting period
  request    \* what each request has read and is about to write

vars == <<journals, period, request>>

\* The entries that the reports count.
InBook(n) == journals[n].status \in {"posted", "reversed"}

Entered == [n \in Numbers |-> IF InBook(n) THEN journals[n].lines ELSE << >>]

Book == INSTANCE AppendOnlyBook WITH book <- Entered

NoLines == << >>
Balanced(lines) == Book!Balanced(lines)
Mirror(lines) == Book!Mirror(lines)

\* A request can submit lines and a reversal submits their mirror.
ASSUME LinesAssumption ==
  /\ NoLines \notin LineSets
  /\ \A lines \in LineSets : Mirror(lines) \in LineSets

ASSUME NoneAssumption == None \notin Numbers \union Periods

EntryStatus == {"absent", "draft", "posted", "reversed", "void"}
PeriodStatus == {"open", "closed", "locked"}

Entry == [status   : EntryStatus,
          lines    : LineSets \union {NoLines},
          period   : Periods \union {None},
          reverses : Numbers \union {None}]

NoEntry == [status |-> "absent", lines |-> NoLines,
            period |-> None, reverses |-> None]

Request == [op     : {"idle", "update", "post", "reverse", "reversing"},
            entry  : Numbers \union {None},           \* the entry it read
            lines  : LineSets \union {NoLines},       \* the lines it read
            number : Numbers \union {None},           \* the row it inserted
            period : Periods \union {None}]

Idle == [op |-> "idle", entry |-> None, lines |-> NoLines,
         number |-> None, period |-> None]

IsOpen(p) == period[p] = "open"

\* The unique index: a number is taken by a committed row and by a row that
\* an open transaction has inserted.
Free(n) ==
  /\ journals[n].status = "absent"
  /\ \A c \in Clients : request[c].number # n

Draft(p, lines) == [status |-> "draft", lines |-> lines,
                    period |-> p, reverses |-> None]

Init ==
  /\ journals = [n \in Numbers |-> NoEntry]
  /\ period = [p \in Periods |-> "open"]
  /\ request = [c \in Clients |-> Idle]

---------------------------------------------------------------------------
(* Entries                                                                 *)

\* The triggers that run when a row that was not posted becomes posted.
PostingAllowedUnbalanced(lines, p) == IsOpen(p)
PostingAllowed(lines, p) == Balanced(lines) /\ IsOpen(p)

\* createJournal: one transaction inserts the header and its lines. The line
\* trigger wants the period open; nobody asks for the lines to balance.
CreateJournal(n, p, lines) ==
  /\ Free(n)
  /\ IsOpen(p)
  /\ journals' = [journals EXCEPT ![n] = Draft(p, lines)]
  /\ UNCHANGED <<period, request>>

\* The services that post a document of their own (expenses, revenue records,
\* transfers, ...) create its entry and post it in one transaction.
PostAtomically(n, p, lines) ==
  /\ Free(n)
  /\ PostingAllowed(lines, p)
  /\ journals' = [journals EXCEPT ![n] = [Draft(p, lines) EXCEPT !.status = "posted"]]
  /\ UNCHANGED <<period, request>>

Reading(c, n, op, lines) ==
  /\ request[c].op = "idle"
  /\ request' = [request EXCEPT ![c] =
                   [Idle EXCEPT !.op = op, !.entry = n, !.lines = lines]]
  /\ UNCHANGED <<journals, period>>

\* updateJournal reads the entry outside its transaction.
UpdateRead(c, n) ==
  /\ journals[n].status = "draft"
  /\ Reading(c, n, "update", NoLines)

\* The period trigger on journal_entries: a draft that moves to another
\* period must leave an open one for an open one. A row that is not a draft
\* is not looked at.
MoveAllowed(row, p) ==
  row.status = "draft" /\ p # row.period => IsOpen(row.period) /\ IsOpen(p)

\* The trigger on journal_lines: only a draft in an open period.
LinesAllowedAnyStatus(row, p) == IsOpen(p)
LinesAllowed(row, p) == row.status = "draft" /\ IsOpen(p)

\* The transaction of updateJournal: the header by its id alone, then, when
\* the request brought lines, the lines in place of the old ones.
UpdateWrite(c, p, lines) ==
  LET n == request[c].entry IN
  /\ request[c].op = "update"
  /\ MoveAllowed(journals[n], p)
  /\ lines # NoLines => LinesAllowed(journals[n], p)
  /\ journals' = [journals EXCEPT
                    ![n].period = p,
                    ![n].lines = IF lines = NoLines THEN @ ELSE lines]
  /\ request' = [request EXCEPT ![c] = Idle]
  /\ UNCHANGED period

PostRead(c, n) ==
  /\ journals[n].status = "draft"
  /\ Reading(c, n, "post", NoLines)

\* postJournal writes by id alone: the row it posts is the row as it is now.
PostWrite(c) ==
  LET n == request[c].entry IN
  /\ request[c].op = "post"
  /\ journals[n].status # "posted" =>
       PostingAllowed(journals[n].lines, journals[n].period)
  /\ journals' = [journals EXCEPT ![n].status = "posted"]
  /\ request' = [request EXCEPT ![c] = Idle]
  /\ UNCHANGED period

\* voidBookkeepingTransaction of a manual entry. What it read before does not
\* matter: the UPDATE repeats the condition.
VoidJournal(n) ==
  /\ journals[n].status = "draft"
  /\ journals[n].reverses = None
  /\ IsOpen(journals[n].period)
  /\ journals' = [journals EXCEPT ![n].status = "void"]
  /\ UNCHANGED <<period, request>>

\* reverseJournal loads the entry with its lines outside its transaction.
ReverseRead(c, n) ==
  /\ journals[n].status = "posted"
  /\ Reading(c, n, "reverse", journals[n].lines)

\* It inserts the reversal with the lines it read, debits and credits
\* exchanged, and posts it; nobody sees the row before the commit.
ReverseInsert(c, m, p) ==
  /\ request[c].op = "reverse"
  /\ Free(m)
  /\ PostingAllowed(Mirror(request[c].lines), p)
  /\ request' = [request EXCEPT ![c].op = "reversing",
                                ![c].number = m,
                                ![c].period = p]
  /\ UNCHANGED <<journals, period>>

ReversalSameSides(r) == [status |-> "posted", lines |-> r.lines,
                         period |-> r.period, reverses |-> r.entry]

ReversalOf(r) == [status |-> "posted", lines |-> Mirror(r.lines),
                  period |-> r.period, reverses |-> r.entry]

\* It marks the original, by id alone, and commits.
ReverseCommit(c) ==
  LET r == request[c] IN
  /\ r.op = "reversing"
  /\ journals' = [journals EXCEPT ![r.entry].status = "reversed",
                                  ![r.number] = ReversalOf(r)]
  /\ request' = [request EXCEPT ![c] = Idle]
  /\ UNCHANGED period

\* A check fails, the connection is lost or the process stops: the
\* transaction, if there is one, is rolled back.
Abandon(c) ==
  /\ request[c].op # "idle"
  /\ request' = [request EXCEPT ![c] = Idle]
  /\ UNCHANGED <<journals, period>>

---------------------------------------------------------------------------
(* Periods                                                                 *)

\* closeAccountingPeriod, with lock or without. A request that read the
\* period open before another one closed it closes it again, so a closed
\* period can become locked and a locked one closed.
ClosePeriod(p, status) ==
  /\ status \in {"closed", "locked"}
  /\ period' = [period EXCEPT ![p] = status]
  /\ UNCHANGED <<journals, request>>

\* reopenAccountingPeriod, of a locked period too.
ReopenPeriod(p) ==
  /\ period[p] # "open"
  /\ period' = [period EXCEPT ![p] = "open"]
  /\ UNCHANGED <<journals, request>>

---------------------------------------------------------------------------
ClientStep(c) ==
  \/ \E n \in Numbers : UpdateRead(c, n) \/ PostRead(c, n) \/ ReverseRead(c, n)
  \/ \E p \in Periods, lines \in LineSets \union {NoLines} :
       UpdateWrite(c, p, lines)
  \/ PostWrite(c)
  \/ \E m \in Numbers, p \in Periods : ReverseInsert(c, m, p)
  \/ ReverseCommit(c)
  \/ Abandon(c)

Next ==
  \/ \E n \in Numbers, p \in Periods, lines \in LineSets :
       CreateJournal(n, p, lines) \/ PostAtomically(n, p, lines)
  \/ \E n \in Numbers : VoidJournal(n)
  \/ \E c \in Clients : ClientStep(c)
  \/ \E p \in Periods :
       ReopenPeriod(p) \/ \E s \in PeriodStatus : ClosePeriod(p, s)

Spec == Init /\ [][Next]_vars

---------------------------------------------------------------------------
(* Properties                                                              *)

TypeOK ==
  /\ journals \in [Numbers -> Entry]
  /\ period \in [Periods -> PeriodStatus]
  /\ request \in [Clients -> Request]

\* Every entry the reports count has at least two lines and balances, though
\* drafts need not balance and a stale edit may arrive after the posting.
PostedEntriesBalance == \A n \in Numbers : InBook(n) => Balanced(journals[n].lines)

\* A reversal carries exactly the lines of the entry it reverses, with the
\* sides exchanged, and both stay in the book: together they sum to zero.
ReversalsMirror ==
  \A n \in Numbers :
    journals[n].reverses # None =>
      /\ InBook(n)
      /\ InBook(journals[n].reverses)
      /\ journals[n].lines = Mirror(journals[journals[n].reverses].lines)

\* An entry is marked reversed only together with its reversal: none is left
\* reversed without a counter-entry in the book.
ReversedHaveReversal ==
  \A n \in Numbers :
    journals[n].status = "reversed" => \E m \in Numbers : journals[m].reverses = n

\* What a request holds across its steps stays true whatever the others do:
\* the entry it read exists, the lines a reversal copies are still those of an
\* entry in the book, the number a reversal inserted is nobody else's, and
\* the reversal balances.
RequestsHold ==
  \A c \in Clients :
    LET r == request[c] IN
    /\ r.op # "idle" => r.entry \in Numbers /\ journals[r.entry].status # "absent"
    /\ r.op \in {"reverse", "reversing"} =>
         InBook(r.entry) /\ r.lines = journals[r.entry].lines
    /\ r.op = "reversing" =>
         /\ r.number \in Numbers
         /\ r.period \in Periods
         /\ journals[r.number].status = "absent"
         /\ \A d \in Clients : request[d].number = r.number => c = d
         /\ Balanced(Mirror(r.lines))

\* The book only grows: an entry that was posted is never again a draft, void
\* or gone, and its lines do not change, whatever stale requests arrive.
BookOnlyGrows ==
  [][\A n \in Numbers :
       InBook(n) => InBook(n)' /\ journals[n].lines = journals[n].lines']_vars

\* The whole of it: the entries implement the append-only book.
ImplementsBook == Book!Spec

\* docs/BOOKKEEPING_TRANSACTIONS.md:79, "Only draft transactions can be posted."
OnlyDraftsPosted ==
  [][\A n \in Numbers :
       journals[n].status # "posted" /\ journals'[n].status = "posted" =>
         journals[n].status \in {"draft", "absent"}]_vars

\* docs/BOOKKEEPING_OPERATIONS.md:44, "Posted transactions are immutable":
\* the period an entry is posted in does not change.
PostedPeriodFixed ==
  [][\A n \in Numbers : InBook(n) => journals'[n].period = journals[n].period]_vars

\* docs/BOOKKEEPING_API.md:96, "Closed/locked periods reject journal posting":
\* what a period holds in the book changes only while it is open.
EntriesOf(p) == {n \in Numbers : InBook(n) /\ journals[n].period = p}
ClosedPeriodsFrozen ==
  [][\A p \in Periods : period[p] # "open" => EntriesOf(p)' = EntriesOf(p)]_vars
===========================================================================
