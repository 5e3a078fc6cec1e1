------------------------------- MODULE MCBooks -------------------------------
(***************************************************************************)
(* What is kept beside the journal: reconciliations, recurring and          *)
(* intercompany transactions, opening balances, accounts and periods,       *)
(* invoices with their payments and events, and attachments, one part at a  *)
(* time. Each writes tables of its own; the entries they post are checked   *)
(* by the journal's module, whatever their source.                          *)
(***************************************************************************)
EXTENDS Reconciliations, TLC

CONSTANTS LastDate, Amounts, Numbers, Balances, Accounts, Payments, Totals, Periods

VARIABLES part, template, runs, generation, givenUp, astray,
          row, pair, demand, overtaken, opening, posting, setting, reversedLate,
          parent, exists, update, overlapped, period, change, atOnce,
          invoice, payment, event, entry, task, stale,
          attachment, content, handling, stopped

Recurring == INSTANCE RecurringTransactions
Intercompany == INSTANCE IntercompanyTransactions
Openings == INSTANCE OpeningBalances WITH entry <- posting
Tree == INSTANCE AccountTree
Calendar == INSTANCE AccountingPeriods WITH overlapped <- atOnce
Invoices == INSTANCE InvoicePayments
Files == INSTANCE Attachments

schedule == <<template, runs, generation, givenUp, astray>>
intercompany == <<row, pair, demand, overtaken>>
balances == <<opening, posting, setting, reversedLate>>
tree == <<parent, exists, update, overlapped>>
calendar == <<period, change, atOnce>>
invoices == <<invoice, payment, event, entry, task, stale>>
attachments == <<attachment, content, handling, stopped>>
books == <<part, reconciliations, schedule, intercompany, balances, tree, calendar, invoices,
           attachments>>

\* Every line its own amount
AmountOf == CHOOSE f \in [Lines -> 1 .. Cardinality(Lines)] : \A k, l \in Lines : k # l => f[k] # f[l]

Symmetry ==
  Permutations(Requests) \union Permutations(Accounts) \union Permutations(Payments)
    \union Permutations(Sessions)

\* The null is no row that is written, and what is counted or added up is finite.
ASSUME BooksAssumption ==
  /\ IsFiniteSet(Requests) /\ IsFiniteSet(Payments) /\ IsFiniteSet(Accounts) /\ LastDate \in Nat
  /\ None \notin Requests /\ None \notin Accounts
  /\ None \notin [status : {"draft", "reopened", "completed", "void"}, movement : Movements,
                  difference : Int \union {None}, ticked : (SUBSET Lines) \union {None}, alone : BOOLEAN]
  /\ None \notin [of : Sessions, id : Requests] /\ \A lines \in SUBSET Lines : None # lines
  /\ None \notin [by : Requests, is : {"pending", "old", "done"}]
  /\ None \notin [status : {"draft", "void", "posted", "settled"}, amount : Amounts,
                  by : Requests \union {None}]
  /\ None \notin [amount : Amounts, number : Numbers, whole : BOOLEAN]
  /\ None \notin [status : {"active", "archived"}, file : {"active", "archived"},
                  kept : {"database", "objects"}, uploaded : BOOLEAN]
  /\ None \notin [start : Nat, end : Nat, status : {"open", "closed", "locked"}]
  /\ None \notin [status : {"pending", "ignored", "posted"}, entry : Requests \union {None}]
  /\ None \notin [status : {"pending", "completed", "void"}, amount : Int]
  /\ None \notin [source : Payments \union {None}, status : {"draft", "posted", "reversed"}]
  /\ None \notin [amount : Int, entry : Requests] /\ None \notin [amount : Int, reversals : Nat]
  /\ Balances \subseteq Int
  /\ None \notin Payments /\ Totals \subseteq Nat

BooksInit ==
  /\ part \in {"reconciliation", "recurring", "intercompany", "openings", "accounts",
               "periods", "payments", "attachments"}
  /\ Init /\ Recurring!Init /\ Intercompany!Init /\ Openings!Init /\ Tree!Init
  /\ Calendar!Init /\ Invoices!Init /\ Files!Init
  /\ part = "payments" \/ \A total \in Totals : invoice.total <= total

BooksNext ==
  \/ /\ part = "reconciliation" /\ Next
     /\ UNCHANGED <<part, schedule, intercompany, balances, tree, calendar, invoices, attachments>>
  \/ /\ part = "recurring" /\ Recurring!Next
     /\ UNCHANGED <<part, reconciliations, intercompany, balances, tree, calendar, invoices, attachments>>
  \/ /\ part = "intercompany" /\ Intercompany!Next
     /\ UNCHANGED <<part, reconciliations, schedule, balances, tree, calendar, invoices, attachments>>
  \/ /\ part = "openings" /\ Openings!Next
     /\ UNCHANGED <<part, reconciliations, schedule, intercompany, tree, calendar, invoices, attachments>>
  \/ /\ part = "accounts" /\ Tree!Next
     /\ UNCHANGED <<part, reconciliations, schedule, intercompany, balances, calendar, invoices, attachments>>
  \/ /\ part = "periods" /\ Calendar!Next
     /\ UNCHANGED <<part, reconciliations, schedule, intercompany, balances, tree, invoices, attachments>>
  \/ /\ part = "payments" /\ Invoices!Next
     /\ UNCHANGED <<part, reconciliations, schedule, intercompany, balances, tree, calendar, attachments>>
  \/ /\ part = "attachments" /\ Files!Next
     /\ UNCHANGED <<part, reconciliations, schedule, intercompany, balances, tree, calendar, invoices>>

BooksSpec == BooksInit /\ [][BooksNext]_books

\* One transaction for a date, but for generations given up, and the next date has
\* not been generated (generateRecurringBookkeeping).
MadeOnce == Recurring!MadeOnce /\ Recurring!DueIsOpen

\* An intercompany transaction has its one pair of entries (postConfiguredIntercompany).
PairAgrees == Intercompany!PairAgrees

\* The ledger has the opening balances of the rows (setAccountOpeningBalance).
LedgerAgrees == Openings!LedgerAgrees

\* No account is below itself, and no day in two periods (updateBookkeepingAccount,
\* createAccountingPeriod, updateAccountingPeriod).
StructureStands == Tree!Acyclic /\ Calendar!PeriodsApart

\* What is stored as paid is what was paid, and the events of payments are posted with
\* entries of their own source that stay in the book (recalculateInvoice,
\* postAccountingEvent, reverseJournal).
PaymentsAgree == Invoices!PaidIsSummed /\ Invoices!EventsMatch

\* A file said to be uploaded is there (storeBookkeepingAttachmentContent).
FileIsThere == Files!FileIsThere
=============================================================================
