----------------------------- MODULE MCLedger -----------------------------
(***************************************************************************)
(* The journal of a legal entity and what stands around it: the records    *)
(* that are posted as its entries, and the keys of the requests that are   *)
(* made again. The records compose with the journal, whose requests work   *)
(* for them; manual entries and keys are a part of their own. A run takes  *)
(* the parts it is about.                                                  *)
(***************************************************************************)
EXTENDS JournalEntries, TLC

CONSTANTS Records, Transfers, Payloads, MaxRuns, CanExpire,
          Parts   \* the parts of which one runs

VARIABLES part, source, records, lock, task, key, caller, runs

Ledger == INSTANCE LedgerRecords
Keys == INSTANCE Idempotency WITH row <- key, request <- caller

documents == <<source, records, lock, task>>
keys == <<key, caller, runs>>
ledgers == <<part, vars, documents, keys>>

LedgerInit == part \in Parts /\ Ledger!Init /\ Keys!Init

LedgerNext ==
  \/ part = "entries" /\ Next /\ UNCHANGED <<part, documents, keys>>
  \/ part = "records" /\ Ledger!Next /\ UNCHANGED <<part, keys>>
  \/ part = "keys" /\ Keys!Next /\ UNCHANGED <<part, vars, documents>>

LedgerSpec == LedgerInit /\ [][LedgerNext]_ledgers

\* The server goes on with the requests of a key.
KeysSpec == LedgerSpec /\ Keys!Fairness

\* Some records are transfers, and the null is neither a record nor a client.
RecordsAssumption == Transfers \subseteq Records /\ None \notin Records \union Clients

\* Nor is it a payload, a result or a row.
KeysAssumption ==
  /\ MaxRuns \in Nat /\ CanExpire \in BOOLEAN
  /\ None \notin Payloads \union Keys!Result \union Keys!Row

ASSUME LedgerAssumption == RecordsAssumption /\ KeysAssumption

\* What a record says of its entry, the book says too (expense.service.ts, transfer.service.ts).
RecordsInBook == Ledger!RecordsInBook

\* Two requests with a key never execute at the same time (runIdempotent).
OneExecutor == Keys!OneExecutor

\* Whoever is answered is told of an execution of its payload (runIdempotent).
AnswersOwnPayload == Keys!AnswersOwnPayload

\* A stored response stands until it expires (runIdempotent).
ResponseStands == Keys!ResponseStands

\* A key whose execution was cut short does not refuse its user forever (runIdempotent).
KeyNotStuck == Keys!KeyNotStuck

Line(account, cents) == [account |-> account, cents |-> cents]

\* A balanced collection of lines, one that does not balance, their mirrors.
EntryLineSets ==
  LET even == <<Line("cash", 1), Line("sales", -1)>>
      odd  == <<Line("cash", 2), Line("sales", -1)>>
  IN  {even, odd, Mirror(even), Mirror(odd)}

\* The lines of a record are made of one amount, so they balance.
RecordLineSets ==
  {<<Line("debit", a), Line("credit", -a)>> : a \in {1, 2, -1, -2}}

\* Clients and numbers are only compared.
Symmetric == Permutations(Clients) \union Permutations(Numbers)
===========================================================================
