--------------------------- MODULE OpeningBalances ---------------------------
(***************************************************************************)
(* The opening balance of one account in one business unit: a row, and the  *)
(* journal entries posted for it, which are ordinary entries that anybody   *)
(* may reverse by hand. Amounts have a sign instead of a side.              *)
(***************************************************************************)
EXTENDS Integers, FiniteSets, FiniteSetsExt

CONSTANTS Requests, Balances, None

VARIABLES
  opening,    \* account_opening_balances: amount and journal_entry_id, the request that posted it
  entry,      \* journal_entries of the source opening_balance: amount, and its reversals
  setting,    \* requests under way
  reversedLate \* history: an entry was reversed by hand that a request had reversed meanwhile

balances == <<opening, entry, setting, reversedLate>>

NotBegun == [pc |-> "none"]
Ended == [pc |-> "ended"]
Posted(e) == entry[e] # None /\ entry[e].reversals = 0

Init ==
  /\ opening = None
  /\ entry = [r \in Requests |-> None]
  /\ setting = [r \in Requests |-> NotBegun]
  /\ reversedLate = FALSE

Holders == {r \in Requests : setting[r].pc = "set" /\ setting[r].previous # None}

LockNothing(r, amount) ==
  /\ setting[r] = NotBegun
  /\ setting' = [setting EXCEPT ![r] = [pc |-> "set", amount |-> amount, previous |-> opening]]
  /\ UNCHANGED <<opening, entry, reversedLate>>

\* setAccountOpeningBalance begins by reading the row, if there is one, for update.
Lock(r, amount) ==
  /\ setting[r] = NotBegun /\ (opening # None => Holders = {})
  /\ setting' = [setting EXCEPT ![r] = [pc |-> "set", amount |-> amount, previous |-> opening]]
  /\ UNCHANGED <<opening, entry, reversedLate>>

\* reverseOpeningJournal, for an entry that is posted still
Reversed(e) ==
  IF e # None /\ Posted(e) THEN [entry EXCEPT ![e].reversals = 1] ELSE entry

\* The entry of the old balance is reversed, one of the new balance posted, and the
\* row inserted, updated or deleted; of two first balances one is refused.
Set(r) ==
  LET q == setting[r]
      old == IF q.previous = None THEN None ELSE q.previous.entry IN
  /\ q.pc = "set" /\ (q.previous = None /\ q.amount # 0 => opening = None)
  /\ entry' = IF q.amount = 0 THEN Reversed(old)
              ELSE [Reversed(old) EXCEPT ![r] = [amount |-> q.amount, reversals |-> 0]]
  /\ opening' = IF q.amount # 0 THEN [amount |-> q.amount, entry |-> r]
                ELSE IF q.previous = None THEN opening ELSE None
  /\ setting' = [setting EXCEPT ![r] = Ended]
  /\ UNCHANGED reversedLate

\* reverseJournal reads the status of an entry before its transaction, which does not
\* look at it again.
ReverseRead(r, e) ==
  /\ setting[r] = NotBegun /\ Posted(e)
  /\ setting' = [setting EXCEPT ![r] = [pc |-> "reverse", entry |-> e]]
  /\ UNCHANGED <<opening, entry, reversedLate>>

ReverseWrite(r) ==
  /\ setting[r].pc = "reverse"
  /\ entry' = [entry EXCEPT ![setting[r].entry].reversals = @ + 1]
  /\ reversedLate' = (reversedLate \/ ~Posted(setting[r].entry))
  /\ setting' = [setting EXCEPT ![r] = Ended]
  /\ UNCHANGED opening

\* Rolled back
Fail(r) ==
  /\ setting[r].pc \in {"set", "reverse"}
  /\ setting' = [setting EXCEPT ![r] = Ended]
  /\ UNCHANGED <<opening, entry, reversedLate>>

Next ==
  \E r \in Requests :
    \/ \E amount \in Balances \union {0} : Lock(r, amount)
    \/ Set(r)
    \/ \E e \in Requests : ReverseRead(r, e)
    \/ ReverseWrite(r) \/ Fail(r)

Spec == Init /\ [][Next]_balances

---------------------------------------------------------------------------
(* Properties.                                                              *)

\* What the ledger has of an account's opening balance
InLedger ==
  MapThenSumSet(LAMBDA e : entry[e].amount * (1 - entry[e].reversals),
                {e \in Requests : entry[e] # None})

\* The ledger has what the row says, or nothing once its entry was reversed by hand,
\* unless an entry was reversed by hand while a request reversed it
\* (setAccountOpeningBalance).
LedgerAgrees ==
  reversedLate \/
  InLedger = IF opening # None /\ Posted(opening.entry) THEN opening.amount ELSE 0
=============================================================================
