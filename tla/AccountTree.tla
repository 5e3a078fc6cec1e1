----------------------------- MODULE AccountTree -----------------------------
(***************************************************************************)
(* The parents of ledger accounts. An update reads the account, checks that *)
(* a parent it was given is no descendant, and writes every column, in      *)
(* statements of their own.                                                 *)
(***************************************************************************)
EXTENDS Integers, FiniteSets

CONSTANTS Accounts, Requests, None

VARIABLES
  parent,      \* ledger_accounts.parent_account_id; None, too, of an account not created yet
  exists,      \* the accounts created
  update,      \* requests under way
  overlapped   \* history: a parent was written after another since the writer had read its account

tree == <<parent, exists, update, overlapped>>

NotBegun == [pc |-> "none"]
Ended == [pc |-> "ended"]

Init ==
  /\ parent = [a \in Accounts |-> None]
  /\ exists = {}
  /\ update = [r \in Requests |-> NotBegun]
  /\ overlapped = FALSE

DescendantsNear(a) == {b \in Accounts : parent[b] = a}

\* The recursive query of validateParent: as many levels as there are accounts.
Descendants(a) ==
  LET Below[n \in 0 .. Cardinality(Accounts)] ==
        IF n = 0 THEN {a} ELSE {b \in Accounts : parent[b] \in Below[n - 1]} IN
  UNION {Below[n] : n \in 1 .. Cardinality(Accounts)}

\* createBookkeepingAccount
Create(a, p) ==
  /\ a \notin exists /\ p \in exists \union {None}
  /\ exists' = exists \union {a}
  /\ parent' = [parent EXCEPT ![a] = p]
  /\ UNCHANGED <<update, overlapped>>

\* updateBookkeepingAccount reads the account, its parent too, which it will write
\* back when it was given none ...
Read(r, a) ==
  /\ update[r] = NotBegun /\ a \in exists
  /\ update' = [update EXCEPT ![r] =
       [pc |-> "check", account |-> a, to |-> parent[a], fresh |-> TRUE]]
  /\ UNCHANGED <<parent, exists, overlapped>>

\* ... checks one that it was given ...
Check(r, p) ==
  LET a == update[r].account IN
  /\ update[r].pc = "check"
  /\ p # a /\ p \in (exists \union {None}) \ Descendants(a)
  /\ update' = [update EXCEPT ![r].pc = "write", ![r].to = p]
  /\ UNCHANGED <<parent, exists, overlapped>>

CheckNone(r) ==
  /\ update[r].pc = "check"
  /\ update' = [update EXCEPT ![r].pc = "write"]
  /\ UNCHANGED <<parent, exists, overlapped>>

\* ... and writes.
Write(r) ==
  LET moved == parent[update[r].account] # update[r].to IN
  /\ update[r].pc = "write"
  /\ parent' = [parent EXCEPT ![update[r].account] = update[r].to]
  /\ update' = [q \in Requests |->
       IF q = r THEN Ended
       ELSE IF moved /\ update[q].pc \in {"check", "write"}
       THEN [update[q] EXCEPT !.fresh = FALSE] ELSE update[q]]
  /\ overlapped' = (overlapped \/ (moved /\ ~update[r].fresh))
  /\ UNCHANGED exists

\* A check fails, or the server stops.
Fail(r) ==
  /\ update[r].pc \in {"check", "write"}
  /\ update' = [update EXCEPT ![r] = Ended]
  /\ UNCHANGED <<parent, exists, overlapped>>

Next ==
  \/ \E a \in Accounts, p \in Accounts \union {None} : Create(a, p)
  \/ \E r \in Requests :
       \/ \E a \in Accounts : Read(r, a)
       \/ \E p \in Accounts \union {None} : Check(r, p)
       \/ CheckNone(r) \/ Write(r) \/ Fail(r)

Spec == Init /\ [][Next]_tree

---------------------------------------------------------------------------
(* Properties.                                                              *)

\* No account is below itself, where the query that looks for its descendants would
\* never end, unless updates that moved accounts overlapped (validateParent,
\* updateBookkeepingAccount).
Acyclic ==
  \/ overlapped
  \/ \A S \in SUBSET Accounts : S # {} => \E a \in S : parent[a] \notin S
=============================================================================
