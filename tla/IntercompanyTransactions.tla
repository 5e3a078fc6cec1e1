----------------------- MODULE IntercompanyTransactions -----------------------
(***************************************************************************)
(* A transaction between two legal entities and the pairs of journal        *)
(* entries posted for it. Two routes post: one checks again, in its         *)
(* transaction, that the row is still a draft, the older one does not.      *)
(***************************************************************************)
EXTENDS Integers, FiniteSets

CONSTANTS Requests, Amounts, Numbers, None

VARIABLES
  row,        \* intercompany_transactions: status, amount, and the request whose entries it names
  pair,       \* journal_entries: of a request, the pair it posted
  demand,     \* requests under way, with the row as they read it
  overtaken   \* history: a request wrote over a row that had changed since it read it

intercompany == <<row, pair, demand, overtaken>>

NotBegun == [pc |-> "none"]
Ended == [pc |-> "ended"]

Init ==
  /\ row = None
  /\ pair = [r \in Requests |-> None]
  /\ demand = [r \in Requests |-> NotBegun]
  /\ overtaken = FALSE

Posted == {r \in Requests : pair[r] # None}

\* createIntercompany
Create(amount) ==
  /\ row = None
  /\ row' = [status |-> "draft", amount |-> amount, by |-> None]
  /\ UNCHANGED <<pair, demand, overtaken>>

\* Each function reads the row and checks its status first.
Read(r, status, asked) ==
  /\ demand[r] = NotBegun /\ row # None /\ row.status = status
  /\ demand' = [demand EXCEPT ![r] = asked]
  /\ UNCHANGED <<row, pair, overtaken>>

ReadPost(r, way, number) == Read(r, "draft", [pc |-> way, row |-> row, number |-> number])
ReadUpdate(r, amount, status) ==
  Read(r, "draft", [pc |-> "update", row |-> row,
                    to |-> [row EXCEPT !.amount = amount, !.status = status]])

End(r) == demand' = [demand EXCEPT ![r] = Ended]
NumberFree(r) == \A q \in Posted : pair[q].number # demand[r].number

\* The two entries of a posting and the row that names them, in one transaction.
PostPair(r) ==
  /\ pair' = [pair EXCEPT ![r] =
       [amount |-> demand[r].row.amount, number |-> demand[r].number, whole |-> TRUE]]
  /\ row' = [row EXCEPT !.status = "posted", !.by = r]

PostConfiguredAny(r) ==
  /\ demand[r].pc = "configured" /\ NumberFree(r)
  /\ PostPair(r)
  /\ overtaken' = (overtaken \/ row.amount # demand[r].row.amount)
  /\ End(r)

\* postConfiguredIntercompany: the row is posted where it is a draft still, whatever
\* became of its amount.
PostConfigured(r) ==
  /\ demand[r].pc = "configured" /\ NumberFree(r) /\ row.status = "draft"
  /\ PostPair(r)
  /\ overtaken' = (overtaken \/ row.amount # demand[r].row.amount)
  /\ End(r)

\* postIntercompany: by id alone
PostPlain(r) ==
  /\ demand[r].pc = "plain" /\ NumberFree(r)
  /\ PostPair(r)
  /\ overtaken' = (overtaken \/ row # demand[r].row)
  /\ End(r)

\* updateIntercompany writes status, amount and all, by id alone.
Update(r) ==
  /\ demand[r].pc = "update"
  /\ row' = [demand[r].to EXCEPT !.by = row.by]
  /\ overtaken' = (overtaken \/ row # demand[r].row)
  /\ End(r) /\ UNCHANGED pair

\* reverseJournal, for one of the entries
Reverse(r) ==
  /\ r \in Posted /\ pair[r].whole
  /\ pair' = [pair EXCEPT ![r].whole = FALSE]
  /\ UNCHANGED <<row, demand, overtaken>>

\* reconcileIntercompany looks at the entries its row named ...
CheckEntries(r) ==
  /\ demand[r].pc = "reconcile"
  /\ IF pair[demand[r].row.by].whole
     THEN demand' = [demand EXCEPT ![r].pc = "settle"] ELSE End(r)
  /\ UNCHANGED <<row, pair, overtaken>>

\* ... and writes the status by id alone.
Settle(r) ==
  /\ demand[r].pc = "settle"
  /\ row' = [row EXCEPT !.status = "settled"]
  /\ End(r) /\ UNCHANGED <<pair, overtaken>>

\* A number is taken, the row is no draft any more, or the server stops.
Fail(r) ==
  /\ demand[r].pc \notin {"none", "ended"}
  /\ End(r) /\ UNCHANGED <<row, pair, overtaken>>

Next ==
  \/ \E amount \in Amounts : Create(amount)
  \/ \E r \in Requests :
       \/ \E way \in {"configured", "plain"}, number \in Numbers : ReadPost(r, way, number)
       \/ \E amount \in Amounts, status \in {"draft", "void"} : ReadUpdate(r, amount, status)
       \/ Read(r, "posted", [pc |-> "reconcile", row |-> row])
       \/ PostConfigured(r) \/ PostPlain(r) \/ Update(r) \/ Reverse(r)
       \/ CheckEntries(r) \/ Settle(r) \/ Fail(r)

Spec == Init /\ [][Next]_intercompany

---------------------------------------------------------------------------
(* Properties.                                                              *)

\* A transaction posted or settled has one pair of entries, which it names and which
\* has its amount, and any other has none, unless a request wrote over a change made
\* since it read the row (postConfiguredIntercompany, postIntercompany,
\* updateIntercompany): two postings that both check the row never both post.
PairAgrees ==
  row = None \/ overtaken \/
  /\ row.status \in {"posted", "settled"} => Posted = {row.by} /\ pair[row.by].amount = row.amount
  /\ row.status \in {"draft", "void"} => Posted = {}
=============================================================================
