--------------------------- MODULE Reconciliations ---------------------------
(***************************************************************************)
(* The reconciliation of one account with its statements. Requests read a   *)
(* session, then write without a lock on it: lines are cleared in one       *)
(* transaction, taken back one by one, and the session is completed with a  *)
(* difference calculated before. The older interface does all of that in a  *)
(* row, each part through the same functions with their own checks.         *)
(***************************************************************************)
EXTENDS Integers, FiniteSets, FiniteSetsExt

CONSTANTS
  Sessions, Lines, Requests,
  Amount,       \* of a posted line, in the direction of the account
  Movements,    \* what statements may say: ending less opening balance
  Tolerance,
  None

VARIABLES
  session,      \* reconciliation_sessions; alone: as history, whether the request that completed it was
  cleared,      \* reconciliation_items: of a line, the session and the id of the row
  work          \* requests under way

reconciliations == <<session, cleared, work>>

NotBegun == [pc |-> "none"]
Ended == [pc |-> "ended"]

Init ==
  /\ session = [s \in Sessions |-> None]
  /\ cleared = [l \in Lines |-> None]
  /\ work = [r \in Requests |-> NotBegun]

Open(s) == session[s] # None /\ session[s].status \in {"draft", "reopened"}
Items(s) == {l \in Lines : cleared[l] # None /\ cleared[l].of = s}
UnderWay == {r \in Requests : work[r].pc \notin {"none", "ended"}}
Inserted == UNION {work[r].adds : r \in {x \in UnderWay : work[x].pc = "commit"}}

Total(lines) == MapThenSumSet(LAMBDA l : Amount[l], lines)

\* calculateSession
Difference(s) == Total(Items(s)) - session[s].movement

\* createReconciliation
Create(s, movement) ==
  /\ session[s] = None
  /\ session' = [session EXCEPT ![s] =
       [status |-> "draft", movement |-> movement, difference |-> None,
        ticked |-> None, alone |-> FALSE]]
  /\ UNCHANGED <<cleared, work>>

\* A request on a session: what it takes back, what it adds, whether it completes.
Begin(r, s, pc, removes, adds, finish, ticked) ==
  /\ work[r] = NotBegun /\ session[s] # None
  /\ LET others == {q \in UnderWay : work[q].of = s} IN
     work' = [q \in Requests |->
       IF q = r
       THEN [pc |-> pc, of |-> s, removes |-> removes, adds |-> adds, finish |-> finish,
             ticked |-> ticked, difference |-> None, alone |-> others = {}]
       ELSE IF q \in others THEN [work[q] EXCEPT !.alone = FALSE] ELSE work[q]]
  /\ UNCHANGED <<session, cleared>>

\* completeLegacyReconciliation reads the items of the session when it begins.
BeginLegacy(r, s, ticked) ==
  /\ Open(s)
  /\ Begin(r, s, "check",
       {[line |-> l, id |-> cleared[l].id] : l \in Items(s) \ ticked},
       ticked \ Items(s), TRUE, ticked)

End(r) == work' = [work EXCEPT ![r] = Ended]

Proceed(r, removes, adds) ==
  work' = [work EXCEPT ![r] =
    IF removes = {} /\ adds = {} /\ ~work[r].finish THEN Ended
    ELSE [@ EXCEPT !.pc = "check", !.removes = removes, !.adds = adds]]

CheckNothing(r) ==
  /\ work[r].pc = "check"
  /\ work' = [work EXCEPT ![r].pc = "act"]
  /\ UNCHANGED <<session, cleared>>

\* loadSession, with which each function begins, and the status it asks for
Check(r) ==
  /\ work[r].pc = "check"
  /\ IF Open(work[r].of) THEN work' = [work EXCEPT ![r].pc = "act"] ELSE End(r)
  /\ UNCHANGED <<session, cleared>>

\* removeReconciliationItem: no trigger looks at the session of a deleted row.
Remove(r) ==
  /\ work[r].pc = "act"
  /\ \E item \in work[r].removes :
       IF cleared[item.line] = [of |-> work[r].of, id |-> item.id]
       THEN /\ cleared' = [cleared EXCEPT ![item.line] = None]
            /\ Proceed(r, work[r].removes \ {item}, work[r].adds)
       ELSE End(r) /\ UNCHANGED cleared
  /\ UNCHANGED session

\* addReconciliationItems inserts its lines, with the trigger's check of the session;
\* one inserted by another transaction is waited for, one of another session refused.
Insert(r) ==
  /\ work[r].pc = "act" /\ work[r].removes = {} /\ work[r].adds # {}
  /\ work[r].adds \cap Inserted = {}
  /\ IF Open(work[r].of) /\ \A l \in work[r].adds : cleared[l] = None \/ l \in Items(work[r].of)
     THEN work' = [work EXCEPT ![r].pc = "commit"]
     ELSE End(r)
  /\ UNCHANGED <<session, cleared>>

Commit(r) ==
  /\ work[r].pc = "commit"
  /\ cleared' = [l \in Lines |->
       IF l \in work[r].adds /\ cleared[l] = None THEN [of |-> work[r].of, id |-> r] ELSE cleared[l]]
  /\ Proceed(r, {}, {})
  /\ UNCHANGED session

\* completeReconciliation calculates the difference ...
Calculate(r) ==
  /\ work[r].pc = "act" /\ work[r].removes = {} /\ work[r].adds = {}
  /\ LET difference == Difference(work[r].of) IN
     IF difference \in -Tolerance .. Tolerance
     THEN work' = [work EXCEPT ![r].pc = "complete", ![r].difference = difference]
     ELSE End(r)
  /\ UNCHANGED <<session, cleared>>

\* ... and writes it to the session if that is open still.
Complete(r) ==
  /\ work[r].pc = "complete"
  /\ session' = IF ~Open(work[r].of) THEN session
       ELSE [session EXCEPT ![work[r].of] =
         [@ EXCEPT !.status = "completed", !.difference = work[r].difference,
                   !.ticked = work[r].ticked, !.alone = work[r].alone]]
  /\ End(r) /\ UNCHANGED cleared

\* reopenReconciliation and voidReconciliation check the status, and write by id alone.
BeginReopen(r, s) == session[s].status = "completed" /\ Begin(r, s, "reopened", {}, {}, FALSE, None)
BeginVoid(r, s) == session[s].status # "completed" /\ Begin(r, s, "void", {}, {}, FALSE, None)

SetStatus(r) ==
  /\ work[r].pc \in {"reopened", "void"}
  /\ session' = [session EXCEPT ![work[r].of].status = work[r].pc]
  /\ End(r) /\ UNCHANGED cleared

\* The server stops, or a statement fails: the transaction is undone, what came before stays.
Fail(r) == r \in UnderWay /\ End(r) /\ UNCHANGED <<session, cleared>>

Next ==
  \/ \E s \in Sessions, movement \in Movements : Create(s, movement)
  \/ \E r \in Requests, s \in Sessions :
       /\ session[s] # None
       /\ \/ \E l \in Lines : Begin(r, s, "check", {}, {l}, FALSE, None)
          \/ \E l \in Items(s) :
               Begin(r, s, "check", {[line |-> l, id |-> cleared[l].id]}, {}, FALSE, None)
          \/ Begin(r, s, "check", {}, {}, TRUE, None)
          \/ \E ticked \in SUBSET Lines : BeginLegacy(r, s, ticked)
          \/ BeginReopen(r, s) \/ BeginVoid(r, s)
  \/ \E r \in Requests :
       \/ Check(r) \/ Remove(r) \/ Insert(r) \/ Commit(r) \/ Calculate(r) \/ Complete(r)
       \/ SetStatus(r) \/ Fail(r)

Spec == Init /\ [][Next]_reconciliations

---------------------------------------------------------------------------
(* Properties.                                                              *)

\* While a session is completed, the difference it was completed with is that of its
\* cleared lines, which through the older interface are those the user ticked, unless
\* another request on it was under way with the one that completed it
\* (completeReconciliation, completeLegacyReconciliation).
CompletedStands ==
  \A s \in Sessions :
    session[s] # None /\ session[s].status = "completed" /\ session[s].alone =>
      /\ session[s].difference = Difference(s)
      /\ session[s].ticked \in {None, Items(s)}
=============================================================================
