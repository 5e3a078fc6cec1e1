---------------------------- MODULE Idempotency ----------------------------
(***************************************************************************)
(* runIdempotent: one row of bookkeeping_idempotency_keys, that of one     *)
(* user, operation and Idempotency-Key, and the requests that carry the    *)
(* key. The operation itself (posting, reversing, generating, ...) is any  *)
(* that commits in the database and then does more work, which can fail:   *)
(* each of them writes an audit event and loads its result after COMMIT.   *)
(*                                                                         *)
(* A row lives for 24 hours. An execution does not last that long, so a    *)
(* row expires only when nobody is executing under it.                     *)
(*                                                                         *)
(* A definition whose name extends that of the definition after it is a    *)
(* wrong variant of it, which no specification uses.                       *)
(***************************************************************************)
EXTENDS Integers

CONSTANTS
  Clients,    \* concurrent requests
  Payloads,   \* request bodies; the hash of a body is the body
  MaxRuns,    \* a bound on the executions, for TLC
  CanExpire,  \* whether 24 hours may pass
  None        \* SQL NULL, and no row

VARIABLES
  row,        \* the row of the key
  request,    \* where each request is
  runs        \* how often the operation has been committed with each payload

vars == <<row, request, runs>>

\* What an execution returns: its payload, and which execution it was.
Result == [payload : Payloads, run : 1 .. MaxRuns]

Row == [hash : Payloads, response : Result \union {None}, expired : BOOLEAN]

Stage == {"start",      \* about to insert the row
          "lookup",     \* the insert found a row
          "expired",    \* the row it read had expired
          "reserved",   \* its insert succeeded: executing
          "performed",  \* the operation is committed
          "failed",     \* something threw: about to release the row
          "refused", "answered"}

Request == [stage   : Stage,
            payload : Payloads \union {None},
            result  : Result \union {None}]

Waiting == [stage |-> "refused", payload |-> None, result |-> None]

Init ==
  /\ row = None
  /\ request = [c \in Clients |-> Waiting]
  /\ runs = [p \in Payloads |-> 0]

\* The requests that execute, or clean up after having executed.
Executing(c) == request[c].stage \in {"reserved", "performed", "failed"}

Go(c, stage) == request' = [request EXCEPT ![c].stage = stage]

---------------------------------------------------------------------------
\* A request with the key: a first one, or one made again after an answer.
Submit(c, p) ==
  /\ request[c].stage \in {"refused", "answered"}
  /\ request' = [request EXCEPT ![c] = [stage |-> "start", payload |-> p, result |-> None]]
  /\ UNCHANGED <<row, runs>>

\* INSERT ... ON CONFLICT DO NOTHING
Reserve(c) ==
  /\ request[c].stage = "start"
  /\ IF row = None
       THEN /\ row' = [hash |-> request[c].payload, response |-> None, expired |-> FALSE]
            /\ Go(c, "reserved")
       ELSE Go(c, "lookup") /\ UNCHANGED row
  /\ UNCHANGED runs

\* The row may have gone meanwhile, have expired, be of another payload, hold a
\* response, or still be executed.
Lookup(c) ==
  /\ request[c].stage = "lookup"
  /\ IF row # None /\ ~ row.expired /\ row.hash = request[c].payload /\ row.response # None
       THEN request' = [request EXCEPT ![c].stage = "answered", ![c].result = row.response]
       ELSE Go(c, IF row # None /\ row.expired THEN "expired" ELSE "refused")
  /\ UNCHANGED <<row, runs>>

DeleteExpiredAnyRow(c) ==
  /\ request[c].stage = "expired"
  /\ row' = None
  /\ Go(c, "start")
  /\ UNCHANGED runs

\* The DELETE repeats the condition; then runIdempotent calls itself.
DeleteExpired(c) ==
  /\ request[c].stage = "expired"
  /\ row' = IF row # None /\ row.expired THEN None ELSE row
  /\ Go(c, "start")
  /\ UNCHANGED runs

\* The transaction of the operation commits.
Perform(c) ==
  LET p == request[c].payload IN
  /\ request[c].stage = "reserved"
  /\ runs[p] < MaxRuns
  /\ runs' = [runs EXCEPT ![p] = @ + 1]
  /\ request' = [request EXCEPT ![c].stage = "performed",
                                ![c].result = [payload |-> p, run |-> runs[p] + 1]]
  /\ UNCHANGED row

\* The operation throws, before it has committed or after.
Fail(c) ==
  /\ request[c].stage \in {"reserved", "performed"}
  /\ Go(c, "failed")
  /\ UNCHANGED <<row, runs>>

\* The UPDATE of the row by its key. It may take effect and still be reported
\* to have failed, when the connection is lost.
Store(c) ==
  /\ request[c].stage = "performed"
  /\ row' = IF row = None THEN row ELSE [row EXCEPT !.response = request[c].result]
  /\ Go(c, "answered") \/ Go(c, "failed")
  /\ UNCHANGED runs

ReleaseStored(c) ==
  /\ request[c].stage = "failed"
  /\ row' = None
  /\ Go(c, "refused")
  /\ UNCHANGED runs

\* The DELETE in the catch block spares a row with a response.
Release(c) ==
  /\ request[c].stage = "failed"
  /\ row' = IF row # None /\ row.response = None THEN None ELSE row
  /\ Go(c, "refused")
  /\ UNCHANGED runs

\* The process stops: nothing is cleaned up.
Crash(c) ==
  /\ request[c].stage \notin {"refused", "answered"}
  /\ Go(c, "refused")
  /\ UNCHANGED <<row, runs>>

\* 24 hours pass.
ExpireRespondedOnly ==
  /\ CanExpire /\ row # None /\ ~ row.expired /\ row.response # None
  /\ \A c \in Clients : ~ Executing(c)
  /\ row' = [row EXCEPT !.expired = TRUE]
  /\ UNCHANGED <<request, runs>>

Expire ==
  /\ CanExpire /\ row # None /\ ~ row.expired
  /\ \A c \in Clients : ~ Executing(c)
  /\ row' = [row EXCEPT !.expired = TRUE]
  /\ UNCHANGED <<request, runs>>

\* npm run cleanup-sessions
Cleanup ==
  /\ row # None /\ row.expired
  /\ row' = None
  /\ UNCHANGED <<request, runs>>

---------------------------------------------------------------------------
Step(c) ==
  Reserve(c) \/ Lookup(c) \/ DeleteExpired(c) \/ Perform(c) \/ Fail(c) \/ Store(c) \/ Release(c)

Next ==
  \/ \E c \in Clients : Step(c) \/ Crash(c) \/ \E p \in Payloads : Submit(c, p)
  \/ Expire
  \/ Cleanup

\* The server goes on with a request it has begun, and time passes. Nobody has to
\* send a request, nor does the cleanup have to run.
Fairness == WF_vars(Expire) /\ \A c \in Clients : WF_vars(Step(c))

Spec == Init /\ [][Next]_vars /\ Fairness

---------------------------------------------------------------------------
TypeOK ==
  /\ row \in Row \union {None}
  /\ request \in [Clients -> Request]
  /\ runs \in [Payloads -> 0 .. MaxRuns]

\* Two requests never execute at the same time, and the one that does has the
\* row for it: its hash, alive, and without a response but its own.
OneExecutor ==
  \A c \in Clients : Executing(c) =>
    /\ \A d \in Clients : Executing(d) => c = d
    /\ row # None
    /\ row.hash = request[c].payload /\ ~ row.expired
    /\ row.response \in {None, request[c].result}

\* Whoever is answered, by its own execution or by the stored response, is told
\* of an execution of the payload it sent.
AnswersOwnPayload ==
  \A c \in Clients :
    request[c].stage = "answered" => request[c].result.payload = request[c].payload

\* Once a response is stored, it stands until it expires: nothing is executed
\* again, nobody replaces it, and no late cleanup of a failure removes it.
ResponseStands ==
  [][row # None /\ row.response # None /\ ~ row.expired =>
       runs' = runs /\ row' # None /\ row'.response = row.response]_vars

\* A key whose execution was cut short does not refuse its user forever.
KeyNotStuck ==
  (row # None /\ row.response = None) ~> (row = None \/ row.expired \/ row.response # None)

\* docs/BOOKKEEPING_OPERATIONS.md:46, "Reusing the same key with the same request
\* returns the stored result": the operation is not committed twice under a key
\* that has not expired.
PerformedOnce == \A p \in Payloads : runs[p] <= 1
===========================================================================
