----------------------------- MODULE RateLimits -----------------------------
(***************************************************************************)
(* The counter of one bucket, a row shared by all instances of the server: *)
(* a request counts when it comes, and is counted off when its answer was  *)
(* a success, by then perhaps in another window (skipSuccessfulRequests of *)
(* the login, which counts no failure twice and no success for long).      *)
(***************************************************************************)
EXTENDS Integers, FiniteSets

CONSTANTS
  Attempts,     \* requests with the same bucket key
  Limit,        \* of the limiter of the route
  MaxWindows,   \* bound: windows that begin
  None

VARIABLES
  counter,      \* rate_limit_counters: hits and whether reset_at has passed, None without row
  attempt,      \* requests, and as history the window they were counted in
  window,       \* history: number of the window the row is about
  spared        \* history: successes of an earlier window, counted off in this one

vars == <<counter, attempt, window, spared>>

NotMade == [state |-> "none", in |-> None]
Over == counter = None \/ counter.over

Init ==
  /\ counter = None
  /\ attempt = [a \in Attempts |-> NotMade]
  /\ window = 0 /\ spared = 0

IncrementPast(a) ==
  /\ attempt[a] = NotMade /\ (Over => window < MaxWindows)
  /\ LET hits == IF counter = None THEN 1 ELSE IF Over THEN 0 ELSE counter.hits + 1 IN
       /\ counter' = [hits |-> hits, over |-> FALSE]
       /\ window' = IF Over THEN window + 1 ELSE window
       /\ spared' = IF Over THEN 0 ELSE spared
       /\ attempt' = [attempt EXCEPT ![a] =
            [state |-> IF hits > Limit THEN "refused" ELSE "running", in |-> window']]

\* increment: one statement, which begins a window when the last is over, and what
\* the limiter makes of its result
Increment(a) ==
  /\ attempt[a] = NotMade /\ (Over => window < MaxWindows)
  /\ LET hits == IF Over THEN 1 ELSE counter.hits + 1 IN
       /\ counter' = [hits |-> hits, over |-> FALSE]
       /\ window' = IF Over THEN window + 1 ELSE window
       /\ spared' = IF Over THEN 0 ELSE spared
       /\ attempt' = [attempt EXCEPT ![a] =
            [state |-> IF hits > Limit THEN "refused" ELSE "running", in |-> window']]

\* The handler fails, or the process stops: nothing is counted off.
Fail(a) ==
  /\ attempt[a].state = "running"
  /\ attempt' = [attempt EXCEPT ![a].state = "failed"]
  /\ UNCHANGED <<counter, window, spared>>

Succeed(a) ==
  /\ attempt[a].state = "running"
  /\ attempt' = [attempt EXCEPT ![a].state = "succeeded"]
  /\ UNCHANGED <<counter, window, spared>>

\* decrement, once the answer is sent: it finds the row of the current window.
Decrement(a) ==
  /\ attempt[a].state = "succeeded"
  /\ attempt' = [attempt EXCEPT ![a].state = "done"]
  /\ counter' = IF Over THEN counter
                ELSE [counter EXCEPT !.hits = IF @ > 0 THEN @ - 1 ELSE 0]
  /\ spared' = IF ~Over /\ attempt[a].in # window THEN spared + 1 ELSE spared
  /\ UNCHANGED window

WindowEnds ==
  /\ ~Over
  /\ counter' = [counter EXCEPT !.over = TRUE]
  /\ UNCHANGED <<attempt, window, spared>>

\* cleanupSessions deletes rows whose window is over.
Cleanup ==
  /\ counter # None /\ Over
  /\ counter' = None
  /\ UNCHANGED <<attempt, window, spared>>

Next ==
  \/ WindowEnds \/ Cleanup
  \/ \E a \in Attempts : Increment(a) \/ Fail(a) \/ Succeed(a) \/ Decrement(a)

Spec == Init /\ [][Next]_vars

---------------------------------------------------------------------------
(* Properties.                                                              *)

Of(w, states) == Cardinality({a \in Attempts : attempt[a].in = w /\ attempt[a].state \in states})

\* No window admits more failures than the limit, but for as many as successes of
\* earlier windows were counted off in it; and while it lasts the counter is not above
\* what was refused, failed or is still running (increment and decrement of
\* PostgresRateLimitStore, as the login limiter calls them).
FailuresBounded ==
  ~Over =>
    /\ Of(window, {"failed", "running"}) <= Limit + spared
    /\ counter.hits <= Of(window, {"refused", "failed", "running", "succeeded"})
    /\ counter.hits + spared >= Of(window, {"refused", "failed", "running", "succeeded"})
=============================================================================
