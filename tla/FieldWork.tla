----------------------------- MODULE FieldWork -----------------------------
(***************************************************************************)
(* The jobs of the crews: whom a job or its route is assigned to, the      *)
(* report each of them writes about it, and the manager's review. The      *)
(* review that approves the last report completes the job.                 *)
(*                                                                         *)
(* What a route or a report says is decided while its row is locked, so    *)
(* each of these is one step. A review takes two: it looks at the reports  *)
(* of the others, which it does not lock, and commits later. The office    *)
(* edits a job by its id and writes all of it; what it read does not       *)
(* matter, as it could be asked to write that.                             *)
(***************************************************************************)
EXTENDS Integers, FiniteSets

CONSTANTS
  Employees,
  Jobs,       \* work_orders
  Routes,     \* field_routes
  None

VARIABLES
  active,     \* the employees whose status is active
  job,        \* work_orders: status, assigned employee
  route,      \* field_routes, with field_route_members and field_route_jobs
  report,     \* field_job_reports: status, for each job and employee; one that is
              \* not there yet is as good as assigned
  review,     \* approvals that have not committed: whether they complete the job
  unaware,    \* history: members of a route no notice was queued for
  disturbed   \* history: jobs the office touched amid approvals, or two of whose
              \* reviews overlapped

crew == <<job, route, report, review>>
vars == <<active, job, route, report, review, unaware, disturbed>>

JobStatus == {"draft", "scheduled", "in_progress", "completed", "cancelled"}
Report == Jobs \X Employees

Init ==
  /\ active = Employees
  /\ job = [j \in Jobs |-> [status |-> "scheduled", assigned |-> None]]
  /\ route = [r \in Routes |-> [status |-> "absent", members |-> {}, jobs |-> {}]]
  /\ report = [f \in Report |-> "assigned"]
  /\ review = [f \in Report |-> "idle"]
  /\ unaware = {}
  /\ disturbed = {}

---------------------------------------------------------------------------
(* Who is expected on a job.                                                *)

RoutesOf(j) == {r \in Routes : j \in route[r].jobs /\ route[r].status # "cancelled"}
OnRoute(j) == UNION {route[r].members : r \in RoutesOf(j)}

\* resolveAssignedEmployee, and the same question asked again under a lock
Assigned(e, j) == e \in active /\ (job[j].assigned = e \/ e \in OnRoute(j))

\* The assigned employee is expected even when no longer active.
Expected(j) == (OnRoute(j) \intersect active) \union ({job[j].assigned} \ {None})

AllApproved(j, approved) ==
  Expected(j) # {} /\ \A e \in Expected(j) : <<j, e>> \in approved

Approved == {f \in Report : report[f] = "approved"}
Closed == {"completed", "cancelled"}
Workable(j) == job[j].status \notin Closed \union {"draft"}

---------------------------------------------------------------------------
(* The office.                                                              *)

Touched(j, status) ==
  \/ status \in {"completed", "cancelled"}
  \/ \E e \in Employees : report[<<j, e>>] = "approved" \/ review[<<j, e>>] # "idle"

Disturb(jobs) ==
  LET touched == {j \in jobs : Touched(j, job'[j].status)}
  IN  disturbed' = (disturbed \ jobs) \union touched

Deactivate(e) ==
  /\ active' = IF e \in active THEN active \ {e} ELSE active \union {e}
  /\ UNCHANGED <<crew, unaware>>
  /\ Disturb({j \in Jobs : e \in OnRoute(j)})

UpdateWorkOrder(j, status, e) ==
  /\ job' = [job EXCEPT ![j] = [status |-> status, assigned |-> e]]
  /\ Disturb({j})
  /\ UNCHANGED <<active, route, report, review, unaware>>

Contents(r, members, jobs) ==
  /\ members = route[r].members \/ members \subseteq active
  /\ jobs = route[r].jobs \/ \A j \in jobs : job[j].status # "cancelled"
  /\ \A q \in Routes \ {r} : route[q].jobs \intersect jobs = {}

\* notification_outbox: a notice for each of the fresh members
Tell(r, members, fresh) ==
  {x \in unaware : x[1] # r \/ x[2] \in members}
  \union {<<r, e>> : e \in members \ (route[r].members \union fresh)}

SaveRoute(r, status, members, jobs) ==
  /\ Contents(r, members, jobs)
  /\ route' = [route EXCEPT ![r] = [status |-> status, members |-> members, jobs |-> jobs]]
  /\ UNCHANGED <<active, job, report, review>>
  /\ Disturb(route[r].jobs \union jobs)

CreateRoute(r, members, jobs) ==
  /\ route[r].status = "absent"
  /\ SaveRoute(r, "planned", members, jobs)
  /\ unaware' = Tell(r, members, members)

UpdateRoute(r, status, members, jobs) ==
  /\ route[r].status # "absent"
  /\ SaveRoute(r, status, members, jobs)
  /\ unaware' = Tell(r, members, members \ route[r].members)

---------------------------------------------------------------------------
(* Reports.                                                                 *)

From ==
  [acknowledge |-> {"assigned", "rejected"},
   start |-> {"assigned", "acknowledged", "issue", "rejected"},
   issue |-> {"assigned", "acknowledged", "in_progress", "issue", "rejected"},
   submit |-> {"in_progress", "issue", "rejected"}]

To ==
  [acknowledge |-> "acknowledged", start |-> "in_progress", issue |-> "issue", submit |-> "submitted"]

UpdateMyJob(j, e, action) ==
  /\ Assigned(e, j) /\ Workable(j)
  /\ review[<<j, e>>] = "idle"
  /\ report[<<j, e>>] \in From[action]
  /\ report' = [report EXCEPT ![<<j, e>>] = To[action]]
  /\ job' = [job EXCEPT ![j].status = IF action = "start" /\ @ = "scheduled" THEN "in_progress" ELSE @]
  /\ UNCHANGED <<active, route, review, unaware, disturbed>>

Reject(f) ==
  /\ report[f] = "submitted" /\ review[f] = "idle"
  /\ report' = [report EXCEPT ![f] = "rejected"]
  /\ UNCHANGED <<active, job, route, review, unaware, disturbed>>

\* An approval is written, and the reports of the others are read as they are
\* committed; the work order is not locked before it is completed.
ApproveCheckAny(f) ==
  /\ report[f] = "submitted" /\ review[f] = "idle"
  /\ review' = [review EXCEPT ![f] =
       IF \E e \in Expected(f[1]) : <<f[1], e>> \in Approved \union {f} THEN "completing" ELSE "approving"]
  /\ disturbed' = IF \E e \in Employees : review[<<f[1], e>>] # "idle" THEN disturbed \union {f[1]} ELSE disturbed
  /\ UNCHANGED <<active, job, route, report, unaware>>

ApproveCheck(f) ==
  /\ report[f] = "submitted" /\ review[f] = "idle"
  /\ review' = [review EXCEPT ![f] =
       IF AllApproved(f[1], Approved \union {f}) THEN "completing" ELSE "approving"]
  /\ disturbed' = IF \E e \in Employees : review[<<f[1], e>>] # "idle" THEN disturbed \union {f[1]} ELSE disturbed
  /\ UNCHANGED <<active, job, route, report, unaware>>

ApproveCommit(f) ==
  /\ review[f] # "idle"
  /\ report' = [report EXCEPT ![f] = "approved"]
  /\ job' = [job EXCEPT ![f[1]].status =
       IF review[f] = "completing" /\ @ \notin Closed THEN "completed" ELSE @]
  /\ review' = [review EXCEPT ![f] = "idle"]
  /\ UNCHANGED <<active, route, unaware, disturbed>>

\* The process stops, or the database ends a wait of two transactions for each other.
ApproveAbort(f) ==
  /\ review[f] # "idle"
  /\ review' = [review EXCEPT ![f] = "idle"]
  /\ UNCHANGED <<active, job, route, report, unaware, disturbed>>

Next ==
  \/ \E e \in Employees : Deactivate(e)
  \/ \E j \in Jobs :   \* one field at a time
       \/ \E status \in JobStatus : UpdateWorkOrder(j, status, job[j].assigned)
       \/ \E e \in Employees \union {None} : UpdateWorkOrder(j, job[j].status, e)
  \/ \E r \in Routes :
       \/ \E members \in SUBSET Employees, jobs \in SUBSET Jobs :
            CreateRoute(r, members, jobs) \/ UpdateRoute(r, route[r].status, members, jobs)
       \/ \E status \in {"planned", "cancelled"} :
            UpdateRoute(r, status, route[r].members, route[r].jobs)
  \/ \E j \in Jobs, e \in Employees :
       \E action \in DOMAIN From : UpdateMyJob(j, e, action)
  \/ \E f \in Report :
       \/ Reject(f)
       \/ ApproveCheck(f)
       \/ ApproveCommit(f)
       \/ ApproveAbort(f)

Spec == Init /\ [][Next]_vars

---------------------------------------------------------------------------
(* Properties.                                                              *)

\* A job is complete exactly when every expected member of its crew has an
\* approved report, unless the office changed the job or its crew or two reviews
\* overlapped: then each may miss the other's approval and nobody completes the
\* job, or a member who joined since is missed (reviewReport).
CompleteWhenApproved ==
  \A j \in Jobs :
    j \notin disturbed /\ (\A e \in Employees : review[<<j, e>>] = "idle")
    => (job[j].status = "completed" <=> AllApproved(j, Approved))

\* Everyone on a route was told of it, whether there from the start or added
\* (notifyNewCrew).
CrewWasTold == unaware = {}
=============================================================================
