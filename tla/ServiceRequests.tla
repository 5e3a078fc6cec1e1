-------------------------- MODULE ServiceRequests --------------------------
(***************************************************************************)
(* Windows of one business unit, what customers ask for in them, and what  *)
(* becomes of it: a booking gets an entry in the schedule, a service       *)
(* request an entry and a job, and triggers keep request and job in step.  *)
(*                                                                         *)
(* A handler that decides on a window, a booking or a request holds its    *)
(* row, so it is one step with the triggers it fires. The edits of         *)
(* windows, jobs and entries read a row and write all of it by its id;     *)
(* what one writes of a row that has changed meanwhile it could have been  *)
(* asked to write, so it is one step as well. Customers who turned         *)
(* confirmations off are left out.                                         *)
(***************************************************************************)
EXTENDS Integers, FiniteSets

CONSTANTS
  Requests,    \* customer_service_requests; each has at most one job
  Bookings,    \* customer_bookings
  Customers,
  Slots,       \* customer_booking_slots
  Capacities,  \* the places a window may have, each at least 1
  None

VARIABLES
  slot,        \* customer_booking_slots: status (closed once it has ended), capacity
  booking,     \* customer_bookings: customer, window, status
  request,     \* customer_service_requests: window, status, whether it has a date
  entry,       \* schedule_entries: the status of the one a request or booking has
  job,         \* work_orders: status of the job of a request, whether it has a start
  notices      \* notification_outbox: the requests whose customer was told the date

vars == <<slot, booking, request, entry, job, notices>>

RequestStatus == {"new", "in_review", "accepted", "denied", "scheduled", "completed", "cancelled"}
BookingStatus == {"requested", "confirmed", "declined", "cancelled", "completed"}
JobStatus == {"draft", "scheduled", "in_progress", "completed", "cancelled"}
EntryStatus == {"open", "completed", "cancelled"}   \* open: scheduled or in progress

Init ==
  /\ slot \in [Slots -> [status : {"open"}, capacity : Capacities]]
  /\ booking = [b \in Bookings |-> [customer |-> None, slot |-> None, status |-> "absent"]]
  /\ request = [r \in Requests |-> [slot |-> None, status |-> "absent", dated |-> FALSE]]
  /\ entry = [o \in Requests \union Bookings |-> "none"]
  /\ job = [r \in Requests |-> [status |-> "none", start |-> FALSE]]
  /\ notices = {}

---------------------------------------------------------------------------
(* Windows.                                                                 *)

ActiveBookings(s) ==
  {b \in Bookings : booking[b].slot = s /\ booking[b].status \in {"requested", "confirmed"}}

ActiveRequests(s) ==
  {r \in Requests :
     /\ request[r].slot = s
     /\ request[r].status \in {"new", "in_review", "accepted", "scheduled"}}

BookedCount(s) == Cardinality(ActiveBookings(s)) + Cardinality(ActiveRequests(s))

\* What customers and the office are shown, and the check on a new request.
Available(s) == slot[s].status = "open" /\ BookedCount(s) < slot[s].capacity

\* A window closes by itself when it ends, and the office may move it.
UpdateSlot(s, status, capacity) ==
  /\ slot' = [slot EXCEPT ![s] = [status |-> status, capacity |-> capacity]]
  /\ UNCHANGED <<booking, request, entry, job, notices>>

---------------------------------------------------------------------------
(* Bookings. The check on the window counts bookings only.                  *)

Bookable(s) == slot[s].status = "open" /\ Cardinality(ActiveBookings(s)) < slot[s].capacity

CreateBooking(b, c, s) ==
  /\ booking[b].status = "absent" /\ Bookable(s)
  /\ \A a \in ActiveBookings(s) : booking[a].customer # c
  /\ booking' = [booking EXCEPT ![b] = [customer |-> c, slot |-> s, status |-> "requested"]]
  /\ UNCHANGED <<slot, request, entry, job, notices>>

BookingAllowed ==
  [requested |-> {"requested", "confirmed", "declined", "cancelled"},
   confirmed |-> {"confirmed", "cancelled", "completed"},
   declined |-> {"declined"}, cancelled |-> {"cancelled"}, completed |-> {"completed"}]

UpdateBooking(b, to) ==
  /\ booking[b].status # "absent" /\ to \in BookingAllowed[booking[b].status]
  /\ booking' = [booking EXCEPT ![b].status = to]
  /\ entry' = [entry EXCEPT ![b] =
       IF to = "confirmed" /\ @ = "none" THEN "open"
       ELSE IF @ # "none" /\ to \in {"cancelled", "completed"} THEN to ELSE @]
  /\ UNCHANGED <<slot, request, job, notices>>

---------------------------------------------------------------------------
(* The triggers on requests and jobs.                                       *)

Closed == {"denied", "completed", "cancelled"}

\* queue_customer_service_scheduled_notification; it fires before the trigger
\* that writes the job.
Told(r, to, start, hasEntry) ==
  IF /\ to # request[r].status /\ to \in {"accepted", "scheduled"}
     /\ start \/ hasEntry \/ (to = "scheduled" /\ request[r].dated)
  THEN notices \union {r} ELSE notices

\* sync_service_request_job, for an update of the request
JobAfter(r, to) ==
  CASE to = "accepted" /\ job[r].status = "none" ->
         [status |-> IF request[r].dated THEN "scheduled" ELSE "draft",
          start |-> request[r].dated]
    [] to = "scheduled" /\ to # request[r].status /\ job[r].status = "draft" ->
         [job[r] EXCEPT !.status = to]
    [] /\ to \in {"completed", "cancelled"} /\ to # request[r].status
       /\ job[r].status \notin {"none", "completed", "cancelled"} ->
         [job[r] EXCEPT !.status = to]
    [] OTHER -> job[r]

\* sync_job_service_request_status, for an update of the job
RequestAfterAlways(r, status) ==
  IF status = job[r].status \/ status = "draft" THEN request[r].status
  ELSE IF status = "in_progress" THEN "scheduled" ELSE status

RequestAfter(r, status) ==
  IF status = job[r].status \/ status = "draft" \/ request[r].status \in Closed
  THEN request[r].status
  ELSE IF status = "in_progress" THEN "scheduled" ELSE status

---------------------------------------------------------------------------
(* Service requests.                                                        *)

CreateRequest(r, s, dated) ==
  /\ request[r].status = "absent"
  /\ s # None => Available(s) /\ dated
  /\ request' = [request EXCEPT ![r] = [slot |-> s, status |-> "new", dated |-> dated]]
  /\ UNCHANGED <<slot, booking, entry, job, notices>>

CancelRequest(r) ==
  /\ request[r].status \in {"new", "in_review"}
  /\ request' = [request EXCEPT ![r].status = "cancelled"]
  /\ UNCHANGED <<slot, booking, entry, job, notices>>

Transitions ==
  [new |-> {"new", "in_review", "accepted", "denied", "cancelled"},
   in_review |-> {"in_review", "accepted", "denied", "cancelled"},
   accepted |-> {"accepted", "scheduled", "completed", "cancelled"},
   scheduled |-> {"scheduled", "completed", "cancelled"},
   denied |-> {"denied"}, completed |-> {"completed"}, cancelled |-> {"cancelled"}]

EntryAfter(r, to) ==
  CASE to = "accepted" /\ request[r].dated /\ entry[r] = "none" -> "open"
    [] to = "scheduled" /\ entry[r] # "none" -> "open"
    [] to \in {"completed", "cancelled"} /\ entry[r] # "none" -> to
    [] OTHER -> entry[r]

UpdateRequestEarlyJob(r, to) ==
  /\ request[r].status # "absent" /\ to \in Transitions[request[r].status]
  /\ entry' = [entry EXCEPT ![r] = EntryAfter(r, to)]
  /\ request' = [request EXCEPT ![r].status = to]
  /\ job' = [job EXCEPT ![r] = JobAfter(r, IF to = "in_review" THEN "accepted" ELSE to)]
  /\ notices' = Told(r, to, job[r].start, entry'[r] # "none")
  /\ UNCHANGED <<slot, booking>>

UpdateRequestUntold(r, to) ==
  /\ request[r].status # "absent" /\ to \in Transitions[request[r].status]
  /\ entry' = [entry EXCEPT ![r] = EntryAfter(r, to)]
  /\ request' = [request EXCEPT ![r].status = to]
  /\ job' = [job EXCEPT ![r] = JobAfter(r, to)]
  /\ notices' = Told(r, to, job[r].start, FALSE)
  /\ UNCHANGED <<slot, booking>>

\* A request gets its entry when it is first accepted, so its job never changes
\* to another entry.
UpdateRequest(r, to) ==
  /\ request[r].status # "absent" /\ to \in Transitions[request[r].status]
  /\ entry' = [entry EXCEPT ![r] = EntryAfter(r, to)]
  /\ request' = [request EXCEPT ![r].status = to]
  /\ job' = [job EXCEPT ![r] = JobAfter(r, to)]
  /\ notices' = Told(r, to, job[r].start, entry'[r] # "none")
  /\ UNCHANGED <<slot, booking>>

---------------------------------------------------------------------------
(* The office edits a job or an entry. Nothing follows from an entry.       *)

UpdateWorkOrder(r, status, start) ==
  /\ job[r].status # "none"
  /\ job' = [job EXCEPT ![r] = [status |-> status, start |-> start]]
  /\ request' = [request EXCEPT ![r].status = RequestAfter(r, status)]
  /\ notices' = Told(r, request'[r].status, start, entry[r] # "none")
  /\ UNCHANGED <<slot, booking, entry>>

UpdateScheduleEntry(o, status) ==
  /\ entry[o] # "none"
  /\ entry' = [entry EXCEPT ![o] = status]
  /\ UNCHANGED <<slot, booking, request, job, notices>>

Next ==
  \/ \E s \in Slots, status \in {"open", "closed"}, c \in Capacities : UpdateSlot(s, status, c)
  \/ \E b \in Bookings :
       \/ \E c \in Customers, s \in Slots : CreateBooking(b, c, s)
       \/ \E to \in BookingStatus : UpdateBooking(b, to)
  \/ \E r \in Requests :
       \/ \E s \in Slots \union {None}, dated \in BOOLEAN : CreateRequest(r, s, dated)
       \/ CancelRequest(r)
       \/ \E to \in RequestStatus : UpdateRequest(r, to)
       \/ \E status \in JobStatus, start \in BOOLEAN : UpdateWorkOrder(r, status, start)
  \/ \E o \in Requests \union Bookings, status \in EntryStatus : UpdateScheduleEntry(o, status)

Spec == Init /\ [][Next]_vars

---------------------------------------------------------------------------
(* Properties.                                                              *)

\* Bookings are counted without the requests, and a window may lose places, so
\* it can be overbooked; but what takes a place in it found one free: no edit of
\* a job or a request brings a closed request back into its window
\* (createCustomerBooking, validateAvailabilitySlot, sync_job_service_request_status).
PlacesAreFound ==
  [][\A s \in Slots :
       /\ ActiveRequests(s)' \subseteq ActiveRequests(s) \/ Available(s)
       /\ ActiveBookings(s)' \subseteq ActiveBookings(s) \/ Bookable(s)]_vars

\* There is a job of exactly the requests that were accepted; one that is accepted
\* waits for its job to start, and while it is scheduled its job is neither done
\* nor given up. Both are written by either side through the triggers.
JobsInStep ==
  \A r \in Requests :
    /\ request[r].status \in {"absent", "new", "in_review", "denied"} => job[r].status = "none"
    /\ request[r].status = "accepted" => job[r].status \in {"draft", "scheduled"}
    /\ request[r].status = "scheduled" => job[r].status \in {"draft", "scheduled", "in_progress"}

\* Every step leaves requests and jobs in step. A request that is closed is out of
\* step with its job only if the office edited the job afterwards; and no edit takes a
\* request back from where it was closed (sync_service_request_job and
\* sync_job_service_request_status).
InStep ==
  [][/\ JobsInStep'
     /\ \A r \in Requests :
          /\ request[r].status \in Closed => request'[r].status = request[r].status
          /\ /\ request[r].status \notin Closed /\ request'[r].status \in {"completed", "cancelled"}
             => job'[r].status \in {"none", request'[r].status}]_vars

\* A customer is told when the request gets its place in the
\* schedule, whichever of request and job is moved first.
DateIsTold ==
  [][\A r \in Requests :
       /\ request'[r].status # request[r].status /\ request'[r].status \in {"accepted", "scheduled"}
       /\ job'[r].start
       => r \in notices']_vars
=============================================================================
