------------------------------ MODULE MCPortals ------------------------------
(***************************************************************************)
(* What employees and customers do in their portals and the office does    *)
(* about it, one part at a time: the parts share no table they write but   *)
(* the employees, so a run that mixed them would show no more.             *)
(***************************************************************************)
EXTENDS ShiftOffers, TLC

CONSTANTS Jobs, Routes, Reports, Photos, MaxPhotos, Hours, Saves, Requests, Bookings, Customers, Slots, Capacities

VARIABLES part, job, route, report, review, unaware, disturbed, expected, submitted, photo, object, upload, hours, save, clean,
          slot, booking, request, entry, work, notices

Pictures == INSTANCE FieldPhotos
Field == INSTANCE FieldWork
Week == INSTANCE Availability
Service == INSTANCE ServiceRequests WITH job <- work

field == <<job, route, report, review, unaware, disturbed>>
pictures == <<expected, submitted, photo, object, upload>>
offers == <<shift, offer, lock, answer>>
week == <<hours, save, clean>>
service == <<slot, booking, request, entry, work, notices>>
portals == <<part, active, field, pictures, offers, week, service>>

PortalsInit ==
  /\ part \in {"field", "pictures", "offers", "week", "service"}
  /\ Init /\ Field!Init /\ Pictures!Init /\ Week!Init /\ Service!Init

PortalsNext ==
  \/ part = "field" /\ Field!Next /\ UNCHANGED <<part, pictures, offers, week, service>>
  \/ part = "pictures" /\ Pictures!Next /\ UNCHANGED <<part, active, field, offers, week, service>>
  \/ part = "offers" /\ Next /\ UNCHANGED <<part, field, pictures, week, service>>
  \/ part = "week" /\ Week!Next /\ UNCHANGED <<part, field, pictures, offers, service>>
  \/ part = "service" /\ Service!Next /\ UNCHANGED <<part, active, field, pictures, offers, week>>

PortalsSpec == PortalsInit /\ [][PortalsNext]_portals

Symmetric == Permutations(Employees)

\* The null is no row.
ASSUME PortalsAssumption == None \notin Jobs \union Routes \union Reports \union Requests \union Bookings \union Slots

\* A job is complete when its crew is, whose members have been told of their route
\* (reviewReport, notifyNewCrew).
CrewInStep == Field!CompleteWhenApproved /\ Field!CrewWasTold

\* No photo is added to a submitted report (storeEmployeePhotoContent).
SubmittedStands == Pictures!SubmittedStands

\* What an employee saved alone is there (saveAvailability).
SavedIsThere == Week!SavedIsThere

\* Requests and jobs keep in step, and close together (sync_service_request_job and
\* its counterpart).
InStep == Service!InStep

\* What takes a place in a window found one free (validateAvailabilitySlot).
PlacesAreFound == Service!PlacesAreFound

\* The customer is told the date (queue_customer_service_scheduled_notification).
DateIsTold == Service!DateIsTold
=============================================================================
