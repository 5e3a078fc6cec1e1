---------------------------- MODULE ShiftOffers -----------------------------
(***************************************************************************)
(* Shifts that are offered to employees. An answer holds the row of its    *)
(* shift from the count of those who accepted to its commit.               *)
(***************************************************************************)
EXTENDS Integers, FiniteSets

CONSTANTS
  Employees,
  Shifts,     \* employee_shifts
  Places,     \* the capacity of a shift, at least 1
  None

VARIABLES
  active,     \* the employees whose status is active
  shift,      \* employee_shifts.status
  offer,      \* employee_shift_offers.status
  lock,       \* the employee whose answer holds the row of a shift
  answer      \* the answer of each employee that is under way

vars == <<active, shift, offer, lock, answer>>

\* A shift has finitely many employees to ask; the null of an answer is nobody.
ASSUME OffersAssumption ==
  /\ IsFiniteSet(Employees) /\ Places \in Nat
  /\ None \notin Employees \union Shifts

Init ==
  /\ active = Employees
  /\ shift = [s \in Shifts |-> "absent"]
  /\ offer = [o \in Shifts \X Employees |-> "none"]
  /\ lock = [s \in Shifts |-> None]
  /\ answer = [e \in Employees |-> [shift |-> None, response |-> None]]

SetActive(e) ==
  /\ active' = IF e \in active THEN active \ {e} ELSE active \union {e}
  /\ UNCHANGED <<shift, offer, lock, answer>>

Accepted(s) == {e \in Employees : offer[<<s, e>>] = "accepted"}

CreateShift(s) ==
  /\ shift[s] = "absent"
  /\ shift' = [shift EXCEPT ![s] = "open"]
  /\ UNCHANGED <<active, offer, lock, answer>>

ChangeShiftStatus(s, status) ==
  /\ shift[s] # "absent" /\ lock[s] = None
  /\ shift' = [shift EXCEPT ![s] = status]
  /\ UNCHANGED <<active, offer, lock, answer>>

OfferShift(s, employees) ==
  /\ shift[s] = "open" /\ lock[s] = None /\ employees \subseteq active
  /\ offer' = [o \in Shifts \X Employees |->
       IF o[1] = s /\ o[2] \in employees /\ offer[o] = "none" THEN "offered" ELSE offer[o]]
  /\ UNCHANGED <<active, shift, lock, answer>>

MayAnswer(s, e, response) ==
  /\ answer[e].shift = None /\ e \in active
  /\ offer[<<s, e>>] # "none" /\ shift[s] = "open"
  /\ response = "accepted" /\ offer[<<s, e>>] # "accepted" => Cardinality(Accepted(s)) < Places

RespondReadUnlocked(s, e, response) ==
  /\ MayAnswer(s, e, response)
  /\ answer' = [answer EXCEPT ![e] = [shift |-> s, response |-> response]]
  /\ UNCHANGED <<active, shift, offer, lock>>

RespondRead(s, e, response) ==
  /\ MayAnswer(s, e, response) /\ lock[s] = None
  /\ lock' = [lock EXCEPT ![s] = e]
  /\ answer' = [answer EXCEPT ![e] = [shift |-> s, response |-> response]]
  /\ UNCHANGED <<active, shift, offer>>

RespondEnd(s, e) ==
  /\ answer[e].shift = s
  /\ offer' \in {offer, [offer EXCEPT ![<<s, e>>] = answer[e].response]}
  /\ lock' = [lock EXCEPT ![s] = None]
  /\ answer' = [answer EXCEPT ![e] = [shift |-> None, response |-> None]]
  /\ UNCHANGED <<active, shift>>

Next ==
  \/ \E e \in Employees : SetActive(e)
  \/ \E s \in Shifts :
       \/ CreateShift(s)
       \/ \E status \in {"open", "closed", "cancelled"} : ChangeShiftStatus(s, status)
       \/ \E employees \in SUBSET Employees : OfferShift(s, employees)
       \/ \E e \in Employees :
            \/ \E response \in {"accepted", "declined"} : RespondRead(s, e, response)
            \/ RespondEnd(s, e)

Spec == Init /\ [][Next]_vars

\* Answers that race for the last place or with the closing of the shift: no more
\* are accepted than there are places, and none after it was closed (respondToShift).
ShiftsFit ==
  [][\A s \in Shifts, e \in Employees :
       offer'[<<s, e>>] \in {"accepted", "declined"} /\ offer'[<<s, e>>] # offer[<<s, e>>]
       => shift[s] = "open" /\ Cardinality(Accepted(s)') <= Places]_vars
=============================================================================
