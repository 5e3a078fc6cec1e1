--------------------------- MODULE PortalsProofs ---------------------------
(***************************************************************************)
(* What the parts of MCPortals keep, for any number of employees, shifts,   *)
(* jobs, photos and requests: shift offers first, then availability,        *)
(* photos, service requests with their bookings, and the work of crews.     *)
(*                                                                         *)
(* That no shift is overbooked is a property of steps; what makes it true   *)
(* is that whoever is about to accept holds the shift's row, and counted    *)
(* under that lock.                                                         *)
(***************************************************************************)
EXTENDS MCPortals, FiniteSetTheorems, TLAPS

TypeOK ==
  /\ active \subseteq Employees
  /\ shift \in [Shifts -> {"absent", "open", "closed", "cancelled"}]
  /\ offer \in [Shifts \X Employees -> {"none", "offered", "accepted", "declined"}]
  /\ lock \in [Shifts -> Employees \union {None}]
  /\ answer \in [Employees -> [shift : Shifts \union {None}, response : {"accepted", "declined", None}]]

\* Nobody has accepted beyond the places.
NotOverbooked == \A s \in Shifts : Cardinality(Accepted(s)) <= Places

\* What an answer found when it took the lock still holds.
AnswersHold ==
  \A e \in Employees : answer[e].shift # None =>
    LET s == answer[e].shift IN
    /\ lock[s] = e /\ shift[s] = "open"
    /\ answer[e].response \in {"accepted", "declined"}
    /\ answer[e].response = "accepted" /\ offer[<<s, e>>] # "accepted" => Cardinality(Accepted(s)) < Places

\* A lock is held by an answer.
LocksHeld == \A s \in Shifts : lock[s] # None => answer[lock[s]].shift = s

IInv == TypeOK /\ NotOverbooked /\ AnswersHold /\ LocksHeld

---------------------------------------------------------------------------
\* The accepted are finitely many.
LEMMA AcceptedFinite ==
  ASSUME NEW s \in Shifts
  PROVE  IsFiniteSet(Accepted(s)) /\ Cardinality(Accepted(s)) \in Nat
<1>1. Accepted(s) \subseteq Employees
  BY DEF Accepted
<1>2. IsFiniteSet(Accepted(s))
  BY <1>1, FS_Subset, OffersAssumption
<1>3. QED BY <1>2, FS_CardinalityType

\* In the beginning nothing is offered.
LEMMA InitIInv ==
  ASSUME Init
  PROVE  IInv
<1>1. TypeOK /\ AnswersHold /\ LocksHeld
  BY OffersAssumption DEF Init, TypeOK, AnswersHold, LocksHeld
<1>2. \A s \in Shifts : Accepted(s) = {}
  BY DEF Init, Accepted
<1>3. NotOverbooked
  BY <1>2, FS_EmptySet, OffersAssumption DEF NotOverbooked
<1>4. QED BY <1>1, <1>3 DEF IInv

\* A step that makes or ends no acceptance, and leaves the locks, the answers and the
\* locked shifts alone, preserves the invariant.
LEMMA KeptIInv ==
  ASSUME IInv, TypeOK', UNCHANGED <<lock, answer>>,
         \A s \in Shifts : Accepted(s)' = Accepted(s),
         \A s \in Shifts : lock[s] # None => shift'[s] = shift[s]
  PROVE  IInv'
<1>1. NotOverbooked'
  BY DEF IInv, NotOverbooked
<1>2. ASSUME NEW e \in Employees, NEW s \in Shifts, answer[e].shift = s, answer[e].shift # None
      PROVE  /\ lock'[s] = e /\ shift'[s] = "open"
             /\ answer'[e].response \in {"accepted", "declined"}
             /\ answer'[e].response = "accepted" /\ offer'[<<s, e>>] # "accepted"
                => Cardinality(Accepted(s)') < Places
  <2>1. lock[s] = e /\ shift[s] = "open" /\ answer[e].response \in {"accepted", "declined"}
    BY <1>2 DEF IInv, AnswersHold
  <2>2. answer[e].response = "accepted" /\ offer[<<s, e>>] # "accepted" => Cardinality(Accepted(s)) < Places
    BY <1>2 DEF IInv, AnswersHold
  <2>3. offer'[<<s, e>>] # "accepted" => offer[<<s, e>>] # "accepted"
    BY e \in Accepted(s)' <=> e \in Accepted(s) DEF Accepted
  <2>4. lock[s] # None
    BY <1>2, <2>1, OffersAssumption
  <2>5. QED BY <2>1, <2>2, <2>3, <2>4
<1>3. \A e \in Employees : answer[e].shift # None => answer[e].shift \in Shifts
  BY DEF IInv, TypeOK
<1>4. AnswersHold'
  BY <1>2, <1>3 DEF AnswersHold
<1>5. QED BY <1>1, <1>4 DEF IInv, LocksHeld

\* Everything but answers leaves acceptances and locked shifts alone.
LEMMA OfficeIInv ==
  ASSUME IInv, NEW s \in Shifts,
         \/ CreateShift(s)
         \/ \E status \in {"open", "closed", "cancelled"} : ChangeShiftStatus(s, status)
         \/ \E employees \in SUBSET Employees : OfferShift(s, employees)
  PROVE  IInv'
<1>1. CASE CreateShift(s)
  <2>1. TypeOK'
    BY <1>1 DEF CreateShift, IInv, TypeOK
  <2>2. lock[s] = None
    <3>1. lock[s] # None => lock[s] \in Employees /\ answer[lock[s]].shift = s
      BY DEF IInv, TypeOK, LocksHeld
    <3>2. lock[s] # None => shift[s] = "open"
      BY <3>1, OffersAssumption DEF IInv, AnswersHold
    <3>3. QED BY <1>1, <3>2 DEF CreateShift
  <2>3. QED BY <1>1, <2>1, <2>2, KeptIInv DEF CreateShift, Accepted
<1>2. CASE \E status \in {"open", "closed", "cancelled"} : ChangeShiftStatus(s, status)
  <2>1. TypeOK'
    BY <1>2 DEF ChangeShiftStatus, IInv, TypeOK
  <2>2. \A t \in Shifts : lock[t] # None => shift'[t] = shift[t]
    BY <1>2 DEF ChangeShiftStatus, IInv, TypeOK
  <2>3. QED BY <1>2, <2>1, <2>2, KeptIInv DEF ChangeShiftStatus, Accepted
<1>3. CASE \E employees \in SUBSET Employees : OfferShift(s, employees)
  <2>1. TypeOK'
    BY <1>3 DEF OfferShift, IInv, TypeOK
  <2>2. \A t \in Shifts : Accepted(t)' = Accepted(t)
    BY <1>3 DEF OfferShift, Accepted
  <2>3. QED BY <1>3, <2>1, <2>2, KeptIInv DEF OfferShift
<1>4. QED BY <1>1, <1>2, <1>3

\* Who may answer takes the lock, which nobody holds, and has counted the places.
LEMMA RespondReadIInv ==
  ASSUME IInv, NEW s \in Shifts, NEW e \in Employees,
         NEW response \in {"accepted", "declined"}, RespondRead(s, e, response)
  PROVE  IInv'
<1>1. /\ answer' = [answer EXCEPT ![e] = [shift |-> s, response |-> response]]
      /\ lock' = [lock EXCEPT ![s] = e]
      /\ UNCHANGED <<active, shift, offer>>
      /\ answer[e].shift = None /\ lock[s] = None /\ shift[s] = "open"
      /\ response = "accepted" /\ offer[<<s, e>>] # "accepted" => Cardinality(Accepted(s)) < Places
  BY DEF RespondRead, MayAnswer
<1>2. TypeOK'
  BY <1>1 DEF IInv, TypeOK
<1>3. \A t \in Shifts : Accepted(t)' = Accepted(t)
  BY <1>1 DEF Accepted
<1>4. NotOverbooked'
  BY <1>3 DEF IInv, NotOverbooked
<1>5. LocksHeld'
  BY <1>1, OffersAssumption DEF IInv, TypeOK, LocksHeld
<1>6. ASSUME NEW d \in Employees, NEW t \in Shifts, answer'[d].shift = t, answer'[d].shift # None
      PROVE  /\ lock'[t] = d /\ shift'[t] = "open"
             /\ answer'[d].response \in {"accepted", "declined"}
             /\ answer'[d].response = "accepted" /\ offer'[<<t, d>>] # "accepted"
                => Cardinality(Accepted(t)') < Places
  <2>1. CASE d = e
    BY <1>1, <1>3, <1>6, <2>1 DEF IInv, TypeOK
  <2>2. CASE d # e
    <3>1. answer'[d] = answer[d]
      BY <1>1, <2>2 DEF IInv, TypeOK
    <3>2. lock[t] = d /\ t # s
      <4>1. lock[t] = d
        BY <1>6, <3>1 DEF IInv, AnswersHold
      <4>2. QED BY <1>1, <4>1, OffersAssumption
    <3>3. lock'[t] = d
      BY <1>1, <3>2 DEF IInv, TypeOK
    <3>4. QED BY <1>1, <1>3, <1>6, <3>1, <3>3 DEF IInv, AnswersHold
  <2>3. QED BY <2>1, <2>2
<1>7. \A d \in Employees : answer'[d].shift # None => answer'[d].shift \in Shifts
  BY <1>2 DEF TypeOK
<1>8. AnswersHold'
  BY <1>6, <1>7 DEF AnswersHold
<1>9. QED BY <1>2, <1>4, <1>5, <1>8 DEF IInv

\* What an answer does when it commits: on its own shift there is room for it.
LEMMA AnswerFits ==
  ASSUME IInv, NEW s \in Shifts, NEW e \in Employees, RespondEnd(s, e)
  PROVE  /\ shift[s] = "open" /\ lock[s] = e
         /\ \A t \in Shifts \ {s} : Accepted(t)' = Accepted(t)
         /\ Cardinality(Accepted(s)') <= Places
         /\ \A o \in Shifts \X Employees : o # <<s, e>> => offer'[o] = offer[o]
<1>1. answer[e].shift = s /\ s # None
      /\ offer' \in {offer, [offer EXCEPT ![<<s, e>>] = answer[e].response]}
  BY OffersAssumption DEF RespondEnd
<1>2. /\ lock[s] = e /\ shift[s] = "open"
      /\ answer[e].response = "accepted" /\ offer[<<s, e>>] # "accepted" => Cardinality(Accepted(s)) < Places
  BY <1>1 DEF IInv, AnswersHold
<1>3. \A o \in Shifts \X Employees : o # <<s, e>> => offer'[o] = offer[o]
  BY <1>1 DEF IInv, TypeOK
<1>4. \A t \in Shifts \ {s} : Accepted(t)' = Accepted(t)
  BY <1>3 DEF Accepted
<1>5. IsFiniteSet(Accepted(s)) /\ Cardinality(Accepted(s)) \in Nat /\ Cardinality(Accepted(s)) <= Places
  BY AcceptedFinite DEF IInv, NotOverbooked
<1>6. Cardinality(Accepted(s)') <= Places
  <2>1. CASE offer'[<<s, e>>] = "accepted" /\ offer[<<s, e>>] # "accepted"
    <3>1. answer[e].response = "accepted"
      BY <1>1, <2>1 DEF IInv, TypeOK
    <3>2. \A d \in Employees \ {e} : offer'[<<s, d>>] = offer[<<s, d>>]
      BY <1>3
    <3>3. Accepted(s)' = Accepted(s) \union {e} /\ e \notin Accepted(s)
      <4>1. e \in Accepted(s)' /\ e \notin Accepted(s)
        BY <2>1 DEF Accepted
      <4>2. \A d \in Employees \ {e} : d \in Accepted(s)' <=> d \in Accepted(s)
        BY <3>2 DEF Accepted
      <4>3. Accepted(s)' \subseteq Employees /\ Accepted(s) \subseteq Employees
        BY DEF Accepted
      <4>4. QED BY <4>1, <4>2, <4>3
    <3>4. Cardinality(Accepted(s)') = Cardinality(Accepted(s)) + 1
      BY <1>5, <3>3, FS_AddElement
    <3>5. Cardinality(Accepted(s)) < Places
      BY <1>2, <2>1, <3>1
    <3>6. QED BY <1>5, <3>4, <3>5, OffersAssumption
  <2>2. CASE ~ (offer'[<<s, e>>] = "accepted" /\ offer[<<s, e>>] # "accepted")
    <3>1. Accepted(s)' \subseteq Accepted(s)
      BY <1>3, <2>2 DEF Accepted
    <3>2. Cardinality(Accepted(s)') <= Cardinality(Accepted(s)) /\ IsFiniteSet(Accepted(s)')
      BY <1>5, <3>1, FS_Subset
    <3>3. Cardinality(Accepted(s)') \in Nat
      BY <3>2, FS_CardinalityType
    <3>4. QED BY <1>5, <3>2, <3>3, OffersAssumption
  <2>3. QED BY <2>1, <2>2
<1>7. QED BY <1>2, <1>3, <1>4, <1>6

\* The answer ends: nobody else holds its shift.
LEMMA RespondEndIInv ==
  ASSUME IInv, NEW s \in Shifts, NEW e \in Employees, RespondEnd(s, e)
  PROVE  IInv'
<1>1. /\ answer' = [answer EXCEPT ![e] = [shift |-> None, response |-> None]]
      /\ lock' = [lock EXCEPT ![s] = None]
      /\ offer' \in {offer, [offer EXCEPT ![<<s, e>>] = answer[e].response]}
      /\ UNCHANGED <<active, shift>> /\ answer[e].shift = s
  BY DEF RespondEnd
<1>2. answer[e].response \in {"accepted", "declined"}
  BY <1>1, OffersAssumption DEF IInv, AnswersHold
<1>3. TypeOK'
  BY <1>1, <1>2 DEF IInv, TypeOK
<1>4. NotOverbooked'
  BY AnswerFits DEF IInv, NotOverbooked
<1>5. ASSUME NEW d \in Employees, answer'[d].shift # None
      PROVE  d # e /\ answer'[d] = answer[d] /\ answer[d].shift # s /\ answer[d].shift \in Shifts
  <2>1. d # e /\ answer'[d] = answer[d]
    BY <1>1, <1>5 DEF IInv, TypeOK
  <2>2. lock[answer[d].shift] = d
    BY <1>5, <2>1 DEF IInv, AnswersHold
  <2>3. lock[s] = e
    BY AnswerFits
  <2>4. QED BY <1>5, <2>1, <2>2, <2>3 DEF IInv, TypeOK
<1>6. ASSUME NEW d \in Employees, NEW t \in Shifts, answer'[d].shift = t, answer'[d].shift # None
      PROVE  /\ lock'[t] = d /\ shift'[t] = "open"
             /\ answer'[d].response \in {"accepted", "declined"}
             /\ answer'[d].response = "accepted" /\ offer'[<<t, d>>] # "accepted"
                => Cardinality(Accepted(t)') < Places
  <2>1. d # e /\ answer'[d] = answer[d] /\ t # s
    BY <1>5, <1>6
  <2>2. lock[t] = d /\ lock'[t] = d
    BY <1>1, <1>6, <2>1 DEF IInv, TypeOK, AnswersHold
  <2>3. offer'[<<t, d>>] = offer[<<t, d>>] /\ Accepted(t)' = Accepted(t)
    BY <2>1, AnswerFits
  <2>4. QED BY <1>1, <1>6, <2>1, <2>2, <2>3 DEF IInv, AnswersHold
<1>7. AnswersHold'
  BY <1>5, <1>6 DEF AnswersHold
<1>8. LocksHeld'
  <2>1. SUFFICES ASSUME NEW t \in Shifts, lock'[t] # None
                 PROVE  answer'[lock'[t]].shift = t
    BY DEF LocksHeld
  <2>2. t # s /\ lock'[t] = lock[t] /\ lock[t] \in Employees
    BY <1>1, <2>1 DEF IInv, TypeOK
  <2>3. answer[lock[t]].shift = t
    BY <2>1, <2>2 DEF IInv, LocksHeld
  <2>4. lock[t] # e
    BY <1>1, <2>2, <2>3
  <2>5. QED BY <1>1, <2>2, <2>3, <2>4 DEF IInv, TypeOK
<1>9. QED BY <1>3, <1>4, <1>7, <1>8 DEF IInv

\* Every step preserves the invariant.
LEMMA NextIInv ==
  ASSUME IInv, [Next]_vars
  PROVE  IInv'
<1>1. CASE UNCHANGED vars
  <2>1. TypeOK'
    BY <1>1 DEF vars, IInv, TypeOK
  <2>2. QED BY <1>1, <2>1, KeptIInv DEF vars, Accepted
<1>2. ASSUME NEW e \in Employees, SetActive(e)
      PROVE  IInv'
  <2>1. TypeOK'
    BY <1>2 DEF SetActive, IInv, TypeOK
  <2>2. QED BY <1>2, <2>1, KeptIInv DEF SetActive, Accepted
<1>3. ASSUME NEW s \in Shifts,
             \/ CreateShift(s)
             \/ \E status \in {"open", "closed", "cancelled"} : ChangeShiftStatus(s, status)
             \/ \E employees \in SUBSET Employees : OfferShift(s, employees)
      PROVE  IInv'
  BY <1>3, OfficeIInv
<1>4. QED
  BY <1>1, <1>2, <1>3, RespondReadIInv, RespondEndIInv DEF Next

\* The steps on acceptances are those of an answer, which fits.
LEMMA NextFits ==
  ASSUME IInv, [Next]_vars, NEW s \in Shifts, NEW e \in Employees,
         offer'[<<s, e>>] \in {"accepted", "declined"}, offer'[<<s, e>>] # offer[<<s, e>>]
  PROVE  shift[s] = "open" /\ Cardinality(Accepted(s)') <= Places
<1>1. CASE \E t \in Shifts, d \in Employees : RespondEnd(t, d)
  <2>1. PICK t \in Shifts, d \in Employees : RespondEnd(t, d)
    BY <1>1
  <2>2. <<s, e>> = <<t, d>>
    BY <2>1, AnswerFits
  <2>3. QED BY <2>1, <2>2, AnswerFits
<1>2. CASE \E t \in Shifts, employees \in SUBSET Employees : OfferShift(t, employees)
  BY <1>2 DEF OfferShift
<1>3. CASE UNCHANGED offer
  BY <1>3
<1>4. QED
  BY <1>1, <1>2, <1>3
  DEF Next, vars, SetActive, CreateShift, ChangeShiftStatus, RespondRead

\* However many answer at once, no shift is accepted beyond its places, nor after it was
\* closed (respondToShift).
THEOREM ShiftsNeverOverbooked ==
  Spec => []NotOverbooked /\ ShiftsFit
<1>1. Init => IInv
  BY InitIInv
<1>2. IInv /\ [Next]_vars => IInv'
  BY NextIInv
<1>3. IInv /\ [Next]_vars =>
        [\A s \in Shifts, e \in Employees :
           offer'[<<s, e>>] \in {"accepted", "declined"} /\ offer'[<<s, e>>] # offer[<<s, e>>]
           => shift[s] = "open" /\ Cardinality(Accepted(s)') <= Places]_vars
  BY NextFits
<1>4. IInv => NotOverbooked
  BY DEF IInv
<1>5. QED BY <1>1, <1>2, <1>3, <1>4, PTL DEF Spec, ShiftsFit

---------------------------------------------------------------------------
(* The availability of a week.                                              *)

WeekTypeOK ==
  /\ hours \in [Employees -> SUBSET Hours]
  /\ save \in [Saves -> [of : Employees \union {None}, seen : SUBSET Hours, list : SUBSET Hours,
                         behind : SUBSET Saves, alone : BOOLEAN]]
  /\ clean \in [Employees -> (SUBSET Hours) \union {None}]

\* A save that is alone has deleted all that is there.
AloneSawAll ==
  \A w \in Saves : save[w].of # None /\ save[w].alone =>
    /\ save[w].seen = hours[save[w].of]
    /\ \A v \in Saves : save[v].of = save[w].of => v = w

WeekIInv == WeekTypeOK /\ AloneSawAll /\ SavedIsThere

LEMMA WeekInit == Week!Init => WeekIInv
BY DEF Week!Init, Week!NoSave, WeekIInv, WeekTypeOK, AloneSawAll, SavedIsThere, Week!SavedIsThere

\* A save that begins is not alone with another of the same employee, which no longer is either.
LEMMA WeekDelete ==
  ASSUME WeekIInv, NEW w \in Saves, NEW e \in Employees, NEW list \in SUBSET Hours,
         Week!SaveDelete(w, e, list)
  PROVE  WeekIInv'
<1> USE DEF WeekIInv
<1> DEFINE others == {v \in Saves : save[v].of = e}
           behind == {u \in others : save[u].seen \intersect hours[e] # {}}
           new == [of |-> e, seen |-> hours[e], list |-> list, behind |-> behind, alone |-> others = {}]
<1>1. /\ save[w].of = None /\ UNCHANGED <<hours, clean>>
      /\ save' = [v \in Saves |-> IF v = w THEN new
                                  ELSE IF v \in others THEN [save[v] EXCEPT !.alone = FALSE] ELSE save[v]]
  BY DEF Week!SaveDelete, Week!SavesOf
<1>2. WeekTypeOK'
  BY <1>1 DEF WeekTypeOK
<1>3. save'[w] = new /\ \A v \in Saves \ {w} : /\ save'[v].of = save[v].of /\ save'[v].seen = save[v].seen
                                               /\ save'[v].alone => save[v].alone /\ save[v].of # e
  BY <1>1 DEF WeekTypeOK
<1>4. AloneSawAll'
  <2> SUFFICES ASSUME NEW v \in Saves, save'[v].of # None, save'[v].alone
               PROVE  /\ save'[v].seen = hours[save'[v].of]
                      /\ \A u \in Saves : save'[u].of = save'[v].of => u = v
    BY <1>1 DEF AloneSawAll
  <2>1. CASE v = w
    <3>1. new.alone = (others = {})
      OBVIOUS
    <3>2. others = {}
      <4> HIDE DEF new, others
      <4> QED BY <1>3, <2>1, <3>1
    <3>3. QED BY <1>3, <2>1, <3>2
  <2>2. CASE v # w
    BY <1>3, <2>2 DEF AloneSawAll
  <2>3. QED BY <2>1, <2>2
<1>5. SavedIsThere'
  BY <1>1 DEF SavedIsThere, Week!SavedIsThere
<1>6. QED BY <1>2, <1>4, <1>5

\* A save that was alone leaves its own list: all that was there it had deleted.
LEMMA WeekEnd ==
  ASSUME WeekIInv, NEW w \in Saves, Week!SaveCommit(w) \/ Week!SaveAbort(w)
  PROVE  WeekIInv'
<1> USE DEF WeekIInv
<1> DEFINE e == save[w].of
<1>1. e \in Employees /\ e # None /\ save' = Week!Ended(w)
  BY DEF Week!SaveCommit, Week!SaveAbort, WeekTypeOK
<1>2. /\ save'[w].of = None
      /\ \A v \in Saves \ {w} : save'[v] = [save[v] EXCEPT !.behind = @ \ {w}]
  BY <1>1 DEF Week!Ended, Week!NoSave
<1>3. \A v \in Saves \ {w} : /\ save'[v].of = save[v].of /\ save'[v].seen = save[v].seen
                             /\ save'[v].alone = save[v].alone
  BY <1>2 DEF WeekTypeOK
<1>4. /\ hours' \in [Employees -> SUBSET Hours] /\ clean' \in [Employees -> (SUBSET Hours) \union {None}]
      /\ \A d \in Employees \ {e} : hours'[d] = hours[d] /\ clean'[d] = clean[d]
      /\ \/ hours'[e] = hours[e] /\ clean'[e] = clean[e]
         \/ /\ hours'[e] = (hours[e] \ save[w].seen) \union save[w].list
            /\ clean'[e] = IF save[w].alone THEN save[w].list ELSE None
  BY <1>1 DEF Week!SaveCommit, Week!SaveAbort, WeekTypeOK
<1>5. WeekTypeOK'
  BY <1>1, <1>4 DEF WeekTypeOK, Week!Ended, Week!NoSave
<1>6. AloneSawAll'
  BY <1>1, <1>2, <1>3, <1>4 DEF AloneSawAll, WeekTypeOK
<1>7. SavedIsThere'
  BY <1>1, <1>4 DEF SavedIsThere, Week!SavedIsThere, AloneSawAll, WeekTypeOK
<1>8. QED BY <1>5, <1>6, <1>7

\* What an employee saved without another save of theirs in between is what is there
\* (saveAvailability).
THEOREM SavedIsAlwaysThere == Week!Spec => []SavedIsThere
<1>1. ASSUME WeekIInv, [Week!Next]_(Week!vars) PROVE WeekIInv'
  <2>1. CASE UNCHANGED <<hours, save, clean>>
    BY <1>1, <2>1 DEF WeekIInv, WeekTypeOK, AloneSawAll, SavedIsThere, Week!SavedIsThere
  <2>2. ASSUME NEW w \in Saves, Week!SaveCommit(w) \/ Week!SaveAbort(w) PROVE WeekIInv'
    BY <1>1, <2>2, WeekEnd
  <2>3. QED BY <1>1, <2>1, <2>2, WeekDelete DEF Week!Next, Week!vars, Week!SetActive
<1>2. WeekIInv => SavedIsThere
  BY DEF WeekIInv
<1>3. QED BY <1>1, <1>2, WeekInit, PTL DEF Week!Spec

---------------------------------------------------------------------------
(* The photos of a report.                                                  *)

\* Whoever has read a photo to store it found its object; a photo that has a report
\* keeps its provider, and an object is not taken away.
UploadsFound ==
  /\ photo \in [Photos -> [report : Reports \union {None}, provider : {None, "database", "object_storage"},
                           uploaded : BOOLEAN]]
  /\ expected \subseteq Reports
  /\ \A p \in Photos : p \in upload =>
       /\ photo[p].report # None
       /\ photo[p].provider = "object_storage" => p \in object

LEMMA PicturesInit == Pictures!Init => UploadsFound
BY DEF Pictures!Init, Pictures!NoPhoto, UploadsFound

\* Storing a photo is the step that uploads one.
LEMMA StoreWriteStands ==
  ASSUME UploadsFound, NEW q \in Photos, Pictures!StoreWrite(q)
  PROVE  /\ UploadsFound'
         /\ \A p \in Photos : photo'[p].uploaded /\ ~photo[p].uploaded =>
              /\ photo[p].report \notin submitted'
              /\ photo[p].provider = "object_storage" => p \in object
<1>1. /\ q \in upload /\ upload' = upload \ {q} /\ UNCHANGED <<expected, submitted>> /\ object' = object
      /\ photo' = [photo EXCEPT ![q].uploaded = @ \/ photo[q].report \notin submitted]
  BY DEF Pictures!StoreWrite
<1>2. \A p \in Photos \ {q} : photo'[p] = photo[p]
  BY <1>1 DEF UploadsFound
<1>3. /\ photo'[q].report = photo[q].report /\ photo'[q].provider = photo[q].provider
      /\ photo'[q].uploaded = (photo[q].uploaded \/ photo[q].report \notin submitted)
  BY <1>1 DEF UploadsFound
<1>4. photo' \in [Photos -> [report : Reports \union {None}, provider : {None, "database", "object_storage"},
                             uploaded : BOOLEAN]]
  BY <1>1 DEF UploadsFound
<1>5. UploadsFound'
  BY <1>1, <1>2, <1>3, <1>4 DEF UploadsFound
<1>6. photo'[q].uploaded /\ ~photo[q].uploaded => photo[q].report \notin submitted
  BY <1>3
<1>7. QED BY <1>1, <1>2, <1>5, <1>6 DEF UploadsFound

\* The other steps upload none.
LEMMA OtherPicturesStand ==
  ASSUME UploadsFound,
         \/ \E f \in Reports :
              \/ Pictures!Assign(f) \/ Pictures!Report(f)
              \/ \E p \in Photos, provider \in {"database", "object_storage"} :
                   Pictures!NewPhotoIntent(p, f, provider)
         \/ \E p \in Photos : Pictures!PutObject(p) \/ Pictures!UploadRead(p)
         \/ UNCHANGED Pictures!vars
  PROVE  UploadsFound' /\ \A p \in Photos : photo'[p].uploaded => photo[p].uploaded
<1>1. CASE \E f \in Reports : Pictures!Assign(f) \/ Pictures!Report(f)
  BY <1>1 DEF Pictures!Assign, Pictures!Report, UploadsFound
<1>2. ASSUME NEW f \in Reports, NEW p \in Photos, NEW provider \in {"database", "object_storage"},
             Pictures!NewPhotoIntent(p, f, provider)
      PROVE  UploadsFound' /\ \A q \in Photos : photo'[q].uploaded => photo[q].uploaded
  BY <1>2, PortalsAssumption DEF Pictures!NewPhotoIntent, UploadsFound
<1>3. CASE \E p \in Photos : Pictures!PutObject(p)
  BY <1>3 DEF Pictures!PutObject, UploadsFound
<1>4. CASE \E p \in Photos : Pictures!UploadRead(p)
  BY <1>4, PortalsAssumption DEF Pictures!UploadRead, UploadsFound
<1>5. CASE UNCHANGED Pictures!vars
  BY <1>5 DEF Pictures!vars, UploadsFound
<1>6. QED BY <1>1, <1>2, <1>3, <1>4, <1>5

\* No photo is added to a report once it is submitted, and what counts as uploaded is
\* stored, however many requests upload at once (storeEmployeePhotoContent, confirmPhoto).
THEOREM SubmittedAlwaysStands == Pictures!Spec => SubmittedStands
<1>1. UploadsFound /\ [Pictures!Next]_(Pictures!vars) => UploadsFound'
  BY StoreWriteStands, OtherPicturesStand DEF Pictures!Next
<1>2. UploadsFound /\ [Pictures!Next]_(Pictures!vars) =>
        [\A p \in Photos :
           photo'[p].uploaded /\ ~photo[p].uploaded =>
             /\ photo[p].report \notin submitted'
             /\ photo[p].provider = "object_storage" => p \in object]_(Pictures!vars)
  BY StoreWriteStands, OtherPicturesStand DEF Pictures!Next
<1>3. QED BY <1>1, <1>2, PicturesInit, PTL DEF Pictures!Spec, SubmittedStands, Pictures!SubmittedStands

---------------------------------------------------------------------------
(* Service requests and their jobs, which the composition calls work.       *)

ServiceTypeOK ==
  /\ slot \in [Slots -> [status : {"open", "closed"}, capacity : Capacities]]
  /\ booking \in [Bookings -> [customer : Customers \union {None}, slot : Slots \union {None},
                               status : Service!BookingStatus \union {"absent"}]]
  /\ request \in [Requests -> [slot : Slots \union {None}, status : Service!RequestStatus \union {"absent"},
                               dated : BOOLEAN]]
  /\ entry \in [Requests \union Bookings -> Service!EntryStatus \union {"none"}]
  /\ work \in [Requests -> [status : Service!JobStatus \union {"none"}, start : BOOLEAN]]

ServiceIInv == ServiceTypeOK /\ Service!JobsInStep

LEMMA ServiceInit == Service!Init => ServiceIInv
<1> SUFFICES ASSUME Service!Init PROVE ServiceIInv
  OBVIOUS
<1>1. ServiceTypeOK
  BY DEF Service!Init, ServiceTypeOK, Service!BookingStatus, Service!RequestStatus, Service!EntryStatus,
         Service!JobStatus
<1>2. Service!JobsInStep
  BY DEF Service!Init, Service!JobsInStep
<1>3. QED BY <1>1, <1>2 DEF ServiceIInv

\* What the three properties ask of a step.
KeepsInStep ==
  /\ Service!JobsInStep'
  /\ \A r \in Requests :
       /\ request[r].status \in Service!Closed => request'[r].status = request[r].status
       /\ /\ request[r].status \notin Service!Closed /\ request'[r].status \in {"completed", "cancelled"}
          => work'[r].status \in {"none", request'[r].status}

FindsPlaces ==
  \A s \in Slots :
    /\ Service!ActiveRequests(s)' \subseteq Service!ActiveRequests(s) \/ Service!Available(s)
    /\ Service!ActiveBookings(s)' \subseteq Service!ActiveBookings(s) \/ Service!Bookable(s)

TellsDate ==
  \A r \in Requests :
    /\ request'[r].status # request[r].status /\ request'[r].status \in {"accepted", "scheduled"}
    /\ work'[r].start
    => r \in notices'

Good == ServiceTypeOK' /\ KeepsInStep /\ FindsPlaces /\ TellsDate

\* A step that leaves requests and jobs alone and makes no booking active.
LEMMA RequestsKept ==
  ASSUME ServiceIInv, ServiceTypeOK', UNCHANGED <<request, work>>,
         \A s \in Slots :
           Service!ActiveBookings(s)' \subseteq Service!ActiveBookings(s) \/ Service!Bookable(s)
  PROVE  Good
<1>1. Service!JobsInStep'
  BY DEF ServiceIInv, Service!JobsInStep
<1>2. KeepsInStep
  BY <1>1 DEF KeepsInStep, Service!Closed
<1>3. FindsPlaces
  BY DEF FindsPlaces, Service!ActiveRequests
<1>4. TellsDate
  BY DEF TellsDate
<1>5. QED BY <1>2, <1>3, <1>4 DEF Good

\* Windows, bookings and entries.
LEMMA OtherService ==
  ASSUME ServiceIInv,
         \/ \E s \in Slots, status \in {"open", "closed"}, c \in Capacities : Service!UpdateSlot(s, status, c)
         \/ \E b \in Bookings : \/ \E c \in Customers, s \in Slots : Service!CreateBooking(b, c, s)
                                \/ \E to \in Service!BookingStatus : Service!UpdateBooking(b, to)
         \/ \E o \in Requests \union Bookings, status \in Service!EntryStatus :
              Service!UpdateScheduleEntry(o, status)
         \/ UNCHANGED Service!vars
  PROVE  Good
<1> USE DEF ServiceIInv
<1>1. ASSUME NEW s \in Slots, NEW status \in {"open", "closed"}, NEW c \in Capacities,
             Service!UpdateSlot(s, status, c)
      PROVE  Good
  BY <1>1, RequestsKept DEF Service!UpdateSlot, ServiceTypeOK, Service!ActiveBookings
<1>2. ASSUME NEW b \in Bookings, NEW c \in Customers, NEW s \in Slots, Service!CreateBooking(b, c, s)
      PROVE  Good
  <2>1. booking' = [booking EXCEPT ![b] = [customer |-> c, slot |-> s, status |-> "requested"]]
        /\ UNCHANGED <<slot, request, entry, work>>
    BY <1>2 DEF Service!CreateBooking
  <2>2. ServiceTypeOK'
    BY <2>1 DEF ServiceTypeOK, Service!BookingStatus
  <2>3. \A t \in Slots \ {s} : Service!ActiveBookings(t)' \subseteq Service!ActiveBookings(t)
    BY <2>1 DEF ServiceTypeOK, Service!ActiveBookings
  <2>4. Service!Bookable(s)
    BY <1>2 DEF Service!CreateBooking
  <2>5. QED BY <2>1, <2>2, <2>3, <2>4, RequestsKept
<1>3. ASSUME NEW b \in Bookings, NEW to \in Service!BookingStatus, Service!UpdateBooking(b, to)
      PROVE  Good
  <2>1. /\ booking' = [booking EXCEPT ![b].status = to] /\ UNCHANGED <<slot, request, work>>
        /\ booking[b].status # "absent" /\ to \in Service!BookingAllowed[booking[b].status]
    BY <1>3 DEF Service!UpdateBooking
  <2>2. entry' \in [Requests \union Bookings -> Service!EntryStatus \union {"none"}]
    BY <1>3 DEF Service!UpdateBooking, ServiceTypeOK, Service!EntryStatus
  <2>3. ServiceTypeOK'
    <3>1. booking' \in [Bookings -> [customer : Customers \union {None}, slot : Slots \union {None},
                                     status : Service!BookingStatus \union {"absent"}]]
      <4>1. booking' = [booking EXCEPT ![b].status = to]
        BY <2>1
      <4>2. QED BY <4>1 DEF ServiceTypeOK
    <3>2. QED BY <2>1, <2>2, <3>1 DEF ServiceTypeOK
  <2>4. to \in {"requested", "confirmed"} => booking[b].status \in {"requested", "confirmed"}
    BY <2>1 DEF ServiceTypeOK, Service!BookingStatus, Service!BookingAllowed
  <2>5. \A s \in Slots : Service!ActiveBookings(s)' \subseteq Service!ActiveBookings(s)
    BY <2>1, <2>4 DEF ServiceTypeOK, Service!ActiveBookings
  <2>6. QED BY <2>1, <2>3, <2>5, RequestsKept
<1>4. ASSUME NEW o \in Requests \union Bookings, NEW status \in Service!EntryStatus,
             Service!UpdateScheduleEntry(o, status)
      PROVE  Good
  BY <1>4, RequestsKept DEF Service!UpdateScheduleEntry, ServiceTypeOK, Service!ActiveBookings
<1>5. CASE UNCHANGED Service!vars
  BY <1>5, RequestsKept DEF Service!vars, ServiceTypeOK, Service!ActiveBookings
<1>6. QED BY <1>1, <1>2, <1>3, <1>4, <1>5

\* A step that writes one request and its job is as good as what it writes of these.
LEMMA RequestWritten ==
  ASSUME ServiceIInv, ServiceTypeOK', NEW r \in Requests,
         UNCHANGED <<slot, booking>>,
         \A q \in Requests \ {r} : request'[q] = request[q] /\ work'[q] = work[q],
         request'[r].status \in {"absent", "new", "in_review", "denied"} => work'[r].status = "none",
         request'[r].status = "accepted" => work'[r].status \in {"draft", "scheduled"},
         request'[r].status = "scheduled" => work'[r].status \in {"draft", "scheduled", "in_progress"},
         request[r].status \in Service!Closed => request'[r].status = request[r].status,
         request[r].status \notin Service!Closed /\ request'[r].status \in {"completed", "cancelled"}
           => work'[r].status \in {"none", request'[r].status},
         \A s \in Slots : r \in Service!ActiveRequests(s)' => r \in Service!ActiveRequests(s) \/ Service!Available(s),
         /\ request'[r].status # request[r].status /\ request'[r].status \in {"accepted", "scheduled"}
         /\ work'[r].start
         => r \in notices'
  PROVE  Good
<1>1. Service!JobsInStep'
  BY DEF ServiceIInv, Service!JobsInStep
<1>2. KeepsInStep
  BY <1>1 DEF KeepsInStep, Service!Closed
<1>3. FindsPlaces
  <2>1. \A s \in Slots, q \in Requests \ {r} : q \in Service!ActiveRequests(s)' => q \in Service!ActiveRequests(s)
    BY DEF Service!ActiveRequests
  <2>2. \A s \in Slots : Service!ActiveRequests(s)' \subseteq Requests
    BY DEF Service!ActiveRequests
  <2>3. QED BY <2>1, <2>2 DEF FindsPlaces, Service!ActiveBookings
<1>4. TellsDate
  BY DEF TellsDate
<1>5. QED BY <1>2, <1>3, <1>4 DEF Good

LEMMA CreateRequestGood ==
  ASSUME ServiceIInv, NEW r \in Requests,
         \/ \E s \in Slots \union {None}, dated \in BOOLEAN : Service!CreateRequest(r, s, dated)
         \/ Service!CancelRequest(r)
  PROVE  Good
<1> USE DEF ServiceIInv
<1>1. ASSUME NEW s \in Slots \union {None}, NEW dated \in BOOLEAN, Service!CreateRequest(r, s, dated)
      PROVE  Good
  <2>1. /\ request' = [request EXCEPT ![r] = [slot |-> s, status |-> "new", dated |-> dated]]
        /\ UNCHANGED <<slot, booking, entry, work>> /\ request[r].status = "absent"
        /\ s # None => Service!Available(s)
    BY <1>1 DEF Service!CreateRequest
  <2>2. ServiceTypeOK'
    BY <2>1 DEF ServiceTypeOK, Service!RequestStatus
  <2>3. request'[r] = [slot |-> s, status |-> "new", dated |-> dated] /\ work'[r].status = "none"
    BY <2>1 DEF ServiceTypeOK, Service!JobsInStep
  <2>4. \A t \in Slots : r \in Service!ActiveRequests(t)' => Service!Available(t)
    BY <2>1, <2>3, PortalsAssumption DEF Service!ActiveRequests
  <2>5. \A q \in Requests \ {r} : request'[q] = request[q] /\ work'[q] = work[q]
    BY <2>1 DEF ServiceTypeOK
  <2>6. QED BY <2>1, <2>2, <2>3, <2>4, <2>5, RequestWritten DEF Service!Closed
<1>2. CASE Service!CancelRequest(r)
  <2>1. /\ request' = [request EXCEPT ![r].status = "cancelled"]
        /\ UNCHANGED <<slot, booking, entry, work>> /\ request[r].status \in {"new", "in_review"}
    BY <1>2 DEF Service!CancelRequest
  <2>2. ServiceTypeOK'
    BY <2>1 DEF ServiceTypeOK, Service!RequestStatus
  <2>3. request'[r].status = "cancelled" /\ work'[r].status = "none"
    BY <2>1 DEF ServiceTypeOK, Service!JobsInStep
  <2>4. \A t \in Slots : r \notin Service!ActiveRequests(t)'
    BY <2>3 DEF Service!ActiveRequests
  <2>5. \A q \in Requests \ {r} : request'[q] = request[q] /\ work'[q] = work[q]
    BY <2>1 DEF ServiceTypeOK
  <2>6. QED BY <2>1, <2>2, <2>3, <2>4, <2>5, RequestWritten DEF Service!Closed
<1>3. QED BY <1>1, <1>2

\* The office moves a request; triggers write its job.
LEMMA UpdateRequestGood ==
  ASSUME ServiceIInv, NEW r \in Requests, NEW to \in Service!RequestStatus, Service!UpdateRequest(r, to)
  PROVE  Good
<1> USE DEF ServiceIInv
<1>1. /\ request' = [request EXCEPT ![r].status = to] /\ UNCHANGED <<slot, booking>>
      /\ work' = [work EXCEPT ![r] = Service!JobAfter(r, to)]
      /\ entry' = [entry EXCEPT ![r] = Service!EntryAfter(r, to)]
      /\ request[r].status # "absent" /\ to \in Service!Transitions[request[r].status]
      /\ notices' = Service!Told(r, to, work[r].start, entry'[r] # "none")
  BY DEF Service!UpdateRequest
<1>2. /\ request[r].status \in {"new", "in_review"} => to \in {"new", "in_review", "accepted", "denied", "cancelled"}
      /\ request[r].status = "accepted" => to \in {"accepted", "scheduled", "completed", "cancelled"}
      /\ request[r].status = "scheduled" => to \in {"scheduled", "completed", "cancelled"}
      /\ request[r].status \in Service!Closed => to = request[r].status
      /\ request[r].status = "in_review" => to # "new"
  BY <1>1 DEF ServiceTypeOK, Service!RequestStatus, Service!Transitions, Service!Closed
<1>3. Service!JobAfter(r, to) \in [status : Service!JobStatus \union {"none"}, start : BOOLEAN]
  BY <1>1 DEF Service!JobAfter, ServiceTypeOK, Service!JobStatus
<1>4. Service!EntryAfter(r, to) \in Service!EntryStatus \union {"none"}
  BY DEF Service!EntryAfter, ServiceTypeOK, Service!EntryStatus
<1>5. ServiceTypeOK'
  BY <1>1, <1>3, <1>4 DEF ServiceTypeOK
<1>6. /\ request'[r].status = to /\ request'[r].slot = request[r].slot
      /\ work'[r] = Service!JobAfter(r, to) /\ entry'[r] = Service!EntryAfter(r, to)
      /\ \A q \in Requests \ {r} : request'[q] = request[q] /\ work'[q] = work[q]
  BY <1>1 DEF ServiceTypeOK
<1>7. /\ to \in {"absent", "new", "in_review", "denied"} => work'[r].status = "none"
      /\ to = "accepted" => work'[r].status \in {"draft", "scheduled"}
      /\ to = "scheduled" => work'[r].status \in {"draft", "scheduled", "in_progress"}
      /\ request[r].status \notin Service!Closed /\ to \in {"completed", "cancelled"}
           => work'[r].status \in {"none", to}
  <2>1. /\ request[r].status \in {"new", "in_review", "denied"} => work[r].status = "none"
        /\ request[r].status = "accepted" => work[r].status \in {"draft", "scheduled"}
        /\ request[r].status = "scheduled" => work[r].status \in {"draft", "scheduled", "in_progress"}
        /\ work[r] = [status |-> work[r].status, start |-> work[r].start]
        /\ request[r].status \in {"new", "in_review", "accepted", "scheduled"} \union Service!Closed
    BY <1>1 DEF Service!JobsInStep, ServiceTypeOK, Service!RequestStatus, Service!Closed
  <2>2. CASE to \in {"absent", "new", "in_review", "denied"}
    BY <1>2, <1>6, <2>1, <2>2 DEF Service!JobAfter, Service!Closed
  <2>3. CASE to = "accepted"
    BY <1>2, <1>6, <2>1, <2>3 DEF Service!JobAfter, Service!Closed
  <2>4. CASE to = "scheduled"
    BY <1>2, <1>6, <2>1, <2>4 DEF Service!JobAfter, Service!Closed
  <2>5. CASE to \in {"completed", "cancelled"}
    BY <1>2, <1>6, <2>1, <2>5 DEF Service!JobAfter, Service!Closed
  <2>6. QED BY <2>2, <2>3, <2>4, <2>5 DEF Service!RequestStatus
<1>8. \A s \in Slots : r \in Service!ActiveRequests(s)' => r \in Service!ActiveRequests(s)
  BY <1>1, <1>2, <1>6 DEF Service!ActiveRequests, Service!Closed, ServiceTypeOK, Service!RequestStatus
<1>9. to # request[r].status /\ to \in {"accepted", "scheduled"} /\ work'[r].start => r \in notices'
  BY <1>1, <1>2, <1>6 DEF Service!Told, Service!JobAfter, Service!EntryAfter, ServiceTypeOK, Service!JobsInStep
<1>10. QED BY <1>1, <1>2, <1>5, <1>6, <1>7, <1>8, <1>9, RequestWritten

\* The office edits the job; triggers write its request.
LEMMA UpdateWorkOrderGood ==
  ASSUME ServiceIInv, NEW r \in Requests, NEW status \in Service!JobStatus, NEW start \in BOOLEAN,
         Service!UpdateWorkOrder(r, status, start)
  PROVE  Good
<1> USE DEF ServiceIInv
<1> DEFINE to == Service!RequestAfter(r, status)
<1>1. /\ request' = [request EXCEPT ![r].status = to] /\ UNCHANGED <<slot, booking, entry>>
      /\ work' = [work EXCEPT ![r] = [status |-> status, start |-> start]]
      /\ work[r].status # "none"
      /\ notices' = Service!Told(r, request'[r].status, start, entry[r] # "none")
  BY DEF Service!UpdateWorkOrder
<1>2. /\ request'[r].status = to /\ request'[r].slot = request[r].slot
      /\ work'[r] = [status |-> status, start |-> start]
      /\ \A q \in Requests \ {r} : request'[q] = request[q] /\ work'[q] = work[q]
  BY <1>1 DEF ServiceTypeOK
<1>3. /\ request[r].status \in {"accepted", "scheduled", "completed", "cancelled"}
      /\ request[r].status = "accepted" => work[r].status \in {"draft", "scheduled"}
      /\ request[r].status = "scheduled" => work[r].status \in {"draft", "scheduled", "in_progress"}
  BY <1>1 DEF ServiceTypeOK, Service!RequestStatus, Service!JobsInStep
<1>4. /\ to \in {"accepted", "scheduled", "completed", "cancelled"}
      /\ to = "accepted" => status \in {"draft", "scheduled"}
      /\ to = "scheduled" => status \in {"draft", "scheduled", "in_progress"}
      /\ request[r].status \in Service!Closed => to = request[r].status
      /\ request[r].status \notin Service!Closed /\ to \in {"completed", "cancelled"} => status = to
  BY <1>3 DEF Service!RequestAfter, Service!JobStatus, Service!Closed
<1> HIDE DEF to
<1>5. ServiceTypeOK'
  <2>1. work' \in [Requests -> [status : Service!JobStatus \union {"none"}, start : BOOLEAN]]
    BY <1>1 DEF ServiceTypeOK
  <2>2. to \in Service!RequestStatus
    BY <1>4 DEF Service!RequestStatus
  <2>3. request' \in [Requests -> [slot : Slots \union {None}, status : Service!RequestStatus \union {"absent"},
                                   dated : BOOLEAN]]
    BY <1>1, <2>2 DEF ServiceTypeOK
  <2>4. QED BY <1>1, <2>1, <2>3 DEF ServiceTypeOK
<1>6. \A s \in Slots : r \in Service!ActiveRequests(s)' => r \in Service!ActiveRequests(s)
  BY <1>2, <1>3, <1>4 DEF Service!ActiveRequests, Service!Closed
<1>7. to # request[r].status /\ to \in {"accepted", "scheduled"} /\ start => r \in notices'
  BY <1>1, <1>2 DEF Service!Told
<1>8. QED BY <1>1, <1>2, <1>4, <1>5, <1>6, <1>7, RequestWritten
\* Every step but a stutter of the component leaves the invariant and does what is asked.
LEMMA ServiceStep ==
  ASSUME ServiceIInv, [Service!Next]_(Service!vars)
  PROVE  Good
BY OtherService, CreateRequestGood, UpdateRequestGood, UpdateWorkOrderGood DEF Service!Next

LEMMA ServiceStepIInv == ServiceIInv /\ [Service!Next]_(Service!vars) => ServiceIInv'
BY ServiceStep DEF Good, KeepsInStep, ServiceIInv

\* Requests and jobs are kept in step by the triggers of both, and a closed request stays
\* closed whatever is done to its job (sync_service_request_job and its counterpart).
THEOREM AlwaysInStep == Service!Spec => InStep
<1>1. ServiceIInv /\ [Service!Next]_(Service!vars) => [KeepsInStep]_(Service!vars)
  BY ServiceStep DEF Good
<1>2. QED BY <1>1, ServiceInit, ServiceStepIInv, PTL DEF Service!Spec, InStep, Service!InStep, KeepsInStep

\* Whatever takes a place in a window found one free when it took it
\* (createCustomerBooking, validateAvailabilitySlot).
THEOREM PlacesAlwaysFound == Service!Spec => PlacesAreFound
<1>1. ServiceIInv /\ [Service!Next]_(Service!vars) => [FindsPlaces]_(Service!vars)
  BY ServiceStep DEF Good
<1>2. QED
  BY <1>1, ServiceInit, ServiceStepIInv, PTL
  DEF Service!Spec, PlacesAreFound, Service!PlacesAreFound, FindsPlaces

\* The customer is told whenever the request or its job is moved first
\* (queue_customer_service_scheduled_notification).
THEOREM DateAlwaysTold == Service!Spec => DateIsTold
<1>1. ServiceIInv /\ [Service!Next]_(Service!vars) => [TellsDate]_(Service!vars)
  BY ServiceStep DEF Good
<1>2. QED BY <1>1, ServiceInit, ServiceStepIInv, PTL DEF Service!Spec, DateIsTold, Service!DateIsTold, TellsDate

---------------------------------------------------------------------------
(* Jobs and their crews.                                                    *)

FieldTypeOK ==
  /\ active \subseteq Employees
  /\ job \in [Jobs -> [status : Field!JobStatus, assigned : Employees \union {None}]]
  /\ route \in [Routes -> [status : {"absent", "planned", "cancelled"}, members : SUBSET Employees,
                           jobs : SUBSET Jobs]]
  /\ report \in [Jobs \X Employees ->
       {"assigned", "acknowledged", "in_progress", "issue", "submitted", "approved", "rejected"}]
  /\ review \in [Jobs \X Employees -> {"idle", "approving", "completing"}]

\* What holds of a job the office left alone: it is complete when all have approved reports,
\* and a review, of which there is one at most, knows whether it approves the last.
JobHolds(j) ==
  /\ job[j].status # "cancelled"
  /\ job[j].status = "completed" <=> Field!AllApproved(j, Field!Approved)
  /\ \A d, e \in Employees : review[<<j, d>>] # "idle" /\ review[<<j, e>>] # "idle" => d = e
  /\ \A e \in Employees : review[<<j, e>>] # "idle" =>
       (review[<<j, e>>] = "completing" <=> Field!AllApproved(j, Field!Approved \union {<<j, e>>}))

FieldIInv ==
  /\ FieldTypeOK
  /\ \A r \in Routes : route[r].status = "absent" => route[r].members = {}
  /\ unaware = {}
  /\ \A j \in Jobs : j \notin disturbed => JobHolds(j)

LEMMA FieldInit == Field!Init => FieldIInv
<1> SUFFICES ASSUME Field!Init PROVE FieldIInv
  OBVIOUS
<1>1. FieldTypeOK
  BY DEF Field!Init, FieldTypeOK, Field!JobStatus, Field!Report
<1>2. ASSUME NEW j \in Jobs PROVE JobHolds(j)
  <2>1. Field!Approved = {}
    BY DEF Field!Init, Field!Approved, Field!Report
  <2>2. job[j].status = "scheduled" /\ \A e \in Employees : review[<<j, e>>] = "idle"
    BY DEF Field!Init, Field!Report
  <2>3. ~ Field!AllApproved(j, Field!Approved)
    BY <2>1 DEF Field!AllApproved
  <2>4. QED BY <2>2, <2>3 DEF JobHolds
<1>3. QED BY <1>1, <1>2 DEF Field!Init, FieldIInv

\* Whether all are approved depends on who is expected, and on their reports.
LEMMA SameApproved ==
  ASSUME NEW j \in Jobs, NEW A, NEW B, \A e : <<j, e>> \in A <=> <<j, e>> \in B
  PROVE  Field!AllApproved(j, A) <=> Field!AllApproved(j, B)
BY DEF Field!AllApproved

LEMMA CrewIsPeople ==
  ASSUME FieldTypeOK, NEW j \in Jobs
  PROVE  Field!Expected(j) \subseteq Employees
<1>1. job[j].assigned \in Employees \union {None}
  BY DEF FieldTypeOK
<1>2. QED BY <1>1 DEF FieldTypeOK, Field!Expected

\* What holds of a job stays when neither its crew, its reviews nor which of its reports are
\* approved change, and it is neither closed nor reopened.
LEMMA JobKept ==
  ASSUME NEW j \in Jobs, JobHolds(j),
         \A s \in {"completed", "cancelled"} : job'[j].status = s <=> job[j].status = s,
         Field!Expected(j)' = Field!Expected(j),
         \A e \in Employees : report'[<<j, e>>] = "approved" <=> report[<<j, e>>] = "approved",
         \A e \in Employees : review'[<<j, e>>] = review[<<j, e>>]
  PROVE  JobHolds(j)'
<1>1. \A e : <<j, e>> \in Field!Approved' <=> <<j, e>> \in Field!Approved
  BY DEF Field!Approved, Field!Report
<1>2. Field!AllApproved(j, Field!Approved)' <=> Field!AllApproved(j, Field!Approved)
  BY <1>1 DEF Field!AllApproved
<1>3. ASSUME NEW d \in Employees
      PROVE  Field!AllApproved(j, Field!Approved \union {<<j, d>>})'
             <=> Field!AllApproved(j, Field!Approved \union {<<j, d>>})
  BY <1>1 DEF Field!AllApproved
<1>4. QED BY <1>2, <1>3 DEF JobHolds

\* It holds of an open job nobody's report on which is approved or under review.
LEMMA JobOpen ==
  ASSUME NEW j \in Jobs, FieldTypeOK', job'[j].status \notin {"completed", "cancelled"},
         \A e \in Employees : report'[<<j, e>>] # "approved" /\ review'[<<j, e>>] = "idle"
  PROVE  JobHolds(j)'
<1>1. \A e : <<j, e>> \notin Field!Approved'
  BY DEF Field!Approved, Field!Report
<1>2. ~ Field!AllApproved(j, Field!Approved)'
  BY <1>1 DEF Field!AllApproved
<1>3. QED BY <1>2 DEF JobHolds

\* The office disturbs a job unless it is open and nobody's report on it is approved or under
\* review, and leaves the crews of the others as they were.
LEMMA OfficeKeeps ==
  ASSUME FieldIInv, FieldTypeOK', NEW jobs, Field!Disturb(jobs), UNCHANGED <<report, review>>,
         \A j \in Jobs \ jobs : job'[j] = job[j] /\ Field!Expected(j)' = Field!Expected(j)
  PROVE  \A j \in Jobs : j \notin disturbed' => JobHolds(j)'
<1> SUFFICES ASSUME NEW j \in Jobs, j \notin disturbed' PROVE JobHolds(j)'
  OBVIOUS
<1>1. CASE j \in jobs
  <2>1. ~ Field!Touched(j, job'[j].status)
    BY <1>1 DEF Field!Disturb
  <2>2. QED BY <2>1, JobOpen DEF Field!Touched
<1>2. CASE j \notin jobs
  <2>1. JobHolds(j)
    BY <1>2 DEF Field!Disturb, FieldIInv
  <2>2. QED BY <1>2, <2>1, JobKept
<1>3. QED BY <1>1, <1>2

LEMMA FieldDeactivate ==
  ASSUME FieldIInv, NEW e \in Employees, Field!Deactivate(e)
  PROVE  FieldIInv'
<1> USE DEF Field!Deactivate, Field!crew
<1>1. FieldTypeOK'
  BY DEF FieldIInv, FieldTypeOK
<1> DEFINE jobs == {j \in Jobs : e \in Field!OnRoute(j)}
<1>2. ASSUME NEW j \in Jobs \ jobs
      PROVE  job'[j] = job[j] /\ Field!Expected(j)' = Field!Expected(j)
  <2>1. e \notin Field!OnRoute(j) /\ Field!OnRoute(j)' = Field!OnRoute(j)
    BY DEF Field!OnRoute, Field!RoutesOf
  <2>2. Field!OnRoute(j) \intersect active' = Field!OnRoute(j) \intersect active
    BY <2>1
  <2>3. QED BY <2>1, <2>2 DEF Field!Expected
<1>3. \A j \in Jobs : j \notin disturbed' => JobHolds(j)'
  <2> HIDE DEF jobs
  <2>1. Field!Disturb(jobs)
    BY DEF jobs
  <2>2. QED BY <1>1, <1>2, <2>1, OfficeKeeps
<1>4. QED BY <1>1, <1>3 DEF FieldIInv

LEMMA FieldUpdateWorkOrder ==
  ASSUME FieldIInv, NEW k \in Jobs, NEW status \in Field!JobStatus, NEW e \in Employees \union {None},
         Field!UpdateWorkOrder(k, status, e)
  PROVE  FieldIInv'
<1> USE DEF Field!UpdateWorkOrder
<1>1. FieldTypeOK'
  BY DEF FieldIInv, FieldTypeOK
<1>2. ASSUME NEW j \in Jobs \ {k}
      PROVE  job'[j] = job[j] /\ Field!Expected(j)' = Field!Expected(j)
  <2>1. job'[j] = job[j]
    BY DEF FieldIInv, FieldTypeOK
  <2>2. Field!OnRoute(j)' = Field!OnRoute(j)
    BY DEF Field!OnRoute, Field!RoutesOf
  <2>3. QED BY <2>1, <2>2 DEF Field!Expected
<1>3. \A j \in Jobs : j \notin disturbed' => JobHolds(j)'
  BY <1>1, <1>2, OfficeKeeps
<1>4. QED BY <1>1, <1>3 DEF FieldIInv

\* A route is saved with whom and what it names.
LEMMA FieldSaveRoute ==
  ASSUME FieldIInv, NEW r \in Routes, NEW status \in {"planned", "cancelled"},
         NEW members \in SUBSET Employees, NEW jobs \in SUBSET Jobs,
         Field!SaveRoute(r, status, members, jobs), unaware' = {}
  PROVE  FieldIInv'
<1> USE DEF Field!SaveRoute
<1>1. FieldTypeOK'
  <2> DEFINE new == [status |-> status, members |-> members, jobs |-> jobs]
  <2>1. new \in [status : {"absent", "planned", "cancelled"}, members : SUBSET Employees,
                 jobs : SUBSET Jobs]
    OBVIOUS
  <2> HIDE DEF new
  <2>2. route' = [route EXCEPT ![r] = new]
    BY DEF new
  <2>3. QED BY <2>1, <2>2 DEF FieldIInv, FieldTypeOK
<1>2. \A q \in Routes : q # r => route'[q] = route[q]
  BY DEF FieldIInv, FieldTypeOK
<1>3. route'[r].status = status /\ route'[r].jobs = jobs
  BY DEF FieldIInv, FieldTypeOK
<1>4. \A q \in Routes : route'[q].status = "absent" => route'[q].members = {}
  BY <1>2, <1>3 DEF FieldIInv
<1> DEFINE its == route[r].jobs \union jobs
<1>5. ASSUME NEW j \in Jobs \ its
      PROVE  job'[j] = job[j] /\ Field!Expected(j)' = Field!Expected(j)
  <2>1. Field!RoutesOf(j)' = Field!RoutesOf(j)
    BY <1>2, <1>3 DEF Field!RoutesOf
  <2>2. r \notin Field!RoutesOf(j) /\ Field!RoutesOf(j) \subseteq Routes
    BY DEF Field!RoutesOf
  <2>3. \A q \in Field!RoutesOf(j) : route'[q].members = route[q].members
    BY <1>2, <2>2
  <2>4. Field!OnRoute(j)' = Field!OnRoute(j)
    BY <2>1, <2>3 DEF Field!OnRoute
  <2>5. QED BY <2>4 DEF Field!Expected
<1>6. \A j \in Jobs : j \notin disturbed' => JobHolds(j)'
  <2> HIDE DEF its
  <2>1. Field!Disturb(its)
    BY DEF its
  <2>2. QED BY <1>1, <1>5, <2>1, OfficeKeeps
<1>7. QED BY <1>1, <1>4, <1>6 DEF FieldIInv

LEMMA FieldUpdateMyJob ==
  ASSUME FieldIInv, NEW k \in Jobs, NEW d \in Employees, NEW action \in DOMAIN Field!From,
         Field!UpdateMyJob(k, d, action)
  PROVE  FieldIInv'
<1> USE DEF Field!UpdateMyJob
<1> DEFINE to == Field!To[action]
<1>0. action \in {"acknowledge", "start", "issue", "submit"}
  BY DEF Field!From
<1>1. to \in {"acknowledged", "in_progress", "issue", "submitted"}
  <2>1. CASE action = "acknowledge"
    BY <2>1 DEF Field!To
  <2>2. CASE action = "start"
    BY <2>2 DEF Field!To
  <2>3. CASE action = "issue"
    BY <2>3 DEF Field!To
  <2>4. CASE action = "submit"
    BY <2>4 DEF Field!To
  <2>5. QED BY <1>0, <2>1, <2>2, <2>3, <2>4
<1>2. report[<<k, d>>] # "approved"
  <2>1. report[<<k, d>>] \in Field!From[action]
    OBVIOUS
  <2>2. "approved" \notin Field!From[action]
    <3>1. CASE action = "acknowledge"
      BY <3>1 DEF Field!From
    <3>2. CASE action = "start"
      BY <3>2 DEF Field!From
    <3>3. CASE action = "issue"
      BY <3>3 DEF Field!From
    <3>4. CASE action = "submit"
      BY <3>4 DEF Field!From
    <3>5. QED BY <1>0, <3>1, <3>2, <3>3, <3>4
  <2>3. QED BY <2>1, <2>2
<1> HIDE DEF to
<1>3. report' = [report EXCEPT ![<<k, d>>] = to]
  BY DEF to
<1>4. \A j \in Jobs, e \in Employees : report'[<<j, e>>] = "approved" <=> report[<<j, e>>] = "approved"
  BY <1>1, <1>2, <1>3 DEF FieldIInv, FieldTypeOK
<1>5. \A j \in Jobs : /\ job'[j].assigned = job[j].assigned
                      /\ job'[j].status = job[j].status \/ (job[j].status = "scheduled" /\ job'[j].status = "in_progress")
  BY DEF FieldIInv, FieldTypeOK
<1>6. FieldTypeOK'
  <2>1. job' \in [Jobs -> [status : Field!JobStatus, assigned : Employees \union {None}]]
    BY DEF FieldIInv, FieldTypeOK, Field!JobStatus
  <2>2. report' \in [Jobs \X Employees ->
       {"assigned", "acknowledged", "in_progress", "issue", "submitted", "approved", "rejected"}]
    BY <1>1, <1>3 DEF FieldIInv, FieldTypeOK
  <2>3. QED BY <2>1, <2>2 DEF FieldIInv, FieldTypeOK
<1>7. ASSUME NEW j \in Jobs, j \notin disturbed'
      PROVE  JobHolds(j)'
  <2>1. Field!OnRoute(j)' = Field!OnRoute(j)
    BY DEF Field!OnRoute, Field!RoutesOf
  <2>2. Field!Expected(j)' = Field!Expected(j)
    BY <1>5, <2>1 DEF Field!Expected
  <2>3. JobHolds(j)
    BY <1>7 DEF FieldIInv
  <2>4. QED BY <1>4, <1>5, <2>2, <2>3, JobKept
<1>8. QED BY <1>6, <1>7 DEF FieldIInv

LEMMA FieldReject ==
  ASSUME FieldIInv, NEW f \in Jobs \X Employees, Field!Reject(f)
  PROVE  FieldIInv'
<1> USE DEF Field!Reject
<1>1. \A j \in Jobs, e \in Employees : report'[<<j, e>>] = "approved" <=> report[<<j, e>>] = "approved"
  BY DEF FieldIInv, FieldTypeOK
<1>2. FieldTypeOK'
  BY DEF FieldIInv, FieldTypeOK
<1>3. ASSUME NEW j \in Jobs, j \notin disturbed'
      PROVE  JobHolds(j)'
  <2>1. Field!Expected(j)' = Field!Expected(j)
    BY DEF Field!Expected, Field!OnRoute, Field!RoutesOf
  <2>2. JobHolds(j)
    BY <1>3 DEF FieldIInv
  <2>3. QED BY <1>1, <2>1, <2>2, JobKept
<1>4. QED BY <1>2, <1>3 DEF FieldIInv

\* Of a job left alone, the others' reviews are idle when one begins.
LEMMA FieldApproveCheck ==
  ASSUME FieldIInv, NEW k \in Jobs, NEW d \in Employees, Field!ApproveCheck(<<k, d>>)
  PROVE  FieldIInv'
<1> DEFINE f == <<k, d>>
           mark == IF Field!AllApproved(k, Field!Approved \union {f}) THEN "completing" ELSE "approving"
<1>1. mark \in {"completing", "approving"}
      /\ (mark = "completing" <=> Field!AllApproved(k, Field!Approved \union {f}))
  OBVIOUS
<1> HIDE DEF mark
<1>2. /\ review' = [review EXCEPT ![f] = mark]
      /\ disturbed' = IF \E e \in Employees : review[<<k, e>>] # "idle" THEN disturbed \union {k} ELSE disturbed
      /\ UNCHANGED <<active, job, route, report, unaware>>
  BY DEF Field!ApproveCheck, mark
<1>3. \A j \in Jobs, e \in Employees : <<j, e>> # f => review'[<<j, e>>] = review[<<j, e>>]
  BY <1>2 DEF FieldIInv, FieldTypeOK
<1>4. review'[f] = mark
  BY <1>2 DEF FieldIInv, FieldTypeOK
<1>5. FieldTypeOK'
  BY <1>1, <1>2 DEF FieldIInv, FieldTypeOK
<1>6. ASSUME NEW j \in Jobs, j \notin disturbed'
      PROVE  JobHolds(j)'
  <2>1. Field!Expected(j)' = Field!Expected(j)
    BY <1>2 DEF Field!Expected, Field!OnRoute, Field!RoutesOf
  <2>2. JobHolds(j)
    BY <1>2, <1>6 DEF FieldIInv
  <2>3. CASE j # k
    <3>1. \A e \in Employees : review'[<<j, e>>] = review[<<j, e>>]
      BY <1>3, <2>3
    <3>2. QED BY <1>2, <2>1, <2>2, <3>1, JobKept
  <2>4. CASE j = k
    <3>1. \A e \in Employees : e # d => review'[<<j, e>>] = "idle"
      BY <1>2, <1>3, <1>6, <2>4
    <3>2. Field!Approved' = Field!Approved
      BY <1>2 DEF Field!Approved
    <3>3. Field!AllApproved(j, Field!Approved)' <=> Field!AllApproved(j, Field!Approved)
      BY <2>1, <3>2 DEF Field!AllApproved
    <3>4. Field!AllApproved(j, Field!Approved \union {<<j, d>>})'
          <=> Field!AllApproved(j, Field!Approved \union {<<j, d>>})
      BY <2>1, <3>2 DEF Field!AllApproved
    <3>5. review'[<<j, d>>] = "completing" <=> Field!AllApproved(j, Field!Approved \union {<<j, d>>})'
      BY <1>1, <1>4, <2>4, <3>4
    <3>6. job'[j].status # "cancelled"
          /\ (job'[j].status = "completed" <=> Field!AllApproved(j, Field!Approved)')
      BY <1>2, <2>2, <3>3 DEF JobHolds
    <3>7. QED BY <3>1, <3>5, <3>6 DEF JobHolds
  <2>5. QED BY <2>3, <2>4
<1>7. QED BY <1>2, <1>5, <1>6 DEF FieldIInv

\* The review that approves the last report completes the job, and no other does.
LEMMA FieldApproveCommit ==
  ASSUME FieldIInv, NEW k \in Jobs, NEW d \in Employees, Field!ApproveCommit(<<k, d>>)
  PROVE  FieldIInv'
<1> DEFINE f == <<k, d>>
<1>1. /\ review[f] # "idle"
      /\ report' = [report EXCEPT ![f] = "approved"]
      /\ review' = [review EXCEPT ![f] = "idle"]
      /\ UNCHANGED <<active, route, unaware, disturbed>>
  BY DEF Field!ApproveCommit
<1>2. job' = [job EXCEPT ![k].status =
         IF review[f] = "completing" /\ @ \notin {"completed", "cancelled"} THEN "completed" ELSE @]
  BY DEF Field!ApproveCommit, Field!Closed
<1>3. FieldTypeOK'
  <2>1. job' \in [Jobs -> [status : Field!JobStatus, assigned : Employees \union {None}]]
    BY <1>2 DEF FieldIInv, FieldTypeOK, Field!JobStatus
  <2>2. report' \in [Jobs \X Employees ->
       {"assigned", "acknowledged", "in_progress", "issue", "submitted", "approved", "rejected"}]
    BY <1>1 DEF FieldIInv, FieldTypeOK
  <2>3. review' \in [Jobs \X Employees -> {"idle", "approving", "completing"}]
    BY <1>1 DEF FieldIInv, FieldTypeOK
  <2>4. QED BY <1>1, <2>1, <2>2, <2>3 DEF FieldIInv, FieldTypeOK
<1>4. \A j \in Jobs : job'[j].assigned = job[j].assigned /\ (j # k => job'[j] = job[j])
  BY <1>2 DEF FieldIInv, FieldTypeOK
<1>5. \A j \in Jobs, e \in Employees : <<j, e>> # f =>
        report'[<<j, e>>] = report[<<j, e>>] /\ review'[<<j, e>>] = review[<<j, e>>]
  BY <1>1 DEF FieldIInv, FieldTypeOK
<1>6. report'[f] = "approved" /\ review'[f] = "idle"
  BY <1>1 DEF FieldIInv, FieldTypeOK
<1>7. ASSUME NEW j \in Jobs, j \notin disturbed'
      PROVE  JobHolds(j)'
  <2>1. Field!OnRoute(j)' = Field!OnRoute(j)
    BY <1>1 DEF Field!OnRoute, Field!RoutesOf
  <2>2. Field!Expected(j)' = Field!Expected(j)
    BY <1>1, <1>4, <2>1 DEF Field!Expected
  <2>3. JobHolds(j)
    BY <1>1, <1>7 DEF FieldIInv
  <2>4. CASE j # k
    <3>1. \A e \in Employees : report'[<<j, e>>] = report[<<j, e>>] /\ review'[<<j, e>>] = review[<<j, e>>]
      BY <1>5, <2>4
    <3>2. QED BY <1>4, <2>2, <2>3, <2>4, <3>1, JobKept
  <2>5. CASE j = k
    <3>1. \A e \in Employees : review'[<<j, e>>] = "idle"
      BY <1>1, <1>5, <1>6, <2>3, <2>5 DEF JobHolds
    <3>2. \A e : <<j, e>> \in Field!Approved' <=> <<j, e>> \in Field!Approved \union {f}
      BY <1>5, <1>6, <2>5 DEF Field!Approved, Field!Report
    <3>3. Field!AllApproved(j, Field!Approved)' <=> Field!AllApproved(j, Field!Approved \union {f})
      BY <2>2, <3>2 DEF Field!AllApproved
    <3>4. Field!AllApproved(j, Field!Approved) => Field!AllApproved(j, Field!Approved \union {f})
      BY DEF Field!AllApproved
    <3>5. review[f] = "completing" <=> Field!AllApproved(j, Field!Approved \union {f})
      BY <1>1, <2>3, <2>5 DEF JobHolds
    <3>6. job'[j].status = IF review[f] = "completing" /\ job[j].status \notin {"completed", "cancelled"}
                           THEN "completed" ELSE job[j].status
      BY <1>2, <2>5 DEF FieldIInv, FieldTypeOK
    <3>7. job'[j].status # "cancelled" /\ (job'[j].status = "completed" <=> review[f] = "completing")
      BY <2>3, <3>4, <3>5, <3>6 DEF JobHolds
    <3>8. QED BY <3>1, <3>3, <3>5, <3>7 DEF JobHolds
  <2>6. QED BY <2>4, <2>5
<1>8. QED BY <1>1, <1>3, <1>7 DEF FieldIInv

LEMMA FieldApproveAbort ==
  ASSUME FieldIInv, NEW k \in Jobs, NEW d \in Employees, Field!ApproveAbort(<<k, d>>)
  PROVE  FieldIInv'
<1> USE DEF Field!ApproveAbort
<1>1. FieldTypeOK'
  BY DEF FieldIInv, FieldTypeOK
<1>2. \A j \in Jobs, e \in Employees : review'[<<j, e>>] # "idle" => review'[<<j, e>>] = review[<<j, e>>]
  BY DEF FieldIInv, FieldTypeOK
<1>3. ASSUME NEW j \in Jobs, j \notin disturbed'
      PROVE  JobHolds(j)'
  <2>1. Field!Expected(j)' = Field!Expected(j)
    BY DEF Field!Expected, Field!OnRoute, Field!RoutesOf
  <2>2. JobHolds(j) /\ Field!Approved' = Field!Approved
    BY <1>3 DEF FieldIInv, Field!Approved
  <2>3. Field!AllApproved(j, Field!Approved)' <=> Field!AllApproved(j, Field!Approved)
    BY <2>1, <2>2 DEF Field!AllApproved
  <2>4. ASSUME NEW e \in Employees
        PROVE  Field!AllApproved(j, Field!Approved \union {<<j, e>>})'
               <=> Field!AllApproved(j, Field!Approved \union {<<j, e>>})
    BY <2>1, <2>2 DEF Field!AllApproved
  <2>5. QED BY <1>2, <2>2, <2>3, <2>4 DEF JobHolds
<1>4. QED BY <1>1, <1>3 DEF FieldIInv

LEMMA FieldNext == FieldIInv /\ [Field!Next]_(Field!vars) => FieldIInv'
<1> SUFFICES ASSUME FieldIInv, [Field!Next]_(Field!vars) PROVE FieldIInv'
  OBVIOUS
<1>1. ASSUME NEW e \in Employees, Field!Deactivate(e) PROVE FieldIInv'
  BY <1>1, FieldDeactivate
<1>2. ASSUME NEW j \in Jobs, NEW status \in Field!JobStatus, Field!UpdateWorkOrder(j, status, job[j].assigned)
      PROVE  FieldIInv'
  <2>1. job[j].assigned \in Employees \union {None}
    BY DEF FieldIInv, FieldTypeOK
  <2>2. QED BY <1>2, <2>1, FieldUpdateWorkOrder
<1>3. ASSUME NEW j \in Jobs, NEW e \in Employees \union {None}, Field!UpdateWorkOrder(j, job[j].status, e)
      PROVE  FieldIInv'
  <2>1. job[j].status \in Field!JobStatus
    BY DEF FieldIInv, FieldTypeOK
  <2>2. QED BY <1>3, <2>1, FieldUpdateWorkOrder
<1>4. ASSUME NEW r \in Routes, NEW members \in SUBSET Employees, NEW jobs \in SUBSET Jobs,
             Field!CreateRoute(r, members, jobs)
      PROVE  FieldIInv'
  <2>1. unaware' = {}
    BY <1>4 DEF Field!CreateRoute, Field!Tell, FieldIInv
  <2>2. QED BY <1>4, <2>1, FieldSaveRoute DEF Field!CreateRoute
<1>5. ASSUME NEW r \in Routes, NEW members \in SUBSET Employees, NEW jobs \in SUBSET Jobs,
             NEW status \in {"absent", "planned", "cancelled"}, Field!UpdateRoute(r, status, members, jobs),
             status # "absent"
      PROVE  FieldIInv'
  <2>1. unaware' = {}
    BY <1>5 DEF Field!UpdateRoute, Field!Tell, FieldIInv
  <2>2. QED BY <1>5, <2>1, FieldSaveRoute DEF Field!UpdateRoute
<1>6. ASSUME NEW r \in Routes, NEW members \in SUBSET Employees, NEW jobs \in SUBSET Jobs,
             Field!UpdateRoute(r, route[r].status, members, jobs)
      PROVE  FieldIInv'
  <2>1. route[r].status \in {"absent", "planned", "cancelled"} /\ route[r].status # "absent"
    BY <1>6 DEF FieldIInv, FieldTypeOK, Field!UpdateRoute
  <2>2. QED BY <1>5, <1>6, <2>1
<1>7. ASSUME NEW r \in Routes, NEW status \in {"planned", "cancelled"},
             Field!UpdateRoute(r, status, route[r].members, route[r].jobs)
      PROVE  FieldIInv'
  <2>1. route[r].members \in SUBSET Employees /\ route[r].jobs \in SUBSET Jobs
    BY DEF FieldIInv, FieldTypeOK
  <2>2. QED BY <1>5, <1>7, <2>1
<1>8. ASSUME NEW j \in Jobs, NEW e \in Employees, NEW action \in DOMAIN Field!From, Field!UpdateMyJob(j, e, action)
      PROVE  FieldIInv'
  BY <1>8, FieldUpdateMyJob
<1>9. ASSUME NEW f \in Jobs \X Employees,
             Field!Reject(f) \/ Field!ApproveCheck(f) \/ Field!ApproveCommit(f) \/ Field!ApproveAbort(f)
      PROVE  FieldIInv'
  <2>1. PICK j \in Jobs, e \in Employees : f = <<j, e>>
    OBVIOUS
  <2>2. QED BY <1>9, <2>1, FieldReject, FieldApproveCheck, FieldApproveCommit, FieldApproveAbort
<1>10. CASE UNCHANGED Field!vars
  <2>1. UNCHANGED <<active, job, route, report, review, unaware, disturbed>>
    BY <1>10 DEF Field!vars
  <2>2. FieldTypeOK'
    BY <2>1 DEF FieldIInv, FieldTypeOK
  <2>3. ASSUME NEW j \in Jobs, j \notin disturbed' PROVE JobHolds(j)'
    <3>1. Field!Expected(j)' = Field!Expected(j)
      BY <2>1 DEF Field!Expected, Field!OnRoute, Field!RoutesOf
    <3>2. JobHolds(j)
      BY <2>1, <2>3 DEF FieldIInv
    <3>3. QED BY <2>1, <3>1, <3>2, JobKept
  <2>4. QED BY <2>1, <2>2, <2>3 DEF FieldIInv
<1>11. QED
  BY <1>1, <1>2, <1>3, <1>4, <1>6, <1>7, <1>8, <1>9, <1>10 DEF Field!Next, Field!Report

\* A job nobody but its crew and its reviewers touched is complete exactly when every
\* expected member has an approved report, and whoever is on a route was told of it: one
\* review at a time knows whether it approves the last (reviewReport, notifyNewCrew).
THEOREM CrewAlwaysInStep == Field!Spec => []CrewInStep
<1>1. FieldIInv => CrewInStep
  <2> SUFFICES ASSUME FieldIInv PROVE CrewInStep
    OBVIOUS
  <2>1. Field!CompleteWhenApproved
    BY DEF FieldIInv, JobHolds, Field!CompleteWhenApproved
  <2>2. QED BY <2>1 DEF FieldIInv, CrewInStep, Field!CrewWasTold
<1>2. QED BY <1>1, FieldInit, FieldNext, PTL DEF Field!Spec

---------------------------------------------------------------------------
(* The portals as a whole. The parts share the employees, whom each lets    *)
(* the office switch on and off; a part that is not run has no routes yet.  *)

Switched == \E e \in Employees : active' = IF e \in active THEN active \ {e} ELSE active \union {e}

NoRoutesElsewhere == part # "field" => \A r \in Routes : route[r].members = {}

LEMMA FieldSwitches == Field!Next => UNCHANGED active \/ Switched
BY DEF Field!Next, Field!Report, Field!Deactivate, Field!UpdateWorkOrder, Field!CreateRoute, Field!UpdateRoute,
       Field!SaveRoute, Field!UpdateMyJob, Field!Reject, Field!ApproveCheck, Field!ApproveCommit,
       Field!ApproveAbort, Switched

LEMMA OffersSwitch == Next => UNCHANGED active \/ Switched
BY DEF Next, SetActive, CreateShift, ChangeShiftStatus, OfferShift, RespondRead, RespondEnd, Switched

LEMMA WeekSwitches == Week!Next => UNCHANGED active \/ Switched
BY DEF Week!Next, Week!SetActive, Week!SaveDelete, Week!SaveCommit, Week!SaveAbort, Switched

\* Each part runs by itself, whoever is switched by another.
THEOREM PartsRunAlone ==
  PortalsSpec => /\ Spec /\ Week!Spec /\ Field!Spec /\ Pictures!Spec /\ Service!Spec
<1>1. PortalsInit => Init /\ Week!Init /\ Field!Init /\ Pictures!Init /\ Service!Init /\ NoRoutesElsewhere
  BY DEF PortalsInit, Field!Init, NoRoutesElsewhere
<1>2. NoRoutesElsewhere /\ [PortalsNext]_portals => NoRoutesElsewhere'
  BY DEF PortalsNext, portals, field, NoRoutesElsewhere
<1>3. [PortalsNext]_portals => [Next]_vars
  <2>1. ASSUME UNCHANGED active \/ Switched, UNCHANGED offers PROVE [Next]_vars
    BY <2>1 DEF Next, SetActive, Switched, offers, vars
  <2>2. QED BY <2>1, FieldSwitches, WeekSwitches DEF PortalsNext, portals, vars, offers
<1>4. [PortalsNext]_portals => [Week!Next]_(Week!vars)
  <2>1. ASSUME UNCHANGED active \/ Switched, UNCHANGED week PROVE [Week!Next]_(Week!vars)
    BY <2>1 DEF Week!Next, Week!SetActive, Switched, week, Week!vars
  <2>2. QED BY <2>1, FieldSwitches, OffersSwitch DEF PortalsNext, portals, week, Week!vars
<1>5. NoRoutesElsewhere /\ [PortalsNext]_portals => [Field!Next]_(Field!vars)
  <2>1. ASSUME NoRoutesElsewhere, part # "field", UNCHANGED active \/ Switched, UNCHANGED field
        PROVE  [Field!Next]_(Field!vars)
    <3>1. CASE UNCHANGED active
      BY <2>1, <3>1 DEF field, Field!vars
    <3>2. ASSUME NEW e \in Employees, active' = IF e \in active THEN active \ {e} ELSE active \union {e}
          PROVE  Field!Deactivate(e)
      <4>1. {j \in Jobs : e \in Field!OnRoute(j)} = {}
        BY <2>1 DEF NoRoutesElsewhere, Field!OnRoute, Field!RoutesOf
      <4>2. Field!Disturb({j \in Jobs : e \in Field!OnRoute(j)})
        BY <2>1, <4>1 DEF Field!Disturb, field
      <4>3. QED BY <2>1, <3>2, <4>2 DEF Field!Deactivate, Field!crew, field
    <3>3. QED BY <2>1, <3>1, <3>2 DEF Switched, Field!Next
  <2>2. CASE part = "field"
    BY <2>2 DEF PortalsNext, portals, field, Field!vars
  <2>3. CASE part # "field"
    BY <2>1, <2>3, OffersSwitch, WeekSwitches DEF PortalsNext, portals
  <2>4. QED BY <2>2, <2>3
<1>6. [PortalsNext]_portals => [Pictures!Next]_(Pictures!vars)
  BY DEF PortalsNext, portals, pictures, Pictures!vars
<1>7. [PortalsNext]_portals => [Service!Next]_(Service!vars)
  BY DEF PortalsNext, portals, service, Service!vars
<1>8. QED
  BY <1>1, <1>2, <1>3, <1>4, <1>5, <1>6, <1>7, PTL
     DEF PortalsSpec, Spec, Week!Spec, Field!Spec, Pictures!Spec, Service!Spec

\* So what the parts promise holds of the portals as a whole.
THEOREM PortalsHold ==
  PortalsSpec => /\ []SavedIsThere /\ []CrewInStep
                 /\ ShiftsFit /\ SubmittedStands /\ InStep /\ PlacesAreFound /\ DateIsTold
BY ShiftsNeverOverbooked, SavedIsAlwaysThere, SubmittedAlwaysStands, AlwaysInStep, PlacesAlwaysFound,
   DateAlwaysTold, CrewAlwaysInStep, PartsRunAlone, PTL
=============================================================================
