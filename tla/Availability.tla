---------------------------- MODULE Availability ----------------------------
(***************************************************************************)
(* The weekly availability employees state. A save deletes what is there   *)
(* and inserts the new list in one transaction, without locking the        *)
(* employee, so two saves may overlap.                                     *)
(***************************************************************************)
EXTENDS FiniteSets

CONSTANTS
  Employees,
  Hours,      \* the slots of a week
  Saves,      \* requests that save an availability
  None

VARIABLES
  active,     \* the employees whose status is active
  hours,      \* employee_availability
  save,       \* the saves under way
  clean       \* history: the list last saved, unless another save overlapped

vars == <<active, hours, save, clean>>

NoSave == [of |-> None, seen |-> {}, list |-> {}, behind |-> {}, alone |-> FALSE]

Init ==
  /\ active = Employees
  /\ hours = [e \in Employees |-> {}]
  /\ save = [w \in Saves |-> NoSave]
  /\ clean = [e \in Employees |-> {}]

SetActive(e) ==
  /\ active' = IF e \in active THEN active \ {e} ELSE active \union {e}
  /\ UNCHANGED <<hours, save, clean>>

SavesOf(e) == {w \in Saves : save[w].of = e}

\* What the DELETE sees it deletes; rows another save is deleting make it wait.
SaveDelete(w, e, list) ==
  /\ save[w].of = None /\ e \in active
  /\ save' = [v \in Saves |->
       IF v = w THEN [of |-> e, seen |-> hours[e], list |-> list,
                      behind |-> {u \in SavesOf(e) : save[u].seen \intersect hours[e] # {}},
                      alone |-> SavesOf(e) = {}]
       ELSE IF v \in SavesOf(e) THEN [save[v] EXCEPT !.alone = FALSE] ELSE save[v]]
  /\ UNCHANGED <<active, hours, clean>>

\* A slot that is there already is a duplicate key; the save is undone.
Fails(w) == save[w].list \intersect (hours[save[w].of] \ save[w].seen) # {}

Ended(w) == [v \in Saves |-> IF v = w THEN NoSave ELSE [save[v] EXCEPT !.behind = @ \ {w}]]

SaveCommitAdding(w) ==
  LET e == save[w].of
  IN  /\ e # None /\ save[w].behind = {}
      /\ hours' = [hours EXCEPT ![e] = @ \union save[w].list]
      /\ clean' = [clean EXCEPT ![e] = IF save[w].alone THEN save[w].list ELSE None]
      /\ save' = Ended(w)
      /\ UNCHANGED active

SaveCommit(w) ==
  LET e == save[w].of
  IN  /\ e # None /\ save[w].behind = {} /\ ~Fails(w)
      /\ hours' = [hours EXCEPT ![e] = (@ \ save[w].seen) \union save[w].list]
      /\ clean' = [clean EXCEPT ![e] = IF save[w].alone THEN save[w].list ELSE None]
      /\ save' = Ended(w)
      /\ UNCHANGED active

SaveAbort(w) ==
  /\ save[w].of # None
  /\ save' = Ended(w)
  /\ UNCHANGED <<active, hours, clean>>

Next ==
  \/ \E e \in Employees : SetActive(e)
  \/ \E w \in Saves :
       \/ \E e \in Employees, list \in SUBSET Hours : SaveDelete(w, e, list)
       \/ SaveCommit(w)
       \/ SaveAbort(w)

Spec == Init /\ [][Next]_vars

\* What an employee saved is what is there, all of it and nothing else, unless two
\* saves of the same employee overlapped (saveAvailability).
SavedIsThere == \A e \in Employees : clean[e] # None => hours[e] = clean[e]
=============================================================================
