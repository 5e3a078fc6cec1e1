------------------------ MODULE RecurringTransactions ------------------------
(***************************************************************************)
(* A template and the transactions generated from it, one per date. A       *)
(* generation reserves its date by a row that is pending, makes and perhaps *)
(* posts the transaction, writes it into the row, and moves the template to *)
(* the next date, each in a transaction of its own and from the template as *)
(* it was read at first. Dates are numbered by occurrence.                  *)
(***************************************************************************)
EXTENDS Integers, FiniteSets

CONSTANTS
  Requests,    \* generations
  LastDate,    \* the template's end: dates begin with 1
  None

VARIABLES
  template,    \* recurring_bookkeeping_templates: next_run_date and enabled
  runs,        \* recurring_bookkeeping_runs: of a date, who holds or held it and how
  generation,  \* requests under way, and what they made or, for an edit, will write
  givenUp,     \* history: of a date, the generations whose pending row was deleted
  astray       \* history: the date was set by an edit, from an old row, or not at all

schedule == <<template, runs, generation, givenUp, astray>>

Dates == 1 .. LastDate
NotBegun == [pc |-> "none", date |-> None, tx |-> "none"]

Init ==
  /\ template = [next |-> 1, enabled |-> TRUE]
  /\ runs = [d \in Dates |-> None]
  /\ generation = [r \in Requests |-> NotBegun]
  /\ givenUp = [d \in Dates |-> 0]
  /\ astray = FALSE

Made(d) == {r \in Requests : generation[r].date = d /\ generation[r].tx # "none"}
NumberTaken(d) == \E r \in Made(d) : generation[r].tx = "posted"
HoldsPending(r) ==
  /\ generation[r].date # None
  /\ runs[generation[r].date] \in {[by |-> r, is |-> "pending"], [by |-> r, is |-> "old"]}

Ended(r) == [pc |-> "ended", date |-> generation[r].date, tx |-> generation[r].tx]
End(r) == generation' = [generation EXCEPT ![r] = Ended(r)]

\* loadForGeneration, and the date asked for or the next one
Load(r, date, post) ==
  /\ generation[r] = NotBegun /\ template.enabled /\ date \in Dates
  /\ generation' = [generation EXCEPT ![r] =
       [pc |-> "reserve", date |-> date, tx |-> "none", next |-> template.next, post |-> post]]
  /\ UNCHANGED <<template, runs, givenUp, astray>>

\* generateRecurringBookkeeping deletes a row pending for ten minutes, whether or not
\* its generation is still under way, and inserts its own if there is none.
Reserve(r) ==
  LET d == generation[r].date
      old == runs[d] # None /\ runs[d].is = "old" IN
  /\ generation[r].pc = "reserve"
  /\ IF runs[d] = None \/ old
     THEN /\ runs' = [runs EXCEPT ![d] = [by |-> r, is |-> "pending"]]
          /\ givenUp' = [givenUp EXCEPT ![d] = IF old THEN @ + 1 ELSE @]
          /\ generation' = [generation EXCEPT ![r].pc = "create"]
     ELSE /\ IF runs[d].is = "done" /\ generation[r].post
             THEN generation' = [generation EXCEPT ![r].pc = "replay"] ELSE End(r)
          /\ UNCHANGED <<runs, givenUp>>
  /\ UNCHANGED <<template, astray>>

\* A date generated before: its draft is posted if that was asked for.
Replay(r) ==
  LET made == runs[generation[r].date].by IN
  /\ generation[r].pc = "replay"
  /\ generation' = [generation EXCEPT
       ![r] = Ended(r),
       ![made].tx = IF NumberTaken(generation[r].date) THEN @ ELSE "posted"]
  /\ UNCHANGED <<template, runs, givenUp, astray>>

\* createBookkeepingTransaction commits a draft ...
Create(r) ==
  /\ generation[r].pc = "create"
  /\ generation' = [generation EXCEPT
       ![r].tx = "draft", ![r].pc = IF generation[r].post THEN "post" ELSE "record"]
  /\ UNCHANGED <<template, runs, givenUp, astray>>

\* ... and posts it under the number of its date, which another may have.
Post(r) ==
  /\ generation[r].pc = "post" /\ ~NumberTaken(generation[r].date)
  /\ generation' = [generation EXCEPT ![r].tx = "posted", ![r].pc = "record"]
  /\ UNCHANGED <<template, runs, givenUp, astray>>

\* The row of the date, whoever's it is by now, gets the transaction.
Record(r) ==
  LET d == generation[r].date IN
  /\ generation[r].pc = "record"
  /\ runs' = [runs EXCEPT ![d] = IF @ = None THEN None ELSE [by |-> r, is |-> "done"]]
  /\ IF d >= generation[r].next
     THEN generation' = [generation EXCEPT ![r].pc = "advance"] ELSE End(r)
  /\ UNCHANGED <<template, givenUp, astray>>

\* advanceDate, by id alone
Advance(r) ==
  LET next == generation[r].date + 1 IN
  /\ generation[r].pc = "advance"
  /\ template' = [next |-> next, enabled |-> next \in Dates]
  /\ astray' = (astray \/ generation[r].next # template.next)
  /\ End(r) /\ UNCHANGED <<runs, givenUp>>

FailAny(r) ==
  /\ generation[r].pc \notin {"none", "ended"}
  /\ IF generation[r].pc \in {"create", "post", "record", "advance"}
     THEN /\ runs' = [runs EXCEPT ![generation[r].date] = None]
          /\ givenUp' = [givenUp EXCEPT ![generation[r].date] =
               IF HoldsPending(r) THEN @ + 1 ELSE @]
     ELSE UNCHANGED <<runs, givenUp>>
  /\ astray' = (astray \/ generation[r].pc = "advance")
  /\ End(r) /\ UNCHANGED template

\* Something throws: the handler deletes the row if it is its own and still pending.
Fail(r) ==
  /\ generation[r].pc \notin {"none", "ended"}
  /\ IF HoldsPending(r)
     THEN /\ runs' = [runs EXCEPT ![generation[r].date] = None]
          /\ givenUp' = [givenUp EXCEPT ![generation[r].date] = @ + 1]
     ELSE UNCHANGED <<runs, givenUp>>
  /\ astray' = (astray \/ generation[r].pc = "advance")
  /\ End(r) /\ UNCHANGED template

\* The server stops: the row stays.
Stop(r) ==
  /\ generation[r].pc \notin {"none", "ended"}
  /\ astray' = (astray \/ generation[r].pc = "advance")
  /\ End(r) /\ UNCHANGED <<template, runs, givenUp>>

\* Ten minutes pass.
Expire(d) ==
  /\ runs[d] # None /\ runs[d].is = "pending"
  /\ runs' = [runs EXCEPT ![d].is = "old"]
  /\ UNCHANGED <<template, generation, givenUp, astray>>

\* updateRecurringBookkeeping reads the template, completes what it was given ...
EditRead(r, given) ==
  /\ generation[r] = NotBegun
  /\ generation' = [generation EXCEPT ![r] =
       [pc |-> "edit", date |-> None, tx |-> "none",
        row |-> [field \in DOMAIN template |->
                   IF field \in DOMAIN given THEN given[field] ELSE template[field]]]]
  /\ UNCHANGED <<template, runs, givenUp, astray>>

\* ... and writes all of it.
EditWrite(r) ==
  /\ generation[r].pc = "edit"
  /\ template' = generation[r].row
  /\ astray' = (astray \/ generation[r].row.next # template.next)
  /\ End(r) /\ UNCHANGED <<runs, givenUp>>

Next ==
  \/ \E r \in Requests :
       \/ \E date \in Dates \union {template.next}, post \in BOOLEAN : Load(r, date, post)
       \/ Reserve(r) \/ Replay(r) \/ Create(r) \/ Post(r) \/ Record(r) \/ Advance(r)
       \/ Fail(r) \/ Stop(r)
       \/ \E given \in [{"next"} -> Dates] \union [{"enabled"} -> BOOLEAN] : EditRead(r, given)
       \/ EditWrite(r)
  \/ \E d \in Dates : Expire(d)

Spec == Init /\ [][Next]_schedule

---------------------------------------------------------------------------
(* Properties.                                                              *)

\* A date has one transaction, and one more for each generation whose reservation was
\* deleted because it failed or because ten minutes had passed
\* (generateRecurringBookkeeping).
MadeOnce == \A d \in Dates : Cardinality(Made(d)) <= 1 + givenUp[d]

\* The next date of a template that is enabled has not been generated, save by a
\* generation that is just about to move the template on, unless the date was set by
\* an edit or from an old row, or a generation ended before it moved the template
\* (generateRecurringBookkeeping): generateDueRecurringBookkeeping would answer with
\* the old transaction for ever.
DueIsOpen ==
  \/ astray \/ ~template.enabled \/ template.next \notin Dates
  \/ \A r \in Requests :
       runs[template.next] = [by |-> r, is |-> "done"] => generation[r].pc = "advance"
=============================================================================
