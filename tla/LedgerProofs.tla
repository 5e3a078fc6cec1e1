--------------------------- MODULE LedgerProofs ---------------------------
(***************************************************************************)
(* For any number of requests, entries, periods and collections of lines:  *)
(* the entries of the book balance, a reversal mirrors what it reverses,   *)
(* and the journal entries implement the append-only book.                 *)
(*                                                                         *)
(* Then, what stands around the journal: the records that are posted as    *)
(* its entries (LedgerRecords), and the keys of the requests that are made *)
(* again (Idempotency); and last the composition, MCLedger.                *)
(***************************************************************************)
EXTENDS MCLedger, TLAPS

\* The inductive invariant. That a reversal mirrors the entry it reverses
\* rests on what the request that made it had read, so the requests are part
\* of it; that what it had read does not change rests on the line trigger.
IInv ==
  /\ TypeOK
  /\ PostedEntriesBalance
  /\ ReversalsMirror
  /\ ReversedHaveReversal
  /\ RequestsHold

\* An entry without lines is not posted: the posting trigger wants two.
LEMMA NoLinesNotBalanced == ~ Balanced(NoLines)
BY DEF Balanced, Book!Balanced, NoLines

\* At the start there is no entry and no request.
LEMMA InitIInv == Init => IInv
BY NoneAssumption
   DEF Init, IInv, TypeOK, Entry, NoEntry, Request, Idle, PeriodStatus, EntryStatus,
       PostedEntriesBalance, ReversalsMirror, ReversedHaveReversal, RequestsHold,
       InBook

\* Every step keeps the types: the lines of a reversal are the mirror of lines
\* that a request submitted.
LEMMA NextTypeOK == IInv /\ [Next]_vars => TypeOK'
<1> SUFFICES ASSUME IInv, [Next]_vars PROVE TypeOK'
  OBVIOUS
<1> USE DEF TypeOK, Entry, Request, EntryStatus, PeriodStatus
<1>1. ASSUME NEW n \in Numbers, NEW p \in Periods, NEW lines \in LineSets,
             CreateJournal(n, p, lines)
      PROVE  TypeOK'
  BY <1>1 DEF CreateJournal, Draft, IInv
<1>2. ASSUME NEW n \in Numbers, VoidJournal(n) PROVE TypeOK'
  BY <1>2 DEF VoidJournal, IInv
<1>7. ASSUME NEW n \in Numbers, NEW p \in Periods, NEW lines \in LineSets,
             PostAtomically(n, p, lines)
      PROVE  TypeOK'
  BY <1>7 DEF PostAtomically, Draft, IInv
<1>3. ASSUME NEW c \in Clients, ClientStep(c) PROVE TypeOK'
  <2>1. ASSUME NEW n \in Numbers, UpdateRead(c, n) PROVE TypeOK'
    BY <2>1 DEF UpdateRead, Reading, Idle, IInv
  <2>2. ASSUME NEW n \in Numbers, PostRead(c, n) PROVE TypeOK'
    BY <2>2 DEF PostRead, Reading, Idle, IInv
  <2>3. ASSUME NEW n \in Numbers, ReverseRead(c, n) PROVE TypeOK'
    BY <2>3 DEF ReverseRead, Reading, Idle, IInv
  <2>4. ASSUME NEW p \in Periods, NEW lines \in LineSets \union {NoLines},
               UpdateWrite(c, p, lines)
        PROVE  TypeOK'
    <3>1. request[c].entry \in Numbers
      BY <2>4 DEF UpdateWrite, IInv, RequestsHold
    <3>2. journals' \in [Numbers -> Entry]
      BY <2>4, <3>1 DEF UpdateWrite, IInv
    <3>3. request' \in [Clients -> Request]
      BY <2>4 DEF UpdateWrite, Idle, IInv
    <3> QED
      BY <2>4, <3>2, <3>3 DEF UpdateWrite, IInv
  <2>5. ASSUME PostWrite(c) PROVE TypeOK'
    <3>1. request[c].entry \in Numbers
      BY <2>5 DEF PostWrite, IInv, RequestsHold
    <3>2. journals' \in [Numbers -> Entry]
      BY <2>5, <3>1 DEF PostWrite, IInv
    <3>3. request' \in [Clients -> Request]
      BY <2>5 DEF PostWrite, Idle, IInv
    <3> QED
      BY <2>5, <3>2, <3>3 DEF PostWrite, IInv
  <2>6. ASSUME NEW m \in Numbers, NEW p \in Periods, ReverseInsert(c, m, p)
        PROVE  TypeOK'
    <3>1. request' \in [Clients -> Request]
      <4> DEFINE r == [request[c] EXCEPT !.op = "reversing", !.number = m, !.period = p]
      <4>1. request[c] \in Request
        BY DEF IInv
      <4>2. r \in Request
        BY <4>1
      <4>3. request' = [request EXCEPT ![c] = r]
        BY <2>6 DEF ReverseInsert, IInv
      <4> QED
        BY <4>2, <4>3 DEF IInv
    <3> QED
      BY <2>6, <3>1 DEF ReverseInsert, IInv
  <2>7. ASSUME ReverseCommit(c) PROVE TypeOK'
    <3>1. /\ request[c].lines \in LineSets
          /\ request[c].number \in Numbers
          /\ request[c].period \in Periods
          /\ request[c].entry \in Numbers
      BY <2>7, NoLinesNotBalanced
         DEF ReverseCommit, IInv, RequestsHold, PostedEntriesBalance
    <3>2. ReversalOf(request[c]) \in Entry
      BY <3>1, LinesAssumption DEF ReversalOf
    <3> QED
      BY <2>7, <3>1, <3>2 DEF ReverseCommit, Idle, IInv
  <2>8. ASSUME Abandon(c) PROVE TypeOK'
    BY <2>8 DEF Abandon, Idle, IInv
  <2> QED
    BY <1>3, <2>1, <2>2, <2>3, <2>4, <2>5, <2>6, <2>7, <2>8 DEF ClientStep
<1>4. ASSUME NEW p \in Periods, ReopenPeriod(p) PROVE TypeOK'
  BY <1>4 DEF ReopenPeriod, IInv
<1>5. ASSUME NEW p \in Periods, NEW s \in PeriodStatus, ClosePeriod(p, s)
      PROVE  TypeOK'
  BY <1>5 DEF ClosePeriod, IInv
<1>6. CASE UNCHANGED vars
  BY <1>6 DEF vars, IInv
<1> QED
  BY <1>1, <1>2, <1>3, <1>4, <1>5, <1>6, <1>7 DEF Next

\* What every step leaves alone: an entry stays in the book with its lines and
\* its link, and a row that exists does not go away. This is the fact on which
\* a request may rely between its read and its write.
LEMMA NextKeepsBook ==
  ASSUME IInv, [Next]_vars, NEW n \in Numbers
  PROVE  /\ InBook(n) => /\ InBook(n)'
                          /\ journals'[n].lines = journals[n].lines
                          /\ journals'[n].reverses = journals[n].reverses
         /\ journals[n].status # "absent" => journals'[n].status # "absent"
<1> DEFINE Kept ==
             /\ InBook(n) => /\ InBook(n)'
                             /\ journals'[n].lines = journals[n].lines
                             /\ journals'[n].reverses = journals[n].reverses
             /\ journals[n].status # "absent" => journals'[n].status # "absent"
<1> SUFFICES Kept
  OBVIOUS
<1>0. journals \in [Numbers -> Entry] /\ journals[n] \in Entry
  BY DEF IInv, TypeOK
<1> USE DEF InBook
<1>1. ASSUME NEW m \in Numbers, NEW p \in Periods, NEW lines \in LineSets,
             CreateJournal(m, p, lines)
      PROVE  Kept
  BY <1>0, <1>1 DEF CreateJournal, Free
<1>7. ASSUME NEW m \in Numbers, NEW p \in Periods, NEW lines \in LineSets,
             PostAtomically(m, p, lines)
      PROVE  Kept
  BY <1>0, <1>7 DEF PostAtomically, Free, Draft
<1>2. ASSUME NEW m \in Numbers, VoidJournal(m) PROVE Kept
  BY <1>0, <1>2 DEF VoidJournal, Entry
<1>3. ASSUME NEW c \in Clients, ClientStep(c) PROVE Kept
  <2>1. CASE UNCHANGED journals
    BY <2>1
  <2>2. ASSUME NEW p \in Periods, NEW lines \in LineSets \union {NoLines},
               UpdateWrite(c, p, lines)
        PROVE  Kept
    BY <1>0, <2>2 DEF UpdateWrite, LinesAllowed, Entry
  <2>3. ASSUME PostWrite(c) PROVE Kept
    BY <1>0, <2>3 DEF PostWrite, Entry
  <2>4. ASSUME ReverseCommit(c) PROVE Kept
    <3>1. journals[request[c].number].status = "absent"
      BY <2>4 DEF ReverseCommit, IInv, RequestsHold
    <3>2. n # request[c].number =>
            journals'[n] = [journals[n] EXCEPT !.status =
                              IF n = request[c].entry THEN "reversed" ELSE @]
      BY <1>0, <2>4 DEF ReverseCommit, Entry
    <3> QED
      BY <1>0, <2>4, <3>1, <3>2 DEF ReverseCommit, Entry, ReversalOf
  <2> QED
    BY <1>3, <2>1, <2>2, <2>3, <2>4
       DEF ClientStep, UpdateRead, PostRead, ReverseRead, Reading, ReverseInsert, Abandon
<1>4. CASE UNCHANGED journals
  BY <1>4
<1>5. ASSUME NEW p \in Periods,
             ReopenPeriod(p) \/ \E s \in PeriodStatus : ClosePeriod(p, s)
      PROVE  Kept
  BY <1>4, <1>5 DEF ReopenPeriod, ClosePeriod
<1>6. CASE UNCHANGED vars
  BY <1>4, <1>6 DEF vars
<1> HIDE DEF Kept
<1> QED
  BY <1>1, <1>2, <1>3, <1>5, <1>6, <1>7 DEF Next

\* Only the commit of a reversal links entries or marks one reversed, and what
\* any other step enters in the book went through the posting trigger.
LEMMA NextWithoutReversal ==
  ASSUME IInv, [Next]_vars, \A c \in Clients : ~ ReverseCommit(c),
         NEW n \in Numbers
  PROVE  /\ journals'[n].reverses = journals[n].reverses
         /\ journals'[n].status = "reversed" => journals[n].status = "reversed"
         /\ InBook(n)' /\ ~ InBook(n) => Balanced(journals'[n].lines)
<1> DEFINE Other ==
             /\ journals'[n].reverses = journals[n].reverses
             /\ journals'[n].status = "reversed" => journals[n].status = "reversed"
             /\ InBook(n)' /\ ~ InBook(n) => Balanced(journals'[n].lines)
<1> SUFFICES Other
  OBVIOUS
<1>0. journals \in [Numbers -> Entry] /\ journals[n] \in Entry
  BY DEF IInv, TypeOK
<1> USE DEF InBook
<1>1. ASSUME NEW m \in Numbers, NEW p \in Periods, NEW lines \in LineSets,
             CreateJournal(m, p, lines)
      PROVE  Other
  <2>1. journals[m].reverses = None
    BY <1>1 DEF CreateJournal, Free, IInv, ReversalsMirror
  <2> QED
    BY <1>0, <1>1, <2>1 DEF CreateJournal, Draft
<1>7. ASSUME NEW m \in Numbers, NEW p \in Periods, NEW lines \in LineSets,
             PostAtomically(m, p, lines)
      PROVE  Other
  <2>1. journals[m].reverses = None
    BY <1>7 DEF PostAtomically, Free, IInv, ReversalsMirror
  <2>2. [Draft(p, lines) EXCEPT !.status = "posted"] =
          [status |-> "posted", lines |-> lines, period |-> p, reverses |-> None]
    BY DEF Draft
  <2>3. n = m => journals'[n].lines = lines /\ Balanced(lines)
    BY <1>0, <1>7, <2>2 DEF PostAtomically, PostingAllowed
  <2> QED
    BY <1>0, <1>7, <2>1, <2>2, <2>3 DEF PostAtomically
<1>2. ASSUME NEW m \in Numbers, VoidJournal(m) PROVE Other
  BY <1>0, <1>2 DEF VoidJournal, Entry
<1>3. CASE UNCHANGED journals
  BY <1>3
<1>4. ASSUME NEW c \in Clients, ClientStep(c) PROVE Other
  <2>1. ASSUME NEW p \in Periods, NEW lines \in LineSets \union {NoLines},
               UpdateWrite(c, p, lines)
        PROVE  Other
    BY <1>0, <2>1 DEF UpdateWrite, Entry
  <2>2. ASSUME PostWrite(c) PROVE Other
    BY <1>0, <2>2 DEF PostWrite, PostingAllowed, Entry
  <2> HIDE DEF Other
  <2> QED
    BY <1>3, <1>4, <2>1, <2>2
       DEF ClientStep, UpdateRead, PostRead, ReverseRead, Reading, ReverseInsert, Abandon
<1>5. ASSUME NEW p \in Periods,
             ReopenPeriod(p) \/ \E s \in PeriodStatus : ClosePeriod(p, s)
      PROVE  Other
  BY <1>3, <1>5 DEF ReopenPeriod, ClosePeriod
<1>6. CASE UNCHANGED vars
  BY <1>3, <1>6 DEF vars
<1> HIDE DEF Other
<1> QED
  BY <1>1, <1>2, <1>4, <1>5, <1>6, <1>7 DEF Next

\* The commit of a reversal: the entry it reverses is in the book with the lines
\* it read, its own number is free, and no other row changes.
LEMMA ReversalCommits ==
  ASSUME IInv, NEW c \in Clients, ReverseCommit(c), NEW n \in Numbers
  PROVE  /\ request[c].entry \in Numbers /\ request[c].number \in Numbers
         /\ InBook(request[c].entry) /\ ~ InBook(request[c].number)
         /\ Balanced(Mirror(journals[request[c].entry].lines))
         /\ n = request[c].number =>
              /\ journals'[n].status = "posted"
              /\ journals'[n].lines = Mirror(journals[request[c].entry].lines)
              /\ journals'[n].reverses = request[c].entry
         /\ n = request[c].entry =>
              journals'[n].status = "reversed" /\ journals'[n].lines = journals[n].lines
         /\ n \notin {request[c].entry, request[c].number} => journals'[n] = journals[n]
         /\ n # request[c].number => journals'[n].reverses = journals[n].reverses
<1>1. journals \in [Numbers -> Entry] /\ journals[n] \in Entry
  BY DEF IInv, TypeOK
<1>2. /\ request[c].entry \in Numbers /\ request[c].number \in Numbers
      /\ InBook(request[c].entry) /\ ~ InBook(request[c].number)
      /\ request[c].lines = journals[request[c].entry].lines
      /\ Balanced(Mirror(request[c].lines))
  BY DEF IInv, RequestsHold, ReverseCommit, InBook
<1>3. request[c].entry # request[c].number
  BY <1>2
<1>4. journals' = [journals EXCEPT ![request[c].entry].status = "reversed",
                                   ![request[c].number] = ReversalOf(request[c])]
  BY DEF ReverseCommit
<1>5. n = request[c].number => journals'[n] = ReversalOf(request[c])
  BY <1>1, <1>2, <1>4
<1>6. n = request[c].entry => journals'[n] = [journals[n] EXCEPT !.status = "reversed"]
  BY <1>1, <1>2, <1>3, <1>4
<1>7. n \notin {request[c].entry, request[c].number} => journals'[n] = journals[n]
  BY <1>1, <1>4
<1> QED
  BY <1>1, <1>2, <1>3, <1>5, <1>6, <1>7 DEF ReversalOf, Entry

\* An entry that a step puts in the book went through the posting trigger or is
\* a reversal that did; the lines of the others are kept.
LEMMA NextPostedEntriesBalance == IInv /\ [Next]_vars => PostedEntriesBalance'
<1> SUFFICES ASSUME IInv, [Next]_vars, NEW n \in Numbers, InBook(n)'
             PROVE  Balanced(journals'[n].lines)
  BY DEF PostedEntriesBalance, InBook, Balanced, Book!Balanced, Book!NetCents
<1>1. CASE InBook(n)
  BY <1>1, NextKeepsBook DEF IInv, PostedEntriesBalance
<1>2. CASE ~ InBook(n) /\ \A c \in Clients : ~ ReverseCommit(c)
  BY <1>2, NextWithoutReversal
<1>3. ASSUME NEW c \in Clients, ReverseCommit(c), ~ InBook(n)
      PROVE  Balanced(journals'[n].lines)
  <2>1. InBook(request[c].entry) /\ (n = request[c].number \/ UNCHANGED journals[n])
    BY <1>3, ReversalCommits
  <2>2. n = request[c].number
    BY <1>3, <2>1 DEF InBook
  <2> QED
    BY <1>3, <2>2, ReversalCommits
<1> QED
  BY <1>1, <1>2, <1>3

\* An entry is marked reversed in the step that commits its reversal, and the
\* reversal stays.
LEMMA NextReversedHaveReversal == IInv /\ [Next]_vars => ReversedHaveReversal'
<1> SUFFICES ASSUME IInv, [Next]_vars, NEW n \in Numbers,
                    journals'[n].status = "reversed"
             PROVE  \E m \in Numbers : journals'[m].reverses = n
  BY DEF ReversedHaveReversal
<1>1. CASE journals[n].status = "reversed"
  <2>1. PICK m \in Numbers : journals[m].reverses = n
    BY <1>1 DEF IInv, ReversedHaveReversal
  <2>2. InBook(m)
    BY <2>1, NoneAssumption DEF IInv, ReversalsMirror
  <2> QED
    BY <2>1, <2>2, NextKeepsBook
<1>2. CASE journals[n].status # "reversed" /\ \A c \in Clients : ~ ReverseCommit(c)
  BY <1>2, NextWithoutReversal
<1>3. ASSUME NEW c \in Clients, ReverseCommit(c), journals[n].status # "reversed"
      PROVE  \E m \in Numbers : journals'[m].reverses = n
  <2>1. n = request[c].entry
    BY <1>3, ReversalCommits
  <2> QED
    BY <1>3, <2>1, ReversalCommits
<1> QED
  BY <1>1, <1>2, <1>3

\* A reversal is linked in the step that commits it, to an entry whose lines are
\* those it mirrored, and both keep their lines.
LEMMA NextReversalsMirror == IInv /\ [Next]_vars => ReversalsMirror'
<1> DEFINE Reversal(n) ==
             /\ InBook(n)
             /\ InBook(journals[n].reverses)
             /\ journals[n].lines = Mirror(journals[journals[n].reverses].lines)
<1> SUFFICES ASSUME IInv, [Next]_vars, NEW n \in Numbers,
                    journals'[n].reverses # None
             PROVE  Reversal(n)'
  BY DEF ReversalsMirror
<1>0. ASSUME NEW o \in Numbers, journals'[n].reverses = o, InBook(o)', InBook(n)',
             journals'[n].lines = Mirror(journals[o].lines),
             journals'[o].lines = journals[o].lines
      PROVE  Reversal(n)'
  BY <1>0 DEF InBook, Mirror, Book!Mirror
<1> HIDE DEF Reversal
<1>1. CASE journals[n].reverses # None
  <2>1. /\ journals[n].reverses \in Numbers
        /\ InBook(n) /\ InBook(journals[n].reverses)
        /\ journals[n].lines = Mirror(journals[journals[n].reverses].lines)
    BY <1>1 DEF IInv, TypeOK, Entry, ReversalsMirror
  <2>2. /\ journals'[n].reverses = journals[n].reverses
        /\ InBook(n)' /\ journals'[n].lines = journals[n].lines
    BY <2>1, NextKeepsBook
  <2>3. ASSUME NEW o \in Numbers, o = journals[n].reverses
        PROVE  InBook(o)' /\ journals'[o].lines = journals[o].lines
    BY <2>1, <2>3, NextKeepsBook
  <2> QED
    BY <1>0, <2>1, <2>2, <2>3
<1>2. CASE journals[n].reverses = None /\ \A c \in Clients : ~ ReverseCommit(c)
  BY <1>2, NextWithoutReversal
<1>3. ASSUME NEW c \in Clients, ReverseCommit(c), journals[n].reverses = None
      PROVE  Reversal(n)'
  <2>1. n = request[c].number
    BY <1>3, ReversalCommits
  <2>2. ASSUME NEW o \in Numbers, o = request[c].entry
        PROVE  /\ InBook(o)' /\ journals'[o].lines = journals[o].lines
               /\ InBook(n)' /\ journals'[n].reverses = o
               /\ journals'[n].lines = Mirror(journals[o].lines)
    BY <1>3, <2>1, <2>2, ReversalCommits DEF InBook
  <2>3. request[c].entry \in Numbers
    BY <1>3, ReversalCommits
  <2> QED
    BY <1>0, <2>2, <2>3
<1> QED
  BY <1>1, <1>2, <1>3

\* The number a reversal has inserted is taken by nobody else before it commits:
\* the unique index makes the others wait.
LEMMA NextKeepsNumbers ==
  ASSUME IInv, [Next]_vars, NEW d \in Clients, request[d].op = "reversing",
         ~ ReverseCommit(d)
  PROVE  journals'[request[d].number].status = "absent"
<1> DEFINE m == request[d].number
           StaysFree == journals'[m].status = "absent"
<1> SUFFICES StaysFree
  OBVIOUS
<1>0. /\ journals \in [Numbers -> Entry] /\ m \in Numbers
      /\ journals[m].status = "absent"
  BY DEF IInv, TypeOK, RequestsHold
<1>1. ASSUME NEW n \in Numbers, NEW p \in Periods, NEW lines \in LineSets,
             CreateJournal(n, p, lines)
      PROVE  StaysFree
  BY <1>0, <1>1 DEF CreateJournal, Free
<1>7. ASSUME NEW n \in Numbers, NEW p \in Periods, NEW lines \in LineSets,
             PostAtomically(n, p, lines)
      PROVE  StaysFree
  BY <1>0, <1>7 DEF PostAtomically, Free
<1>2. ASSUME NEW n \in Numbers, VoidJournal(n) PROVE StaysFree
  BY <1>0, <1>2 DEF VoidJournal
<1>3. CASE UNCHANGED journals
  BY <1>0, <1>3
<1>4. ASSUME NEW c \in Clients, ClientStep(c) PROVE StaysFree
  <2>0. request[c].op # "idle" =>
          request[c].entry \in Numbers /\ request[c].entry # m
    BY <1>0 DEF IInv, RequestsHold
  <2>1. ASSUME NEW p \in Periods, NEW lines \in LineSets \union {NoLines},
               UpdateWrite(c, p, lines)
        PROVE  StaysFree
    BY <1>0, <2>0, <2>1 DEF UpdateWrite
  <2>2. ASSUME PostWrite(c) PROVE StaysFree
    BY <1>0, <2>0, <2>2 DEF PostWrite
  <2>3. ASSUME ReverseCommit(c) PROVE StaysFree
    <3>1. c # d
      BY <2>3
    <3>2. request[c].number # m
      BY <2>3, <3>1 DEF ReverseCommit, IInv, RequestsHold
    <3> QED
      BY <1>0, <2>0, <2>3, <3>2 DEF ReverseCommit
  <2> HIDE DEF StaysFree
  <2> QED
    BY <1>3, <1>4, <2>1, <2>2, <2>3
       DEF ClientStep, UpdateRead, PostRead, ReverseRead, Reading, ReverseInsert, Abandon
<1>5. ASSUME NEW p \in Periods,
             ReopenPeriod(p) \/ \E s \in PeriodStatus : ClosePeriod(p, s)
      PROVE  StaysFree
  BY <1>3, <1>5 DEF ReopenPeriod, ClosePeriod
<1>6. CASE UNCHANGED vars
  BY <1>3, <1>6 DEF vars
<1> HIDE DEF StaysFree
<1> QED
  BY <1>1, <1>2, <1>4, <1>5, <1>6, <1>7 DEF Next

\* What each step does to the requests: it leaves them alone, or one of them
\* ends, starts from what it reads, or inserts its reversal.
LEMMA NextRequests ==
  ASSUME IInv, [Next]_vars
  PROVE  \/ UNCHANGED request
         \/ \E c \in Clients : request' = [request EXCEPT ![c] = Idle]
         \/ \E c \in Clients, n \in Numbers, op \in {"update", "post"} :
              UNCHANGED journals /\ journals[n].status # "absent"
              /\ request' = [request EXCEPT ![c] =
                   [Idle EXCEPT !.op = op, !.entry = n, !.lines = NoLines]]
         \/ \E c \in Clients, n \in Numbers : ReverseRead(c, n)
         \/ \E c \in Clients, m \in Numbers, p \in Periods : ReverseInsert(c, m, p)
<1>1. ASSUME NEW c \in Clients, NEW n \in Numbers, UpdateRead(c, n) \/ PostRead(c, n)
      PROVE  \E op \in {"update", "post"} :
               UNCHANGED journals /\ journals[n].status # "absent"
               /\ request' = [request EXCEPT ![c] =
                    [Idle EXCEPT !.op = op, !.entry = n, !.lines = NoLines]]
  BY <1>1 DEF UpdateRead, PostRead, Reading
<1>2. ASSUME NEW c \in Clients,
             \/ \E p \in Periods, lines \in LineSets \union {NoLines} :
                  UpdateWrite(c, p, lines)
             \/ PostWrite(c) \/ ReverseCommit(c) \/ Abandon(c)
      PROVE  request' = [request EXCEPT ![c] = Idle]
  BY <1>2 DEF UpdateWrite, PostWrite, ReverseCommit, Abandon
<1>3. (\E n \in Numbers, p \in Periods, lines \in LineSets :
         CreateJournal(n, p, lines) \/ PostAtomically(n, p, lines))
      \/ (\E n \in Numbers : VoidJournal(n))
      \/ (\E p \in Periods : ReopenPeriod(p) \/ \E s \in PeriodStatus : ClosePeriod(p, s))
      \/ UNCHANGED vars
        => UNCHANGED request
  BY DEF CreateJournal, PostAtomically, VoidJournal, ReopenPeriod, ClosePeriod, vars
<1> QED
  BY <1>1, <1>2, <1>3 DEF Next, ClientStep

\* A request that a step leaves alone keeps what it holds.
LEMMA UntouchedRequestHolds ==
  ASSUME IInv, [Next]_vars, NEW d \in Clients, NEW r, r = request[d], r = request'[d]
  PROVE  /\ r.op # "idle" => r.entry \in Numbers /\ journals'[r.entry].status # "absent"
         /\ r.op \in {"reverse", "reversing"} =>
              /\ journals'[r.entry].status \in {"posted", "reversed"}
              /\ r.lines = journals'[r.entry].lines
         /\ r.op = "reversing" =>
              /\ r.number \in Numbers
              /\ r.period \in Periods
              /\ journals'[r.number].status = "absent"
              /\ Balanced(Mirror(r.lines))
<1>0. r \in Request
  BY DEF IInv, TypeOK
<1>1. r.op # "idle" => r.entry \in Numbers /\ journals'[r.entry].status # "absent"
  <2>1. r.op # "idle" => r.entry \in Numbers /\ journals[r.entry].status # "absent"
    BY DEF IInv, RequestsHold
  <2> QED
    BY <2>1, NextKeepsBook
<1>2. r.op \in {"reverse", "reversing"} =>
        /\ journals'[r.entry].status \in {"posted", "reversed"}
        /\ r.lines = journals'[r.entry].lines
  <2>1. \A n \in Numbers : journals[n].status \in {"posted", "reversed"} =>
          /\ journals'[n].status \in {"posted", "reversed"}
          /\ journals'[n].lines = journals[n].lines
    BY NextKeepsBook DEF InBook
  <2>2. r.op \in {"reverse", "reversing"} =>
          /\ r.entry \in Numbers
          /\ journals[r.entry].status \in {"posted", "reversed"}
          /\ r.lines = journals[r.entry].lines
    BY DEF IInv, RequestsHold, InBook
  <2> QED
    BY <2>1, <2>2
<1>3. r.op = "reversing" =>
        /\ r.number \in Numbers
        /\ r.period \in Periods
        /\ journals'[r.number].status = "absent"
        /\ Balanced(Mirror(r.lines))
  <2>1. r.op = "reversing" => ~ ReverseCommit(d)
    BY DEF ReverseCommit, Idle, IInv, TypeOK
  <2> QED
    BY <2>1, NextKeepsNumbers DEF IInv, RequestsHold
<1> QED
  BY <1>1, <1>2, <1>3

\* What a request holds after a step: nothing if it ended, what it has just read,
\* or what it held before.
LEMMA NextRequestsHold == IInv /\ [Next]_vars => RequestsHold'
<1> DEFINE Holds(r) ==
      /\ r.op # "idle" => r.entry \in Numbers /\ journals'[r.entry].status # "absent"
      /\ r.op \in {"reverse", "reversing"} =>
           /\ journals'[r.entry].status \in {"posted", "reversed"}
           /\ r.lines = journals'[r.entry].lines
      /\ r.op = "reversing" =>
           /\ r.number \in Numbers
           /\ r.period \in Periods
           /\ journals'[r.number].status = "absent"
           /\ Balanced(Mirror(r.lines))
<1> SUFFICES ASSUME IInv, [Next]_vars
             PROVE  /\ \A d \in Clients : Holds(request'[d])
                    /\ \A c, d \in Clients :
                         /\ request'[c].op = "reversing"
                         /\ request'[d].number = request'[c].number
                         => c = d
  BY DEF RequestsHold, InBook, Balanced, Mirror, Book!Balanced, Book!Mirror, Book!NetCents
<1>0. request \in [Clients -> Request] /\ RequestsHold
  BY DEF IInv, TypeOK
<1>1. ASSUME NEW d \in Clients, request'[d] = request[d] PROVE Holds(request'[d])
  BY <1>1, UntouchedRequestHolds
<1>2. Holds(Idle)
  BY DEF Idle
<1> HIDE DEF Holds
<1>3. CASE UNCHANGED request
  BY <1>0, <1>1, <1>3 DEF RequestsHold
<1>4. ASSUME NEW c \in Clients, request' = [request EXCEPT ![c] = Idle]
      PROVE  /\ \A d \in Clients : Holds(request'[d])
             /\ \A e, d \in Clients :
                  /\ request'[e].op = "reversing"
                  /\ request'[d].number = request'[e].number
                  => e = d
  BY <1>0, <1>1, <1>2, <1>4, NoneAssumption DEF RequestsHold, Idle
<1>5. ASSUME NEW c \in Clients, NEW n \in Numbers, NEW op \in {"update", "post"},
             UNCHANGED journals, journals[n].status # "absent",
             request' = [request EXCEPT ![c] =
               [Idle EXCEPT !.op = op, !.entry = n, !.lines = NoLines]]
      PROVE  /\ \A d \in Clients : Holds(request'[d])
             /\ \A e, d \in Clients :
                  /\ request'[e].op = "reversing"
                  /\ request'[d].number = request'[e].number
                  => e = d
  <2>1. Holds(request'[c])
    BY <1>0, <1>5 DEF Holds, Idle
  <2> QED
    BY <1>0, <1>1, <1>5, <2>1, NoneAssumption DEF RequestsHold, Idle
<1>6. ASSUME NEW c \in Clients, NEW n \in Numbers, ReverseRead(c, n)
      PROVE  /\ \A d \in Clients : Holds(request'[d])
             /\ \A e, d \in Clients :
                  /\ request'[e].op = "reversing"
                  /\ request'[d].number = request'[e].number
                  => e = d
  <2>1. Holds(request'[c])
    BY <1>0, <1>6 DEF Holds, ReverseRead, Reading, Idle
  <2> QED
    BY <1>0, <1>1, <1>6, <2>1, NoneAssumption DEF RequestsHold, ReverseRead, Reading, Idle
<1>7. ASSUME NEW c \in Clients, NEW m \in Numbers, NEW p \in Periods,
             ReverseInsert(c, m, p)
      PROVE  /\ \A d \in Clients : Holds(request'[d])
             /\ \A e, d \in Clients :
                  /\ request'[e].op = "reversing"
                  /\ request'[d].number = request'[e].number
                  => e = d
  <2> DEFINE r == [request[c] EXCEPT !.op = "reversing", !.number = m, !.period = p]
  <2>1. request' = [request EXCEPT ![c] = r] /\ request[c] \in Request
    BY <1>0, <1>7 DEF ReverseInsert
  <2>2. /\ r.op = "reversing" /\ r.number = m /\ r.period = p
        /\ r.entry = request[c].entry /\ r.lines = request[c].lines
    BY <2>1 DEF Request
  <2> HIDE DEF r
  <2>3. /\ UNCHANGED journals /\ journals[m].status = "absent"
        /\ Balanced(Mirror(request[c].lines)) /\ request[c].op = "reverse"
    BY <1>7 DEF ReverseInsert, PostingAllowed, Free
  <2>4. /\ r.entry \in Numbers
        /\ journals[r.entry].status \in {"posted", "reversed"}
        /\ r.lines = journals[r.entry].lines
    BY <1>0, <2>2, <2>3 DEF RequestsHold, InBook
  <2>5. Holds(r)
    <3>1. Balanced(Mirror(r.lines))
      BY <2>2, <2>3, Zenon
    <3>2. journals'[r.number].status = "absent"
      BY <2>2, <2>3
    <3>3. /\ journals'[r.entry].status \in {"posted", "reversed"}
          /\ r.lines = journals'[r.entry].lines
      BY <2>3, <2>4
    <3> QED
      BY <2>2, <2>4, <3>1, <3>2, <3>3 DEF Holds
  <2> QED
    <3>1. \A d \in Clients : Holds(request'[d])
      BY <1>0, <1>1, <2>1, <2>5
    <3>2. \A d \in Clients : request[d].number # m
      BY <1>7 DEF ReverseInsert, Free
    <3>3. ASSUME NEW e \in Clients, NEW d \in Clients,
                 request'[e].op = "reversing", request'[d].number = request'[e].number
          PROVE  e = d
      BY <1>0, <2>1, <2>2, <3>2, <3>3 DEF RequestsHold
    <3> QED
      BY <3>1, <3>3
<1> QED
  BY <1>3, <1>4, <1>5, <1>6, <1>7, NextRequests

\* The strengthened invariant holds in every state that requests can reach.
THEOREM Invariance == Spec => []IInv
<1>1. IInv /\ [Next]_vars => IInv'
  BY NextTypeOK, NextPostedEntriesBalance, NextReversalsMirror,
     NextReversedHaveReversal, NextRequestsHold DEF IInv
<1> QED
  BY InitIInv, <1>1, PTL DEF Spec

\* The rows have the columns and the statuses of the schema, in particular the
\* lines of a reversal are lines a request could have submitted.
THEOREM TypeCorrect == Spec => []TypeOK
<1>1. IInv => TypeOK
  BY DEF IInv
<1> QED
  BY Invariance, <1>1, PTL

\* Whatever reads are stale when their writes arrive, the entries in the book
\* balance.
THEOREM PostedBalance == Spec => []PostedEntriesBalance
<1>1. IInv => PostedEntriesBalance
  BY DEF IInv
<1> QED
  BY Invariance, <1>1, PTL

\* A reversal always has the lines of the entry it reverses, though it copied
\* them before its transaction began.
THEOREM ReversalsAreMirrors == Spec => []ReversalsMirror
<1>1. IInv => ReversalsMirror
  BY DEF IInv
<1> QED
  BY Invariance, <1>1, PTL

\* No entry is marked reversed without its reversal.
THEOREM ReversedAreReversed == Spec => []ReversedHaveReversal
<1>1. IInv => ReversedHaveReversal
  BY DEF IInv
<1> QED
  BY Invariance, <1>1, PTL

\* What a request has read before its write is still good enough for it.
THEOREM RequestsStayGood == Spec => []RequestsHold
<1>1. IInv => RequestsHold
  BY DEF IInv
<1> QED
  BY Invariance, <1>1, PTL

\* An entry of the book stays there with its lines.
THEOREM BookGrows == Spec => BookOnlyGrows
<1>1. IInv /\ [Next]_vars =>
        [\A n \in Numbers :
           InBook(n) => InBook(n)' /\ journals[n].lines = journals[n].lines']_vars
  BY NextKeepsBook DEF InBook
<1> QED
  BY Invariance, <1>1, PTL DEF Spec, BookOnlyGrows

---------------------------------------------------------------------------
(* The refinement                                                          *)

\* A step adds at most one entry: a posting the one it posts, a reversal itself.
LEMMA NextEntersOne ==
  ASSUME IInv, [Next]_vars
  PROVE  \/ \A n \in Numbers : InBook(n)' => InBook(n)
         \/ \E m \in Numbers : /\ ~ InBook(m) /\ InBook(m)'
                               /\ \A n \in Numbers \ {m} : InBook(n)' => InBook(n)
<1> DEFINE Same == \A n \in Numbers : InBook(n)' => InBook(n)
           One == \E m \in Numbers : /\ ~ InBook(m) /\ InBook(m)'
                                     /\ \A n \in Numbers \ {m} : InBook(n)' => InBook(n)
<1> SUFFICES Same \/ One
  OBVIOUS
<1>0. /\ journals \in [Numbers -> Entry]
      /\ \A c \in Clients : request[c].op # "idle" => request[c].entry \in Numbers
  BY DEF IInv, TypeOK, RequestsHold
<1> USE DEF InBook
<1>1. ASSUME NEW m \in Numbers, \A n \in Numbers \ {m} : journals'[n].status = journals[n].status
      PROVE  Same \/ One
  BY <1>1
<1>2. ASSUME NEW m \in Numbers, NEW p \in Periods, NEW lines \in LineSets,
             CreateJournal(m, p, lines)
      PROVE  Same
  BY <1>0, <1>2 DEF CreateJournal, Draft
<1>8. ASSUME NEW m \in Numbers, NEW p \in Periods, NEW lines \in LineSets,
             PostAtomically(m, p, lines)
      PROVE  Same \/ One
  BY <1>0, <1>1, <1>8 DEF PostAtomically
<1>3. ASSUME NEW m \in Numbers, VoidJournal(m) PROVE Same
  BY <1>0, <1>3 DEF VoidJournal, Entry
<1>4. CASE UNCHANGED journals
  BY <1>4
<1>5. ASSUME NEW c \in Clients, ClientStep(c) PROVE Same \/ One
  <2>1. ASSUME NEW p \in Periods, NEW lines \in LineSets \union {NoLines},
               UpdateWrite(c, p, lines)
        PROVE  Same
    BY <1>0, <2>1 DEF UpdateWrite, Entry
  <2>2. ASSUME PostWrite(c) PROVE Same \/ One
    <3>1. request[c].entry \in Numbers
      BY <1>0, <2>2 DEF PostWrite
    <3>2. \A n \in Numbers \ {request[c].entry} : journals'[n].status = journals[n].status
      BY <1>0, <2>2 DEF PostWrite
    <3> QED
      BY <1>1, <3>1, <3>2
  <2>3. ASSUME ReverseCommit(c) PROVE One
    <3>1. PICK m \in Numbers : m = request[c].number
      BY <2>3 DEF ReverseCommit, IInv, RequestsHold
    <3>2. ~ InBook(m) /\ journals'[m].status = "posted"
      BY <2>3, <3>1, ReversalCommits
    <3>3. ASSUME NEW n \in Numbers \ {m}, InBook(n)' PROVE InBook(n)
      <4>1. CASE n = request[c].entry
        BY <2>3, <4>1, ReversalCommits
      <4>2. CASE n # request[c].entry
        <5>1. journals'[n] = journals[n]
          BY <2>3, <3>1, <4>2, ReversalCommits
        <5> QED
          BY <3>3, <5>1
      <4> QED
        BY <4>1, <4>2
    <3> QED
      BY <3>2, <3>3
  <2> HIDE DEF Same, One
  <2> QED
    BY <1>4, <1>5, <2>1, <2>2, <2>3
       DEF ClientStep, UpdateRead, PostRead, ReverseRead, Reading, ReverseInsert, Abandon
<1>6. ASSUME NEW p \in Periods,
             ReopenPeriod(p) \/ \E s \in PeriodStatus : ClosePeriod(p, s)
      PROVE  Same
  BY <1>4, <1>6 DEF ReopenPeriod, ClosePeriod
<1>7. CASE UNCHANGED vars
  BY <1>4, <1>7 DEF vars
<1> HIDE DEF Same, One
<1> QED
  BY <1>2, <1>3, <1>5, <1>6, <1>7, <1>8 DEF Next

\* The journal entries, with all that requests do to them, implement a book in
\* which balanced entries are entered one at a time and nothing is taken away.
THEOREM BookImplemented == Spec => ImplementsBook
<1>1. Init => Book!Init
  BY DEF Init, NoEntry, Book!Init, Book!NoLines, Entered, InBook
<1>2. IInv /\ IInv' /\ [Next]_vars => [Book!Next]_Entered
  <2> SUFFICES ASSUME IInv, IInv', [Next]_vars
               PROVE  Book!Next \/ UNCHANGED Entered
    OBVIOUS
  <2> DEFINE Lines(n) == IF InBook(n) THEN journals[n].lines ELSE << >>
  <2>1. /\ Entered = [n \in Numbers |-> Lines(n)]
        /\ Entered' = [n \in Numbers |-> Lines(n)']
    BY DEF Entered, InBook
  <2>2. ASSUME NEW n \in Numbers, InBook(n)' => InBook(n)
        PROVE  Lines(n)' = Lines(n)
    <3>1. InBook(n) => InBook(n)' /\ journals'[n].lines = journals[n].lines
      BY NextKeepsBook
    <3> QED
      BY <2>2, <3>1 DEF InBook
  <2>3. CASE \A n \in Numbers : InBook(n)' => InBook(n)
    <3> HIDE DEF Lines
    <3> QED
      BY <2>1, <2>2, <2>3
  <2>4. ASSUME NEW m \in Numbers, ~ InBook(m), InBook(m)',
               \A n \in Numbers \ {m} : InBook(n)' => InBook(n)
        PROVE  Book!Next
    <3> DEFINE lines == journals'[m].lines
    <3>1. Balanced(lines)
      <4>1. Balanced(journals[m].lines)'
        BY <2>4 DEF IInv, PostedEntriesBalance
      <4> QED
        BY <4>1 DEF Balanced, Book!Balanced, Book!NetCents
    <3>2. lines \in LineSets
      <4>1. lines \in LineSets \union {NoLines}
        BY DEF IInv, TypeOK, Entry
      <4> QED
        BY <3>1, <4>1, NoLinesNotBalanced
    <3>3. Lines(m) = << >> /\ Lines(m)' = lines
      BY <2>4 DEF InBook
    <3> HIDE DEF Lines, lines
    <3>4. Entered[m] = << >> /\ Entered' = [Entered EXCEPT ![m] = lines]
      BY <2>1, <2>2, <2>4, <3>3
    <3> QED
      BY <3>1, <3>2, <3>4 DEF Book!Next, Book!Enter, Book!NoLines, Balanced
  <2> QED
    BY <2>3, <2>4, NextEntersOne
<1> QED
  BY Invariance, <1>1, <1>2, PTL DEF Spec, Book!Spec, ImplementsBook

---------------------------------------------------------------------------
(* The records that are posted as entries (LedgerRecords). What requests do  *)
(* to the entries on behalf of records are steps of the journal, so that all *)
(* that is proved of these holds of them.                                    *)

RecordsTypeOK ==
  /\ source \in [Numbers -> Records \union {None}]
  /\ records \in [Records -> Ledger!Record]
  /\ lock \in [Records -> Clients \union {None}]
  /\ task \in [Clients -> Ledger!Task]
  /\ \A r \in Records : records[r].status # "absent" => records[r].period \in Periods
  /\ \A c \in Clients : task[c].op # "idle" => task[c].record \in Records

\* A request that does nothing to an entry holds nothing.
IdleIsIdle == \A c \in Clients : request[c].op = "idle" => request[c] = Idle

SourceInBook == \A n \in Numbers : source[n] # None => InBook(n)

\* Who posts a record has it locked, and it is a draft still.
PostsHeld ==
  \A c \in Clients : task[c].op = "post" =>
    LET r == task[c].record IN
    lock[r] = c /\ records[r].status = "draft" /\ records[r].lines # NoLines

\* Who reverses a transfer reverses its one entry, and marks it after that.
MarksHeld ==
  \A c \in Clients : task[c].op = "reverse" /\ task[c].record \in Transfers =>
    LET r == task[c].record IN
    /\ records[r].status \in {"posted", "reversed"}
    /\ request[c].op = "idle" => journals[records[r].entry].status = "reversed"
    /\ request[c].op # "idle" => request[c].op \in {"reverse", "reversing"} /\ request[c].entry = records[r].entry

RecordsIInv ==
  IInv /\ RecordsTypeOK /\ IdleIsIdle /\ SourceInBook /\ PostsHeld /\ MarksHeld /\ RecordsInBook

\* What a step leaves as it is of the entries in the book
EntriesKept ==
  \A n \in Numbers : InBook(n) =>
    /\ InBook(n)' /\ journals'[n].lines = journals[n].lines /\ journals'[n].period = journals[n].period
    /\ journals[n].status = "reversed" => journals'[n].status = "reversed"

---------------------------------------------------------------------------
LEMMA SameInBook == ASSUME NEW n PROVE Ledger!J!InBook(n) <=> InBook(n)
BY DEF Ledger!J!InBook, InBook

LEMMA SameLines ==
  ASSUME NEW lines
  PROVE  (Ledger!J!Balanced(lines) <=> Balanced(lines)) /\ Ledger!J!Mirror(lines) = Mirror(lines)
<1>1. Ledger!J!Balanced(lines) <=> Balanced(lines)
  BY DEF Ledger!J!Balanced, Balanced, Ledger!J!Book!Balanced, Book!Balanced, Ledger!J!Book!NetCents, Book!NetCents,
         Ledger!J!Book!SumFunction, Book!SumFunction, Ledger!J!Book!SumFunctionOnSet, Book!SumFunctionOnSet,
         Ledger!J!Book!FoldFunctionOnSet, Book!FoldFunctionOnSet, Ledger!J!Book!MapThenFoldSet, Book!MapThenFoldSet
<1>2. Ledger!J!Mirror(lines) = Mirror(lines)
  BY DEF Ledger!J!Mirror, Mirror, Ledger!J!Book!Mirror, Book!Mirror
<1>3. QED BY <1>1, <1>2

\* What the requests of LedgerRecords do to entries, they do by actions of the journal.
LEMMA SameActions ==
  ASSUME NEW c, NEW n, NEW p, NEW lines
  PROVE  /\ Ledger!J!PostAtomically(n, p, lines) => PostAtomically(n, p, lines)
         /\ Ledger!J!ReverseRead(c, n) => ReverseRead(c, n)
         /\ Ledger!J!ReverseInsert(c, n, p) => ReverseInsert(c, n, p)
         /\ Ledger!J!ReverseCommit(c) => ReverseCommit(c)
         /\ Ledger!J!ReopenPeriod(p) => ReopenPeriod(p)
         /\ Ledger!J!ClosePeriod(p, "closed") => ClosePeriod(p, "closed")
<1> USE SameLines DEF Ledger!J!Idle, Idle, Ledger!J!NoLines, NoLines, Ledger!J!Free, Free, Ledger!J!IsOpen, IsOpen,
          Ledger!J!PostingAllowed, PostingAllowed
<1>1. Ledger!J!PostAtomically(n, p, lines) => PostAtomically(n, p, lines)
  BY DEF Ledger!J!PostAtomically, PostAtomically, Ledger!J!Draft, Draft
<1>2. Ledger!J!ReverseRead(c, n) => ReverseRead(c, n)
  BY DEF Ledger!J!ReverseRead, ReverseRead, Ledger!J!Reading, Reading
<1>3. Ledger!J!ReverseInsert(c, n, p) => ReverseInsert(c, n, p)
  BY DEF Ledger!J!ReverseInsert, ReverseInsert
<1>4. Ledger!J!ReverseCommit(c) => ReverseCommit(c)
  <2>1. Ledger!J!ReversalOf(request[c]) = ReversalOf(request[c])
    BY DEF Ledger!J!ReversalOf, ReversalOf
  <2>2. QED BY <2>1 DEF Ledger!J!ReverseCommit, ReverseCommit
<1>5. /\ Ledger!J!ReopenPeriod(p) => ReopenPeriod(p)
      /\ Ledger!J!ClosePeriod(p, "closed") => ClosePeriod(p, "closed")
  BY DEF Ledger!J!ReopenPeriod, ReopenPeriod, Ledger!J!ClosePeriod, ClosePeriod
<1>6. QED BY <1>1, <1>2, <1>3, <1>4, <1>5

\* A step of LedgerRecords is one of the journal, or leaves it alone.
LEMMA RecordsStepIsJournals ==
  ASSUME RecordsAssumption, RecordsIInv, [Ledger!Next]_(Ledger!vars)
  PROVE  [Next]_vars
<1> USE DEF RecordsIInv
<1>1. CASE UNCHANGED <<journals, period, request>>
  BY <1>1 DEF vars
<1>2. ASSUME NEW c \in Clients, NEW n \in Numbers, Ledger!PostCommit(c, n) PROVE Next
  <2> DEFINE r == task[c].record
  <2>1. PostAtomically(n, records[r].period, records[r].lines)
    BY <1>2, SameActions DEF Ledger!PostCommit
  <2>2. r \in Records /\ records[r].status = "draft" /\ records[r].lines # NoLines
    BY <1>2 DEF Ledger!PostCommit, RecordsTypeOK, PostsHeld
  <2>3. records[r].period \in Periods /\ records[r].lines \in LineSets
    BY <2>2 DEF RecordsTypeOK, Ledger!Record, Ledger!NoLines, NoLines
  <2> HIDE DEF r
  <2>4. QED BY <2>1, <2>3 DEF Next
<1>3. ASSUME NEW c \in Clients, NEW r \in Records, Ledger!ReverseRecord(c, r) PROVE Next
  <2>1. ReverseRead(c, records[r].entry)
    BY <1>3, SameActions DEF Ledger!ReverseRecord
  <2>2. records[r].status = "posted"
    BY <1>3 DEF Ledger!ReverseRecord, Ledger!Status
  <2>3. records[r].entry \in Numbers
    BY <2>2 DEF RecordsInBook, Ledger!RecordsInBook, Ledger!PostedHasEntry, Ledger!EntriesOf
  <2>4. QED BY <2>1, <2>3 DEF Next, ClientStep
<1>4. ASSUME NEW c \in Clients, NEW n \in Numbers, Ledger!ReverseEntry(c, n) PROVE Next
  BY <1>4, SameActions DEF Ledger!ReverseEntry, Next, ClientStep
<1>5. ASSUME NEW c \in Clients, Ledger!ReverseStep(c) PROVE Next
  BY <1>5, SameActions DEF Ledger!ReverseStep, Next, ClientStep
<1>6. ASSUME NEW c \in Clients, Ledger!Abandon(c) PROVE [Next]_vars
  <2>1. request' = [request EXCEPT ![c] = Idle] /\ UNCHANGED <<journals, period>>
    BY <1>6 DEF Ledger!Abandon, Ledger!J!Idle, Idle, Ledger!J!NoLines, NoLines
  <2>2. CASE request[c].op # "idle"
    BY <2>1, <2>2 DEF Abandon, Next, ClientStep
  <2>3. CASE request[c].op = "idle"
    BY <2>1, <2>3 DEF IdleIsIdle, vars, IInv, TypeOK
  <2>4. QED BY <2>2, <2>3
<1>7. ASSUME Ledger!PeriodStep PROVE Next
  BY <1>7, SameActions DEF Ledger!PeriodStep, Next, PeriodStatus
<1>8. ASSUME \/ \E r \in Records, p \in Periods, lines \in LineSets \union {Ledger!NoLines} : Ledger!CreateRecord(r, p, lines)
             \/ \E r \in Records : Ledger!VoidTransfer(r)
             \/ \E c \in Clients :
                  \/ \E r \in Records : Ledger!UpdateRead(c, r) \/ Ledger!PostBegin(c, r)
                  \/ \E p \in Periods, lines \in LineSets \union {Ledger!NoLines}, status \in {"draft", "void", "posted", "reversed"} :
                       Ledger!UpdateWrite(c, p, lines, status)
                  \/ Ledger!MarkReversed(c)
             \/ UNCHANGED Ledger!vars
      PROVE  UNCHANGED <<journals, period, request>>
  BY <1>8 DEF Ledger!CreateRecord, Ledger!VoidTransfer, Ledger!UpdateRead, Ledger!PostBegin, Ledger!UpdateWrite,
              Ledger!MarkReversed, Ledger!ledger, Ledger!vars
<1>9. QED
  BY <1>1, <1>2, <1>3, <1>4, <1>5, <1>6, <1>7, <1>8 DEF Ledger!Next, Ledger!ClientStep

\* It keeps the period of an entry, and that one is reversed: no edit and no posting by
\* hand is among them.
LEMMA RecordsKeepEntries ==
  ASSUME RecordsAssumption, RecordsIInv, [Ledger!Next]_(Ledger!vars)
  PROVE  EntriesKept /\ IdleIsIdle'
<1> USE DEF RecordsIInv
<1>1. [Next]_vars
  BY RecordsStepIsJournals
<1>2. journals \in [Numbers -> Entry] /\ request \in [Clients -> Request]
  BY DEF IInv, TypeOK
<1> DEFINE Same(n) == /\ journals'[n].period = journals[n].period
                      /\ journals[n].status = "reversed" => journals'[n].status = "reversed"
<1>3. SUFFICES (\A n \in Numbers : InBook(n) => Same(n)) /\ IdleIsIdle'
  BY <1>1, NextKeepsBook DEF EntriesKept
<1>4. ASSUME UNCHANGED <<journals, request>> PROVE (\A n \in Numbers : InBook(n) => Same(n)) /\ IdleIsIdle'
  BY <1>4 DEF IdleIsIdle
<1>5. ASSUME NEW n \in Numbers, NEW p, NEW lines, PostAtomically(n, p, lines)
      PROVE  (\A m \in Numbers : InBook(m) => Same(m)) /\ IdleIsIdle'
  BY <1>2, <1>5 DEF PostAtomically, Free, InBook, IdleIsIdle
<1>6. ASSUME NEW c \in Clients, NEW n, ReverseRead(c, n)
      PROVE  (\A m \in Numbers : InBook(m) => Same(m)) /\ IdleIsIdle'
  BY <1>2, <1>6 DEF ReverseRead, Reading, IdleIsIdle, Idle
<1>7. ASSUME NEW c \in Clients, NEW n, NEW p, ReverseInsert(c, n, p)
      PROVE  (\A m \in Numbers : InBook(m) => Same(m)) /\ IdleIsIdle'
  <2>1. request'[c].op = "reversing" /\ \A d \in Clients : d # c => request'[d] = request[d]
    BY <1>2, <1>7 DEF ReverseInsert, Request
  <2>2. UNCHANGED journals
    BY <1>7 DEF ReverseInsert
  <2>3. QED BY <2>1, <2>2 DEF IdleIsIdle
<1>8. ASSUME NEW c \in Clients, ReverseCommit(c)
      PROVE  (\A m \in Numbers : InBook(m) => Same(m)) /\ IdleIsIdle'
  <2>1. IdleIsIdle'
    BY <1>2, <1>8 DEF ReverseCommit, IdleIsIdle
  <2>2. journals[request[c].number].status = "absent"
    BY <1>8 DEF ReverseCommit, IInv, RequestsHold
  <2>3. ASSUME NEW n \in Numbers, InBook(n) PROVE Same(n)
    <3>1. journals'[n] = [journals[n] EXCEPT !.status = IF n = request[c].entry THEN "reversed" ELSE @]
      BY <1>2, <1>8, <2>2, <2>3 DEF ReverseCommit, Entry, InBook
    <3>2. journals[n] \in Entry
      BY <1>2
    <3>3. QED BY <3>1, <3>2 DEF Entry
  <2> HIDE DEF Same
  <2>4. QED BY <2>1, <2>3
<1>9. ASSUME NEW c \in Clients, Ledger!Abandon(c)
      PROVE  (\A m \in Numbers : InBook(m) => Same(m)) /\ IdleIsIdle'
  <2>1. request' = [request EXCEPT ![c] = Idle] /\ UNCHANGED <<journals, period>>
    BY <1>9 DEF Ledger!Abandon, Ledger!J!Idle, Idle, Ledger!J!NoLines, NoLines
  <2>2. QED BY <1>2, <2>1 DEF IdleIsIdle
<1>10. ASSUME \/ \E r \in Records, p \in Periods, lines \in LineSets \union {Ledger!NoLines} : Ledger!CreateRecord(r, p, lines)
              \/ \E r \in Records : Ledger!VoidTransfer(r)
              \/ \E c \in Clients :
                   \/ \E r \in Records : Ledger!UpdateRead(c, r) \/ Ledger!PostBegin(c, r)
                   \/ \E p \in Periods, lines \in LineSets \union {Ledger!NoLines}, status \in {"draft", "void", "posted", "reversed"} :
                        Ledger!UpdateWrite(c, p, lines, status)
                   \/ Ledger!MarkReversed(c)
              \/ Ledger!PeriodStep \/ UNCHANGED Ledger!vars
       PROVE  UNCHANGED <<journals, request>>
  BY <1>10, SameActions
  DEF Ledger!CreateRecord, Ledger!VoidTransfer, Ledger!UpdateRead, Ledger!PostBegin, Ledger!UpdateWrite,
      Ledger!MarkReversed, Ledger!ledger, Ledger!vars, Ledger!PeriodStep, ReopenPeriod, ClosePeriod
<1> DEFINE Goal == (\A n \in Numbers : InBook(n) => Same(n)) /\ IdleIsIdle'
<1>11. \A c \in Clients : (\E n \in Numbers : Ledger!PostCommit(c, n)) => Goal
  BY <1>5, SameActions DEF Ledger!PostCommit
<1>12. \A c \in Clients : (\E r \in Records : Ledger!ReverseRecord(c, r)) \/ (\E n \in Numbers : Ledger!ReverseEntry(c, n)) => Goal
  BY <1>6, SameActions DEF Ledger!ReverseRecord, Ledger!ReverseEntry
<1>13. \A c \in Clients : Ledger!ReverseStep(c) => Goal
  BY <1>7, <1>8, SameActions DEF Ledger!ReverseStep
<1>14. \A c \in Clients : Ledger!Abandon(c) => Goal
  BY <1>9
<1>15. UNCHANGED <<journals, request>> => Goal
  BY <1>4
<1> HIDE DEF Goal
<1>16. Goal
  BY <1>10, <1>11, <1>12, <1>13, <1>14, <1>15 DEF Ledger!Next, Ledger!ClientStep
<1>17. QED BY <1>16 DEF Goal

RecordsPart == RecordsTypeOK /\ SourceInBook /\ PostsHeld /\ MarksHeld /\ RecordsInBook

\* What the records promise, spelled out
RecordsAgree ==
  /\ \A r \in Records : records[r].status \in {"posted", "reversed"} =>
       /\ records[r].entry \in Numbers /\ source[records[r].entry] = r /\ InBook(records[r].entry)
  /\ \A r \in Transfers, n \in Numbers : source[n] = r =>
       records[r].entry = n /\ records[r].status \in {"posted", "reversed"}
  /\ \A r \in Records \ Transfers : records[r].status = "posted" =>
       /\ records[r].lines = journals[records[r].entry].lines
       /\ records[r].period = journals[records[r].entry].period
  /\ \A r \in Transfers : records[r].status = "reversed" => journals[records[r].entry].status = "reversed"

LEMMA RecordsInBookIs == (RecordsInBook <=> RecordsAgree) /\ (RecordsInBook' <=> RecordsAgree')
<1>1. RecordsInBook <=> RecordsAgree
  BY SameInBook
  DEF RecordsInBook, Ledger!RecordsInBook, Ledger!PostedHasEntry, Ledger!TransferPostedOnce,
      Ledger!PostedExpenseAgrees, Ledger!MarkedWasReversed, Ledger!EntriesOf, Ledger!Expenses, RecordsAgree
<1>2. QED BY <1>1, PTL

\* A record changes, and no source of an entry.
LEMMA OneRecordChanges ==
  ASSUME RecordsAssumption, RecordsIInv, EntriesKept, UNCHANGED source, NEW r \in Records, NEW new \in Ledger!Record,
         records' = [records EXCEPT ![r] = new],
         new.status \in {"posted", "reversed"} =>
           records[r].status \in {"posted", "reversed"} /\ new.entry = records[r].entry,
         r \in Transfers /\ records[r].status \in {"posted", "reversed"} =>
           new.status \in {"posted", "reversed"} /\ new.entry = records[r].entry,
         r \in Transfers /\ new.status = "reversed" =>
           records[r].status = "reversed" \/ journals[records[r].entry].status = "reversed",
         r \notin Transfers /\ new.status = "posted" => new = records[r]
  PROVE  RecordsInBook' /\ SourceInBook'
<1> USE DEF RecordsIInv
<1>1. records'[r] = new /\ \A s \in Records : s # r => records'[s] = records[s]
  BY DEF RecordsTypeOK
<1>2. SourceInBook'
  BY DEF SourceInBook, EntriesKept
<1>3. ASSUME NEW s \in Records, records'[s].status \in {"posted", "reversed"}
      PROVE  /\ records[s].status \in {"posted", "reversed"} /\ records'[s].entry = records[s].entry
             /\ records'[s].entry \in Numbers /\ source'[records'[s].entry] = s
             /\ journals[records[s].entry].status \in {"posted", "reversed"}
             /\ journals'[records'[s].entry].status \in {"posted", "reversed"}
  <2>1. records[s].status \in {"posted", "reversed"} /\ records'[s].entry = records[s].entry
    BY <1>1, <1>3
  <2>2. records[s].entry \in Numbers /\ source[records[s].entry] = s /\ InBook(records[s].entry)
    BY <2>1, RecordsInBookIs DEF RecordsAgree
  <2>3. journals'[records[s].entry].status \in {"posted", "reversed"}
    BY <2>2 DEF EntriesKept, InBook
  <2>4. QED BY <2>1, <2>2, <2>3 DEF InBook
<1>4. ASSUME NEW s \in Transfers, NEW n \in Numbers, source'[n] = s
      PROVE  records'[s].entry = n /\ records'[s].status \in {"posted", "reversed"}
  <2>1. records[s].entry = n /\ records[s].status \in {"posted", "reversed"} /\ s \in Records
    BY <1>4, RecordsInBookIs DEF RecordsAgree, RecordsAssumption
  <2>2. QED BY <1>1, <2>1
<1>5. ASSUME NEW s \in Records \ Transfers, records'[s].status = "posted"
      PROVE  /\ records'[s].lines = journals'[records'[s].entry].lines
             /\ records'[s].period = journals'[records'[s].entry].period
  <2>1. records'[s] = records[s]
    BY <1>1, <1>5
  <2>2. /\ records[s].lines = journals[records[s].entry].lines
        /\ records[s].period = journals[records[s].entry].period
    BY <1>5, <2>1, RecordsInBookIs DEF RecordsAgree
  <2>3. QED BY <1>3, <1>5, <2>1, <2>2 DEF EntriesKept, InBook
<1>6. ASSUME NEW s \in Transfers, records'[s].status = "reversed"
      PROVE  journals'[records'[s].entry].status = "reversed"
  <2>1. s \in Records
    BY DEF RecordsAssumption
  <2>2. records'[s].entry = records[s].entry /\ records[s].entry \in Numbers /\ InBook(records[s].entry)
    BY <1>3, <1>6, <2>1 DEF InBook
  <2>3. journals[records[s].entry].status = "reversed"
    BY <1>1, <1>6, <2>1, RecordsInBookIs DEF RecordsAgree
  <2>4. QED BY <2>2, <2>3 DEF EntriesKept
<1>7. RecordsInBook'
  BY <1>3, <1>4, <1>5, <1>6, RecordsInBookIs DEF RecordsAgree, InBook
<1>8. QED BY <1>2, <1>7

LEMMA NoRecordChanges ==
  ASSUME RecordsAssumption, RecordsIInv, EntriesKept, UNCHANGED <<source, records>>
  PROVE  RecordsInBook' /\ SourceInBook'
<1> USE DEF RecordsIInv
<1>1. SourceInBook'
  BY DEF SourceInBook, EntriesKept
<1>2. \A r \in Records : records[r].status \in {"posted", "reversed"} =>
        records[r].entry \in Numbers /\ InBook(records[r].entry)
  BY RecordsInBookIs DEF RecordsAgree
<1>3. Transfers \subseteq Records
  BY DEF RecordsAssumption
<1>4. \A r \in Records : records[r].status \in {"posted", "reversed"} =>
        /\ journals'[records[r].entry].status \in {"posted", "reversed"}
        /\ journals'[records[r].entry].lines = journals[records[r].entry].lines
        /\ journals'[records[r].entry].period = journals[records[r].entry].period
        /\ journals[records[r].entry].status = "reversed" => journals'[records[r].entry].status = "reversed"
  BY <1>2 DEF EntriesKept, InBook
<1>5. RecordsAgree
  BY RecordsInBookIs
<1>6. RecordsAgree'
  BY <1>3, <1>4, <1>5 DEF RecordsAgree, InBook
<1>7. QED BY <1>1, <1>6, RecordsInBookIs

\* One request goes on, and no record changes.
LEMMA RequestGoesOn ==
  ASSUME RecordsAssumption, RecordsIInv, EntriesKept, UNCHANGED <<source, records>>, NEW c \in Clients,
         \A d \in Clients : d # c => task'[d] = task[d] /\ request'[d] = request[d],
         task' \in [Clients -> Ledger!Task], task'[c].op # "idle" => task'[c].record \in Records,
         lock' \in [Records -> Clients \union {None}],
         \A r \in Records : lock[r] \notin {c, None} => lock'[r] = lock[r],
         task'[c].op = "post" =>
           LET r == task'[c].record IN
           lock'[r] = c /\ records[r].status = "draft" /\ records[r].lines # NoLines,
         task'[c].op = "reverse" /\ task'[c].record \in Transfers =>
           LET r == task'[c].record IN
           /\ records[r].status \in {"posted", "reversed"}
           /\ request'[c].op = "idle" => journals'[records[r].entry].status = "reversed"
           /\ request'[c].op # "idle" => request'[c].op \in {"reverse", "reversing"} /\ request'[c].entry = records[r].entry
  PROVE  RecordsPart'
<1> USE DEF RecordsIInv
<1>1. RecordsTypeOK'
  BY DEF RecordsTypeOK
<1>2. PostsHeld'
  <2> SUFFICES ASSUME NEW d \in Clients, task'[d].op = "post"
               PROVE  LET r == task'[d].record IN
                      lock'[r] = d /\ records'[r].status = "draft" /\ records'[r].lines # NoLines
    BY DEF PostsHeld
  <2>1. CASE d = c
    BY <2>1
  <2>2. CASE d # c
    <3>1. task'[d] = task[d] /\ task[d].record \in Records /\ lock[task[d].record] = d /\ d # None
      BY <2>2 DEF PostsHeld, RecordsTypeOK, RecordsAssumption
    <3>2. QED BY <2>2, <3>1 DEF PostsHeld
  <2>3. QED BY <2>1, <2>2
<1>3. MarksHeld'
  <2> SUFFICES ASSUME NEW d \in Clients, task'[d].op = "reverse", task'[d].record \in Transfers
               PROVE  LET r == task'[d].record IN
                      /\ records'[r].status \in {"posted", "reversed"}
                      /\ request'[d].op = "idle" => journals'[records'[r].entry].status = "reversed"
                      /\ request'[d].op # "idle" =>
                           request'[d].op \in {"reverse", "reversing"} /\ request'[d].entry = records'[r].entry
    BY DEF MarksHeld
  <2>1. CASE d = c
    BY <2>1
  <2>2. CASE d # c
    <3> DEFINE r == task[d].record
    <3>1. task'[d] = task[d] /\ request'[d] = request[d] /\ r \in Records
      BY <2>2 DEF RecordsTypeOK
    <3>2. /\ records[r].status \in {"posted", "reversed"}
          /\ request[d].op = "idle" => journals[records[r].entry].status = "reversed"
          /\ request[d].op # "idle" => request[d].op \in {"reverse", "reversing"} /\ request[d].entry = records[r].entry
      BY <3>1 DEF MarksHeld
    <3>3. records[r].entry \in Numbers /\ InBook(records[r].entry)
      BY <3>1, <3>2, RecordsInBookIs DEF RecordsAgree
    <3>4. QED BY <3>1, <3>2, <3>3 DEF EntriesKept
  <2>3. QED BY <2>1, <2>2
<1>4. QED BY <1>1, <1>2, <1>3, NoRecordChanges DEF RecordsPart

\* The requests that change no record: reading, locking, reversing the entry, and
\* giving up.
LEMMA RequestsGoOn ==
  ASSUME RecordsAssumption, RecordsIInv, EntriesKept, NEW c \in Clients,
         \/ \E r \in Records : Ledger!UpdateRead(c, r) \/ Ledger!PostBegin(c, r) \/ Ledger!ReverseRecord(c, r)
         \/ \E n \in Numbers : Ledger!ReverseEntry(c, n)
         \/ Ledger!ReverseStep(c) \/ Ledger!Abandon(c)
  PROVE  RecordsPart'
<1> USE DEF RecordsIInv
<1>1. /\ task \in [Clients -> Ledger!Task] /\ request \in [Clients -> Request]
      /\ lock \in [Records -> Clients \union {None}] /\ c # None
  BY DEF RecordsTypeOK, IInv, TypeOK, RecordsAssumption
<1>2. ASSUME NEW r \in Records, Ledger!UpdateRead(c, r) PROVE RecordsPart'
  <2> DEFINE t == [op |-> "update", record |-> r]
  <2>1. task' = [task EXCEPT ![c] = t] /\ UNCHANGED <<journals, period, request, source, records, lock>>
    BY <1>2 DEF Ledger!UpdateRead, Ledger!Start, Ledger!ledger
  <2>2. t \in Ledger!Task /\ t.op = "update" /\ t.record = r
    BY DEF Ledger!Task
  <2> HIDE DEF t
  <2>3. /\ task'[c] = t /\ task' \in [Clients -> Ledger!Task]
        /\ \A d \in Clients : d # c => task'[d] = task[d] /\ request'[d] = request[d]
    BY <1>1, <2>1, <2>2
  <2>4. QED BY <1>1, <2>1, <2>2, <2>3, RequestGoesOn
<1>3. ASSUME NEW r \in Records, Ledger!PostBegin(c, r) PROVE RecordsPart'
  <2> DEFINE t == [op |-> "post", record |-> r]
  <2>1. /\ lock[r] = None /\ records[r].status = "draft" /\ records[r].lines # NoLines
        /\ lock' = [lock EXCEPT ![r] = c] /\ task' = [task EXCEPT ![c] = t]
        /\ UNCHANGED <<journals, period, request, source, records>>
    BY <1>3 DEF Ledger!PostBegin, Ledger!Start, Ledger!ledger, Ledger!NoLines, NoLines
  <2>2. t \in Ledger!Task /\ t.op = "post" /\ t.record = r
    BY DEF Ledger!Task
  <2> HIDE DEF t
  <2>3. /\ task'[c] = t /\ task' \in [Clients -> Ledger!Task]
        /\ \A d \in Clients : d # c => task'[d] = task[d] /\ request'[d] = request[d]
    BY <1>1, <2>1, <2>2
  <2>4. /\ lock' \in [Records -> Clients \union {None}] /\ lock'[r] = c
        /\ \A s \in Records : lock[s] \notin {c, None} => lock'[s] = lock[s]
    BY <1>1, <2>1
  <2>5. QED BY <1>1, <2>1, <2>2, <2>3, <2>4, RequestGoesOn
<1>4. ASSUME NEW r \in Records, Ledger!ReverseRecord(c, r) PROVE RecordsPart'
  <2> DEFINE t == [op |-> "reverse", record |-> r]
  <2>1. /\ records[r].status = "posted" /\ task' = [task EXCEPT ![c] = t]
        /\ UNCHANGED <<source, records, lock>>
    BY <1>4 DEF Ledger!ReverseRecord, Ledger!Start, Ledger!Status
  <2>2. t \in Ledger!Task /\ t.op = "reverse" /\ t.record = r
    BY DEF Ledger!Task
  <2> HIDE DEF t
  <2>3. ReverseRead(c, records[r].entry)
    BY <1>4, SameActions DEF Ledger!ReverseRecord
  <2>4. /\ request'[c].op = "reverse" /\ request'[c].entry = records[r].entry
        /\ \A d \in Clients : d # c => request'[d] = request[d]
    BY <1>1, <2>3 DEF ReverseRead, Reading, Idle
  <2>5. /\ task'[c] = t /\ task' \in [Clients -> Ledger!Task]
        /\ \A d \in Clients : d # c => task'[d] = task[d] /\ request'[d] = request[d]
    BY <1>1, <2>1, <2>2, <2>4
  <2>6. QED BY <1>1, <2>1, <2>2, <2>4, <2>5, RequestGoesOn
<1>5. ASSUME NEW n \in Numbers, Ledger!ReverseEntry(c, n) PROVE RecordsPart'
  <2>1. task[c].op = "idle" /\ UNCHANGED <<source, records, lock, task>>
    BY <1>5 DEF Ledger!ReverseEntry, Ledger!Available, Ledger!Idle
  <2>2. \A d \in Clients : d # c => request'[d] = request[d]
    <3>1. ReverseRead(c, n)
      BY <1>5, SameActions DEF Ledger!ReverseEntry
    <3>2. QED BY <1>1, <3>1 DEF ReverseRead, Reading
  <2>3. QED BY <1>1, <2>1, <2>2, RequestGoesOn
<1>6. ASSUME Ledger!ReverseStep(c) PROVE RecordsPart'
  <2>1. UNCHANGED <<source, records, lock, task>>
    BY <1>6 DEF Ledger!ReverseStep
  <2>2. (\E m \in Numbers, p \in Periods : ReverseInsert(c, m, p)) \/ ReverseCommit(c)
    BY <1>6, SameActions DEF Ledger!ReverseStep
  <2>3. \A d \in Clients : d # c => request'[d] = request[d]
    BY <1>1, <2>2 DEF ReverseInsert, ReverseCommit
  <2>4. ASSUME task'[c].op = "reverse", task'[c].record \in Transfers
        PROVE  LET r == task'[c].record IN
               /\ records[r].status \in {"posted", "reversed"}
               /\ request'[c].op = "idle" => journals'[records[r].entry].status = "reversed"
               /\ request'[c].op # "idle" =>
                    request'[c].op \in {"reverse", "reversing"} /\ request'[c].entry = records[r].entry
    <3> DEFINE r == task[c].record
    <3>1. /\ records[r].status \in {"posted", "reversed"} /\ r \in Records
          /\ request[c].op # "idle" => request[c].entry = records[r].entry
      BY <2>1, <2>4 DEF MarksHeld, RecordsAssumption
    <3>2. CASE \E m \in Numbers, p \in Periods : ReverseInsert(c, m, p)
      <4>1. request[c].op = "reverse" /\ request'[c].op = "reversing" /\ request'[c].entry = request[c].entry
        BY <1>1, <3>2 DEF ReverseInsert, Request
      <4>2. QED BY <2>1, <3>1, <4>1
    <3>3. CASE ReverseCommit(c)
      <4>1. /\ request[c].op = "reversing" /\ request'[c].op = "idle"
            /\ journals' = [journals EXCEPT ![request[c].entry].status = "reversed",
                                            ![request[c].number] = ReversalOf(request[c])]
        BY <1>1, <3>3 DEF ReverseCommit, Idle
      <4>2. request[c].entry \in Numbers /\ journals[request[c].entry].status # "absent" /\ journals[request[c].number].status = "absent"
        BY <4>1 DEF IInv, RequestsHold
      <4>3. journals'[request[c].entry].status = "reversed"
        BY <4>1, <4>2 DEF IInv, TypeOK, Entry
      <4>4. QED BY <2>1, <3>1, <4>1, <4>3
    <3>4. QED BY <2>2, <3>2, <3>3
  <2>5. task'[c].op = "post" => LET r == task'[c].record IN
          lock'[r] = c /\ records[r].status = "draft" /\ records[r].lines # NoLines
    BY <2>1 DEF PostsHeld
  <2>6. task' \in [Clients -> Ledger!Task] /\ (task'[c].op # "idle" => task'[c].record \in Records)
    BY <1>1, <2>1 DEF RecordsTypeOK
  <2>7. QED BY <1>1, <2>1, <2>3, <2>4, <2>5, <2>6, RequestGoesOn
<1>7. ASSUME Ledger!Abandon(c) PROVE RecordsPart'
  <2>1. /\ task' = [task EXCEPT ![c] = Ledger!Idle] /\ request' = [request EXCEPT ![c] = Ledger!J!Idle]
        /\ lock' = [r \in Records |-> IF lock[r] = c THEN None ELSE lock[r]]
        /\ UNCHANGED <<source, records>>
    BY <1>7 DEF Ledger!Abandon, Ledger!Finish
  <2>2. Ledger!Idle \in Ledger!Task /\ Ledger!Idle.op = "idle"
    BY DEF Ledger!Task, Ledger!Idle
  <2>3. /\ task'[c].op = "idle" /\ task' \in [Clients -> Ledger!Task]
        /\ \A d \in Clients : d # c => task'[d] = task[d] /\ request'[d] = request[d]
    BY <1>1, <2>1, <2>2
  <2>4. /\ lock' \in [Records -> Clients \union {None}]
        /\ \A s \in Records : lock[s] \notin {c, None} => lock'[s] = lock[s]
    BY <1>1, <2>1
  <2>5. QED BY <1>1, <2>1, <2>3, <2>4, RequestGoesOn
<1>8. QED BY <1>2, <1>3, <1>4, <1>5, <1>6, <1>7

\* A record that is not locked changes, and at most one request ends.
LEMMA RecordGoesOn ==
  ASSUME RecordsAssumption, RecordsIInv, EntriesKept, UNCHANGED <<journals, period, request, source, lock>>,
         NEW r \in Records, NEW new \in Ledger!Record,
         records' = [records EXCEPT ![r] = new], lock[r] = None \/ records[r].status = "absent",
         new.status # "absent" => new.period \in Periods,
         task' \in [Clients -> Ledger!Task],
         \A d \in Clients : task'[d] = task[d] \/ task'[d].op = "idle",
         new.status \in {"posted", "reversed"} =>
           records[r].status \in {"posted", "reversed"} /\ new.entry = records[r].entry,
         r \in Transfers /\ records[r].status \in {"posted", "reversed"} =>
           new.status \in {"posted", "reversed"} /\ new.entry = records[r].entry,
         r \in Transfers /\ new.status = "reversed" =>
           records[r].status = "reversed" \/ journals[records[r].entry].status = "reversed",
         r \notin Transfers /\ new.status = "posted" => new = records[r]
  PROVE  RecordsPart'
<1> USE DEF RecordsIInv
<1>1. records'[r] = new /\ \A s \in Records : s # r => records'[s] = records[s]
  BY DEF RecordsTypeOK
<1>2. RecordsTypeOK'
  BY <1>1 DEF RecordsTypeOK
<1>3. PostsHeld'
  <2> SUFFICES ASSUME NEW d \in Clients, task'[d].op = "post"
               PROVE  LET s == task'[d].record IN
                      lock'[s] = d /\ records'[s].status = "draft" /\ records'[s].lines # NoLines
    BY DEF PostsHeld
  <2> DEFINE s == task[d].record
  <2>1. task'[d] = task[d] /\ s \in Records /\ lock[s] = d /\ d # None /\ records[s].status = "draft" /\ records[s].lines # NoLines
    BY DEF PostsHeld, RecordsTypeOK, RecordsAssumption
  <2>2. s # r
    BY <2>1
  <2>3. QED BY <1>1, <2>1, <2>2
<1>4. MarksHeld'
  <2> SUFFICES ASSUME NEW d \in Clients, task'[d].op = "reverse", task'[d].record \in Transfers
               PROVE  LET s == task'[d].record IN
                      /\ records'[s].status \in {"posted", "reversed"}
                      /\ request'[d].op = "idle" => journals'[records'[s].entry].status = "reversed"
                      /\ request'[d].op # "idle" =>
                           request'[d].op \in {"reverse", "reversing"} /\ request'[d].entry = records'[s].entry
    BY DEF MarksHeld
  <2> DEFINE s == task[d].record
  <2>1. /\ task'[d] = task[d] /\ s \in Transfers /\ s \in Records /\ records[s].status \in {"posted", "reversed"}
        /\ request[d].op = "idle" => journals[records[s].entry].status = "reversed"
        /\ request[d].op # "idle" => request[d].op \in {"reverse", "reversing"} /\ request[d].entry = records[s].entry
    BY DEF MarksHeld, RecordsAssumption
  <2>2. records'[s].status \in {"posted", "reversed"} /\ records'[s].entry = records[s].entry
    BY <1>1, <2>1
  <2>3. QED BY <2>1, <2>2
<1>5. QED BY <1>2, <1>3, <1>4, OneRecordChanges DEF RecordsPart

\* Making, editing, voiding and marking a record
LEMMA RecordsGoOn ==
  ASSUME RecordsAssumption, RecordsIInv, EntriesKept,
         \/ \E r \in Records, p \in Periods, lines \in LineSets \union {NoLines} : Ledger!CreateRecord(r, p, lines)
         \/ \E r \in Records : Ledger!VoidTransfer(r)
         \/ \E c \in Clients :
              \/ \E p \in Periods, lines \in LineSets \union {NoLines}, status \in {"draft", "void", "posted", "reversed"} :
                   Ledger!UpdateWrite(c, p, lines, status)
              \/ Ledger!MarkReversed(c)
  PROVE  RecordsPart'
<1> USE DEF RecordsIInv
<1>1. /\ task \in [Clients -> Ledger!Task] /\ records \in [Records -> Ledger!Record]
      /\ Ledger!Idle \in Ledger!Task /\ Ledger!Idle.op = "idle"
  BY DEF RecordsTypeOK, Ledger!Idle, Ledger!Task
<1>2. ASSUME NEW r \in Records, NEW p \in Periods, NEW lines \in LineSets \union {NoLines}, Ledger!CreateRecord(r, p, lines)
      PROVE  RecordsPart'
  <2> DEFINE new == [status |-> "draft", lines |-> lines, period |-> p, entry |-> None]
  <2>1. /\ records[r].status = "absent" /\ records' = [records EXCEPT ![r] = new]
        /\ UNCHANGED <<journals, period, request, source, lock, task>>
    BY <1>2 DEF Ledger!CreateRecord, Ledger!ledger
  <2>2. new \in Ledger!Record /\ new.status = "draft" /\ new.period = p
    BY DEF Ledger!Record, Ledger!NoLines, NoLines
  <2> HIDE DEF new
  <2>3. QED BY <1>1, <2>1, <2>2, RecordGoesOn
<1>3. ASSUME NEW r \in Records, Ledger!VoidTransfer(r) PROVE RecordsPart'
  <2> DEFINE new == [records[r] EXCEPT !.status = "void"]
  <2>1. /\ records[r].status = "draft" /\ records' = [records EXCEPT ![r] = new] /\ lock[r] = None
        /\ UNCHANGED <<journals, period, request, source, lock, task>>
    BY <1>3 DEF Ledger!VoidTransfer, Ledger!ledger
  <2>2. new \in Ledger!Record /\ new.status = "void" /\ new.period = records[r].period
    BY <1>1 DEF Ledger!Record
  <2>3. new.period \in Periods
    BY <2>1, <2>2 DEF RecordsTypeOK
  <2> HIDE DEF new
  <2>4. QED BY <1>1, <2>1, <2>2, <2>3, RecordGoesOn
<1>4. ASSUME NEW c \in Clients, NEW p \in Periods, NEW lines \in LineSets \union {NoLines},
             NEW status \in {"draft", "void", "posted", "reversed"}, Ledger!UpdateWrite(c, p, lines, status)
      PROVE  RecordsPart'
  <2> DEFINE r == task[c].record
             new == [records[r] EXCEPT !.status = status, !.lines = lines, !.period = p]
  <2>1. /\ task[c].op = "update" /\ lock[r] = None
        /\ IF r \in Transfers THEN status = records[r].status ELSE status \in {"draft", "void"}
        /\ records' = [records EXCEPT ![r] = new] /\ task' = [task EXCEPT ![c] = Ledger!Idle]
        /\ UNCHANGED <<journals, period, request, source, lock>>
    BY <1>4 DEF Ledger!UpdateWrite, Ledger!Finish, Ledger!ledger
  <2>2. r \in Records
    BY <2>1 DEF RecordsTypeOK
  <2>3. new \in Ledger!Record /\ new.status = status /\ new.period = p /\ new.entry = records[r].entry
    <3>1. records[r] \in Ledger!Record /\ lines \in LineSets \union {Ledger!NoLines}
      BY <1>1, <2>2 DEF Ledger!NoLines, NoLines
    <3> HIDE DEF r
    <3>2. QED BY <3>1 DEF Ledger!Record
  <2>4. task' \in [Clients -> Ledger!Task] /\ \A d \in Clients : task'[d] = task[d] \/ task'[d].op = "idle"
    BY <1>1, <2>1
  <2> HIDE DEF new, r
  <2>5. QED BY <2>1, <2>2, <2>3, <2>4, RecordGoesOn
<1>5. ASSUME NEW c \in Clients, Ledger!MarkReversed(c) PROVE RecordsPart'
  <2> DEFINE r == task[c].record
             new == [records[r] EXCEPT !.status = "reversed"]
  <2>1. /\ task[c].op = "reverse" /\ request[c].op = "idle" /\ task' = [task EXCEPT ![c] = Ledger!Idle]
        /\ IF r \in Transfers THEN lock[r] = None /\ records' = [records EXCEPT ![r] = new] ELSE UNCHANGED records
        /\ UNCHANGED <<journals, period, request, source, lock>>
    BY <1>5 DEF Ledger!MarkReversed, Ledger!Finish, Ledger!ledger
  <2>2. r \in Records
    BY <2>1 DEF RecordsTypeOK
  <2>3. new \in Ledger!Record /\ new.status = "reversed" /\ new.period = records[r].period /\ new.entry = records[r].entry
    BY <1>1, <2>2 DEF Ledger!Record
  <2>4. /\ task' \in [Clients -> Ledger!Task] /\ task'[c].op = "idle"
        /\ \A d \in Clients : d # c => task'[d] = task[d]
    BY <1>1, <2>1
  <2>5. CASE r \in Transfers
    <3>1. records[r].status \in {"posted", "reversed"} /\ journals[records[r].entry].status = "reversed"
      BY <2>1, <2>5 DEF MarksHeld
    <3>2. new.period \in Periods
      BY <2>2, <2>3, <3>1 DEF RecordsTypeOK
    <3> HIDE DEF new, r
    <3>3. QED BY <2>1, <2>2, <2>3, <2>4, <2>5, <3>1, <3>2, RecordGoesOn
  <2>6. CASE r \notin Transfers
    <3> HIDE DEF new, r
    <3>1. UNCHANGED <<source, records>> /\ lock' \in [Records -> Clients \union {None}]
      BY <2>1, <2>6 DEF RecordsTypeOK
    <3>2. QED BY <2>1, <2>4, <3>1, RequestGoesOn
  <2>7. QED BY <2>5, <2>6
<1>6. QED BY <1>2, <1>3, <1>4, <1>5

\* A posting enters an entry, links the record to it and gives up the lock at once.
LEMMA RecordIsPosted ==
  ASSUME RecordsAssumption, RecordsIInv, EntriesKept, NEW c \in Clients, NEW n \in Numbers, Ledger!PostCommit(c, n)
  PROVE  RecordsPart'
<1> USE DEF RecordsIInv
<1> DEFINE r == task[c].record
           new == [records[r] EXCEPT !.status = "posted", !.entry = n]
<1>1. /\ task[c].op = "post" /\ PostAtomically(n, records[r].period, records[r].lines)
      /\ source' = [source EXCEPT ![n] = r] /\ records' = [records EXCEPT ![r] = new]
      /\ lock' = [lock EXCEPT ![r] = None] /\ task' = [task EXCEPT ![c] = Ledger!Idle]
  BY SameActions DEF Ledger!PostCommit, Ledger!Finish
<1>2. r \in Records /\ lock[r] = c /\ records[r].status = "draft" /\ records[r].lines # NoLines
  BY <1>1 DEF RecordsTypeOK, PostsHeld
<1>3. records[r] \in Ledger!Record /\ records[r].period \in Periods
  BY <1>2 DEF RecordsTypeOK
<1>4. /\ new \in Ledger!Record /\ new.status = "posted" /\ new.entry = n
      /\ new.lines = records[r].lines /\ new.period = records[r].period
  BY <1>3 DEF Ledger!Record
<1>5. /\ journals[n].status = "absent" /\ UNCHANGED <<period, request>>
      /\ journals'[n].status = "posted" /\ journals'[n].lines = records[r].lines /\ journals'[n].period = records[r].period
  BY <1>1 DEF PostAtomically, Free, Draft, IInv, TypeOK
<1>6. source[n] = None
  BY <1>5 DEF SourceInBook, InBook
<1>7. \A m \in Numbers : source[m] = r => r \notin Transfers
  BY <1>2, RecordsInBookIs DEF RecordsAgree
<1> HIDE DEF new
<1>8. records'[r] = new /\ \A s \in Records : s # r => records'[s] = records[s]
  BY <1>1, <1>2 DEF RecordsTypeOK
<1>9. source'[n] = r /\ \A m \in Numbers : m # n => source'[m] = source[m]
  BY <1>1 DEF RecordsTypeOK
<1>10. /\ task'[c].op = "idle" /\ task' \in [Clients -> Ledger!Task]
       /\ \A d \in Clients : d # c => task'[d] = task[d]
  <2>1. Ledger!Idle \in Ledger!Task /\ Ledger!Idle.op = "idle"
    BY DEF Ledger!Idle, Ledger!Task
  <2>2. QED BY <1>1, <2>1 DEF RecordsTypeOK
<1> HIDE DEF r
<1>11. RecordsTypeOK'
  <2>1. source' \in [Numbers -> Records \union {None}] /\ records' \in [Records -> Ledger!Record]
        /\ lock' \in [Records -> Clients \union {None}]
    BY <1>1, <1>2, <1>4 DEF RecordsTypeOK
  <2>2. \A s \in Records : records'[s].status # "absent" => records'[s].period \in Periods
    BY <1>3, <1>4, <1>8 DEF RecordsTypeOK
  <2>3. QED BY <1>10, <2>1, <2>2 DEF RecordsTypeOK
<1>12. SourceInBook'
  BY <1>5, <1>9 DEF SourceInBook, EntriesKept, InBook
<1>13. PostsHeld'
  <2> SUFFICES ASSUME NEW d \in Clients, task'[d].op = "post"
               PROVE  LET s == task'[d].record IN
                      lock'[s] = d /\ records'[s].status = "draft" /\ records'[s].lines # NoLines
    BY DEF PostsHeld
  <2> DEFINE s == task[d].record
  <2>1. d # c /\ task'[d] = task[d] /\ s \in Records /\ lock[s] = d /\ records[s].status = "draft" /\ records[s].lines # NoLines
    BY <1>10 DEF PostsHeld, RecordsTypeOK
  <2>2. s # r
    BY <1>2, <2>1
  <2>3. QED BY <1>1, <1>8, <2>1, <2>2 DEF RecordsTypeOK
<1>14. MarksHeld'
  <2> SUFFICES ASSUME NEW d \in Clients, task'[d].op = "reverse", task'[d].record \in Transfers
               PROVE  LET s == task'[d].record IN
                      /\ records'[s].status \in {"posted", "reversed"}
                      /\ request'[d].op = "idle" => journals'[records'[s].entry].status = "reversed"
                      /\ request'[d].op # "idle" =>
                           request'[d].op \in {"reverse", "reversing"} /\ request'[d].entry = records'[s].entry
    BY DEF MarksHeld
  <2> DEFINE s == task[d].record
  <2>1. /\ task'[d] = task[d] /\ s \in Transfers /\ s \in Records /\ records[s].status \in {"posted", "reversed"}
        /\ request[d].op = "idle" => journals[records[s].entry].status = "reversed"
        /\ request[d].op # "idle" => request[d].op \in {"reverse", "reversing"} /\ request[d].entry = records[s].entry
    BY <1>10 DEF MarksHeld, RecordsAssumption
  <2>2. records'[s] = records[s]
    BY <1>2, <1>8, <2>1
  <2>3. records[s].entry \in Numbers /\ InBook(records[s].entry)
    BY <2>1, RecordsInBookIs DEF RecordsAgree
  <2>4. request[d].op = "idle" => journals'[records[s].entry].status = "reversed"
    BY <2>1, <2>3 DEF EntriesKept
  <2>5. QED BY <1>5, <2>1, <2>2, <2>4
<1>15. RecordsAgree'
  <2>1. ASSUME NEW s \in Records, s # r, records[s].status \in {"posted", "reversed"}
        PROVE  /\ records[s].entry \in Numbers /\ source'[records[s].entry] = s
               /\ journals'[records[s].entry].status \in {"posted", "reversed"}
               /\ journals'[records[s].entry].lines = journals[records[s].entry].lines
               /\ journals'[records[s].entry].period = journals[records[s].entry].period
               /\ journals[records[s].entry].status = "reversed" => journals'[records[s].entry].status = "reversed"
    <3>1. records[s].entry \in Numbers /\ source[records[s].entry] = s /\ InBook(records[s].entry)
      BY <2>1, RecordsInBookIs DEF RecordsAgree
    <3>2. records[s].entry # n
      BY <1>5, <3>1 DEF InBook
    <3>3. QED BY <1>9, <3>1, <3>2 DEF EntriesKept, InBook
  <2>2. \A s \in Records : records'[s].status \in {"posted", "reversed"} =>
          /\ records'[s].entry \in Numbers /\ source'[records'[s].entry] = s
          /\ journals'[records'[s].entry].status \in {"posted", "reversed"}
    BY <1>4, <1>5, <1>8, <1>9, <2>1
  <2>3. \A s \in Transfers, m \in Numbers : source'[m] = s =>
          records'[s].entry = m /\ records'[s].status \in {"posted", "reversed"}
    <3> SUFFICES ASSUME NEW s \in Transfers, NEW m \in Numbers, source'[m] = s
                 PROVE  records'[s].entry = m /\ records'[s].status \in {"posted", "reversed"}
      OBVIOUS
    <3>1. s \in Records
      BY DEF RecordsAssumption
    <3>2. CASE m = n
      BY <1>4, <1>8, <1>9, <3>2
    <3>3. CASE m # n
      <4>1. source[m] = s /\ s # r
        BY <1>7, <1>9, <3>3
      <4>2. QED BY <1>8, <3>1, <4>1, RecordsInBookIs DEF RecordsAgree
    <3>4. QED BY <3>2, <3>3
  <2>4. \A s \in Records \ Transfers : records'[s].status = "posted" =>
          /\ records'[s].lines = journals'[records'[s].entry].lines
          /\ records'[s].period = journals'[records'[s].entry].period
    <3> SUFFICES ASSUME NEW s \in Records \ Transfers, records'[s].status = "posted"
                 PROVE  /\ records'[s].lines = journals'[records'[s].entry].lines
                        /\ records'[s].period = journals'[records'[s].entry].period
      OBVIOUS
    <3>1. CASE s = r
      BY <1>4, <1>5, <1>8, <3>1
    <3>2. CASE s # r
      <4>1. records'[s] = records[s]
        BY <1>8, <3>2
      <4>2. records[s].lines = journals[records[s].entry].lines /\ records[s].period = journals[records[s].entry].period
        BY <4>1, RecordsInBookIs DEF RecordsAgree
      <4>3. QED BY <2>1, <3>2, <4>1, <4>2
    <3>3. QED BY <3>1, <3>2
  <2>5. \A s \in Transfers : records'[s].status = "reversed" => journals'[records'[s].entry].status = "reversed"
    <3> SUFFICES ASSUME NEW s \in Transfers, records'[s].status = "reversed"
                 PROVE  journals'[records'[s].entry].status = "reversed"
      OBVIOUS
    <3>1. s \in Records /\ s # r /\ records'[s] = records[s]
      BY <1>4, <1>8 DEF RecordsAssumption
    <3>2. journals[records[s].entry].status = "reversed"
      BY <3>1, RecordsInBookIs DEF RecordsAgree
    <3>3. QED BY <2>1, <3>1, <3>2
  <2>6. QED BY <2>2, <2>3, <2>4, <2>5 DEF RecordsAgree, InBook
<1>16. QED BY <1>11, <1>12, <1>13, <1>14, <1>15, RecordsInBookIs DEF RecordsPart

LEMMA RecordsInit == RecordsAssumption /\ Ledger!Init => RecordsIInv
<1> SUFFICES ASSUME RecordsAssumption, Ledger!Init PROVE RecordsIInv
  OBVIOUS
<1>1. Init
  BY DEF Ledger!Init, Ledger!J!Init, Init, Ledger!J!NoEntry, NoEntry, Ledger!J!Idle, Idle, NoLines, Ledger!J!NoLines
<1>2. IInv /\ IdleIsIdle
  BY <1>1, InitIInv DEF Init, IdleIsIdle
<1>3. RecordsTypeOK
  BY DEF Ledger!Init, RecordsTypeOK, Ledger!Record, Ledger!NoRecord, Ledger!Task, Ledger!Idle
<1>4. SourceInBook /\ PostsHeld /\ MarksHeld
  BY DEF Ledger!Init, SourceInBook, PostsHeld, MarksHeld, Ledger!Idle
<1>5. RecordsAgree
  BY DEF Ledger!Init, RecordsAgree, Ledger!NoRecord, RecordsAssumption
<1>6. QED BY <1>2, <1>3, <1>4, <1>5, RecordsInBookIs DEF RecordsIInv

LEMMA RecordsStep == RecordsAssumption /\ RecordsIInv /\ [Ledger!Next]_(Ledger!vars) => RecordsIInv'
<1> SUFFICES ASSUME RecordsAssumption, RecordsIInv, [Ledger!Next]_(Ledger!vars) PROVE RecordsIInv'
  OBVIOUS
<1>1. IInv'
  BY RecordsStepIsJournals, NextTypeOK, NextPostedEntriesBalance, NextReversalsMirror,
     NextReversedHaveReversal, NextRequestsHold DEF IInv, RecordsIInv
<1>2. EntriesKept /\ IdleIsIdle'
  BY RecordsKeepEntries
<1>3. SUFFICES RecordsPart'
  BY <1>1, <1>2 DEF RecordsPart, RecordsIInv
<1>4. CASE Ledger!PeriodStep \/ UNCHANGED Ledger!vars
  <2>1. UNCHANGED <<journals, request, source, records, lock, task>>
    BY <1>4, SameActions DEF Ledger!PeriodStep, Ledger!vars, ReopenPeriod, ClosePeriod
  <2>2. RecordsInBook' /\ SourceInBook'
    BY <1>2, <2>1, NoRecordChanges
  <2>3. RecordsTypeOK' /\ PostsHeld' /\ MarksHeld'
    BY <2>1 DEF RecordsIInv, RecordsTypeOK, PostsHeld, MarksHeld
  <2>4. QED BY <2>2, <2>3 DEF RecordsPart
<1>5. CASE Ledger!Next
  <2>1. Ledger!NoLines = NoLines
    BY DEF Ledger!NoLines, NoLines
  <2>2. QED BY <1>2, <1>4, <1>5, <2>1, RequestsGoOn, RecordsGoOn, RecordIsPosted DEF Ledger!Next, Ledger!ClientStep
<1>6. QED BY <1>4, <1>5

\* Records and book agree, for any number of records, requests and entries: a record that
\* says it is posted has its own entry in the book, a transfer is posted once, and a
\* transfer is marked reversed after its entry is (postExpenseAtomic,
\* postBookkeepingTransaction, reverseBookkeepingTransaction).
THEOREM RecordsAlwaysInBook == Ledger!Spec => []RecordsInBook
<1>1. Ledger!Init => RecordsIInv
  BY RecordsInit, LedgerAssumption
<1>2. RecordsIInv /\ [Ledger!Next]_(Ledger!vars) => RecordsIInv'
  BY RecordsStep, LedgerAssumption
<1>3. RecordsIInv => RecordsInBook
  BY DEF RecordsIInv
<1>4. QED BY <1>1, <1>2, <1>3, PTL DEF Ledger!Spec

---------------------------------------------------------------------------
(* The keys of requests that are made again (Idempotency).                  *)

\* A stored response is that of an execution of the payload of its row.
StoredIsOwn == key # None /\ key.response # None => key.response.payload = key.hash

\* Until the operation has committed, a request has no result; then it has one
\* of its own payload.
ResultIsOwn ==
  \A c \in Clients :
    /\ caller[c].stage \in {"start", "lookup", "expired", "reserved"} => caller[c].result = None
    /\ caller[c].stage \in {"performed", "answered"} => caller[c].result # None
    /\ caller[c].result # None => caller[c].result.payload = caller[c].payload

\* A request that is under way has a payload.
CallersUnderWay ==
  \A c \in Clients : caller[c].stage # "refused" => caller[c].payload \in Payloads

KeysIInv == Keys!TypeOK /\ Keys!OneExecutor /\ StoredIsOwn /\ ResultIsOwn /\ CallersUnderWay

---------------------------------------------------------------------------
\* In the beginning there is no row and nobody executes.
LEMMA KeysInitIInv == ASSUME KeysAssumption, Keys!Init PROVE KeysIInv
  BY DEF KeysAssumption, Keys!Init, KeysIInv, Keys!TypeOK, Keys!OneExecutor, StoredIsOwn, ResultIsOwn, CallersUnderWay,
      Keys!Waiting, Keys!Request, Keys!Stage, Keys!Executing, Keys!Row

\* A new request, which has the place of one that is done.
LEMMA KeysSubmitIInv ==
  ASSUME KeysAssumption, NEW c \in Clients, NEW p \in Payloads, KeysIInv, Keys!Submit(c, p)
  PROVE  KeysIInv'
  BY
  DEF KeysAssumption, Keys!Submit, KeysIInv, Keys!TypeOK, Keys!OneExecutor, StoredIsOwn, ResultIsOwn, CallersUnderWay, Keys!Request, Keys!Stage, Keys!Executing

\* Whoever inserts the row becomes the executor: there was none, as there was no row.
LEMMA KeysReserveIInv ==
  ASSUME KeysAssumption, NEW c \in Clients, KeysIInv, Keys!Reserve(c)
  PROVE  KeysIInv'
<1>1. CASE key = None
  <2>1. /\ key' = [hash |-> caller[c].payload, response |-> None, expired |-> FALSE]
        /\ caller' = [caller EXCEPT ![c].stage = "reserved"]
        /\ caller[c].stage = "start" /\ UNCHANGED runs
    BY <1>1 DEF Keys!Reserve, Keys!Go
  <2>2. \A d \in Clients : ~ Keys!Executing(d)
    BY <1>1 DEF KeysIInv, Keys!OneExecutor
  <2>3. key' \in Keys!Row
    BY <2>1 DEF KeysIInv, CallersUnderWay, Keys!Row
  <2>4. Keys!TypeOK'
    BY <2>1, <2>3 DEF KeysIInv, Keys!TypeOK, Keys!Request, Keys!Stage
  <2>5. key' # None
    BY <2>3 DEF KeysAssumption
  <2>6. \A d \in Clients : Keys!Executing(d)' => d = c
    BY <2>1, <2>2 DEF Keys!Executing, KeysIInv, Keys!TypeOK, Keys!Request
  <2>7. Keys!OneExecutor'
    BY <2>1, <2>5, <2>6 DEF Keys!OneExecutor, KeysIInv, Keys!TypeOK, Keys!Request
  <2>8. StoredIsOwn'
    BY <2>1 DEF StoredIsOwn
  <2>9. ResultIsOwn' /\ CallersUnderWay'
    BY <2>1 DEF KeysIInv, Keys!TypeOK, Keys!Request, ResultIsOwn, CallersUnderWay
  <2>10. QED BY <2>4, <2>7, <2>8, <2>9 DEF KeysIInv
<1>2. CASE key # None
  <2>1. caller' = [caller EXCEPT ![c].stage = "lookup"] /\ UNCHANGED <<key, runs>>
        /\ caller[c].stage = "start"
    BY <1>2 DEF Keys!Reserve, Keys!Go
  <2>2. QED
    BY <2>1
    DEF KeysIInv, Keys!TypeOK, Keys!OneExecutor, StoredIsOwn, ResultIsOwn, CallersUnderWay, Keys!Request, Keys!Stage, Keys!Executing
<1>3. QED BY <1>1, <1>2

\* An answer from the row is one to the payload of the request.
LEMMA KeysLookupIInv ==
  ASSUME KeysAssumption, NEW c \in Clients, KeysIInv, Keys!Lookup(c)
  PROVE  KeysIInv'
<1>1. UNCHANGED <<key, runs>> /\ caller[c].stage = "lookup"
  BY DEF Keys!Lookup
<1>2. CASE key # None /\ ~ key.expired /\ key.hash = caller[c].payload /\ key.response # None
  <2>1. caller' = [caller EXCEPT ![c].stage = "answered", ![c].result = key.response]
    BY <1>2 DEF Keys!Lookup
  <2>2. key.response \in Keys!Result /\ key.response.payload = caller[c].payload
    BY <1>2 DEF KeysIInv, Keys!TypeOK, Keys!Row, StoredIsOwn
  <2>3. Keys!TypeOK'
    BY <1>1, <2>1, <2>2 DEF KeysIInv, Keys!TypeOK, Keys!Request, Keys!Stage
  <2>4. Keys!OneExecutor'
    BY <1>1, <2>1 DEF KeysIInv, Keys!TypeOK, Keys!OneExecutor, Keys!Executing, Keys!Request
  <2>5. ResultIsOwn'
    BY <1>2, <2>1, <2>2 DEF KeysIInv, Keys!TypeOK, ResultIsOwn, Keys!Request
  <2>6. StoredIsOwn' /\ CallersUnderWay'
    BY <1>1, <2>1 DEF KeysIInv, Keys!TypeOK, StoredIsOwn, CallersUnderWay, Keys!Request
  <2>7. QED BY <2>3, <2>4, <2>5, <2>6 DEF KeysIInv
<1>3. CASE ~ (key # None /\ ~ key.expired /\ key.hash = caller[c].payload /\ key.response # None)
  <2>1. PICK stage \in {"expired", "refused"} : caller' = [caller EXCEPT ![c].stage = stage]
    BY <1>3 DEF Keys!Lookup, Keys!Go
  <2>2. QED
    BY <1>1, <2>1
    DEF KeysIInv, Keys!TypeOK, Keys!OneExecutor, StoredIsOwn, ResultIsOwn, CallersUnderWay, Keys!Request, Keys!Stage, Keys!Executing
<1>4. QED BY <1>2, <1>3

\* The row of an executor has not expired, so the DELETE does not take it away.
LEMMA KeysDeleteExpiredIInv ==
  ASSUME KeysAssumption, NEW c \in Clients, KeysIInv, Keys!DeleteExpired(c)
  PROVE  KeysIInv'
<1>1. /\ caller' = [caller EXCEPT ![c].stage = "start"]
      /\ caller[c].stage = "expired" /\ UNCHANGED runs
      /\ key' = key \/ (key # None /\ key.expired /\ key' = None)
  BY DEF Keys!DeleteExpired, Keys!Go
<1>2. Keys!TypeOK'
  BY <1>1 DEF KeysIInv, Keys!TypeOK, Keys!Request, Keys!Stage
<1>3. Keys!OneExecutor'
  BY <1>1 DEF KeysIInv, Keys!TypeOK, Keys!OneExecutor, Keys!Request, Keys!Executing
<1>4. StoredIsOwn' /\ ResultIsOwn' /\ CallersUnderWay'
  BY <1>1 DEF KeysIInv, Keys!TypeOK, StoredIsOwn, ResultIsOwn, CallersUnderWay, Keys!Request
<1>5. QED BY <1>2, <1>3, <1>4 DEF KeysIInv

\* The executor commits; its row has no response yet.
LEMMA KeysPerformIInv ==
  ASSUME KeysAssumption, NEW c \in Clients, KeysIInv, Keys!Perform(c)
  PROVE  KeysIInv'
<1> DEFINE p == caller[c].payload
           result == [payload |-> p, run |-> runs[p] + 1]
<1>1. /\ caller[c].stage = "reserved" /\ runs[p] < MaxRuns /\ UNCHANGED key
      /\ runs' = [runs EXCEPT ![p] = @ + 1]
      /\ caller' = [caller EXCEPT ![c].stage = "performed", ![c].result = result]
  BY DEF Keys!Perform
<1>2. p \in Payloads /\ runs[p] \in 0 .. MaxRuns
  BY <1>1 DEF KeysIInv, CallersUnderWay, Keys!TypeOK
<1>3. runs[p] + 1 \in 1 .. MaxRuns
  BY <1>1, <1>2 DEF KeysAssumption
<1>4. result \in Keys!Result /\ result # None /\ result.payload = p
  BY <1>2, <1>3 DEF KeysAssumption, Keys!Result
<1>5. key.response = None /\ \A d \in Clients : Keys!Executing(d) => d = c
  BY <1>1 DEF KeysIInv, Keys!OneExecutor, ResultIsOwn, Keys!Executing
<1> HIDE DEF result
<1>6. Keys!TypeOK'
  <2>1. runs' \in [Payloads -> 0 .. MaxRuns]
    BY <1>1, <1>2, <1>3 DEF KeysAssumption, KeysIInv, Keys!TypeOK
  <2>2. caller' \in [Clients -> Keys!Request]
    BY <1>1, <1>4 DEF KeysIInv, Keys!TypeOK, Keys!Request, Keys!Stage
  <2>3. QED BY <1>1, <2>1, <2>2 DEF KeysIInv, Keys!TypeOK
<1>7. Keys!OneExecutor'
  BY <1>1, <1>4, <1>5 DEF KeysIInv, Keys!TypeOK, Keys!OneExecutor, Keys!Executing, Keys!Request
<1>8. StoredIsOwn' /\ ResultIsOwn' /\ CallersUnderWay'
  BY <1>1, <1>4 DEF KeysIInv, Keys!TypeOK, StoredIsOwn, ResultIsOwn, CallersUnderWay, Keys!Request
<1>9. QED BY <1>6, <1>7, <1>8 DEF KeysIInv

\* A failed execution still has its row.
LEMMA KeysFailIInv ==
  ASSUME KeysAssumption, NEW c \in Clients, KeysIInv, Keys!Fail(c)
  PROVE  KeysIInv'
  BY DEF Keys!Fail, Keys!Go, KeysIInv, Keys!TypeOK, Keys!OneExecutor, StoredIsOwn, ResultIsOwn, CallersUnderWay, Keys!Request, Keys!Stage, Keys!Executing

\* The executor stores its result in the row of its own payload.
LEMMA KeysStoreIInv ==
  ASSUME KeysAssumption, NEW c \in Clients, KeysIInv, Keys!Store(c)
  PROVE  KeysIInv'
<1>1. caller[c].stage = "performed" /\ UNCHANGED runs
  BY DEF Keys!Store
<1>2. PICK stage \in {"answered", "failed"} : caller' = [caller EXCEPT ![c].stage = stage]
  BY DEF Keys!Store, Keys!Go
<1>3. /\ key # None /\ key.hash = caller[c].payload /\ ~ key.expired /\ key \in Keys!Row
      /\ \A d \in Clients : Keys!Executing(d) => d = c
  BY <1>1 DEF KeysIInv, Keys!TypeOK, Keys!OneExecutor, Keys!Executing
<1>4. key' = [key EXCEPT !.response = caller[c].result]
  BY <1>3 DEF Keys!Store
<1>5. caller[c].result \in Keys!Result /\ caller[c].result.payload = caller[c].payload
  BY <1>1 DEF KeysIInv, Keys!TypeOK, Keys!Request, ResultIsOwn
<1>6. /\ key' \in Keys!Row /\ key' # None
      /\ key'.hash = key.hash /\ key'.expired = key.expired /\ key'.response = caller[c].result
  BY <1>3, <1>4, <1>5 DEF KeysAssumption, Keys!Row
<1>7. Keys!TypeOK'
  BY <1>1, <1>2, <1>6 DEF KeysIInv, Keys!TypeOK, Keys!Request, Keys!Stage
<1>8. Keys!OneExecutor'
  BY <1>2, <1>3, <1>6 DEF KeysIInv, Keys!TypeOK, Keys!OneExecutor, Keys!Executing, Keys!Request
<1>9. StoredIsOwn' /\ ResultIsOwn' /\ CallersUnderWay'
  BY <1>1, <1>2, <1>3, <1>5, <1>6
  DEF KeysIInv, Keys!TypeOK, StoredIsOwn, ResultIsOwn, CallersUnderWay, Keys!Request
<1>10. QED BY <1>7, <1>8, <1>9 DEF KeysIInv

\* The cleanup of a failure is that of the executor, whose row it is.
LEMMA KeysReleaseIInv ==
  ASSUME KeysAssumption, NEW c \in Clients, KeysIInv, Keys!Release(c)
  PROVE  KeysIInv'
<1>1. /\ caller[c].stage = "failed" /\ UNCHANGED runs
      /\ caller' = [caller EXCEPT ![c].stage = "refused"]
      /\ key' = key \/ key' = None
  BY DEF Keys!Release, Keys!Go
<1>2. \A d \in Clients : Keys!Executing(d) => d = c
  BY <1>1 DEF KeysIInv, Keys!OneExecutor, Keys!Executing
<1>3. \A d \in Clients : ~ Keys!Executing(d)'
  BY <1>1, <1>2 DEF KeysIInv, Keys!TypeOK, Keys!Executing, Keys!Request
<1>4. Keys!TypeOK' /\ Keys!OneExecutor'
  BY <1>1, <1>3 DEF KeysIInv, Keys!TypeOK, Keys!OneExecutor, Keys!Request, Keys!Stage
<1>5. StoredIsOwn' /\ ResultIsOwn' /\ CallersUnderWay'
  BY <1>1 DEF KeysIInv, Keys!TypeOK, StoredIsOwn, ResultIsOwn, CallersUnderWay, Keys!Request
<1>6. QED BY <1>4, <1>5 DEF KeysIInv

\* A crash leaves the row to nobody.
LEMMA KeysCrashIInv ==
  ASSUME KeysAssumption, NEW c \in Clients, KeysIInv, Keys!Crash(c)
  PROVE  KeysIInv'
  BY DEF Keys!Crash, Keys!Go, KeysIInv, Keys!TypeOK, Keys!OneExecutor, StoredIsOwn, ResultIsOwn, CallersUnderWay, Keys!Request, Keys!Stage, Keys!Executing

\* A row that nobody executes under expires.
LEMMA KeysExpireIInv == ASSUME KeysAssumption, KeysIInv, Keys!Expire PROVE KeysIInv'
<1>1. key \in Keys!Row /\ key' = [key EXCEPT !.expired = TRUE] /\ UNCHANGED <<caller, runs>>
  BY DEF Keys!Expire, KeysIInv, Keys!TypeOK
<1>2. key' \in Keys!Row /\ key'.response = key.response /\ key'.hash = key.hash
  BY <1>1 DEF Keys!Row
<1>3. Keys!TypeOK' /\ StoredIsOwn' /\ ResultIsOwn' /\ CallersUnderWay'
  BY <1>1, <1>2 DEF KeysAssumption, Keys!Expire, KeysIInv, Keys!TypeOK, StoredIsOwn, ResultIsOwn, CallersUnderWay
<1>4. Keys!OneExecutor'
  BY <1>1 DEF Keys!Expire, Keys!OneExecutor, Keys!Executing
<1>5. QED BY <1>3, <1>4 DEF KeysIInv

\* Only expired rows are cleaned up, and nobody executes under one.
LEMMA KeysCleanupIInv == ASSUME KeysAssumption, KeysIInv, Keys!Cleanup PROVE KeysIInv'
  BY DEF Keys!Cleanup, KeysIInv, Keys!TypeOK, Keys!OneExecutor, StoredIsOwn, ResultIsOwn, CallersUnderWay, Keys!Executing

\* Every step preserves the inductive invariant.
LEMMA KeysStepIInv == KeysAssumption /\ KeysIInv /\ [Keys!Next]_(Keys!vars) => KeysIInv'
<1> SUFFICES ASSUME KeysAssumption, KeysIInv, [Keys!Next]_(Keys!vars) PROVE KeysIInv'
  OBVIOUS
<1>1. CASE UNCHANGED Keys!vars
  BY <1>1 DEF Keys!vars, KeysIInv, Keys!TypeOK, Keys!OneExecutor, StoredIsOwn, ResultIsOwn, CallersUnderWay, Keys!Executing
<1>2. ASSUME NEW c \in Clients, Keys!Step(c) PROVE KeysIInv'
  BY <1>2, KeysReserveIInv, KeysLookupIInv, KeysDeleteExpiredIInv, KeysPerformIInv, KeysFailIInv, KeysStoreIInv, KeysReleaseIInv
  DEF Keys!Step
<1>3. ASSUME NEW c \in Clients, Keys!Crash(c) PROVE KeysIInv'
  BY <1>3, KeysCrashIInv
<1>4. ASSUME NEW c \in Clients, NEW p \in Payloads, Keys!Submit(c, p) PROVE KeysIInv'
  BY <1>4, KeysSubmitIInv
<1>5. CASE Keys!Expire
  BY <1>5, KeysExpireIInv
<1>6. CASE Keys!Cleanup
  BY <1>6, KeysCleanupIInv
<1>7. QED BY <1>1, <1>2, <1>3, <1>4, <1>5, <1>6 DEF Keys!Next

\* The inductive invariant holds throughout.
\* The requests of a key, whether the server goes on with them or not
KeysSteps == Keys!Init /\ [][Keys!Next]_(Keys!vars)

LEMMA KeysInvariance == KeysSteps => []KeysIInv
<1>1. KeysAssumption
  BY LedgerAssumption
<1>2. QED BY <1>1, KeysInitIInv, KeysStepIInv, PTL DEF KeysSteps

---------------------------------------------------------------------------
\* The columns and the requests keep their types, for any number of requests.
THEOREM KeysTyped == KeysSteps => []Keys!TypeOK
<1>1. KeysIInv => Keys!TypeOK
  BY DEF KeysIInv
<1>2. QED BY <1>1, KeysInvariance, PTL

\* However many requests race for the key, one at most executes, and it has the row.
THEOREM OnlyOneExecutes == KeysSteps => []OneExecutor
<1>1. KeysIInv => Keys!OneExecutor
  BY DEF KeysIInv
<1>2. QED BY <1>1, KeysInvariance, PTL DEF OneExecutor

\* Nobody is answered with the result of another payload.
THEOREM AnswersAreOwn == KeysSteps => []AnswersOwnPayload
<1>1. KeysIInv => Keys!AnswersOwnPayload
  BY DEF KeysIInv, ResultIsOwn, Keys!AnswersOwnPayload
<1>2. QED BY <1>1, KeysInvariance, PTL DEF AnswersOwnPayload

\* A stored response stands, and nothing is executed again, until the row expires.
THEOREM StoredStands == KeysSteps => ResponseStands
<1> DEFINE Stands == key # None /\ key.response # None /\ ~ key.expired =>
                       runs' = runs /\ key' # None /\ key'.response = key.response
<1> USE LedgerAssumption
<1>1. ASSUME KeysIInv, [Keys!Next]_(Keys!vars) PROVE [Stands]_(Keys!vars)
  <2> SUFFICES ASSUME key # None, key.response # None, ~ key.expired
               PROVE  UNCHANGED Keys!vars \/ (runs' = runs /\ key' # None /\ key'.response = key.response)
    OBVIOUS
  <2>1. key \in Keys!Row
    BY <1>1 DEF KeysIInv, Keys!TypeOK
  <2>2. ASSUME NEW c \in Clients, Keys!Reserve(c) \/ Keys!Lookup(c) \/ Keys!DeleteExpired(c) \/ Keys!Fail(c) \/ Keys!Release(c)
                                  \/ Keys!Crash(c)
        PROVE  runs' = runs /\ key' = key
    BY <2>2 DEF Keys!Reserve, Keys!Lookup, Keys!DeleteExpired, Keys!Fail, Keys!Release, Keys!Crash
  <2>3. ASSUME NEW c \in Clients, Keys!Perform(c) PROVE FALSE
    BY <1>1, <2>3 DEF Keys!Perform, KeysIInv, Keys!OneExecutor, ResultIsOwn, Keys!Executing
  <2>4. ASSUME NEW c \in Clients, Keys!Store(c)
        PROVE  runs' = runs /\ key' # None /\ key'.response = key.response
    <3>1. key.response = caller[c].result
      BY <1>1, <2>4 DEF Keys!Store, KeysIInv, Keys!OneExecutor, Keys!Executing
    <3>2. key' = [key EXCEPT !.response = caller[c].result]
      BY <2>4 DEF Keys!Store
    <3>3. key' = key
      BY <2>1, <3>1, <3>2 DEF Keys!Row
    <3>4. QED BY <2>4, <3>3 DEF Keys!Store
  <2>5. ASSUME NEW c \in Clients, NEW p \in Payloads, Keys!Submit(c, p) PROVE runs' = runs /\ key' = key
    BY <2>5 DEF Keys!Submit
  <2>6. CASE Keys!Expire
    <3>1. key' \in Keys!Row /\ key'.response = key.response
      BY <2>1, <2>6 DEF Keys!Expire, Keys!Row
    <3>2. QED BY <2>6, <3>1 DEF KeysAssumption, Keys!Expire
  <2>7. CASE Keys!Cleanup
    BY <2>7 DEF Keys!Cleanup
  <2>8. QED BY <1>1, <2>2, <2>3, <2>4, <2>5, <2>6, <2>7 DEF Keys!Next, Keys!Step
<1>2. QED BY <1>1, KeysInvariance, PTL DEF KeysSteps, ResponseStands, Keys!ResponseStands

---------------------------------------------------------------------------
(* The whole. The journal takes its steps from manual entries or from the   *)
(* records; of the records there are none where they are not the part that  *)
(* runs.                                                                    *)

NoDocuments ==
  /\ records = [r \in Records |-> Ledger!NoRecord]
  /\ source = [n \in Numbers |-> None]

\* The invariant of the records, where they run
DocumentsHold == IF part = "records" THEN RecordsIInv ELSE NoDocuments

\* Every step is one of the requests of the key, or leaves them alone.
LEMMA KeysRun == LedgerSpec => KeysSteps
<1>1. LedgerInit => Keys!Init
  BY DEF LedgerInit
<1>2. [LedgerNext]_ledgers => [Keys!Next]_(Keys!vars)
  BY DEF LedgerNext, ledgers, keys, Keys!vars
<1>3. QED BY <1>1, <1>2, PTL DEF LedgerSpec, KeysSteps

LEMMA DocumentsAlwaysHold == LedgerSpec => []DocumentsHold
<1>1. LedgerInit => DocumentsHold
  BY RecordsInit, LedgerAssumption DEF LedgerInit, DocumentsHold, NoDocuments, Ledger!Init
<1>2. DocumentsHold /\ [LedgerNext]_ledgers => DocumentsHold'
  <2> SUFFICES ASSUME DocumentsHold, [LedgerNext]_ledgers PROVE DocumentsHold'
    OBVIOUS
  <2>1. part' = part
    BY DEF LedgerNext, ledgers
  <2>2. CASE part = "records"
    <3>1. [Ledger!Next]_(Ledger!vars)
      BY <2>2 DEF LedgerNext, ledgers, vars, documents, Ledger!vars
    <3>2. QED BY <2>1, <2>2, <3>1, RecordsStep, LedgerAssumption DEF DocumentsHold
  <2>3. CASE part # "records"
    <3>1. UNCHANGED <<records, source>>
      BY <2>3 DEF LedgerNext, ledgers, documents
    <3>2. QED BY <2>1, <2>3, <3>1 DEF DocumentsHold, NoDocuments
  <2>4. QED BY <2>2, <2>3
<1>3. QED BY <1>1, <1>2, PTL DEF LedgerSpec

\* The journal is the journal, whether its steps are of manual entries or of records.
THEOREM JournalRuns == LedgerSpec => Spec
<1>1. LedgerInit => Init
  <2>1. Ledger!J!Init => Init
    BY DEF Ledger!J!Init, Ledger!J!NoEntry, Ledger!J!Idle, Ledger!J!NoLines, Init, NoEntry, Idle, NoLines
  <2>2. QED BY <2>1 DEF LedgerInit, Ledger!Init
<1>2. DocumentsHold /\ [LedgerNext]_ledgers => [Next]_vars
  <2> SUFFICES ASSUME DocumentsHold, [LedgerNext]_ledgers PROVE [Next]_vars
    OBVIOUS
  <2>1. CASE part = "records"
    <3>1. [Ledger!Next]_(Ledger!vars)
      BY <2>1 DEF LedgerNext, ledgers, vars, documents, Ledger!vars
    <3>2. QED BY <2>1, <3>1, RecordsStepIsJournals, LedgerAssumption DEF DocumentsHold
  <2>2. CASE part # "records"
    BY <2>2 DEF LedgerNext, ledgers
  <2>3. QED BY <2>1, <2>2
<1>3. QED BY <1>1, <1>2, DocumentsAlwaysHold, PTL DEF LedgerSpec, Spec

\* The ledger keeps all that its parts promise: the entries of the book balance and are
\* mirrored by their reversals, the book only grows, the records agree with it, and a key
\* has one executor and one answer.
THEOREM LedgerHolds ==
  LedgerSpec => /\ [](PostedEntriesBalance /\ ReversalsMirror /\ RecordsInBook /\ OneExecutor)
                /\ ImplementsBook /\ ResponseStands
<1>1. DocumentsHold => RecordsInBook
  <2>1. RecordsIInv => RecordsInBook
    BY DEF RecordsIInv
  <2>2. NoDocuments => RecordsAgree
    BY LedgerAssumption DEF NoDocuments, RecordsAgree, Ledger!NoRecord, RecordsAssumption
  <2>3. QED BY <2>1, <2>2, RecordsInBookIs DEF DocumentsHold
<1>2. QED
  BY <1>1, DocumentsAlwaysHold, JournalRuns, KeysRun, PostedBalance, ReversalsAreMirrors,
     BookImplemented, OnlyOneExecutes, StoredStands, PTL
===========================================================================
