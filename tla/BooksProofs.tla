----------------------------- MODULE BooksProofs -----------------------------
(***************************************************************************)
(* What the parts of MCBooks keep, for any number of requests and of the    *)
(* things they are about: reconciliations first, then recurring and         *)
(* intercompany transactions, attachments, periods, invoices, opening       *)
(* balances and the tree of accounts, and at the end the books as a whole.  *)
(*                                                                         *)
(* A completed reconciliation adds up if the request that completed it was  *)
(* alone on it. The invariant follows such a request: what it has still to  *)
(* take back and to add is what parts the session from the lines ticked.    *)
(***************************************************************************)
EXTENDS MCBooks, Sums

Session ==
  [status : {"draft", "reopened", "completed", "void"}, movement : Movements,
   difference : Int \union {None}, ticked : (SUBSET Lines) \union {None}, alone : BOOLEAN]

Item == [of : Sessions, id : Requests]

Work ==
  [pc : {"check", "act", "commit", "complete", "reopened", "void"}, of : Sessions,
   removes : SUBSET [line : Lines, id : Requests], adds : SUBSET Lines, finish : BOOLEAN,
   ticked : (SUBSET Lines) \union {None}, difference : Int \union {None}, alone : BOOLEAN]

\* The null is no row, and no set of lines that a user ticks.
LEMMA NullIsNothing == None \notin Session \union Item \union SUBSET Lines
BY BooksAssumption DEF Session, Item

TablesOK ==
  /\ session \in [Sessions -> Session \union {None}]
  /\ cleared \in [Lines -> Item \union {None}]

Types ==
  /\ TablesOK
  /\ work = [r \in Requests |-> work[r]]
  /\ \A r \in UnderWay : work[r] \in Work /\ session[work[r].of] # None

\* Lines about to be committed belong to the session or to none.
Committing(r) ==
  work[r].pc = "commit" =>
    /\ work[r].removes = {}
    /\ \A l \in work[r].adds : cleared[l] = None \/ cleared[l].of = work[r].of

\* What a request alone on its session has still to do makes the session what was ticked,
\* and then its difference is that of the session.
OnCourse(r) ==
  LET items == Items(work[r].of)
      leaving == {i.line : i \in work[r].removes}
  IN  /\ \A q \in UnderWay : work[q].of = work[r].of => q = r
      /\ work[r].pc \in {"check", "act", "commit"} /\ work[r].ticked # None =>
           /\ items \subseteq work[r].ticked \union leaving
           /\ work[r].ticked \subseteq items \union work[r].adds
           /\ leaving \intersect work[r].ticked = {} /\ work[r].adds \subseteq work[r].ticked
      /\ work[r].pc = "complete" =>
           /\ work[r].difference = Difference(work[r].of)
           /\ work[r].ticked \in {None, items}

Mine(r) == r \in UnderWay => Committing(r) /\ (work[r].alone => OnCourse(r))

\* No two requests are about to commit one line.
CommitsApart ==
  \A r, q \in Requests :
    r # q /\ work[r].pc = "commit" /\ work[q].pc = "commit" => work[r].adds \intersect work[q].adds = {}

Settled(s) == session[s] # None /\ session[s].status = "completed" /\ session[s].alone

Stands(s) ==
  Settled(s) => session[s].difference = Difference(s) /\ session[s].ticked \in {None, Items(s)}

\* Nobody who has passed the check of its status is at a session that was completed alone.
Quiet(s) ==
  Settled(s) => \A q \in UnderWay : work[q].of = s => work[q].pc \notin {"act", "commit", "complete"}

IInv ==
  /\ Types /\ CommitsApart
  /\ \A r \in Requests : Mine(r)
  /\ \A s \in Sessions : Stands(s) /\ Quiet(s)

---------------------------------------------------------------------------
\* In the beginning there is no session.
LEMMA InitIInv ==
  ASSUME Init
  PROVE  IInv
<1>1. UnderWay = {} /\ \A r \in Requests : work[r].pc = "none"
  BY DEF Init, UnderWay, NotBegun
<1>2. Types
  BY <1>1 DEF Init, Types, TablesOK
<1>3. CommitsApart /\ \A r \in Requests : Mine(r)
  BY <1>1 DEF CommitsApart, Mine
<1>4. \A s \in Sessions : ~ Settled(s)
  BY DEF Init, Settled
<1>5. QED BY <1>2, <1>3, <1>4 DEF IInv, Stands, Quiet

\* The difference of a session follows from its lines and its statement.
LEMMA SameDifference ==
  ASSUME NEW s \in Sessions, Items(s)' = Items(s), session'[s].movement = session[s].movement
  PROVE  Difference(s)' = Difference(s)
<1>1. Total(Items(s))' = Total(Items(s))
  BY DEF Total, MapThenSumSet, MapThenFoldSet
<1>2. QED BY <1>1 DEF Difference

\* A step of one request keeps the others on course, if it leaves the other sessions alone
\* and the lines that others are about to commit.
LEMMA OthersMine ==
  ASSUME IInv, NEW r \in UnderWay, NEW x,
         work' = [work EXCEPT ![r] = x],
         x = Ended \/ (x \in Work /\ x.of = work[r].of),
         \A s \in Sessions \ {work[r].of} : session'[s] = session[s] /\ Items(s)' = Items(s),
         \A q \in UnderWay \ {r} : Committing(q) => Committing(q)'
  PROVE  \A q \in Requests \ {r} : Mine(q)'
<1>1. SUFFICES ASSUME NEW q \in Requests, q # r, q \in UnderWay'
               PROVE  Committing(q)' /\ (work'[q].alone => OnCourse(q)')
  BY DEF Mine
<1>2. work'[q] = work[q] /\ q \in UnderWay
  BY <1>1 DEF UnderWay, IInv, Types
<1>3. Committing(q)'
  BY <1>1, <1>2 DEF IInv, Mine, UnderWay
<1>4. ASSUME work[q].alone
      PROVE  OnCourse(q)'
  <2>1. OnCourse(q)
    BY <1>2, <1>4 DEF IInv, Mine
  <2>2. work[q].of # work[r].of /\ work[q].of \in Sessions
    BY <1>1, <1>2, <2>1 DEF OnCourse, IInv, Types, Work
  <2>3. PICK s \in Sessions : s = work[q].of
    BY <2>2
  <2>4. Items(s)' = Items(s) /\ Difference(s)' = Difference(s)
    BY <2>2, <2>3, SameDifference
  <2>5. \A p \in UnderWay' : p \in UnderWay /\ work'[p].of = work[p].of
    BY DEF UnderWay, IInv, Types, Ended
  <2>6. \A p \in UnderWay' : work'[p].of = s => p = q
    BY <2>1, <2>3, <2>5 DEF OnCourse
  <2>7. QED BY <1>2, <2>1, <2>3, <2>4, <2>6 DEF OnCourse
<1>5. QED BY <1>2, <1>3, <1>4

\* A step of one request preserves the invariant if it keeps itself and its session right.
LEMMA StepIInv ==
  ASSUME IInv, NEW r \in UnderWay, NEW x,
         work' = [work EXCEPT ![r] = x],
         x = Ended \/ (x \in Work /\ x.of = work[r].of),
         TablesOK', session'[work[r].of] # None,
         \A s \in Sessions \ {work[r].of} : session'[s] = session[s] /\ Items(s)' = Items(s),
         \A q \in UnderWay \ {r} : Committing(q) => Committing(q)',
         Mine(r)',
         x.pc = "commit" =>
           \A q \in UnderWay \ {r} : work[q].pc = "commit" => work[q].adds \intersect x.adds = {},
         \A s \in Sessions : s = work[r].of => Stands(s)' /\ Quiet(s)'
  PROVE  IInv'
<1>1. \A q \in UnderWay' : q \in UnderWay /\ work'[q].of = work[q].of /\ (q # r => work'[q] = work[q])
  BY DEF UnderWay, IInv, Types, Ended
<1>2. \A s \in Sessions : session[s] # None => session'[s] # None
  OBVIOUS
<1>3. Types'
  BY <1>1, <1>2 DEF IInv, Types, UnderWay, Work, Ended
<1>4. CommitsApart'
  BY <1>1 DEF IInv, Types, CommitsApart, UnderWay
<1>5. \A q \in Requests : Mine(q)'
  BY OthersMine
<1>6. ASSUME NEW s \in Sessions, s # work[r].of
      PROVE  Stands(s)' /\ Quiet(s)'
  <2>1. session'[s] = session[s] /\ Items(s)' = Items(s) /\ Difference(s)' = Difference(s)
    BY <1>6, SameDifference
  <2>2. \A q \in UnderWay' : work'[q].of = s => q \in UnderWay /\ work'[q] = work[q]
    BY <1>1, <1>6
  <2>3. Stands(s) /\ Quiet(s)
    BY DEF IInv
  <2>4. QED BY <2>1, <2>2, <2>3 DEF Stands, Quiet, Settled
<1>7. QED BY <1>3, <1>4, <1>5, <1>6 DEF IInv

\* A request that ends without writing anything.
LEMMA EndIInv ==
  ASSUME IInv, NEW r \in UnderWay, End(r), UNCHANGED <<session, cleared>>
  PROVE  IInv'
<1> DEFINE x == Ended
<1>1. work' = [work EXCEPT ![r] = x] /\ x = Ended
  BY DEF End
<1>2. r \notin UnderWay' /\ UnderWay' \subseteq UnderWay
  BY <1>1 DEF UnderWay, IInv, Types, Ended
<1>3. \A s \in Sessions : Items(s)' = Items(s) /\ session'[s] = session[s]
  BY DEF Items
<1>4. \A q \in UnderWay \ {r} : Committing(q) => Committing(q)'
  BY <1>1 DEF Committing, IInv, Types, UnderWay
<1>5. Mine(r)' /\ x.pc # "commit"
  BY <1>2 DEF Mine, Ended
<1>6. \A s \in Sessions : Stands(s)' /\ Quiet(s)'
  <2>1. \A s \in Sessions : Difference(s)' = Difference(s)
    BY <1>3, SameDifference
  <2>2. \A q \in UnderWay' : work'[q] = work[q] /\ q \in UnderWay
    BY <1>1, <1>2 DEF IInv, Types, UnderWay
  <2>3. QED BY <1>3, <2>1, <2>2 DEF IInv, Stands, Quiet, Settled
<1>7. TablesOK' /\ session'[work[r].of] # None
  BY DEF IInv, Types, TablesOK
<1> HIDE DEF x
<1>8. QED BY <1>1, <1>3, <1>4, <1>5, <1>6, <1>7, StepIInv

\* Lines that are not touched, or taken back, stay fit to be committed.
LEMMA CommittingKept ==
  ASSUME NEW q, work'[q] = work[q], Committing(q),
         \A l \in work[q].adds : cleared'[l] = cleared[l] \/ cleared'[l] = None
  PROVE  Committing(q)'
  BY DEF Committing

\* The check of the status: who passes it is at a session that is open.
LEMMA CheckIInv ==
  ASSUME IInv, NEW r \in UnderWay, Check(r)
  PROVE  IInv'
<1>1. UNCHANGED <<session, cleared>> /\ work[r].pc = "check"
  BY DEF Check
<1>2. CASE ~ Open(work[r].of)
  BY <1>2, EndIInv DEF Check
<1>3. CASE Open(work[r].of)
  <2> DEFINE x == [work[r] EXCEPT !.pc = "act"]
  <2>1. work' = [work EXCEPT ![r] = x]
    BY <1>3 DEF Check
  <2>2. x \in Work /\ x.of = work[r].of /\ x.pc = "act"
    BY DEF IInv, Types, Work
  <2>3. \A s \in Sessions : Items(s)' = Items(s) /\ session'[s] = session[s]
    BY <1>1 DEF Items
  <2>4. \A q \in UnderWay \ {r} : Committing(q) => Committing(q)'
    BY <1>1, <2>1, CommittingKept DEF IInv, Types, UnderWay
  <2>5. ASSUME r \in UnderWay', work'[r].alone
        PROVE  OnCourse(r)'
    <3>1. /\ work'[r] = x /\ x.removes = work[r].removes /\ x.adds = work[r].adds
          /\ x.ticked = work[r].ticked /\ x.alone = work[r].alone
      <4>1. r \in Requests /\ work[r] \in Work
        BY DEF IInv, Types, UnderWay
      <4>2. work'[r] = x
        BY <2>1, <4>1 DEF IInv, Types
      <4>3. QED BY <4>1, <4>2 DEF Work
    <3>2. OnCourse(r)
      BY <2>5, <3>1 DEF IInv, Mine, UnderWay
    <3>3. PICK s \in Sessions : s = work[r].of
      BY DEF IInv, Types, Work
    <3>4. work'[r].of = s /\ Items(s)' = Items(s)
      BY <2>2, <2>3, <3>1, <3>3
    <3>5. \A q \in UnderWay' : q \in UnderWay /\ work'[q].of = work[q].of
      BY <2>1, <2>2 DEF UnderWay, IInv, Types
    <3>6. \A q \in UnderWay' : work'[q].of = s => q = r
      BY <3>2, <3>3, <3>5 DEF OnCourse
    <3>7. work[r].ticked # None =>
            /\ Items(s) \subseteq work[r].ticked \union {i.line : i \in work[r].removes}
            /\ work[r].ticked \subseteq Items(s) \union work[r].adds
            /\ {i.line : i \in work[r].removes} \intersect work[r].ticked = {}
            /\ work[r].adds \subseteq work[r].ticked
      BY <1>1, <3>2, <3>3 DEF OnCourse
    <3> HIDE DEF x
    <3>8. QED BY <2>2, <3>1, <3>4, <3>6, <3>7 DEF OnCourse
  <2>6. Mine(r)'
    BY <2>1, <2>2, <2>5 DEF Mine, Committing, IInv, Types, UnderWay
  <2>7. \A s \in Sessions : s = work[r].of => Stands(s)' /\ Quiet(s)'
    BY <1>1, <1>3 DEF Settled, Stands, Quiet, Open
  <2>8. TablesOK' /\ session'[work[r].of] # None
    BY <1>1 DEF IInv, Types, TablesOK
  <2> HIDE DEF x
  <2>9. QED BY <2>1, <2>2, <2>3, <2>4, <2>6, <2>7, <2>8, StepIInv
<1>4. QED BY <1>2, <1>3

\* A line is taken back: it leaves the session, and what is still to leave shrinks.
LEMMA RemoveIInv ==
  ASSUME IInv, NEW r \in UnderWay, Remove(r)
  PROVE  IInv'
<1>1. PICK item \in work[r].removes :
        IF cleared[item.line] = [of |-> work[r].of, id |-> item.id]
        THEN /\ cleared' = [cleared EXCEPT ![item.line] = None]
             /\ Proceed(r, work[r].removes \ {item}, work[r].adds)
        ELSE End(r) /\ UNCHANGED cleared
  BY DEF Remove
<1>2. work[r].pc = "act" /\ session' = session
  BY DEF Remove
<1>3. CASE cleared[item.line] # [of |-> work[r].of, id |-> item.id]
  BY <1>1, <1>2, <1>3, EndIInv
<1>4. CASE cleared[item.line] = [of |-> work[r].of, id |-> item.id]
  <2> DEFINE x == IF work[r].removes \ {item} = {} /\ work[r].adds = {} /\ ~work[r].finish THEN Ended
                  ELSE [work[r] EXCEPT !.pc = "check", !.removes = work[r].removes \ {item}, !.adds = work[r].adds]
  <2>1. work' = [work EXCEPT ![r] = x] /\ cleared' = [cleared EXCEPT ![item.line] = None]
    BY <1>1, <1>4 DEF Proceed
  <2>2. work[r] \in Work /\ session[work[r].of] # None /\ item \in [line : Lines, id : Requests]
    BY DEF IInv, Types, Work
  <2>3. /\ x = Ended \/ (x \in Work /\ x.of = work[r].of)
        /\ x # Ended => /\ x.pc = "check" /\ x.removes = work[r].removes \ {item}
                        /\ x.adds = work[r].adds /\ x.ticked = work[r].ticked /\ x.alone = work[r].alone
        /\ x.pc \in {"ended", "check"}
    BY <2>2 DEF Work, Ended
  <2> HIDE DEF x
  <2>4. TablesOK' /\ session'[work[r].of] # None
    BY <1>2, <2>1, <2>2 DEF IInv, Types, TablesOK
  <2>5. /\ \A s \in Sessions \ {work[r].of} : session'[s] = session[s] /\ Items(s)' = Items(s)
        /\ \A s \in Sessions : s = work[r].of => Items(s)' = Items(s) \ {item.line}
    <3>1. \A l \in Lines : l # item.line => cleared'[l] = cleared[l]
      BY <2>1 DEF IInv, Types, TablesOK
    <3>2. cleared'[item.line] = None /\ cleared[item.line].of = work[r].of
      BY <1>4, <2>1, <2>2 DEF IInv, Types, TablesOK
    <3>3. ASSUME NEW s \in Sessions, s # work[r].of
          PROVE  Items(s)' = Items(s)
      BY <3>1, <3>2, <3>3 DEF Items
    <3>4. ASSUME NEW s \in Sessions, s = work[r].of
          PROVE  Items(s)' = Items(s) \ {item.line}
      BY <3>1, <3>2, <3>4 DEF Items
    <3>5. QED BY <1>2, <3>3, <3>4
  <2>6. \A q \in UnderWay \ {r} : Committing(q) => Committing(q)'
    BY <2>1, <2>2, CommittingKept DEF IInv, Types, TablesOK, UnderWay, Work
  <2>7. ASSUME r \in UnderWay', work'[r].alone
        PROVE  OnCourse(r)'
    <3>1. work'[r] = x /\ x # Ended
      BY <2>1, <2>7 DEF UnderWay, IInv, Types, Ended
    <3>2. OnCourse(r)
      BY <2>3, <2>7, <3>1 DEF IInv, Mine, UnderWay
    <3>3. PICK s \in Sessions : s = work[r].of
      BY <2>2 DEF Work
    <3>4. work'[r].of = s /\ Items(s)' = Items(s) \ {item.line}
      BY <2>3, <2>5, <3>1, <3>3
    <3>5. \A q \in UnderWay' : q \in UnderWay /\ work'[q].of = work[q].of
      BY <2>1, <2>3, <3>1 DEF UnderWay, IInv, Types
    <3>6. \A q \in UnderWay' : work'[q].of = s => q = r
      BY <3>2, <3>3, <3>5 DEF OnCourse
    <3>7. work[r].ticked # None =>
            /\ Items(s) \subseteq work[r].ticked \union {i.line : i \in work[r].removes}
            /\ work[r].ticked \subseteq Items(s) \union work[r].adds
            /\ {i.line : i \in work[r].removes} \intersect work[r].ticked = {}
            /\ work[r].adds \subseteq work[r].ticked
      BY <1>2, <3>2, <3>3 DEF OnCourse
    <3>8. x.ticked # None =>
            /\ Items(s)' \subseteq x.ticked \union {i.line : i \in x.removes}
            /\ x.ticked \subseteq Items(s)' \union x.adds
            /\ {i.line : i \in x.removes} \intersect x.ticked = {}
            /\ x.adds \subseteq x.ticked
      BY <2>3, <3>1, <3>4, <3>7
    <3>9. QED BY <2>3, <3>1, <3>4, <3>6, <3>8 DEF OnCourse
  <2>8. Mine(r)'
    BY <2>1, <2>3, <2>7 DEF Mine, Committing, IInv, Types, UnderWay
  <2>9. \A s \in Sessions : s = work[r].of => ~ Settled(s)
    BY <1>2 DEF IInv, Quiet
  <2>10. \A s \in Sessions : s = work[r].of => Stands(s)' /\ Quiet(s)'
    BY <1>2, <2>9 DEF Settled, Stands, Quiet
  <2>11. QED BY <2>1, <2>3, <2>4, <2>5, <2>6, <2>8, <2>10, StepIInv
<1>5. QED BY <1>3, <1>4

\* Lines are inserted: they were free or the session's own, and none of another request's.
LEMMA InsertIInv ==
  ASSUME IInv, NEW r \in UnderWay, Insert(r)
  PROVE  IInv'
<1>1. /\ work[r].pc = "act" /\ work[r].removes = {} /\ UNCHANGED <<session, cleared>>
      /\ work[r].adds \cap Inserted = {}
  BY DEF Insert
<1>2. CASE ~ (Open(work[r].of) /\ \A l \in work[r].adds : cleared[l] = None \/ l \in Items(work[r].of))
  BY <1>1, <1>2, EndIInv DEF Insert
<1>3. CASE Open(work[r].of) /\ \A l \in work[r].adds : cleared[l] = None \/ l \in Items(work[r].of)
  <2> DEFINE x == [work[r] EXCEPT !.pc = "commit"]
  <2>1. work' = [work EXCEPT ![r] = x]
    BY <1>3 DEF Insert
  <2>2. /\ x \in Work /\ x.of = work[r].of /\ x.pc = "commit" /\ x.removes = {} /\ x.adds = work[r].adds
        /\ x.ticked = work[r].ticked /\ x.alone = work[r].alone
    BY <1>1 DEF IInv, Types, Work
  <2> HIDE DEF x
  <2>3. \A s \in Sessions : Items(s)' = Items(s) /\ session'[s] = session[s]
    BY <1>1 DEF Items
  <2>4. \A q \in UnderWay \ {r} : Committing(q) => Committing(q)'
    BY <1>1, <2>1, CommittingKept DEF IInv, Types, UnderWay
  <2>5. work'[r] = x
    BY <2>1 DEF IInv, Types, UnderWay
  <2>6. Committing(r)'
    BY <1>1, <1>3, <2>2, <2>5 DEF Committing, Items
  <2>7. ASSUME work'[r].alone
        PROVE  OnCourse(r)'
    <3>1. OnCourse(r)
      BY <2>2, <2>5, <2>7 DEF IInv, Mine, UnderWay
    <3>2. PICK s \in Sessions : s = work[r].of
      BY <2>2 DEF Work
    <3>3. \A q \in UnderWay' : q \in UnderWay /\ work'[q].of = work[q].of
      BY <2>1, <2>2 DEF UnderWay, IInv, Types
    <3>4. QED BY <1>1, <2>2, <2>3, <2>5, <3>1, <3>2, <3>3 DEF OnCourse
  <2>8. Mine(r)'
    BY <2>6, <2>7 DEF Mine
  <2>9. \A q \in UnderWay \ {r} : work[q].pc = "commit" => work[q].adds \intersect x.adds = {}
    BY <1>1, <2>2 DEF Inserted
  <2>10. \A s \in Sessions : s = work[r].of => Stands(s)' /\ Quiet(s)'
    BY <1>1, <1>3 DEF Settled, Stands, Quiet, Open
  <2>11. TablesOK' /\ session'[work[r].of] # None
    BY <1>1 DEF IInv, Types, TablesOK
  <2>12. QED BY <2>1, <2>2, <2>3, <2>4, <2>8, <2>9, <2>10, <2>11, StepIInv
<1>4. QED BY <1>2, <1>3

\* The inserted lines are committed: the session gets those that were still free.
LEMMA CommitIInv ==
  ASSUME IInv, NEW r \in UnderWay, Commit(r)
  PROVE  IInv'
<1> DEFINE x == IF ~work[r].finish THEN Ended ELSE [work[r] EXCEPT !.pc = "check", !.removes = {}, !.adds = {}]
<1>1. /\ work[r].pc = "commit" /\ work' = [work EXCEPT ![r] = x] /\ session' = session
      /\ cleared' = [l \in Lines |->
           IF l \in work[r].adds /\ cleared[l] = None THEN [of |-> work[r].of, id |-> r] ELSE cleared[l]]
  BY DEF Commit, Proceed
<1>2. work[r] \in Work /\ session[work[r].of] # None /\ r \in Requests
  BY DEF IInv, Types, UnderWay
<1>3. /\ x = Ended \/ (x \in Work /\ x.of = work[r].of)
      /\ x # Ended => /\ x.pc = "check" /\ x.removes = {} /\ x.adds = {}
                      /\ x.ticked = work[r].ticked /\ x.alone = work[r].alone
      /\ x.pc \in {"ended", "check"}
  BY <1>2 DEF Work, Ended
<1> HIDE DEF x
<1>4. \A l \in Lines : cleared'[l] =
        IF l \in work[r].adds /\ cleared[l] = None THEN [of |-> work[r].of, id |-> r] ELSE cleared[l]
  BY <1>1
<1>5. TablesOK' /\ session'[work[r].of] # None
  <2>1. \A l \in Lines : cleared'[l] \in Item \union {None}
    BY <1>2, <1>4 DEF IInv, Types, TablesOK, Item, Work
  <2>2. QED BY <1>1, <1>2, <2>1 DEF IInv, Types, TablesOK
<1>6. Committing(r) /\ work[r].removes = {} /\ work[r].adds \subseteq Lines
  BY <1>1, <1>2 DEF IInv, Mine, Committing, Work
<1>7. ASSUME NEW s \in Sessions, s # work[r].of
      PROVE  session'[s] = session[s] /\ Items(s)' = Items(s)
  <2>1. \A l \in Lines : (cleared'[l] # None /\ cleared'[l].of = s) <=> (cleared[l] # None /\ cleared[l].of = s)
    BY <1>4, <1>7
  <2>2. QED BY <1>1, <2>1 DEF Items
<1>8. ASSUME NEW s \in Sessions, s = work[r].of
      PROVE  Items(s)' = Items(s) \union work[r].adds
  <2>1. \A l \in Lines : l \in Items(s)' <=> (cleared'[l] # None /\ cleared'[l].of = s)
    BY DEF Items
  <2>2. \A l \in Lines : l \in Items(s) <=> (cleared[l] # None /\ cleared[l].of = s)
    BY DEF Items
  <2>3. [of |-> s, id |-> r] # None
    BY <1>2, NullIsNothing DEF Item
  <2>4. \A l \in Lines : l \in Items(s)' <=> (l \in Items(s) \/ l \in work[r].adds)
    BY <1>1, <1>4, <1>6, <1>8, <2>1, <2>2, <2>3 DEF Committing
  <2>5. Items(s)' \subseteq Lines /\ Items(s) \subseteq Lines
    BY DEF Items
  <2>6. QED BY <1>6, <2>4, <2>5
<1>9. ASSUME NEW q \in UnderWay \ {r}, Committing(q)
      PROVE  Committing(q)'
  <2>1. work'[q] = work[q] /\ work[q] \in Work
    BY <1>1 DEF IInv, Types, UnderWay
  <2>2. work[q].pc = "commit" => work[q].adds \intersect work[r].adds = {}
    BY <1>1, <1>2 DEF IInv, CommitsApart, UnderWay
  <2>3. work[q].pc = "commit" => \A l \in work[q].adds : cleared'[l] = cleared[l]
    BY <1>4, <2>1, <2>2 DEF Work
  <2>4. QED BY <1>9, <2>1, <2>3 DEF Committing
<1>10. ASSUME r \in UnderWay', work'[r].alone
       PROVE  OnCourse(r)'
  <2>1. work'[r] = x /\ x # Ended
    BY <1>1, <1>10 DEF UnderWay, IInv, Types, Ended
  <2>2. OnCourse(r)
    BY <1>3, <1>10, <2>1 DEF IInv, Mine, UnderWay
  <2>3. PICK s \in Sessions : s = work[r].of
    BY <1>2 DEF Work
  <2>4. work'[r].of = s /\ Items(s)' = Items(s) \union work[r].adds
    BY <1>3, <1>8, <2>1, <2>3
  <2>5. \A q \in UnderWay' : q \in UnderWay /\ work'[q].of = work[q].of
    BY <1>1, <1>3, <2>1 DEF UnderWay, IInv, Types
  <2>6. \A q \in UnderWay' : work'[q].of = s => q = r
    BY <2>2, <2>3, <2>5 DEF OnCourse
  <2>7. work[r].ticked # None =>
          /\ Items(s) \subseteq work[r].ticked
          /\ work[r].ticked \subseteq Items(s) \union work[r].adds
          /\ work[r].adds \subseteq work[r].ticked
    BY <1>1, <1>6, <2>2, <2>3 DEF OnCourse
  <2>8. QED BY <1>3, <2>1, <2>4, <2>6, <2>7 DEF OnCourse
<1>11. Mine(r)'
  BY <1>1, <1>3, <1>10 DEF Mine, Committing, IInv, Types, UnderWay
<1>12. \A s \in Sessions : s = work[r].of => ~ Settled(s)
  BY <1>1 DEF IInv, Quiet
<1>13. \A s \in Sessions : s = work[r].of => Stands(s)' /\ Quiet(s)'
  BY <1>1, <1>12 DEF Settled, Stands, Quiet
<1>14. QED BY <1>1, <1>3, <1>5, <1>7, <1>9, <1>11, <1>13, StepIInv

\* The difference is calculated when nothing is left to take back or to add: the lines of a
\* session that its request has to itself are those ticked.
LEMMA CalculateIInv ==
  ASSUME IInv, NEW r \in UnderWay, Calculate(r)
  PROVE  IInv'
<1>1. /\ work[r].pc = "act" /\ work[r].removes = {} /\ work[r].adds = {}
      /\ UNCHANGED <<session, cleared>>
  BY DEF Calculate
<1>2. CASE ~ (Difference(work[r].of) \in -Tolerance .. Tolerance)
  BY <1>1, <1>2, EndIInv DEF Calculate
<1>3. CASE Difference(work[r].of) \in -Tolerance .. Tolerance
  <2> DEFINE x == [work[r] EXCEPT !.pc = "complete", !.difference = Difference(work[r].of)]
  <2>1. work' = [work EXCEPT ![r] = x]
    BY <1>3 DEF Calculate, IInv, Types, UnderWay
  <2>2. Difference(work[r].of) \in Int
    BY <1>3
  <2>3. /\ x \in Work /\ x.of = work[r].of /\ x.pc = "complete" /\ x.difference = Difference(work[r].of)
        /\ x.ticked = work[r].ticked /\ x.alone = work[r].alone
    BY <2>2 DEF IInv, Types, Work
  <2> HIDE DEF x
  <2>4. \A s \in Sessions : Items(s)' = Items(s) /\ session'[s] = session[s] /\ Difference(s)' = Difference(s)
    <3>1. \A s \in Sessions : Items(s)' = Items(s) /\ session'[s] = session[s]
      BY <1>1 DEF Items
    <3>2. QED BY <3>1, SameDifference
  <2>5. \A q \in UnderWay \ {r} : Committing(q) => Committing(q)'
    BY <1>1, <2>1, CommittingKept DEF IInv, Types, UnderWay
  <2>6. work'[r] = x
    BY <2>1 DEF IInv, Types, UnderWay
  <2>7. ASSUME work'[r].alone
        PROVE  OnCourse(r)'
    <3>1. OnCourse(r)
      BY <2>3, <2>6, <2>7 DEF IInv, Mine, UnderWay
    <3>2. PICK s \in Sessions : s = work[r].of
      BY <2>3 DEF Work
    <3>3. \A q \in UnderWay' : q \in UnderWay /\ work'[q].of = work[q].of
      BY <2>1, <2>3 DEF UnderWay, IInv, Types
    <3>4. \A q \in UnderWay' : work'[q].of = s => q = r
      BY <3>1, <3>2, <3>3 DEF OnCourse
    <3>5. work[r].ticked # None => work[r].ticked = Items(s)
      BY <1>1, <3>1, <3>2 DEF OnCourse
    <3>6. QED BY <2>3, <2>4, <2>6, <3>2, <3>4, <3>5 DEF OnCourse
  <2>8. Mine(r)'
    BY <2>3, <2>6, <2>7 DEF Mine, Committing
  <2>9. \A s \in Sessions : s = work[r].of => ~ Settled(s)
    BY <1>1 DEF IInv, Quiet
  <2>10. \A s \in Sessions : s = work[r].of => Stands(s)' /\ Quiet(s)'
    BY <1>1, <2>9 DEF Settled, Stands, Quiet
  <2>11. TablesOK' /\ session'[work[r].of] # None
    BY <1>1 DEF IInv, Types, TablesOK
  <2>12. QED BY <2>1, <2>3, <2>4, <2>5, <2>8, <2>10, <2>11, StepIInv
<1>4. QED BY <1>2, <1>3

\* The session is completed with the difference of its request. If that was alone, the
\* difference is that of the session, and nobody else is at it.
LEMMA CompleteIInv ==
  ASSUME IInv, NEW r \in UnderWay, Complete(r)
  PROVE  IInv'
<1>1. work[r].pc = "complete" /\ End(r) /\ cleared' = cleared
  BY DEF Complete
<1>2. CASE ~ Open(work[r].of)
  BY <1>1, <1>2, EndIInv DEF Complete
<1>3. CASE Open(work[r].of)
  <2> DEFINE x == Ended
  <2>1. work' = [work EXCEPT ![r] = x] /\ x = Ended /\ x.pc # "commit"
    BY <1>1 DEF End, Ended
  <2> HIDE DEF x
  <2>2. work[r] \in Work /\ session[work[r].of] # None /\ r \in Requests
    BY DEF IInv, Types, UnderWay
  <2>3. PICK s \in Sessions : s = work[r].of
    BY <2>2 DEF Work
  <2> DEFINE saved == [session[s] EXCEPT !.status = "completed", !.difference = work[r].difference,
                                         !.ticked = work[r].ticked, !.alone = work[r].alone]
  <2>4. session' = [session EXCEPT ![s] = saved]
    BY <1>3, <2>3 DEF Complete
  <2>5. session[s] \in Session
    BY <2>2, <2>3 DEF IInv, Types, TablesOK
  <2>6. /\ saved \in Session /\ saved.difference = work[r].difference /\ saved.ticked = work[r].ticked
        /\ saved.alone = work[r].alone /\ saved.movement = session[s].movement
    BY <2>2, <2>5 DEF Session, Work
  <2> HIDE DEF saved
  <2>7. TablesOK' /\ session'[s] # None /\ session'[s] = saved
    BY <1>1, <2>4, <2>6, NullIsNothing DEF IInv, Types, TablesOK
  <2>8. \A t \in Sessions : Items(t)' = Items(t) /\ (t # s => session'[t] = session[t])
    BY <1>1, <2>4 DEF Items, IInv, Types, TablesOK
  <2>9. \A q \in UnderWay \ {r} : Committing(q) => Committing(q)'
    BY <1>1, <2>1, CommittingKept DEF IInv, Types, UnderWay
  <2>10. r \notin UnderWay' /\ \A q \in UnderWay' : q \in UnderWay /\ work'[q] = work[q]
    BY <2>1 DEF UnderWay, IInv, Types, Ended
  <2>11. Difference(s)' = Difference(s)
    BY <2>6, <2>7, <2>8, SameDifference
  <2>12. ASSUME Settled(s)'
         PROVE  OnCourse(r)
    BY <2>2, <2>6, <2>7, <2>12 DEF Settled, IInv, Mine
  <2>13. Stands(s)'
    BY <1>1, <2>3, <2>6, <2>7, <2>8, <2>11, <2>12 DEF Stands, OnCourse
  <2>14. Quiet(s)'
    BY <2>3, <2>10, <2>12 DEF Quiet, OnCourse
  <2>15. Mine(r)'
    BY <2>10 DEF Mine
  <2>16. QED BY <2>1, <2>3, <2>7, <2>8, <2>9, <2>13, <2>14, <2>15, StepIInv
<1>4. QED BY <1>2, <1>3

\* A session that is reopened or void is completed no more.
LEMMA SetStatusIInv ==
  ASSUME IInv, NEW r \in UnderWay, SetStatus(r)
  PROVE  IInv'
<1> DEFINE x == Ended
<1>1. work' = [work EXCEPT ![r] = x] /\ x = Ended /\ x.pc # "commit"
  BY DEF SetStatus, End, Ended
<1> HIDE DEF x
<1>2. work[r] \in Work /\ session[work[r].of] # None /\ r \in Requests
  BY DEF IInv, Types, UnderWay
<1>3. PICK s \in Sessions : s = work[r].of
  BY <1>2 DEF Work
<1>4. /\ work[r].pc \in {"reopened", "void"} /\ cleared' = cleared
      /\ session' = [session EXCEPT ![s] = [session[s] EXCEPT !.status = work[r].pc]]
  BY <1>3 DEF SetStatus
<1>5. session[s] \in Session
  BY <1>2, <1>3 DEF IInv, Types, TablesOK
<1>6. /\ [session[s] EXCEPT !.status = work[r].pc] \in Session
      /\ [session[s] EXCEPT !.status = work[r].pc].status # "completed"
  BY <1>4, <1>5 DEF Session
<1>7. TablesOK' /\ session'[s] # None /\ session'[s].status # "completed"
  BY <1>4, <1>6, NullIsNothing DEF IInv, Types, TablesOK
<1>8. \A t \in Sessions : Items(t)' = Items(t) /\ (t # s => session'[t] = session[t])
  BY <1>4 DEF Items, IInv, Types, TablesOK
<1>9. \A q \in UnderWay \ {r} : Committing(q) => Committing(q)'
  BY <1>1, <1>4, CommittingKept DEF IInv, Types, UnderWay
<1>10. Mine(r)'
  BY <1>1 DEF UnderWay, IInv, Types, Ended, Mine
<1>11. Stands(s)' /\ Quiet(s)'
  BY <1>7 DEF Stands, Quiet, Settled
<1>12. QED BY <1>1, <1>3, <1>7, <1>8, <1>9, <1>10, <1>11, StepIInv

\* A request begins; it is alone only if nobody was at the session, and nobody who was
\* stays alone.
LEMMA BeginIInv ==
  ASSUME IInv, NEW r \in Requests, NEW s \in Sessions,
         NEW pc \in {"check", "reopened", "void"},
         NEW removes \in SUBSET [line : Lines, id : Requests], NEW adds \in SUBSET Lines,
         NEW finish \in BOOLEAN, NEW ticked \in (SUBSET Lines) \union {None},
         Begin(r, s, pc, removes, adds, finish, ticked),
         ticked # None =>
           /\ Items(s) \subseteq ticked \union {i.line : i \in removes}
           /\ ticked \subseteq Items(s) \union adds
           /\ {i.line : i \in removes} \intersect ticked = {} /\ adds \subseteq ticked
  PROVE  IInv'
<1> DEFINE others == {q \in UnderWay : work[q].of = s}
           x == [pc |-> pc, of |-> s, removes |-> removes, adds |-> adds, finish |-> finish,
                 ticked |-> ticked, difference |-> None, alone |-> others = {}]
<1>1. /\ work[r] = NotBegun /\ session[s] # None /\ UNCHANGED <<session, cleared>>
      /\ work' = [q \in Requests |->
           IF q = r THEN x ELSE IF q \in others THEN [work[q] EXCEPT !.alone = FALSE] ELSE work[q]]
  BY DEF Begin
<1>2. /\ x \in Work /\ x.pc = pc /\ x.of = s /\ x.removes = removes /\ x.adds = adds
      /\ x.ticked = ticked /\ (x.alone => others = {})
  BY DEF Work
<1>3. r \notin UnderWay
  BY <1>1 DEF UnderWay, NotBegun
<1> HIDE DEF x
<1>4. ASSUME NEW q \in Requests, q # r
      PROVE  /\ work'[q].pc = work[q].pc
             /\ q \in UnderWay' <=> q \in UnderWay
             /\ q \in UnderWay =>
                  /\ work'[q] \in Work /\ work'[q].of = work[q].of /\ work'[q].removes = work[q].removes
                  /\ work'[q].adds = work[q].adds /\ work'[q].ticked = work[q].ticked
                  /\ work'[q].difference = work[q].difference
                  /\ work'[q].alone => work[q].alone /\ work[q].of # s
  <2>1. CASE q \in others
    <3>1. work[q] \in Work /\ work'[q] = [work[q] EXCEPT !.alone = FALSE]
      BY <1>1, <1>4, <2>1 DEF IInv, Types
    <3>2. QED BY <1>4, <3>1 DEF Work, UnderWay
  <2>2. CASE q \notin others
    <3>1. work'[q] = work[q]
      BY <1>1, <1>4, <2>2
    <3>2. QED BY <1>4, <2>2, <3>1 DEF UnderWay, IInv, Types
  <2>3. QED BY <2>1, <2>2
<1>5. work'[r] = x
  BY <1>1
<1>6. Types'
  BY <1>1, <1>2, <1>4, <1>5 DEF IInv, Types, TablesOK, UnderWay
<1>7. \A t \in Sessions : Items(t)' = Items(t) /\ session'[t] = session[t] /\ Difference(t)' = Difference(t)
  <2>1. \A t \in Sessions : Items(t)' = Items(t) /\ session'[t] = session[t]
    BY <1>1 DEF Items
  <2>2. QED BY <2>1, SameDifference
<1>8. \A q \in UnderWay' : work'[q].pc \in {"act", "commit", "complete"} => q # r
  BY <1>2, <1>5
<1>9. CommitsApart'
  <2>1. \A q \in Requests : work'[q].pc = "commit" => q # r /\ q \in UnderWay
    BY <1>2, <1>4, <1>5 DEF UnderWay
  <2>2. QED BY <1>4, <2>1 DEF CommitsApart, IInv
<1>10. ASSUME NEW q \in Requests, q # r, q \in UnderWay'
       PROVE  Committing(q)' /\ (work'[q].alone => OnCourse(q)')
  <2>1. q \in UnderWay /\ Committing(q)
    BY <1>4, <1>10 DEF IInv, Mine
  <2>2. Committing(q)'
    BY <1>1, <1>4, <1>10, <2>1 DEF Committing
  <2>3. ASSUME work'[q].alone
        PROVE  OnCourse(q)'
    <3>1. OnCourse(q) /\ work[q].of # s
      BY <1>4, <1>10, <2>1, <2>3 DEF IInv, Mine
    <3>2. PICK t \in Sessions : t = work[q].of
      BY <2>1 DEF IInv, Types, Work
    <3>3. \A p \in UnderWay' : work'[p].of = t => p = q
      BY <1>2, <1>4, <1>5, <3>1, <3>2 DEF OnCourse, UnderWay
    <3>4. QED BY <1>4, <1>7, <1>10, <2>1, <3>1, <3>2, <3>3 DEF OnCourse
  <2>4. QED BY <2>2, <2>3
<1>11. work'[r].alone => OnCourse(r)'
  <2>1. SUFFICES ASSUME work'[r].alone
                 PROVE  OnCourse(r)'
    OBVIOUS
  <2>2. \A p \in UnderWay' : work'[p].of = s => p = r
    BY <1>2, <1>4, <1>5, <2>1 DEF UnderWay
  <2>3. QED BY <1>2, <1>5, <1>7, <2>2 DEF OnCourse
<1>12. \A q \in Requests : Mine(q)'
  BY <1>2, <1>5, <1>10, <1>11 DEF Mine, Committing
<1>13. ASSUME NEW t \in Sessions
       PROVE  Stands(t)' /\ Quiet(t)'
  <2>1. Stands(t) /\ Quiet(t)
    BY DEF IInv
  <2>2. Stands(t)'
    BY <1>7, <2>1 DEF Stands, Settled
  <2>3. Quiet(t)'
    BY <1>4, <1>7, <1>8, <2>1 DEF Quiet, Settled, UnderWay
  <2>4. QED BY <2>2, <2>3
<1>14. QED BY <1>6, <1>9, <1>12, <1>13 DEF IInv

\* A new session, which no request is at.
LEMMA CreateIInv ==
  ASSUME IInv, NEW s \in Sessions, NEW movement \in Movements, Create(s, movement)
  PROVE  IInv'
<1> DEFINE saved == [status |-> "draft", movement |-> movement, difference |-> None,
                     ticked |-> None, alone |-> FALSE]
<1>1. session[s] = None /\ session' = [session EXCEPT ![s] = saved] /\ UNCHANGED <<cleared, work>>
  BY DEF Create
<1>2. saved \in Session /\ saved # None /\ saved.status = "draft"
  <2>1. saved \in Session /\ saved.status = "draft"
    BY DEF Session
  <2>2. QED BY <2>1, NullIsNothing
<1> HIDE DEF saved
<1>3. TablesOK' /\ session'[s] = saved /\ \A t \in Sessions : t # s => session'[t] = session[t]
  BY <1>1, <1>2 DEF IInv, Types, TablesOK
<1>4. UnderWay' = UnderWay /\ \A q \in UnderWay : work[q] \in Work /\ work[q].of # s /\ session'[work[q].of] # None
  BY <1>1, <1>3 DEF UnderWay, IInv, Types, Work
<1>5. Types'
  BY <1>1, <1>3, <1>4 DEF IInv, Types
<1>6. \A t \in Sessions : t # s => Items(t)' = Items(t) /\ Difference(t)' = Difference(t)
  <2>1. \A t \in Sessions : Items(t)' = Items(t)
    BY <1>1 DEF Items
  <2>2. QED BY <1>3, <2>1, SameDifference
<1>7. CommitsApart'
  BY <1>1 DEF IInv, CommitsApart
<1>8. ASSUME NEW q \in Requests, q \in UnderWay
      PROVE  Committing(q)' /\ (work'[q].alone => OnCourse(q)')
  <2>1. PICK t \in Sessions : t = work[q].of /\ t # s
    BY <1>4, <1>8 DEF Work
  <2>2. work' = work /\ UnderWay' = UnderWay /\ cleared' = cleared
    BY <1>1, <1>4
  <2>3. Committing(q) /\ (work[q].alone => OnCourse(q))
    BY <1>8 DEF IInv, Mine
  <2>4. QED BY <1>6, <2>1, <2>2, <2>3 DEF Committing, OnCourse
<1>9. ASSUME NEW t \in Sessions
      PROVE  Stands(t)' /\ Quiet(t)'
  <2>1. CASE t = s
    BY <1>2, <1>3, <2>1 DEF Stands, Quiet, Settled
  <2>2. CASE t # s
    BY <1>1, <1>3, <1>4, <1>6, <2>2 DEF IInv, Stands, Quiet, Settled
  <2>3. QED BY <2>1, <2>2
<1>10. QED BY <1>4, <1>5, <1>7, <1>8, <1>9 DEF IInv, Mine

\* A request that is not of the older interface.
LEMMA BeginPlainIInv ==
  ASSUME IInv, NEW r \in Requests, NEW s \in Sessions,
         NEW pc \in {"check", "reopened", "void"},
         NEW removes \in SUBSET [line : Lines, id : Requests], NEW adds \in SUBSET Lines,
         NEW finish \in BOOLEAN,
         Begin(r, s, pc, removes, adds, finish, None)
  PROVE  IInv'
<1>1. None \in (SUBSET Lines) \union {None}
  OBVIOUS
<1>2. QED BY <1>1, BeginIInv

\* The requests that begin: what the older interface takes back and adds makes the session
\* the lines ticked.
LEMMA BeginsIInv ==
  ASSUME IInv, NEW r \in Requests, NEW s \in Sessions, session[s] # None,
         \/ \E l \in Lines : Begin(r, s, "check", {}, {l}, FALSE, None)
         \/ \E l \in Items(s) : Begin(r, s, "check", {[line |-> l, id |-> cleared[l].id]}, {}, FALSE, None)
         \/ Begin(r, s, "check", {}, {}, TRUE, None)
         \/ \E ticked \in SUBSET Lines : BeginLegacy(r, s, ticked)
         \/ BeginReopen(r, s) \/ BeginVoid(r, s)
  PROVE  IInv'
<1>1. \A l \in Items(s) : l \in Lines /\ cleared[l].id \in Requests
  BY DEF Items, IInv, Types, TablesOK, Item
<1>2. CASE \E l \in Lines : Begin(r, s, "check", {}, {l}, FALSE, None)
  <2>1. PICK l \in Lines : Begin(r, s, "check", {}, {l}, FALSE, None)
    BY <1>2
  <2>2. {} \in SUBSET [line : Lines, id : Requests] /\ {l} \in SUBSET Lines
    OBVIOUS
  <2>3. QED BY <2>1, <2>2, BeginPlainIInv
<1>3. CASE \E l \in Items(s) : Begin(r, s, "check", {[line |-> l, id |-> cleared[l].id]}, {}, FALSE, None)
  <2>1. PICK l \in Items(s) : Begin(r, s, "check", {[line |-> l, id |-> cleared[l].id]}, {}, FALSE, None)
    BY <1>3
  <2>2. {[line |-> l, id |-> cleared[l].id]} \in SUBSET [line : Lines, id : Requests]
    BY <1>1
  <2>3. {} \in SUBSET Lines
    OBVIOUS
  <2>4. QED BY <2>1, <2>2, <2>3, BeginPlainIInv
<1>4. CASE Begin(r, s, "check", {}, {}, TRUE, None)
  <2>1. {} \in SUBSET [line : Lines, id : Requests] /\ {} \in SUBSET Lines
    OBVIOUS
  <2>2. QED BY <1>4, <2>1, BeginPlainIInv
<1>5. ASSUME NEW ticked \in SUBSET Lines, BeginLegacy(r, s, ticked)
      PROVE  IInv'
  <2> DEFINE removes == {[line |-> l, id |-> cleared[l].id] : l \in Items(s) \ ticked}
             adds == ticked \ Items(s)
  <2>1. Begin(r, s, "check", removes, adds, TRUE, ticked)
    BY <1>5 DEF BeginLegacy
  <2>2. removes \in SUBSET [line : Lines, id : Requests] /\ adds \in SUBSET Lines
    BY <1>1
  <2>3. {i.line : i \in removes} = Items(s) \ ticked
    <3>1. \A i \in removes : \E l \in Items(s) \ ticked : i.line = l
      OBVIOUS
    <3>2. \A l \in Items(s) \ ticked : \E i \in removes : i.line = l
      <4>1. TAKE l \in Items(s) \ ticked
      <4>2. WITNESS [line |-> l, id |-> cleared[l].id] \in removes
      <4>3. QED OBVIOUS
    <3> HIDE DEF removes
    <3>3. QED BY <3>1, <3>2
  <2>4. /\ Items(s) \subseteq ticked \union {i.line : i \in removes}
        /\ ticked \subseteq Items(s) \union adds
        /\ {i.line : i \in removes} \intersect ticked = {} /\ adds \subseteq ticked
    BY <2>3
  <2> HIDE DEF removes, adds
  <2>5. QED BY <2>1, <2>2, <2>4, BeginIInv
<1>6. CASE BeginReopen(r, s) \/ BeginVoid(r, s)
  <2>1. {} \in SUBSET [line : Lines, id : Requests] /\ {} \in SUBSET Lines
    OBVIOUS
  <2>2. CASE BeginReopen(r, s)
    BY <2>1, <2>2, BeginPlainIInv DEF BeginReopen
  <2>3. CASE BeginVoid(r, s)
    BY <2>1, <2>3, BeginPlainIInv DEF BeginVoid
  <2>4. QED BY <1>6, <2>2, <2>3
<1>7. QED BY <1>2, <1>3, <1>4, <1>5, <1>6

\* Every step preserves the invariant.
LEMMA NextIInv ==
  ASSUME IInv, [Next]_reconciliations
  PROVE  IInv'
<1>1. CASE UNCHANGED reconciliations
  <2>1. UNCHANGED <<session, cleared, work>>
    BY <1>1 DEF reconciliations
  <2>2. UnderWay' = UnderWay /\ \A s \in Sessions : Items(s)' = Items(s)
    BY <2>1 DEF UnderWay, Items
  <2>3. \A s \in Sessions : Difference(s)' = Difference(s)
    BY <2>1, <2>2, SameDifference
  <2>4. Types' /\ CommitsApart'
    BY <2>1, <2>2 DEF IInv, Types, TablesOK, CommitsApart
  <2>5. \A q \in Requests : Mine(q)'
    <3>1. TAKE q \in Requests
    <3>2. ASSUME q \in UnderWay
          PROVE  Committing(q)' /\ (work'[q].alone => OnCourse(q)')
      <4>1. PICK t \in Sessions : t = work[q].of
        BY <3>2 DEF IInv, Types, Work
      <4>2. Committing(q) /\ (work[q].alone => OnCourse(q))
        BY <3>2 DEF IInv, Mine
      <4>3. QED BY <2>1, <2>2, <2>3, <4>1, <4>2 DEF Committing, OnCourse
    <3>3. QED BY <2>2, <3>2 DEF Mine
  <2>6. \A s \in Sessions : Stands(s)' /\ Quiet(s)'
    BY <2>1, <2>2, <2>3 DEF IInv, Stands, Quiet, Settled
  <2>7. QED BY <2>4, <2>5, <2>6 DEF IInv
<1>2. ASSUME NEW r \in Requests,
             Check(r) \/ Remove(r) \/ Insert(r) \/ Commit(r) \/ Calculate(r) \/ Complete(r) \/ SetStatus(r) \/ Fail(r)
      PROVE  IInv'
  <2>1. r \in UnderWay
    BY <1>2 DEF UnderWay, Check, Remove, Insert, Commit, Calculate, Complete, SetStatus, Fail
  <2>2. CASE Fail(r)
    BY <2>1, <2>2, EndIInv DEF Fail
  <2>3. QED
    BY <1>2, <2>1, <2>2, CheckIInv, RemoveIInv, InsertIInv, CommitIInv, CalculateIInv, CompleteIInv, SetStatusIInv
<1>3. QED
  BY <1>1, <1>2, CreateIInv, BeginsIInv DEF Next

\* A session completed by a request that had it to itself adds up for as long as it is
\* completed, whatever other requests do (completeReconciliation,
\* completeLegacyReconciliation).
THEOREM CompletedAddsUp == Spec => []CompletedStands
<1>1. Init => IInv
  BY InitIInv
<1>2. IInv /\ [Next]_reconciliations => IInv'
  BY NextIInv
<1>3. IInv => CompletedStands
  BY DEF IInv, Stands, Settled, CompletedStands
<1>4. QED BY <1>1, <1>2, <1>3, PTL DEF Spec

---------------------------------------------------------------------------
(* Recurring transactions.                                                  *)

Dates == Recurring!Dates
Idle == [pc : {"none", "ended"}, date : Dates \union {None}, tx : {"none", "draft", "posted"}]
Running == [pc : {"reserve", "replay", "create", "post", "record", "advance"}, date : Dates,
            tx : {"none", "draft", "posted"}, next : Nat, post : BOOLEAN]
Editing == [pc : {"edit"}, date : {None}, tx : {"none"}, row : [next : Nat, enabled : BOOLEAN]]

ScheduleTypeOK ==
  /\ template \in [next : Nat, enabled : BOOLEAN]
  /\ runs \in [Dates -> [by : Requests, is : {"pending", "old", "done"}] \union {None}]
  /\ generation \in [Requests -> Idle \union Running \union Editing]
  /\ givenUp \in [Dates -> Nat] /\ astray \in BOOLEAN

\* A date's row that is done names a generation that made its transaction.
DoneWasMade ==
  /\ \A r \in Requests : generation[r].pc \in {"reserve", "replay", "create"} => generation[r].tx = "none"
  /\ \A r \in Requests : generation[r].pc \in {"post", "record", "advance"} => generation[r].tx # "none"
  /\ \A r \in Requests : generation[r].pc = "replay" =>
       runs[generation[r].date] # None /\ runs[generation[r].date].is = "done"
  /\ \A d \in Dates : runs[d] # None /\ runs[d].is = "done" =>
       generation[runs[d].by].date = d /\ generation[runs[d].by].tx # "none"

\* Those that hold or held the reservation of a date and will make, or have made, its transaction.
Reserved(d) == {r \in Requests : generation[r].date = d /\ (generation[r].tx # "none" \/ generation[r].pc = "create")}

\* There are as many of them as reservations were given up, and one more while there is a row.
ReservedOnce ==
  \A d \in Dates : Cardinality(Reserved(d)) <= givenUp[d] + (IF runs[d] = None THEN 0 ELSE 1)

\* Unless the template went astray, no generation has read a later date than it has now, and
\* what is done lies before its date or is about to move it on.
NextIsAhead ==
  ~ astray =>
    /\ \A r \in Requests : generation[r] \in Running => generation[r].next <= template.next
    /\ \A r \in Requests : generation[r].pc = "advance" => generation[r].next <= generation[r].date
    /\ \A d \in Dates : runs[d] # None /\ runs[d].is = "done" =>
         d < template.next \/ (generation[runs[d].by].pc = "advance" /\ generation[runs[d].by].date = d)

ScheduleIInv == ScheduleTypeOK /\ DoneWasMade /\ ReservedOnce /\ NextIsAhead

LEMMA RowsAreRows == \A d : runs[d] \in [by : Requests, is : {"pending", "old", "done"}] => runs[d] # None
BY BooksAssumption

LEMMA ReservedFinite ==
  ASSUME NEW d
  PROVE  IsFiniteSet(Reserved(d)) /\ Cardinality(Reserved(d)) \in Nat
BY BooksAssumption, FS_Subset, FS_CardinalityType DEF Reserved

LEMMA ScheduleInit == Recurring!Init => ScheduleIInv
<1> SUFFICES ASSUME Recurring!Init PROVE ScheduleIInv
  OBVIOUS
<1> USE DEF Recurring!Init, Recurring!NotBegun
<1>1. ScheduleTypeOK
  BY DEF ScheduleTypeOK, Idle, Dates
<1>2. DoneWasMade
  BY DEF DoneWasMade, Dates
<1>3. ReservedOnce
  <2> SUFFICES ASSUME NEW d \in Dates PROVE Cardinality(Reserved(d)) <= givenUp[d] + (IF runs[d] = None THEN 0 ELSE 1)
    BY DEF ReservedOnce
  <2>1. Reserved(d) = {}
    BY DEF Reserved
  <2>2. QED BY <2>1, FS_EmptySet DEF Dates
<1>4. NextIsAhead
  BY DEF NextIsAhead, Running, Dates
<1>5. QED BY <1>1, <1>2, <1>3, <1>4 DEF ScheduleIInv

\* What a date may have.
Allowed(d) == givenUp[d] + (IF runs[d] = None THEN 0 ELSE 1)

LEMMA StillOnce ==
  ASSUME ScheduleTypeOK, ScheduleTypeOK', ReservedOnce,
         \A d \in Dates : Reserved(d)' \subseteq Reserved(d) /\ Allowed(d) <= Allowed(d)'
  PROVE  ReservedOnce'
<1> SUFFICES ASSUME NEW d \in Dates PROVE Cardinality(Reserved(d)') <= Allowed(d)'
  BY DEF ReservedOnce, Allowed, Dates, Recurring!Dates
<1>1. Cardinality(Reserved(d)') <= Cardinality(Reserved(d)) /\ Cardinality(Reserved(d)') \in Nat
  BY ReservedFinite, FS_Subset, FS_CardinalityType
<1>2. Cardinality(Reserved(d)) <= Allowed(d)
  BY DEF ReservedOnce, Allowed
<1>3. Allowed(d) \in Nat /\ Allowed(d)' \in Nat
  BY DEF Allowed, ScheduleTypeOK
<1>4. QED BY <1>1, <1>2, <1>3, ReservedFinite

LEMMA EndsIdle ==
  ASSUME ScheduleTypeOK, NEW r \in Requests
  PROVE  /\ Recurring!Ended(r) \in Idle /\ Recurring!Ended(r).pc = "ended"
         /\ Recurring!Ended(r).date = generation[r].date /\ Recurring!Ended(r).tx = generation[r].tx
BY DEF Recurring!Ended, ScheduleTypeOK, Idle, Running, Editing

LEMMA ScheduleLoad ==
  ASSUME ScheduleIInv, NEW r \in Requests, NEW date, NEW post \in BOOLEAN, Recurring!Load(r, date, post)
  PROVE  ScheduleIInv'
<1> DEFINE g == [pc |-> "reserve", date |-> date, tx |-> "none", next |-> template.next, post |-> post]
<1> USE DEF ScheduleIInv
<1>1. /\ generation[r] = Recurring!NotBegun /\ date \in Dates
      /\ generation' = [generation EXCEPT ![r] = g]
      /\ UNCHANGED <<template, runs, givenUp, astray>>
  BY DEF Recurring!Load, Dates
<1>2. g \in Running /\ g.pc = "reserve" /\ g.tx = "none" /\ g.next = template.next
  BY <1>1 DEF Running, ScheduleTypeOK
<1> HIDE DEF g
<1>3. ScheduleTypeOK'
  BY <1>1, <1>2 DEF ScheduleTypeOK, Dates
<1>4. DoneWasMade'
  BY <1>1, <1>2, RowsAreRows DEF ScheduleTypeOK, DoneWasMade, Recurring!NotBegun
<1>5. \A d \in Dates : Reserved(d)' \subseteq Reserved(d) /\ Allowed(d) <= Allowed(d)'
  BY <1>1, <1>2 DEF ScheduleTypeOK, Reserved, Allowed
<1>6. NextIsAhead'
  BY <1>1, <1>2, RowsAreRows DEF ScheduleTypeOK, NextIsAhead, Recurring!NotBegun, Running
<1>7. QED BY <1>3, <1>4, <1>5, <1>6, StillOnce

LEMMA ScheduleReserve ==
  ASSUME ScheduleIInv, NEW r \in Requests, Recurring!Reserve(r)
  PROVE  ScheduleIInv'
<1> USE DEF ScheduleIInv
<1> DEFINE d == generation[r].date
           old == runs[d] # None /\ runs[d].is = "old"
           mine == [by |-> r, is |-> "pending"]
<1>1. generation[r] \in Running /\ d \in Dates /\ generation[r].pc = "reserve" /\ generation[r].tx = "none"
      /\ UNCHANGED <<template, astray>>
  BY DEF Recurring!Reserve, ScheduleTypeOK, Idle, Running, Editing, DoneWasMade
<1>2. mine \in [by : Requests, is : {"pending", "old", "done"}] /\ mine # None /\ mine.is = "pending"
  BY RowsAreRows, BooksAssumption
<1>3. CASE runs[d] = None \/ old
  <2>1. /\ runs' = [runs EXCEPT ![d] = mine]
        /\ givenUp' = [givenUp EXCEPT ![d] = IF old THEN @ + 1 ELSE @]
        /\ generation' = [generation EXCEPT ![r].pc = "create"]
    BY <1>3 DEF Recurring!Reserve
  <2>2. generation'[r] \in Running /\ generation'[r] = [generation[r] EXCEPT !.pc = "create"] /\ generation'[r].pc = "create"
    BY <1>1, <2>1 DEF Running, ScheduleTypeOK
  <2> HIDE DEF mine, d
  <2>3. ScheduleTypeOK'
    BY <1>1, <1>2, <2>1, <2>2 DEF ScheduleTypeOK, Dates
  <2>4. DoneWasMade'
    <3>1. \A s \in Requests : generation'[s].pc = "replay" => generation[s].pc = "replay" /\ generation'[s] = generation[s] /\ generation[s].date # d
      BY <1>1, <1>3, <2>1, <2>2 DEF ScheduleTypeOK, DoneWasMade, d
    <3>2. \A e \in Dates : runs'[e] # None /\ runs'[e].is = "done" => e # d /\ runs'[e] = runs[e] /\ runs[e].by \in Requests
      BY <1>1, <1>2, <2>1 DEF ScheduleTypeOK
    <3>3. \A s \in Requests : generation'[s].date = generation[s].date /\ generation'[s].tx = generation[s].tx
            /\ (s = r \/ generation'[s] = generation[s])
      BY <1>1, <2>1, <2>2 DEF ScheduleTypeOK
    <3>4. \A s \in Requests : generation[s].pc = "replay" => generation[s].date \in Dates
      BY DEF ScheduleTypeOK, Idle, Running, Editing
    <3>5. \A e \in Dates : e # d => runs'[e] = runs[e]
      BY <2>1 DEF ScheduleTypeOK
    <3>6. \A s \in Requests : generation'[s].pc = "replay" => runs'[generation'[s].date] # None /\ runs'[generation'[s].date].is = "done"
      BY <3>1, <3>4, <3>5 DEF DoneWasMade
    <3>7. \A e \in Dates : runs'[e] # None /\ runs'[e].is = "done" =>
            generation'[runs'[e].by].date = e /\ generation'[runs'[e].by].tx # "none"
      BY <3>2, <3>3 DEF DoneWasMade
    <3>8. \A s \in Requests : /\ generation'[s].pc \in {"reserve", "replay", "create"} => generation'[s].tx = "none"
                              /\ generation'[s].pc \in {"post", "record", "advance"} => generation'[s].tx # "none"
      BY <1>1, <2>2, <3>3 DEF DoneWasMade
    <3>9. QED BY <3>6, <3>7, <3>8 DEF DoneWasMade, Dates, Recurring!Dates
  <2>5. ReservedOnce'
    <3> SUFFICES ASSUME NEW e \in Dates PROVE Cardinality(Reserved(e)') <= Allowed(e)'
      BY DEF ReservedOnce, Allowed, Dates, Recurring!Dates
    <3>1. Cardinality(Reserved(e)) <= Allowed(e) /\ Allowed(e) \in Nat
      BY DEF ReservedOnce, Allowed, ScheduleTypeOK
    <3>2. CASE e = d
      <4>1. Reserved(e)' \subseteq Reserved(e) \union {r}
        BY <1>1, <2>1, <2>2 DEF Reserved, ScheduleTypeOK
      <4> DEFINE more == Reserved(e) \union {r}
      <4>7. IsFiniteSet(Reserved(e)) /\ Cardinality(Reserved(e)) \in Nat
        BY ReservedFinite
      <4>8. IsFiniteSet(more) /\ Cardinality(more) = IF r \in Reserved(e) THEN Cardinality(Reserved(e)) ELSE Cardinality(Reserved(e)) + 1
        BY <4>7, FS_AddElement
      <4>5. IsFiniteSet(more) /\ Cardinality(more) <= Cardinality(Reserved(e)) + 1
        BY <4>7, <4>8
      <4> HIDE DEF more
      <4>6. Reserved(e)' \subseteq more
        BY <4>1 DEF more
      <4>2. Cardinality(Reserved(e)') <= Cardinality(Reserved(e)) + 1 /\ Cardinality(Reserved(e)') \in Nat
        BY <4>5, <4>6, ReservedFinite, FS_Subset, FS_CardinalityType
      <4>3. Allowed(e)' = Allowed(e) + 1
        BY <1>1, <1>2, <1>3, <2>1, <3>2 DEF Allowed, ScheduleTypeOK, d
      <4>4. QED BY <3>1, <4>2, <4>3, ReservedFinite
    <3>3. CASE e # d
      <4>1. Reserved(e)' = Reserved(e) /\ Allowed(e)' = Allowed(e)
        BY <1>1, <2>1, <2>2, <3>3 DEF Reserved, ScheduleTypeOK, Allowed, d
      <4>2. QED BY <4>1, <3>1
    <3>4. QED BY <3>2, <3>3
  <2>6. NextIsAhead'
    BY <1>1, <1>2, <2>1, <2>2, RowsAreRows DEF ScheduleTypeOK, NextIsAhead, Running
  <2>7. QED BY <2>3, <2>4, <2>5, <2>6
<1>4. CASE ~ (runs[d] = None \/ old)
  <2>1. /\ UNCHANGED <<runs, givenUp>>
        /\ \/ runs[d].is = "done" /\ generation' = [generation EXCEPT ![r].pc = "replay"]
           \/ generation' = [generation EXCEPT ![r] = Recurring!Ended(r)]
    BY <1>4 DEF Recurring!Reserve, Recurring!End
  <2>2. \/ generation'[r] \in Running /\ generation'[r] = [generation[r] EXCEPT !.pc = "replay"]
        \/ generation'[r] = Recurring!Ended(r)
    BY <1>1, <2>1 DEF Running, ScheduleTypeOK
  <2> DEFINE h == generation'[r]
  <2>8. /\ generation' = [generation EXCEPT ![r] = h] /\ h.date = d /\ h.tx = "none"
        /\ \/ h \in Running /\ h.pc = "replay" /\ runs[d].is = "done"
           \/ h \in Idle /\ h.pc = "ended"
    BY <1>1, <2>1, <2>2, EndsIdle DEF ScheduleTypeOK, Running
  <2>9. runs[d] # None /\ h.pc = "replay" => h.next = generation[r].next
    BY <1>1, <2>1, <2>2, EndsIdle DEF ScheduleTypeOK, Running
  <2> HIDE DEF h
  <2>3. ScheduleTypeOK'
    BY <1>1, <2>1, <2>8 DEF ScheduleTypeOK, Dates
  <2>4. DoneWasMade'
    BY <1>1, <1>4, <2>1, <2>8, RowsAreRows DEF ScheduleTypeOK, DoneWasMade
  <2>5. \A e \in Dates : Reserved(e)' \subseteq Reserved(e) /\ Allowed(e) <= Allowed(e)'
    BY <1>1, <2>1, <2>8 DEF ScheduleTypeOK, Reserved, Allowed
  <2>6. NextIsAhead'
    BY <1>1, <1>4, <2>1, <2>8, <2>9, RowsAreRows DEF ScheduleTypeOK, NextIsAhead, Running, Idle
  <2>7. QED BY <2>3, <2>4, <2>5, <2>6, StillOnce
<1>5. QED BY <1>3, <1>4

LEMMA ScheduleReplay ==
  ASSUME ScheduleIInv, NEW r \in Requests, Recurring!Replay(r)
  PROVE  ScheduleIInv'
<1> USE DEF ScheduleIInv
<1> DEFINE d == generation[r].date
           made == runs[d].by
           tx == IF Recurring!NumberTaken(d) THEN generation[made].tx ELSE "posted"
<1>1. generation[r] \in Running /\ d \in Dates /\ generation[r].pc = "replay" /\ generation[r].tx = "none"
      /\ UNCHANGED <<template, runs, givenUp, astray>>
  BY DEF Recurring!Replay, ScheduleTypeOK, Idle, Running, Editing, DoneWasMade
<1>2. made \in Requests /\ generation[made].tx # "none" /\ generation[made].date = d /\ made # r
  BY <1>1, RowsAreRows DEF DoneWasMade, ScheduleTypeOK
<1>3. generation' = [generation EXCEPT ![r] = Recurring!Ended(r), ![made].tx = tx]
  BY <1>1, <1>2 DEF Recurring!Replay, ScheduleTypeOK
<1>4. tx \in {"draft", "posted"}
  BY <1>2 DEF ScheduleTypeOK, Idle, Running, Editing
<1> HIDE DEF made, tx, d
<1>5. generation'[made] = [generation[made] EXCEPT !.tx = tx] /\ generation'[r] = Recurring!Ended(r)
      /\ generation' = [generation EXCEPT ![r] = Recurring!Ended(r), ![made] = [generation[made] EXCEPT !.tx = tx]]
  BY <1>2, <1>3 DEF ScheduleTypeOK
<1>6. /\ generation'[made].pc = generation[made].pc /\ generation'[made].date = generation[made].date
      /\ generation'[made].tx = tx
      /\ \/ generation[made] \in Running /\ generation'[made] \in Running /\ generation'[made].next = generation[made].next
         \/ generation[made] \in Idle /\ generation'[made] \in Idle
  <2>1. generation[made] \in Running \/ generation[made] \in Idle
    BY <1>2 DEF ScheduleTypeOK, Editing
  <2>2. QED BY <1>4, <1>5, <2>1 DEF Running, Idle
<1>7. ScheduleTypeOK'
  BY <1>1, <1>2, <1>5, <1>6, EndsIdle DEF ScheduleTypeOK, Dates
<1>8. DoneWasMade'
  BY <1>1, <1>2, <1>4, <1>5, <1>6, EndsIdle, RowsAreRows DEF ScheduleTypeOK, DoneWasMade
<1>9. \A e \in Dates : Reserved(e)' \subseteq Reserved(e) /\ Allowed(e) <= Allowed(e)'
  BY <1>1, <1>2, <1>5, <1>6, EndsIdle DEF ScheduleTypeOK, Reserved, Allowed
<1>10. NextIsAhead'
  BY <1>1, <1>2, <1>5, <1>6, EndsIdle, RowsAreRows DEF ScheduleTypeOK, NextIsAhead, Running, Idle
<1>11. QED BY <1>7, <1>8, <1>9, <1>10, StillOnce

\* The two steps that write the transaction itself.
LEMMA ScheduleMake ==
  ASSUME ScheduleIInv, NEW r \in Requests, Recurring!Create(r) \/ Recurring!Post(r)
  PROVE  ScheduleIInv'
<1> USE DEF ScheduleIInv
<1> DEFINE pc == generation'[r].pc
           tx == generation'[r].tx
           g == [generation[r] EXCEPT !.tx = tx, !.pc = pc]
<1>1. /\ generation[r] \in Running /\ generation[r].pc \in {"create", "post"}
      /\ generation[r].pc = "create" \/ generation[r].tx # "none"
      /\ UNCHANGED <<template, runs, givenUp, astray>>
  BY DEF Recurring!Create, Recurring!Post, ScheduleTypeOK, Idle, Running, Editing, DoneWasMade
<1>2. /\ pc \in {"post", "record"} /\ tx \in {"draft", "posted"} /\ generation'[r] = g
      /\ generation' = [generation EXCEPT ![r] = g]
  BY <1>1 DEF Recurring!Create, Recurring!Post, ScheduleTypeOK, Running
<1> HIDE DEF pc, tx
<1>3. g \in Running /\ g.pc = pc /\ g.tx = tx /\ g.date = generation[r].date /\ g.next = generation[r].next
  BY <1>1, <1>2 DEF Running
<1> HIDE DEF g
<1>4. ScheduleTypeOK'
  BY <1>1, <1>2, <1>3 DEF ScheduleTypeOK, Dates
<1>5. DoneWasMade'
  BY <1>1, <1>2, <1>3, RowsAreRows DEF ScheduleTypeOK, DoneWasMade
<1>6. \A e \in Dates : Reserved(e)' \subseteq Reserved(e) /\ Allowed(e) <= Allowed(e)'
  BY <1>1, <1>2, <1>3 DEF ScheduleTypeOK, Reserved, Allowed
<1>7. NextIsAhead'
  BY <1>1, <1>2, <1>3, RowsAreRows DEF ScheduleTypeOK, NextIsAhead, Running
<1>8. QED BY <1>4, <1>5, <1>6, <1>7, StillOnce

LEMMA ScheduleRecord ==
  ASSUME ScheduleIInv, NEW r \in Requests, Recurring!Record(r)
  PROVE  ScheduleIInv'
<1> USE DEF ScheduleIInv
<1> DEFINE d == generation[r].date
           done == [by |-> r, is |-> "done"]
           line == IF runs[d] = None THEN None ELSE done
           h == generation'[r]
<1>1. generation[r] \in Running /\ d \in Dates /\ generation[r].pc = "record" /\ generation[r].tx # "none"
      /\ UNCHANGED <<template, givenUp, astray>>
  BY DEF Recurring!Record, ScheduleTypeOK, Idle, Running, Editing, DoneWasMade
<1>2. done \in [by : Requests, is : {"pending", "old", "done"}] /\ done # None /\ done.by = r
  BY RowsAreRows, BooksAssumption
<1>3. runs' = [runs EXCEPT ![d] = line]
  BY DEF Recurring!Record
<1>4. \/ d >= generation[r].next /\ generation' = [generation EXCEPT ![r].pc = "advance"]
      \/ d < generation[r].next /\ generation' = [generation EXCEPT ![r] = Recurring!Ended(r)]
  BY <1>1, BooksAssumption DEF Recurring!Record, Recurring!End, Running, Dates, Recurring!Dates
<1>5. /\ generation' = [generation EXCEPT ![r] = h] /\ h.date = d /\ h.tx # "none" /\ h.tx = generation[r].tx
      /\ \/ h \in Running /\ h.pc = "advance" /\ h.next = generation[r].next /\ h.next <= d
         \/ h \in Idle /\ h.pc = "ended" /\ d < generation[r].next
  BY <1>1, <1>4, EndsIdle DEF ScheduleTypeOK, Running, Dates, Recurring!Dates
<1>6. line = None <=> runs[d] = None
  BY <1>2
<1> HIDE DEF h, done
<1>7. ScheduleTypeOK'
  BY <1>1, <1>2, <1>3, <1>5 DEF ScheduleTypeOK, Dates
<1> HIDE DEF d, line
<1>8. DoneWasMade'
  <2>1. \A e \in Dates : e # d => runs'[e] = runs[e]
    BY <1>3 DEF ScheduleTypeOK
  <2>2. runs'[d] = line /\ (line = None \/ line = done)
    BY <1>1, <1>3 DEF ScheduleTypeOK, line
  <2>3. \A s \in Requests : s # r => generation'[s] = generation[s]
    BY <1>5 DEF ScheduleTypeOK
  <2>4. \A e \in Dates : runs'[e] # None /\ runs'[e].is = "done" =>
            generation'[runs'[e].by].date = e /\ generation'[runs'[e].by].tx # "none"
    <3> SUFFICES ASSUME NEW e \in Dates, runs'[e] # None, runs'[e].is = "done"
                 PROVE  generation'[runs'[e].by].date = e /\ generation'[runs'[e].by].tx # "none"
      OBVIOUS
    <3>1. CASE e = d
      BY <3>1, <1>1, <1>2, <1>5, <2>2 DEF ScheduleTypeOK
    <3>2. CASE e # d
      <4>1. runs[e].by \in Requests /\ runs'[e] = runs[e]
        BY <2>1, <3>2 DEF ScheduleTypeOK
      <4>2. CASE runs[e].by = r
        BY <1>5, <2>1, <3>2, <4>1, <4>2 DEF DoneWasMade, d, ScheduleTypeOK
      <4>3. CASE runs[e].by # r
        BY <2>1, <2>3, <3>2, <4>1, <4>3 DEF DoneWasMade
      <4>4. QED BY <4>2, <4>3
    <3>3. QED BY <3>1, <3>2
  <2>5. \A s \in Requests : generation'[s].pc = "replay" => runs'[generation'[s].date] # None /\ runs'[generation'[s].date].is = "done"
    <3> SUFFICES ASSUME NEW s \in Requests, generation'[s].pc = "replay"
                 PROVE  runs'[generation'[s].date] # None /\ runs'[generation'[s].date].is = "done"
      OBVIOUS
    <3>1. s # r
      BY <1>5 DEF ScheduleTypeOK
    <3>2. generation'[s] = generation[s] /\ generation[s].date \in Dates /\ generation[s].pc = "replay"
      BY <2>3, <3>1 DEF ScheduleTypeOK, Idle, Running, Editing
    <3>3. runs[generation[s].date] # None /\ runs[generation[s].date].is = "done"
      BY <3>2 DEF DoneWasMade
    <3>4. QED BY <1>2, <1>6, <2>1, <2>2, <3>2, <3>3 DEF done
  <2>6. \A s \in Requests : /\ generation'[s].pc \in {"reserve", "replay", "create"} => generation'[s].tx = "none"
                            /\ generation'[s].pc \in {"post", "record", "advance"} => generation'[s].tx # "none"
    BY <1>5 DEF DoneWasMade, ScheduleTypeOK
  <2>7. QED BY <2>4, <2>5, <2>6 DEF DoneWasMade, Dates, Recurring!Dates
<1>9. \A e \in Dates : Reserved(e)' \subseteq Reserved(e) /\ Allowed(e) <= Allowed(e)'
  BY <1>1, <1>3, <1>5, <1>6 DEF ScheduleTypeOK, Reserved, Allowed, d
<1>10. NextIsAhead'
  <2> SUFFICES ASSUME ~ astray PROVE NextIsAhead'
    BY <1>1 DEF NextIsAhead
  <2>1. \A s \in Requests : s # r => generation'[s] = generation[s]
    BY <1>5 DEF ScheduleTypeOK
  <2>2. h = generation'[r] /\ generation[r].next <= template.next
    BY <1>1 DEF h, NextIsAhead
  <2>3. /\ \A s \in Requests : generation'[s] \in Running => generation'[s].next <= template'.next
        /\ \A s \in Requests : generation'[s].pc = "advance" => generation'[s].next <= generation'[s].date
    BY <1>1, <1>5, <2>1, <2>2 DEF NextIsAhead, Running, Idle
  <2>4. \A e \in Dates : runs'[e] # None /\ runs'[e].is = "done" =>
         e < template'.next \/ (generation'[runs'[e].by].pc = "advance" /\ generation'[runs'[e].by].date = e)
    <3> SUFFICES ASSUME NEW e \in Dates, runs'[e] # None, runs'[e].is = "done"
                 PROVE  e < template.next \/ (generation'[runs'[e].by].pc = "advance" /\ generation'[runs'[e].by].date = e)
      BY <1>1
    <3>1. CASE e = d
      <4>1. runs'[e] = done
        BY <3>1, <1>1, <1>3 DEF ScheduleTypeOK, line
      <4>2. e < generation[r].next => e < template.next
        BY <1>1, <2>2 DEF ScheduleTypeOK, Running, Dates, Recurring!Dates
      <4>3. QED BY <1>2, <1>5, <2>2, <3>1, <4>1, <4>2
    <3>2. CASE e # d
      <4>1. runs'[e] = runs[e] /\ runs[e].by \in Requests
        BY <1>3, <3>2 DEF ScheduleTypeOK
      <4>2. e < template.next \/ (generation[runs[e].by].pc = "advance" /\ generation[runs[e].by].date = e)
        BY <4>1 DEF NextIsAhead
      <4>3. QED BY <1>1, <2>1, <4>1, <4>2
    <3>3. QED BY <3>1, <3>2
  <2>5. QED BY <2>3, <2>4 DEF NextIsAhead, Dates, Recurring!Dates, Running
<1>11. QED BY <1>7, <1>8, <1>9, <1>10, StillOnce

LEMMA ScheduleAdvance ==
  ASSUME ScheduleIInv, NEW r \in Requests, Recurring!Advance(r)
  PROVE  ScheduleIInv'
<1> USE DEF ScheduleIInv
<1>1. /\ generation[r] \in Running /\ generation[r].date \in Dates /\ generation[r].pc = "advance"
      /\ UNCHANGED <<runs, givenUp>> /\ generation' = [generation EXCEPT ![r] = Recurring!Ended(r)]
      /\ template' = [next |-> generation[r].date + 1, enabled |-> generation[r].date + 1 \in Dates]
      /\ astray' = (astray \/ generation[r].next # template.next)
  BY DEF Recurring!Advance, Recurring!End, ScheduleTypeOK, Idle, Running, Editing, Dates
<1>2. generation[r].date + 1 \in Nat
  BY <1>1 DEF Dates, Recurring!Dates
<1>3. ScheduleTypeOK'
  BY <1>1, <1>2, EndsIdle DEF ScheduleTypeOK, Dates
<1>4. DoneWasMade'
  BY <1>1, EndsIdle, RowsAreRows DEF ScheduleTypeOK, DoneWasMade
<1>5. \A e \in Dates : Reserved(e)' \subseteq Reserved(e) /\ Allowed(e) <= Allowed(e)'
  BY <1>1, EndsIdle DEF ScheduleTypeOK, Reserved, Allowed
<1>6. NextIsAhead'
  <2> SUFFICES ASSUME ~ astray' PROVE NextIsAhead'
    BY DEF NextIsAhead
  <2>1. ~ astray /\ generation[r].next = template.next /\ template.next <= generation[r].date
    BY <1>1 DEF NextIsAhead, ScheduleTypeOK
  <2>2. template'.next = generation[r].date + 1 /\ template.next \in Nat
    BY <1>1 DEF ScheduleTypeOK
  <2>3. \A s \in Requests : s # r => generation'[s] = generation[s]
    BY <1>1 DEF ScheduleTypeOK
  <2>4. generation'[r] = Recurring!Ended(r)
    BY <1>1 DEF ScheduleTypeOK
  <2>5. \A s \in Requests : generation'[s] \in Running => generation'[s].next <= template'.next
    <3> SUFFICES ASSUME NEW s \in Requests, generation'[s] \in Running PROVE generation'[s].next <= template'.next
      OBVIOUS
    <3>1. s # r
      BY <2>4, EndsIdle DEF Running
    <3>2. generation[s] \in Running /\ generation'[s] = generation[s] /\ generation[s].next <= template.next
      BY <2>1, <2>3, <3>1 DEF NextIsAhead
    <3>3. QED BY <1>1, <2>1, <2>2, <3>2 DEF Running, Dates, Recurring!Dates
  <2>6. \A s \in Requests : generation'[s].pc = "advance" => generation'[s].next <= generation'[s].date
    BY <2>1, <2>3, <2>4, EndsIdle DEF NextIsAhead
  <2>7. \A e \in Dates : runs'[e] # None /\ runs'[e].is = "done" =>
         e < template'.next \/ (generation'[runs'[e].by].pc = "advance" /\ generation'[runs'[e].by].date = e)
    <3> SUFFICES ASSUME NEW e \in Dates, runs[e] # None, runs[e].is = "done"
                 PROVE  e < template'.next \/ (generation'[runs[e].by].pc = "advance" /\ generation'[runs[e].by].date = e)
      BY <1>1
    <3>1. runs[e].by \in Requests /\ generation[runs[e].by].date = e
      BY DEF ScheduleTypeOK, DoneWasMade
    <3>2. e < template.next \/ generation[runs[e].by].pc = "advance"
      BY <2>1 DEF NextIsAhead
    <3>3. CASE runs[e].by = r
      BY <3>1, <3>3, <2>2, <1>1 DEF Dates, Recurring!Dates
    <3>4. CASE e < template.next
      BY <3>4, <2>1, <2>2, <1>1 DEF Dates, Recurring!Dates
    <3>5. CASE runs[e].by # r /\ generation[runs[e].by].pc = "advance"
      BY <3>1, <3>5, <2>3
    <3>6. QED BY <3>2, <3>3, <3>4, <3>5
  <2>8. QED BY <2>5, <2>6, <2>7 DEF NextIsAhead, Dates, Recurring!Dates, Running
<1>7. QED BY <1>3, <1>4, <1>5, <1>6, StillOnce

\* A generation ends, and its row may go.
LEMMA ScheduleEnds ==
  ASSUME ScheduleIInv, NEW r \in Requests, Recurring!Fail(r) \/ Recurring!Stop(r)
  PROVE  ScheduleIInv'
<1> USE DEF ScheduleIInv
<1> DEFINE d == generation[r].date
<1>1. /\ generation' = [generation EXCEPT ![r] = Recurring!Ended(r)] /\ UNCHANGED template
      /\ astray' = (astray \/ generation[r].pc = "advance")
      /\ \/ UNCHANGED <<runs, givenUp>>
         \/ /\ Recurring!HoldsPending(r) /\ runs' = [runs EXCEPT ![d] = None]
            /\ givenUp' = [givenUp EXCEPT ![d] = @ + 1]
  BY DEF Recurring!Fail, Recurring!Stop, Recurring!End
<1>2. Recurring!HoldsPending(r) => d \in Dates /\ runs[d] # None /\ runs[d].is # "done"
  <2>1. d \in Dates \union {None}
    BY DEF ScheduleTypeOK, Idle, Running, Editing
  <2>2. QED BY <2>1, RowsAreRows DEF Recurring!HoldsPending
<1>3. ScheduleTypeOK'
  BY <1>1, <1>2, EndsIdle DEF ScheduleTypeOK, Dates
<1>4. \A e \in Dates : runs'[e] = runs[e] \/ (runs'[e] = None /\ runs[e] # None /\ runs[e].is # "done")
  BY <1>1, <1>2 DEF ScheduleTypeOK
<1>5. \A e \in Dates : Allowed(e) <= Allowed(e)'
  BY <1>1, <1>2 DEF ScheduleTypeOK, Allowed
<1> HIDE DEF d
<1>6. DoneWasMade'
  <2>1. \A s \in Requests : s # r => generation'[s] = generation[s]
    BY <1>1 DEF ScheduleTypeOK
  <2>2. generation'[r] = Recurring!Ended(r)
    BY <1>1 DEF ScheduleTypeOK
  <2>3. \A s \in Requests : generation[s].pc = "replay" => generation[s].date \in Dates
    BY DEF ScheduleTypeOK, Idle, Running, Editing
  <2>4. \A e \in Dates : runs[e] # None => runs[e].by \in Requests
    BY DEF ScheduleTypeOK
  <2>5. QED BY <1>4, <2>1, <2>2, <2>3, <2>4, EndsIdle DEF DoneWasMade, Dates, Recurring!Dates
<1>7. \A e \in Dates : Reserved(e)' \subseteq Reserved(e)
  BY <1>1, EndsIdle DEF ScheduleTypeOK, Reserved
<1>8. NextIsAhead'
  <2> SUFFICES ASSUME ~ astray' PROVE NextIsAhead'
    BY DEF NextIsAhead
  <2>1. ~ astray /\ generation[r].pc # "advance" /\ template' = template
    BY <1>1 DEF ScheduleTypeOK
  <2>2. \A s \in Requests : s # r => generation'[s] = generation[s]
    BY <1>1 DEF ScheduleTypeOK
  <2>3. generation'[r] = Recurring!Ended(r) /\ ~ (Recurring!Ended(r) \in Running)
    BY <1>1, EndsIdle DEF ScheduleTypeOK, Running
  <2>4. \A e \in Dates : runs[e] # None => runs[e].by \in Requests
    BY DEF ScheduleTypeOK
  <2>5. QED BY <1>4, <2>1, <2>2, <2>3, <2>4, EndsIdle DEF NextIsAhead, Dates, Recurring!Dates, Running
<1>9. QED BY <1>3, <1>5, <1>6, <1>7, <1>8, StillOnce

LEMMA ScheduleExpire ==
  ASSUME ScheduleIInv, NEW d \in Dates, Recurring!Expire(d)
  PROVE  ScheduleIInv'
<1> USE DEF ScheduleIInv
<1>1. /\ runs[d] # None /\ runs[d].is = "pending" /\ runs' = [runs EXCEPT ![d].is = "old"]
      /\ UNCHANGED <<template, generation, givenUp, astray>>
  BY DEF Recurring!Expire
<1>2. runs'[d] \in [by : Requests, is : {"pending", "old", "done"}] /\ runs'[d] # None /\ runs'[d].is = "old"
  <2>1. runs[d] \in [by : Requests, is : {"pending", "old", "done"}]
    BY <1>1 DEF ScheduleTypeOK
  <2>2. runs'[d] = [runs[d] EXCEPT !.is = "old"]
    BY <1>1 DEF ScheduleTypeOK
  <2>3. QED BY <2>1, <2>2, BooksAssumption
<1>3. \A e \in Dates : e # d => runs'[e] = runs[e]
  BY <1>1 DEF ScheduleTypeOK
<1>4. ScheduleTypeOK'
  BY <1>1, <1>2, <1>3 DEF ScheduleTypeOK, Dates
<1>5. \A s \in Requests : generation[s].pc = "replay" => generation[s].date \in Dates /\ generation[s].date # d
  BY <1>1 DEF ScheduleTypeOK, Idle, Running, Editing, DoneWasMade
<1>6. DoneWasMade'
  BY <1>1, <1>2, <1>3, <1>5 DEF DoneWasMade, Dates, Recurring!Dates
<1>7. \A e \in Dates : Reserved(e)' \subseteq Reserved(e) /\ Allowed(e) <= Allowed(e)'
  BY <1>1, <1>2, <1>3 DEF Reserved, Allowed, ScheduleTypeOK
<1>8. NextIsAhead'
  BY <1>1, <1>2, <1>3 DEF NextIsAhead, Dates, Recurring!Dates, Running
<1>9. QED BY <1>4, <1>6, <1>7, <1>8, StillOnce

Given == [{"next"} -> Dates] \union [{"enabled"} -> BOOLEAN]

LEMMA ScheduleEditRead ==
  ASSUME ScheduleIInv, NEW r \in Requests, NEW given \in Given, Recurring!EditRead(r, given)
  PROVE  ScheduleIInv'
<1> USE DEF ScheduleIInv
<1> DEFINE line == [field \in DOMAIN template |->
                      IF field \in DOMAIN given THEN given[field] ELSE template[field]]
           g == [pc |-> "edit", date |-> None, tx |-> "none", row |-> line]
<1>1. /\ generation[r] = Recurring!NotBegun
      /\ generation' = [generation EXCEPT ![r] = g]
      /\ UNCHANGED <<template, runs, givenUp, astray>>
  BY DEF Recurring!EditRead
<1>2. line \in [next : Nat, enabled : BOOLEAN]
  <2>1. template \in [next : Nat, enabled : BOOLEAN]
    BY DEF ScheduleTypeOK
  <2>2. line = [next |-> IF "next" \in DOMAIN given THEN given["next"] ELSE template.next,
                enabled |-> IF "enabled" \in DOMAIN given THEN given["enabled"] ELSE template.enabled]
    BY <2>1
  <2>3. "next" \in DOMAIN given => given["next"] \in Nat
    BY DEF Given, Dates, Recurring!Dates
  <2>4. "enabled" \in DOMAIN given => given["enabled"] \in BOOLEAN
    BY DEF Given
  <2>5. QED BY <2>1, <2>2, <2>3, <2>4
<1> HIDE DEF line
<1>3. g \in Editing /\ g.pc = "edit" /\ g.tx = "none" /\ ~ (g \in Running) /\ ~ (g \in Idle)
  BY <1>2 DEF Editing, Running, Idle
<1> HIDE DEF g
<1>4. ScheduleTypeOK'
  BY <1>1, <1>3 DEF ScheduleTypeOK, Dates
<1>5. DoneWasMade'
  BY <1>1, <1>3, RowsAreRows DEF ScheduleTypeOK, DoneWasMade, Recurring!NotBegun
<1>6. \A d \in Dates : Reserved(d)' \subseteq Reserved(d) /\ Allowed(d) <= Allowed(d)'
  BY <1>1, <1>3 DEF ScheduleTypeOK, Reserved, Allowed
<1>7. NextIsAhead'
  BY <1>1, <1>3, RowsAreRows DEF ScheduleTypeOK, NextIsAhead, Recurring!NotBegun, Running
<1>8. QED BY <1>4, <1>5, <1>6, <1>7, StillOnce

LEMMA ScheduleEditWrite ==
  ASSUME ScheduleIInv, NEW r \in Requests, Recurring!EditWrite(r)
  PROVE  ScheduleIInv'
<1> USE DEF ScheduleIInv
<1>1. /\ generation[r] \in Editing /\ generation[r].pc = "edit"
      /\ UNCHANGED <<runs, givenUp>> /\ generation' = [generation EXCEPT ![r] = Recurring!Ended(r)]
      /\ template' = generation[r].row
      /\ astray' = (astray \/ generation[r].row.next # template.next)
  BY DEF Recurring!EditWrite, Recurring!End, ScheduleTypeOK, Idle, Running, Editing
<1>2. generation[r].row \in [next : Nat, enabled : BOOLEAN]
  BY <1>1 DEF Editing
<1>3. ScheduleTypeOK'
  BY <1>1, <1>2, EndsIdle DEF ScheduleTypeOK, Dates
<1>4. DoneWasMade'
  BY <1>1, EndsIdle, RowsAreRows DEF ScheduleTypeOK, DoneWasMade
<1>5. \A e \in Dates : Reserved(e)' \subseteq Reserved(e) /\ Allowed(e) <= Allowed(e)'
  BY <1>1, EndsIdle DEF ScheduleTypeOK, Reserved, Allowed
<1>6. NextIsAhead'
  <2> SUFFICES ASSUME ~ astray' PROVE NextIsAhead'
    BY DEF NextIsAhead
  <2>1. ~ astray /\ template'.next = template.next
    BY <1>1 DEF ScheduleTypeOK
  <2>2. \A s \in Requests : s # r => generation'[s] = generation[s]
    BY <1>1 DEF ScheduleTypeOK
  <2>3. generation'[r] = Recurring!Ended(r) /\ ~ (Recurring!Ended(r) \in Running)
    BY <1>1, EndsIdle DEF ScheduleTypeOK, Running
  <2>4. \A e \in Dates : runs[e] # None => runs[e].by \in Requests
    BY DEF ScheduleTypeOK
  <2>5. QED BY <1>1, <2>1, <2>2, <2>3, <2>4, EndsIdle DEF NextIsAhead, Dates, Recurring!Dates, Running
<1>7. QED BY <1>3, <1>4, <1>5, <1>6, StillOnce

LEMMA ScheduleStep == ScheduleIInv /\ [Recurring!Next]_(Recurring!schedule) => ScheduleIInv'
<1> SUFFICES ASSUME ScheduleIInv, [Recurring!Next]_(Recurring!schedule) PROVE ScheduleIInv'
  OBVIOUS
<1>1. CASE UNCHANGED Recurring!schedule
  BY <1>1 DEF Recurring!schedule, ScheduleIInv, ScheduleTypeOK, DoneWasMade, ReservedOnce, Reserved, NextIsAhead,
       Dates, Running, Idle, Editing, Recurring!Dates
<1>2. CASE Recurring!Next
  <2>1. CASE \E d \in Dates : Recurring!Expire(d)
    BY <2>1, ScheduleExpire
  <2>2. ASSUME NEW r \in Requests,
               \/ \E date \in Dates \union {template.next}, post \in BOOLEAN : Recurring!Load(r, date, post)
               \/ Recurring!Reserve(r) \/ Recurring!Replay(r) \/ Recurring!Create(r) \/ Recurring!Post(r)
               \/ Recurring!Record(r) \/ Recurring!Advance(r) \/ Recurring!Fail(r) \/ Recurring!Stop(r)
               \/ \E given \in Given : Recurring!EditRead(r, given)
               \/ Recurring!EditWrite(r)
        PROVE  ScheduleIInv'
    BY <2>2, ScheduleLoad, ScheduleReserve, ScheduleReplay, ScheduleMake, ScheduleRecord, ScheduleAdvance,
       ScheduleEnds, ScheduleEditRead, ScheduleEditWrite
  <2>3. QED BY <1>2, <2>1, <2>2 DEF Recurring!Next, Given, Dates
<1>3. QED BY <1>1, <1>2

LEMMA ScheduleHolds == ScheduleIInv => MadeOnce
<1> SUFFICES ASSUME ScheduleIInv PROVE MadeOnce
  OBVIOUS
<1> USE DEF ScheduleIInv
<1>1. Recurring!MadeOnce
  <2> SUFFICES ASSUME NEW d \in Dates PROVE Cardinality(Recurring!Made(d)) <= 1 + givenUp[d]
    BY DEF Recurring!MadeOnce, Dates, Recurring!Cardinality, Cardinality
  <2>1. Recurring!Made(d) \subseteq Reserved(d)
    BY DEF Recurring!Made, Reserved
  <2>2. Cardinality(Recurring!Made(d)) <= Cardinality(Reserved(d)) /\ Cardinality(Recurring!Made(d)) \in Nat
    BY <2>1, ReservedFinite, FS_Subset, FS_CardinalityType
  <2>3. QED BY <2>2, ReservedFinite DEF ReservedOnce, ScheduleTypeOK
<1>2. Recurring!DueIsOpen
  <2> SUFFICES ASSUME ~ astray, template.next \in Dates, NEW r \in Requests,
                      runs[template.next] = [by |-> r, is |-> "done"]
               PROVE  generation[r].pc = "advance"
    BY DEF Recurring!DueIsOpen, Dates
  <2>1. runs[template.next] # None /\ runs[template.next].is = "done" /\ runs[template.next].by = r
    BY RowsAreRows
  <2>2. ~ (template.next < template.next)
    BY DEF ScheduleTypeOK
  <2>3. QED BY <2>1, <2>2 DEF NextIsAhead
<1>3. QED BY <1>1, <1>2 DEF MadeOnce

\* A date of a template has one transaction, and one more for each generation whose
\* reservation was given up; and its next date is not generated already
\* (generateRecurringBookkeeping).
THEOREM MadeAlwaysOnce == Recurring!Spec => []MadeOnce
<1>1. Recurring!Spec => []ScheduleIInv
  BY ScheduleInit, ScheduleStep, PTL DEF Recurring!Spec
<1>2. QED BY <1>1, ScheduleHolds, PTL

---------------------------------------------------------------------------
(* Intercompany transactions.                                               *)

PairRows == [status : {"draft", "void", "posted", "settled"}, amount : Amounts, by : Requests \union {None}]
Pairs == [amount : Amounts, number : Numbers, whole : BOOLEAN]
Demands ==
  [pc : {"none", "ended"}]
    \union [pc : {"configured", "plain"}, row : PairRows, number : Numbers]
    \union [pc : {"update"}, row : PairRows, to : PairRows]
    \union [pc : {"reconcile", "settle"}, row : PairRows]

PairTypeOK ==
  /\ row \in PairRows \union {None}
  /\ pair \in [Requests -> Pairs \union {None}]
  /\ demand \in [Requests -> Demands]
  /\ overtaken \in BOOLEAN

\* What the requests under way read, and may count on.
ReadStands ==
  /\ row = None => Intercompany!Posted = {} /\ \A r \in Requests : demand[r].pc = "none"
  /\ \A r \in Requests : demand[r].pc \in {"configured", "plain", "update"} => demand[r].row.status = "draft"
  /\ \A r \in Requests : demand[r].pc = "update" => demand[r].to.status \in {"draft", "void"}
  /\ ~ overtaken => \A r \in Requests :
       demand[r].pc \in {"reconcile", "settle"} => row.status \in {"posted", "settled"}

PairIInv == PairTypeOK /\ ReadStands /\ PairAgrees

LEMMA NoneIsNoPair == None \notin PairRows /\ None \notin Pairs
BY BooksAssumption DEF PairRows, Pairs

LEMMA PairInit == Intercompany!Init => PairIInv
<1> SUFFICES ASSUME Intercompany!Init PROVE PairIInv
  OBVIOUS
<1> USE DEF Intercompany!Init, Intercompany!NotBegun
<1>1. PairTypeOK
  BY DEF PairTypeOK, Demands
<1>2. ReadStands
  BY DEF ReadStands, Intercompany!Posted
<1>3. PairAgrees
  BY DEF PairAgrees, Intercompany!PairAgrees
<1>4. QED BY <1>1, <1>2, <1>3 DEF PairIInv

LEMMA PairCreate ==
  ASSUME PairIInv, NEW amount \in Amounts, Intercompany!Create(amount)
  PROVE  PairIInv'
<1> USE DEF PairIInv
<1> DEFINE new == [status |-> "draft", amount |-> amount, by |-> None]
<1>1. row' = new /\ row = None /\ UNCHANGED <<pair, demand, overtaken>>
  BY DEF Intercompany!Create
<1>2. new \in PairRows /\ new.status = "draft"
  BY DEF PairRows
<1> HIDE DEF new
<1>3. PairTypeOK'
  BY <1>1, <1>2 DEF PairTypeOK
<1>4. ReadStands'
  BY <1>1, <1>2, NoneIsNoPair DEF ReadStands
<1>5. PairAgrees'
  BY <1>1, <1>2 DEF PairAgrees, Intercompany!PairAgrees, ReadStands, Intercompany!Posted
<1>6. QED BY <1>3, <1>4, <1>5

\* A request reads the row, or goes on without writing it.
LEMMA PairGoesOn ==
  ASSUME PairIInv, NEW r \in Requests, NEW h \in Demands,
         UNCHANGED <<row, pair, overtaken>>, demand' = [demand EXCEPT ![r] = h],
         row # None,
         h.pc \in {"configured", "plain", "update"} => h.row.status = "draft",
         h.pc = "update" => h.to.status \in {"draft", "void"},
         ~ overtaken /\ h.pc \in {"reconcile", "settle"} => row.status \in {"posted", "settled"}
  PROVE  PairIInv'
<1> USE DEF PairIInv
<1>1. PairTypeOK'
  BY DEF PairTypeOK
<1>2. ReadStands'
  BY DEF ReadStands, PairTypeOK
<1>3. PairAgrees'
  BY DEF PairAgrees, Intercompany!PairAgrees, Intercompany!Posted
<1>4. QED BY <1>1, <1>2, <1>3

LEMMA PairRead ==
  ASSUME PairIInv, NEW r \in Requests,
         \/ \E way \in {"configured", "plain"}, number \in Numbers : Intercompany!ReadPost(r, way, number)
         \/ \E amount \in Amounts, status \in {"draft", "void"} : Intercompany!ReadUpdate(r, amount, status)
         \/ Intercompany!Read(r, "posted", [pc |-> "reconcile", row |-> row])
  PROVE  PairIInv'
<1> USE DEF PairIInv
<1>1. CASE \E way \in {"configured", "plain"}, number \in Numbers : Intercompany!ReadPost(r, way, number)
  <2>1. PICK way \in {"configured", "plain"}, number \in Numbers : Intercompany!ReadPost(r, way, number)
    BY <1>1
  <2> DEFINE h == [pc |-> way, row |-> row, number |-> number]
  <2>2. row \in PairRows /\ row # None /\ row.status = "draft" /\ UNCHANGED <<row, pair, overtaken>>
        /\ demand' = [demand EXCEPT ![r] = h]
    BY <2>1 DEF Intercompany!ReadPost, Intercompany!Read, PairTypeOK
  <2>3. h \in Demands /\ h.pc = way /\ h.row = row
    BY <2>2 DEF Demands
  <2> HIDE DEF h
  <2>4. QED BY <2>2, <2>3, PairGoesOn
<1>2. CASE \E amount \in Amounts, status \in {"draft", "void"} : Intercompany!ReadUpdate(r, amount, status)
  <2>1. PICK amount \in Amounts, status \in {"draft", "void"} : Intercompany!ReadUpdate(r, amount, status)
    BY <1>2
  <2> DEFINE to == [row EXCEPT !.amount = amount, !.status = status]
             h == [pc |-> "update", row |-> row, to |-> to]
  <2>2. row \in PairRows /\ row # None /\ row.status = "draft" /\ UNCHANGED <<row, pair, overtaken>>
        /\ demand' = [demand EXCEPT ![r] = h]
    BY <2>1 DEF Intercompany!ReadUpdate, Intercompany!Read, PairTypeOK
  <2>3. to \in PairRows /\ to.status = status
    BY <2>2 DEF PairRows
  <2> HIDE DEF to
  <2>4. h \in Demands /\ h.pc = "update" /\ h.row = row /\ h.to = to
    BY <2>2, <2>3 DEF Demands
  <2> HIDE DEF h
  <2>5. QED BY <2>2, <2>3, <2>4, PairGoesOn
<1>3. CASE Intercompany!Read(r, "posted", [pc |-> "reconcile", row |-> row])
  <2> DEFINE h == [pc |-> "reconcile", row |-> row]
  <2>1. row \in PairRows /\ row # None /\ row.status = "posted" /\ UNCHANGED <<row, pair, overtaken>>
        /\ demand' = [demand EXCEPT ![r] = h]
    BY <1>3 DEF Intercompany!Read, PairTypeOK
  <2>2. h \in Demands /\ h.pc = "reconcile"
    BY <2>1 DEF Demands
  <2> HIDE DEF h
  <2>3. QED BY <2>1, <2>2, PairGoesOn
<1>4. QED BY <1>1, <1>2, <1>3

LEMMA RowOnceRead ==
  ASSUME PairIInv, NEW r \in Requests, demand[r].pc # "none"
  PROVE  row # None /\ row \in PairRows
BY DEF PairIInv, PairTypeOK, ReadStands

LEMMA PairPost ==
  ASSUME PairIInv, NEW r \in Requests, Intercompany!PostConfigured(r) \/ Intercompany!PostPlain(r)
  PROVE  PairIInv'
<1> USE DEF PairIInv
<1> DEFINE new == [amount |-> demand[r].row.amount, number |-> demand[r].number, whole |-> TRUE]
           line == [row EXCEPT !.status = "posted", !.by = r]
<1>1. /\ demand[r].pc \in {"configured", "plain"} /\ row \in PairRows /\ row # None
      /\ pair' = [pair EXCEPT ![r] = new] /\ row' = line
      /\ demand' = [demand EXCEPT ![r] = [pc |-> "ended"]]
      /\ ~ overtaken' => ~ overtaken /\ row.status = "draft" /\ row.amount = demand[r].row.amount
  BY RowOnceRead DEF Intercompany!PostConfigured, Intercompany!PostPlain, Intercompany!PostPair, Intercompany!End,
       Intercompany!Ended, ReadStands
<1>2. overtaken' \in BOOLEAN /\ (overtaken => overtaken')
  BY DEF PairTypeOK, Intercompany!PostConfigured, Intercompany!PostPlain
<1>3. demand[r].row \in PairRows /\ demand[r].number \in Numbers
  BY <1>1 DEF PairTypeOK, Demands
<1>10. demand[r].row.amount \in Amounts
  BY <1>3 DEF PairRows
<1>4. new \in Pairs /\ new.amount = demand[r].row.amount /\ new # None
  <2>1. new \in Pairs
    BY <1>3, <1>10 DEF Pairs
  <2>2. QED BY <2>1, NoneIsNoPair
<1>5. line \in PairRows /\ line.status = "posted" /\ line.by = r /\ line.amount = row.amount /\ line # None
  BY <1>1, NoneIsNoPair DEF PairRows
<1> HIDE DEF new, line
<1>6. PairTypeOK'
  BY <1>1, <1>2, <1>4, <1>5 DEF PairTypeOK, Demands
<1>7. ReadStands'
  <2>1. \A s \in Requests : s # r => demand'[s] = demand[s]
    BY <1>1 DEF PairTypeOK
  <2>2. demand'[r].pc = "ended"
    BY <1>1 DEF PairTypeOK
  <2>3. QED BY <1>1, <1>2, <1>5, <2>1, <2>2 DEF ReadStands
<1>8. PairAgrees'
  <2> SUFFICES ASSUME ~ overtaken' PROVE row'.status = "posted" /\ Intercompany!Posted' = {row'.by} /\ pair'[row'.by].amount = row'.amount
    BY <1>5 DEF PairAgrees, Intercompany!PairAgrees
  <2>1. Intercompany!Posted = {}
    BY <1>1 DEF PairAgrees, Intercompany!PairAgrees
  <2>2. Intercompany!Posted' = {r} /\ pair'[r] = new
    BY <1>1, <1>4, <2>1 DEF Intercompany!Posted, PairTypeOK
  <2>3. QED BY <1>1, <1>4, <1>5, <2>2
<1>9. QED BY <1>6, <1>7, <1>8

LEMMA PairUpdate ==
  ASSUME PairIInv, NEW r \in Requests, Intercompany!Update(r)
  PROVE  PairIInv'
<1> USE DEF PairIInv
<1> DEFINE line == [demand[r].to EXCEPT !.by = row.by]
<1>1. /\ demand[r].pc = "update" /\ row \in PairRows /\ row # None
      /\ UNCHANGED pair /\ row' = line
      /\ demand' = [demand EXCEPT ![r] = [pc |-> "ended"]]
      /\ ~ overtaken' => ~ overtaken /\ row.status = "draft"
  BY RowOnceRead DEF Intercompany!Update, Intercompany!End, Intercompany!Ended, ReadStands
<1>2. overtaken' \in BOOLEAN /\ (overtaken => overtaken')
  BY DEF PairTypeOK, Intercompany!Update
<1>3. demand[r].to \in PairRows /\ demand[r].to.status \in {"draft", "void"}
  BY <1>1 DEF PairTypeOK, Demands, ReadStands
<1>4. line \in PairRows /\ line.status \in {"draft", "void"} /\ line # None
  BY <1>1, <1>3, NoneIsNoPair DEF PairRows
<1> HIDE DEF line
<1>5. PairTypeOK'
  BY <1>1, <1>2, <1>4 DEF PairTypeOK, Demands
<1>6. ReadStands'
  <2>1. \A s \in Requests : s # r => demand'[s] = demand[s]
    BY <1>1 DEF PairTypeOK
  <2>2. demand'[r].pc = "ended"
    BY <1>1 DEF PairTypeOK
  <2>3. QED BY <1>1, <1>2, <1>4, <2>1, <2>2 DEF ReadStands
<1>7. PairAgrees'
  BY <1>1, <1>4 DEF PairAgrees, Intercompany!PairAgrees, Intercompany!Posted
<1>8. QED BY <1>5, <1>6, <1>7

LEMMA PairReverse ==
  ASSUME PairIInv, NEW r \in Requests, Intercompany!Reverse(r)
  PROVE  PairIInv'
<1> USE DEF PairIInv
<1> DEFINE half == [pair[r] EXCEPT !.whole = FALSE]
<1>1. r \in Intercompany!Posted /\ pair' = [pair EXCEPT ![r] = half] /\ UNCHANGED <<row, demand, overtaken>>
  BY DEF Intercompany!Reverse, PairTypeOK
<1>2. pair[r] # None /\ pair[r] \in Pairs /\ half \in Pairs /\ half.amount = pair[r].amount /\ half # None
  BY <1>1, NoneIsNoPair DEF Intercompany!Posted, PairTypeOK, Pairs
<1> HIDE DEF half
<1>3. PairTypeOK'
  BY <1>1, <1>2 DEF PairTypeOK
<1>4. Intercompany!Posted' = Intercompany!Posted /\ pair'[r] = half
  BY <1>1, <1>2 DEF Intercompany!Posted, PairTypeOK
<1>5. ReadStands'
  BY <1>1, <1>4 DEF ReadStands
<1>6. PairAgrees'
  BY <1>1, <1>2, <1>4 DEF PairAgrees, Intercompany!PairAgrees, PairTypeOK
<1>7. QED BY <1>3, <1>5, <1>6

LEMMA PairCheck ==
  ASSUME PairIInv, NEW r \in Requests, Intercompany!CheckEntries(r) \/ Intercompany!Fail(r)
  PROVE  PairIInv'
<1> USE DEF PairIInv
<1> DEFINE h == demand'[r]
<1>1. /\ UNCHANGED <<row, pair, overtaken>> /\ row # None
      /\ \/ demand' = [demand EXCEPT ![r] = [pc |-> "ended"]]
         \/ demand[r].pc = "reconcile" /\ demand' = [demand EXCEPT ![r].pc = "settle"]
  BY RowOnceRead DEF Intercompany!CheckEntries, Intercompany!Fail, Intercompany!End, Intercompany!Ended
<1>2. /\ h \in Demands /\ demand' = [demand EXCEPT ![r] = h]
      /\ h.pc = "ended" \/ (h.pc = "settle" /\ demand[r].pc = "reconcile")
  BY <1>1 DEF PairTypeOK, Demands
<1> HIDE DEF h
<1>3. QED BY <1>1, <1>2, PairGoesOn DEF ReadStands

LEMMA PairSettle ==
  ASSUME PairIInv, NEW r \in Requests, Intercompany!Settle(r)
  PROVE  PairIInv'
<1> USE DEF PairIInv
<1> DEFINE line == [row EXCEPT !.status = "settled"]
<1>1. /\ demand[r].pc = "settle" /\ row \in PairRows /\ row # None
      /\ UNCHANGED <<pair, overtaken>> /\ row' = line
      /\ demand' = [demand EXCEPT ![r] = [pc |-> "ended"]]
  BY RowOnceRead DEF Intercompany!Settle, Intercompany!End, Intercompany!Ended
<1>2. line \in PairRows /\ line.status = "settled" /\ line.by = row.by /\ line.amount = row.amount /\ line # None
  BY <1>1, NoneIsNoPair DEF PairRows
<1> HIDE DEF line
<1>3. PairTypeOK'
  BY <1>1, <1>2 DEF PairTypeOK, Demands
<1>4. ReadStands'
  <2>1. \A s \in Requests : s # r => demand'[s] = demand[s]
    BY <1>1 DEF PairTypeOK
  <2>2. demand'[r].pc = "ended"
    BY <1>1 DEF PairTypeOK
  <2>3. QED BY <1>1, <1>2, <2>1, <2>2 DEF ReadStands
<1>5. PairAgrees'
  BY <1>1, <1>2 DEF PairAgrees, Intercompany!PairAgrees, Intercompany!Posted, ReadStands
<1>6. QED BY <1>3, <1>4, <1>5

LEMMA PairStep == PairIInv /\ [Intercompany!Next]_(Intercompany!intercompany) => PairIInv'
<1> SUFFICES ASSUME PairIInv, [Intercompany!Next]_(Intercompany!intercompany) PROVE PairIInv'
  OBVIOUS
<1>1. CASE UNCHANGED Intercompany!intercompany
  BY <1>1 DEF Intercompany!intercompany, PairIInv, PairTypeOK, ReadStands, PairAgrees, Intercompany!PairAgrees,
       Intercompany!Posted
<1>2. CASE Intercompany!Next
  BY <1>2, PairCreate, PairRead, PairPost, PairUpdate, PairReverse, PairCheck, PairSettle DEF Intercompany!Next
<1>3. QED BY <1>1, <1>2

\* A transaction between two entities has the one pair of entries it names, whatever
\* requests meet (postConfiguredIntercompany, postIntercompany, updateIntercompany).
THEOREM PairsAlwaysAgree == Intercompany!Spec => []PairAgrees
<1>1. Intercompany!Spec => []PairIInv
  BY PairInit, PairStep, PTL DEF Intercompany!Spec
<1>2. QED BY <1>1, PTL DEF PairIInv

---------------------------------------------------------------------------
(* Attachments.                                                             *)

Kept == [status : {"active", "archived"}, file : {"active", "archived"},
         kept : {"database", "objects"}, uploaded : BOOLEAN]
Handlings == [pc : {"none", "store", "mark", "archive", "file"}]
               \union [pc : {"edit"}, file : {"active", "archived"}, uploaded : BOOLEAN]
               \union [pc : {"ended"}, answer : {"stored", "complete", "archived", "edited", "failed"}]

FileTypeOK ==
  /\ attachment \in Kept \union {None}
  /\ content \in BOOLEAN /\ stopped \in BOOLEAN
  /\ handling \in [Requests -> Handlings]

Marks(h) == h.pc = "mark" \/ (h.pc = "edit" /\ h.uploaded)

\* Who is about to mark a file in the database has stored its content or found it marked,
\* or it is deleted.
MarkedIsStored ==
  \A r \in Requests : Marks(handling[r]) /\ attachment # None /\ Files!InDatabase => content

FileIInv == FileTypeOK /\ MarkedIsStored /\ FileIsThere

LEMMA NoneIsNoFile == None \notin Kept
BY BooksAssumption DEF Kept

LEMMA FileInit == Files!Init => FileIInv
<1> SUFFICES ASSUME Files!Init PROVE FileIInv
  OBVIOUS
<1> USE DEF Files!Init, Files!NotBegun
<1>1. FileTypeOK
  BY DEF FileTypeOK, Handlings
<1>2. MarkedIsStored /\ FileIsThere
  BY DEF MarkedIsStored, Marks, FileIsThere, Files!FileIsThere
<1>3. QED BY <1>1, <1>2 DEF FileIInv

LEMMA FileIntend ==
  ASSUME FileIInv, NEW kept \in {"database", "objects"}, Files!Intend(kept)
  PROVE  FileIInv'
<1> USE DEF FileIInv
<1> DEFINE new == [status |-> "active", file |-> "active", kept |-> kept, uploaded |-> FALSE]
<1>1. /\ attachment' = new /\ \A r \in Requests : handling[r] = [pc |-> "none"]
      /\ UNCHANGED <<content, handling, stopped>>
  BY DEF Files!Intend, Files!NotBegun
<1>2. new \in Kept /\ new.status = "active" /\ new.uploaded = FALSE
  BY DEF Kept
<1> HIDE DEF new
<1>3. \A r \in Requests : handling[r].pc = "none" /\ handling[r] # Files!Ended("complete")
  BY <1>1 DEF Files!Ended
<1>4. FileTypeOK'
  BY <1>1, <1>2 DEF FileTypeOK
<1>5. MarkedIsStored'
  BY <1>1, <1>3 DEF MarkedIsStored, Marks
<1>6. FileIsThere'
  BY <1>1, <1>2, <1>3 DEF FileIsThere, Files!FileIsThere
<1>7. QED BY <1>4, <1>5, <1>6

\* A request goes on, and stores or finds what it says; the attachment stays.
LEMMA FileGoesOn ==
  ASSUME FileIInv, NEW r \in Requests, NEW h \in Handlings, handling' = [handling EXCEPT ![r] = h],
         UNCHANGED attachment, content' \in BOOLEAN, content => content', stopped' \in BOOLEAN, stopped => stopped',
         attachment # None /\ Files!InDatabase /\ (Marks(h) \/ h = Files!Ended("complete")) => content',
         handling[r].pc = "file" => stopped'
  PROVE  FileIInv'
<1> USE DEF FileIInv
<1>1. handling'[r] = h /\ \A s \in Requests : s # r => handling'[s] = handling[s]
  BY DEF FileTypeOK
<1>2. FileTypeOK'
  BY DEF FileTypeOK
<1>3. MarkedIsStored'
  BY <1>1 DEF MarkedIsStored, Files!InDatabase
<1>4. FileIsThere'
  <2> SUFFICES ASSUME attachment # None PROVE FileIsThere'
    BY DEF FileIsThere, Files!FileIsThere
  <2>1. Files!InDatabase /\ (attachment.uploaded \/ \E s \in Requests : handling'[s] = Files!Ended("complete")) => content'
    BY <1>1 DEF FileIsThere, Files!FileIsThere
  <2>2. attachment.status = "archived" /\ attachment.file = "active" /\ ~ stopped' => \E s \in Requests : handling'[s].pc = "file"
    BY <1>1 DEF FileIsThere, Files!FileIsThere
  <2>3. QED BY <2>1, <2>2 DEF FileIsThere, Files!FileIsThere, Files!InDatabase, Files!Ended
<1>5. QED BY <1>2, <1>3, <1>4

LEMMA FileHandled ==
  ASSUME FileIInv, NEW r \in Requests,
         \/ Files!BeginStore(r) \/ Files!Store(r) \/ Files!Complete(r) \/ Files!BeginTrust(r)
         \/ Files!BeginArchive(r) \/ Files!Fail(r)
         \/ \E file \in {"active", "archived"} : Files!EditRead(r, file)
  PROVE  FileIInv'
<1> USE DEF FileIInv
<1> DEFINE h == handling'[r]
<1>1. /\ UNCHANGED attachment /\ content' \in BOOLEAN /\ (content => content')
      /\ stopped' \in BOOLEAN /\ (stopped => stopped')
  BY DEF Files!BeginStore, Files!Store, Files!Complete, Files!BeginTrust, Files!BeginArchive, Files!Fail, Files!Begin,
       Files!EditRead, FileTypeOK
<1>2. \/ \E pc \in {"store", "archive"} : handling' = [handling EXCEPT ![r] = [pc |-> pc]] /\ handling[r] = Files!NotBegun
      \/ /\ handling' = [handling EXCEPT ![r] = [pc |-> "mark"]] /\ handling[r] = Files!NotBegun
         /\ ~ Files!InDatabase
      \/ /\ handling' = [handling EXCEPT ![r].pc = "mark"] /\ handling[r].pc = "store" /\ content'
      \/ /\ handling' = [handling EXCEPT ![r] = Files!Ended("complete")] /\ handling[r] = Files!NotBegun /\ content'
      \/ /\ handling' = [handling EXCEPT ![r] = Files!Ended("failed")] /\ (handling[r].pc = "file" => stopped')
      \/ /\ handling[r] = Files!NotBegun /\ attachment # None /\ content' = content
         /\ \E file \in {"active", "archived"} :
              handling' = [handling EXCEPT ![r] = [pc |-> "edit", file |-> file, uploaded |-> attachment.uploaded]]
  BY DEF Files!BeginStore, Files!Store, Files!Complete, Files!BeginTrust, Files!BeginArchive, Files!Fail, Files!Begin,
       Files!EditRead, Files!To, Files!End, FileTypeOK
<1>3. /\ h \in Handlings /\ handling' = [handling EXCEPT ![r] = h]
      /\ attachment # None /\ Files!InDatabase /\ (Marks(h) \/ h = Files!Ended("complete")) => content'
      /\ handling[r].pc = "file" => stopped'
  <2>1. CASE \E file \in {"active", "archived"} :
               /\ handling[r] = Files!NotBegun /\ attachment # None /\ content' = content
               /\ handling' = [handling EXCEPT ![r] = [pc |-> "edit", file |-> file, uploaded |-> attachment.uploaded]]
    <3>1. attachment.uploaded \in BOOLEAN /\ (Files!InDatabase /\ attachment.uploaded => content)
      BY <2>1 DEF FileTypeOK, Kept, FileIsThere, Files!FileIsThere
    <3>2. QED BY <2>1, <3>1 DEF FileTypeOK, Handlings, Marks, Files!Ended, Files!NotBegun
  <2>2. CASE ~ \E file \in {"active", "archived"} :
               /\ handling[r] = Files!NotBegun /\ attachment # None /\ content' = content
               /\ handling' = [handling EXCEPT ![r] = [pc |-> "edit", file |-> file, uploaded |-> attachment.uploaded]]
    BY <1>2, <2>2 DEF FileTypeOK, Handlings, Marks, Files!Ended, Files!NotBegun
  <2>3. QED BY <2>1, <2>2
<1> HIDE DEF h
<1>4. QED BY <1>1, <1>3, FileGoesOn

LEMMA FilePut ==
  ASSUME FileIInv, Files!Put
  PROVE  FileIInv'
BY DEF FileIInv, Files!Put, FileTypeOK, MarkedIsStored, FileIsThere, Files!FileIsThere, Files!InDatabase, Files!Ended

LEMMA FileDelete ==
  ASSUME FileIInv, Files!Delete
  PROVE  FileIInv'
BY DEF FileIInv, Files!Delete, FileTypeOK, MarkedIsStored, FileIsThere, Files!FileIsThere

\* The statements that write the attachment or its file by id, if it is still there.
LEMMA FileWrites ==
  ASSUME FileIInv, NEW r \in Requests,
         Files!Mark(r) \/ Files!Archive(r) \/ Files!ArchiveFile(r) \/ Files!EditWrite(r)
  PROVE  FileIInv'
<1> USE DEF FileIInv
<1> DEFINE h == handling'[r]
<1>1. UNCHANGED content /\ stopped' \in BOOLEAN /\ (stopped => stopped')
  BY DEF Files!Mark, Files!Archive, Files!ArchiveFile, Files!EditWrite, FileTypeOK
<1>2. /\ h \in Handlings /\ handling' = [handling EXCEPT ![r] = h]
      /\ ~ Marks(h) /\ h # Files!Ended("complete")
  BY DEF Files!Mark, Files!Archive, Files!ArchiveFile, Files!EditWrite, Files!To, Files!End, Files!Ended, FileTypeOK,
       Handlings, Marks
<1>3. handling'[r] = h /\ \A s \in Requests : s # r => handling'[s] = handling[s]
  BY <1>2 DEF FileTypeOK
<1> HIDE DEF h
<1>4. CASE attachment = None
  <2>1. attachment' = None
    BY <1>4 DEF Files!Mark, Files!Archive, Files!ArchiveFile, Files!EditWrite
  <2>2. QED BY <1>1, <1>2, <2>1 DEF FileTypeOK, MarkedIsStored, FileIsThere, Files!FileIsThere
<1>5. CASE attachment # None
  <2>1. attachment \in Kept
    BY <1>5 DEF FileTypeOK
  <2>2. /\ attachment' \in Kept /\ attachment'.kept = attachment.kept
        /\ attachment'.uploaded => attachment.uploaded \/ Marks(handling[r])
        /\ \/ attachment'.file = "archived"
           \/ h.pc = "file" \/ stopped'
           \/ /\ handling[r].pc # "file" /\ attachment'.status = attachment.status
              /\ attachment.status = "archived" => attachment'.file = attachment.file
    <3>1. CASE Files!Mark(r)
      BY <1>5, <2>1, <3>1 DEF Files!Mark, Kept, Marks
    <3>2. CASE Files!Archive(r)
      BY <1>3, <1>5, <2>1, <3>2 DEF Files!Archive, Files!To, Kept, FileTypeOK, Handlings
    <3>3. CASE Files!ArchiveFile(r)
      BY <1>5, <2>1, <3>3 DEF Files!ArchiveFile, Kept
    <3>4. CASE Files!EditWrite(r)
      <4>1. handling[r].file \in {"active", "archived"} /\ handling[r].uploaded \in BOOLEAN
        BY <3>4 DEF Files!EditWrite, FileTypeOK, Handlings
      <4>2. QED BY <1>5, <2>1, <3>4, <4>1 DEF Files!EditWrite, Kept, Marks
    <3>5. QED BY <3>1, <3>2, <3>3, <3>4
  <2>3. FileTypeOK'
    BY <1>1, <1>2, <2>2 DEF FileTypeOK
  <2>4. MarkedIsStored'
    BY <1>1, <1>2, <1>3, <1>5, <2>2 DEF MarkedIsStored, Files!InDatabase
  <2>5. FileIsThere'
    <3>1. Files!InDatabase' /\ (attachment'.uploaded \/ \E s \in Requests : handling'[s] = Files!Ended("complete")) => content'
      BY <1>1, <1>2, <1>3, <1>5, <2>2 DEF FileIsThere, Files!FileIsThere, MarkedIsStored, Files!InDatabase
    <3>2. attachment'.status = "archived" /\ attachment'.file = "active" /\ ~ stopped' => \E s \in Requests : handling'[s].pc = "file"
      BY <1>1, <1>2, <1>3, <1>5, <2>2 DEF FileIsThere, Files!FileIsThere
    <3>3. QED BY <3>1, <3>2 DEF FileIsThere, Files!FileIsThere, Files!InDatabase, Files!Ended
  <2>6. QED BY <2>3, <2>4, <2>5
<1>6. QED BY <1>4, <1>5

LEMMA FileStep == FileIInv /\ [Files!Next]_(Files!attachments) => FileIInv'
<1> SUFFICES ASSUME FileIInv, [Files!Next]_(Files!attachments) PROVE FileIInv'
  OBVIOUS
<1>1. CASE UNCHANGED Files!attachments
  BY <1>1 DEF Files!attachments, FileIInv, FileTypeOK, MarkedIsStored, FileIsThere, Files!FileIsThere,
       Files!InDatabase, Files!Ended
<1>2. CASE Files!Next
  BY <1>2, FileIntend, FileHandled, FilePut, FileDelete, FileWrites DEF Files!Next
<1>3. QED BY <1>1, <1>2

\* A file said to be uploaded to the database is there, whatever stopped, was deleted or
\* written back in between, and the file of what is archived is archived unless a request
\* stopped or the file was made active by hand (storeBookkeepingAttachmentContent,
\* archiveBookkeepingAttachment, updateFile).
THEOREM FileAlwaysThere == Files!Spec => []FileIsThere
<1>1. Files!Spec => []FileIInv
  BY FileInit, FileStep, PTL DEF Files!Spec
<1>2. QED BY <1>1, PTL DEF FileIInv

---------------------------------------------------------------------------
(* Accounting periods.                                                      *)

Dated == [start : Nat, end : Nat, status : {"open", "closed", "locked"}]
Changes ==
  [pc : {"none", "ended"}]
    \union [pc : {"check"}, of : Periods]
    \union [pc : {"write", "commit"}, of : Periods, dates : [start : Nat, end : Nat]]
    \union [pc : {"status"}, of : Periods, status : {"open", "closed", "locked"}]

CalendarTypeOK ==
  /\ period \in [Periods -> Dated \union {None}]
  /\ change \in [Requests -> Changes]
  /\ atOnce \in BOOLEAN

\* What a statement's trigger found is so until it commits, unless another is there.
FoundStands ==
  /\ \A r \in Requests : change[r].pc = "status" => change[r].of \in Calendar!Made
  /\ ~ atOnce => \A r \in Calendar!Committing : Calendar!Free(change[r].of, change[r].dates)

CalendarIInv == CalendarTypeOK /\ FoundStands /\ Calendar!PeriodsApart

LEMMA NoneIsNoPeriod == None \notin Dated
BY BooksAssumption DEF Dated

LEMMA CalendarInit == Calendar!Init => CalendarIInv
<1> SUFFICES ASSUME Calendar!Init PROVE CalendarIInv
  OBVIOUS
<1> USE DEF Calendar!Init, Calendar!NotBegun
<1>1. CalendarTypeOK
  BY DEF CalendarTypeOK, Changes
<1>2. FoundStands /\ Calendar!PeriodsApart
  BY DEF FoundStands, Calendar!PeriodsApart, Calendar!Made, Calendar!Committing
<1>3. QED BY <1>1, <1>2 DEF CalendarIInv

\* A request goes on without writing a period; before it commits, its trigger has found
\* the days free.
LEMMA CalendarGoesOn ==
  ASSUME CalendarIInv, NEW r \in Requests, NEW h \in Changes, change' = [change EXCEPT ![r] = h],
         UNCHANGED <<period, atOnce>>,
         h.pc = "status" => h.of \in Calendar!Made,
         h.pc = "commit" => Calendar!Free(h.of, h.dates)
  PROVE  CalendarIInv'
<1> USE DEF CalendarIInv
<1>1. change'[r] = h /\ \A s \in Requests : s # r => change'[s] = change[s]
  BY DEF CalendarTypeOK
<1>2. CalendarTypeOK'
  BY DEF CalendarTypeOK
<1>3. FoundStands'
  BY <1>1 DEF FoundStands, Calendar!Made, Calendar!Committing, Calendar!Free, Calendar!Overlap
<1>4. (Calendar!PeriodsApart)'
  BY DEF Calendar!PeriodsApart, Calendar!Made, Calendar!Overlap
<1>5. QED BY <1>2, <1>3, <1>4

LEMMA CalendarAsks ==
  ASSUME CalendarIInv, NEW r \in Requests,
         \/ \E p \in Periods, start, end \in Calendar!Days : Calendar!Create(r, p, start, end)
         \/ \E p \in Periods : Calendar!UpdateRead(r, p)
         \/ \E p \in Periods, status \in {"open", "closed", "locked"} : Calendar!StatusRead(r, p, status)
         \/ \E start, end \in Calendar!Days : Calendar!UpdateCheck(r, start, end)
  PROVE  CalendarIInv'
<1> USE DEF CalendarIInv
<1>0. Calendar!Days \subseteq Nat
  BY BooksAssumption DEF Calendar!Days
<1>1. CASE \E p \in Periods, start, end \in Calendar!Days : Calendar!Create(r, p, start, end)
  <2>1. PICK p \in Periods, start \in Calendar!Days, end \in Calendar!Days : Calendar!Create(r, p, start, end)
    BY <1>1
  <2> DEFINE h == [pc |-> "write", of |-> p, dates |-> [start |-> start, end |-> end]]
  <2>2. change' = [change EXCEPT ![r] = h] /\ UNCHANGED <<period, atOnce>>
    BY <2>1 DEF Calendar!Create
  <2>3. h \in Changes /\ h.pc = "write"
    BY <1>0 DEF Changes
  <2> HIDE DEF h
  <2>4. QED BY <2>2, <2>3, CalendarGoesOn
<1>2. CASE \E p \in Periods : Calendar!UpdateRead(r, p)
  <2>1. PICK p \in Periods : Calendar!UpdateRead(r, p)
    BY <1>2
  <2> DEFINE h == [pc |-> "check", of |-> p]
  <2>2. change' = [change EXCEPT ![r] = h] /\ UNCHANGED <<period, atOnce>>
    BY <2>1 DEF Calendar!UpdateRead
  <2>3. h \in Changes /\ h.pc = "check"
    BY DEF Changes
  <2> HIDE DEF h
  <2>4. QED BY <2>2, <2>3, CalendarGoesOn
<1>3. CASE \E p \in Periods, status \in {"open", "closed", "locked"} : Calendar!StatusRead(r, p, status)
  <2>1. PICK p \in Periods, status \in {"open", "closed", "locked"} : Calendar!StatusRead(r, p, status)
    BY <1>3
  <2> DEFINE h == [pc |-> "status", of |-> p, status |-> status]
  <2>2. change' = [change EXCEPT ![r] = h] /\ UNCHANGED <<period, atOnce>> /\ p \in Calendar!Made
    BY <2>1 DEF Calendar!StatusRead
  <2>3. h \in Changes /\ h.pc = "status" /\ h.of = p
    BY DEF Changes
  <2> HIDE DEF h
  <2>4. QED BY <2>2, <2>3, CalendarGoesOn
<1>4. CASE \E start, end \in Calendar!Days : Calendar!UpdateCheck(r, start, end)
  <2>1. PICK start \in Calendar!Days, end \in Calendar!Days : Calendar!UpdateCheck(r, start, end)
    BY <1>4
  <2> DEFINE p == change[r].of
             h == [pc |-> "write", of |-> p, dates |-> [start |-> start, end |-> end]]
  <2>2. change' = [change EXCEPT ![r] = h] /\ UNCHANGED <<period, atOnce>> /\ change[r].pc = "check"
    BY <2>1 DEF Calendar!UpdateCheck
  <2>3. p \in Periods
    BY <2>2 DEF CalendarTypeOK, Changes
  <2> HIDE DEF p
  <2>4. h \in Changes /\ h.pc = "write"
    BY <1>0, <2>3 DEF Changes
  <2> HIDE DEF h
  <2>5. QED BY <2>2, <2>4, CalendarGoesOn
<1>5. QED BY <1>1, <1>2, <1>3, <1>4

LEMMA CalendarWrite ==
  ASSUME CalendarIInv, NEW r \in Requests, Calendar!Write(r) \/ Calendar!Fail(r)
  PROVE  CalendarIInv'
<1> USE DEF CalendarIInv
<1> DEFINE h == change'[r]
<1>1. UNCHANGED <<period, atOnce>>
  BY DEF Calendar!Write, Calendar!Fail
<1>2. \/ /\ change[r].pc = "write" /\ change' = [change EXCEPT ![r].pc = "commit"]
         /\ Calendar!Free(change[r].of, change[r].dates)
      \/ change' = [change EXCEPT ![r] = [pc |-> "ended"]]
  BY DEF Calendar!Write, Calendar!Fail, Calendar!Ended
<1>3. /\ h \in Changes /\ change' = [change EXCEPT ![r] = h]
      /\ h.pc # "status" /\ (h.pc = "commit" => Calendar!Free(h.of, h.dates))
  BY <1>2 DEF CalendarTypeOK, Changes
<1> HIDE DEF h
<1>4. QED BY <1>1, <1>3, CalendarGoesOn

LEMMA CalendarCommit ==
  ASSUME CalendarIInv, NEW r \in Requests, Calendar!Commit(r)
  PROVE  CalendarIInv'
<1> USE DEF CalendarIInv
<1> DEFINE p == change[r].of
           dates == change[r].dates
           status == IF p \in Calendar!Made THEN period[p].status ELSE "open"
           new == [start |-> dates.start, end |-> dates.end, status |-> status]
<1>1. /\ r \in Calendar!Committing /\ period' = [period EXCEPT ![p] = new]
      /\ atOnce' = (atOnce \/ Calendar!Committing # {r}) /\ change' = [change EXCEPT ![r] = [pc |-> "ended"]]
  BY DEF Calendar!Commit, Calendar!Ended
<1>2. p \in Periods /\ dates \in [start : Nat, end : Nat]
  BY <1>1 DEF Calendar!Committing, CalendarTypeOK, Changes
<1>3. status \in {"open", "closed", "locked"}
  BY <1>2 DEF CalendarTypeOK, Calendar!Made, Dated
<1> HIDE DEF status
<1>4. new \in Dated /\ new # None /\ new.start = dates.start /\ new.end = dates.end
  BY <1>2, <1>3, NoneIsNoPeriod DEF Dated
<1>5. \A q \in Periods : q # p => period'[q] = period[q]
  BY <1>1 DEF CalendarTypeOK
<1>6. period'[p] = new
  BY <1>1, <1>2 DEF CalendarTypeOK
<1>7. ~ atOnce => Calendar!Free(p, dates)
  BY <1>1 DEF FoundStands
<1> HIDE DEF new, p, dates
<1>8. CalendarTypeOK'
  BY <1>1, <1>2, <1>4 DEF CalendarTypeOK, Changes
<1>9. (Calendar!Made)' = Calendar!Made \union {p}
  BY <1>2, <1>4, <1>5, <1>6 DEF Calendar!Made
<1>10. FoundStands'
  <2>1. \A s \in Requests : s # r => change'[s] = change[s]
    BY <1>1 DEF CalendarTypeOK
  <2>2. change'[r].pc = "ended"
    BY <1>1 DEF CalendarTypeOK
  <2>3. ~ atOnce' => (Calendar!Committing)' = {}
    BY <1>1, <2>1, <2>2 DEF Calendar!Committing
  <2>4. \A s \in Requests : change'[s].pc = "status" => change'[s].of \in (Calendar!Made)'
    BY <1>9, <2>1, <2>2 DEF FoundStands
  <2>5. QED BY <2>3, <2>4 DEF FoundStands, Calendar!Free, Calendar!Overlap
<1>11. (Calendar!PeriodsApart)'
  <2> SUFFICES ASSUME ~ atOnce', NEW q \in (Calendar!Made)', NEW s \in (Calendar!Made)', q # s
               PROVE  ~ (period'[q].start <= period'[s].end /\ period'[s].start <= period'[q].end)
    BY DEF Calendar!PeriodsApart, Calendar!Overlap
  <2>1. \A t \in Calendar!Made \ {p} : ~ (period[t].start <= dates.end /\ dates.start <= period[t].end)
    BY <1>1, <1>7 DEF Calendar!Free, Calendar!Overlap
  <2>2. CASE q = p
    BY <1>4, <1>5, <1>6, <1>9, <2>1, <2>2 DEF Calendar!Made
  <2>3. CASE s = p
    BY <1>4, <1>5, <1>6, <1>9, <2>1, <2>3 DEF Calendar!Made
  <2>4. CASE q # p /\ s # p
    <3>1. q \in Calendar!Made /\ s \in Calendar!Made /\ period'[q] = period[q] /\ period'[s] = period[s]
      BY <1>5, <1>9, <2>4 DEF Calendar!Made
    <3>2. QED BY <1>1, <3>1 DEF Calendar!PeriodsApart, Calendar!Overlap
  <2>5. QED BY <2>2, <2>3, <2>4
<1>12. QED BY <1>8, <1>10, <1>11

LEMMA CalendarStatus ==
  ASSUME CalendarIInv, NEW r \in Requests, Calendar!StatusWrite(r)
  PROVE  CalendarIInv'
<1> USE DEF CalendarIInv
<1> DEFINE p == change[r].of
           new == [period[p] EXCEPT !.status = change[r].status]
<1>1. /\ change[r].pc = "status" /\ period' = [period EXCEPT ![p] = new]
      /\ UNCHANGED atOnce /\ change' = [change EXCEPT ![r] = [pc |-> "ended"]]
  BY DEF Calendar!StatusWrite, Calendar!Ended
<1>2. p \in Periods /\ p \in Calendar!Made /\ change[r].status \in {"open", "closed", "locked"}
  BY <1>1 DEF CalendarTypeOK, Changes, FoundStands
<1>3. new \in Dated /\ new # None /\ new.start = period[p].start /\ new.end = period[p].end
  BY <1>2, NoneIsNoPeriod DEF CalendarTypeOK, Calendar!Made, Dated
<1>4. \A q \in Periods : q # p => period'[q] = period[q]
  BY <1>1 DEF CalendarTypeOK
<1>5. period'[p] = new
  BY <1>1, <1>2 DEF CalendarTypeOK
<1> HIDE DEF new
<1>6. CalendarTypeOK'
  BY <1>1, <1>2, <1>3 DEF CalendarTypeOK, Changes
<1>7. (Calendar!Made)' = Calendar!Made
  BY <1>2, <1>3, <1>4, <1>5 DEF Calendar!Made
<1>8. \A q \in Calendar!Made : period'[q].start = period[q].start /\ period'[q].end = period[q].end
  BY <1>3, <1>4, <1>5 DEF Calendar!Made
<1>9. \A s \in Requests : s # r => change'[s] = change[s]
  BY <1>1 DEF CalendarTypeOK
<1>10. change'[r].pc = "ended"
  BY <1>1 DEF CalendarTypeOK
<1>11. FoundStands'
  <2>1. \A s \in (Calendar!Committing)' : s \in Calendar!Committing /\ change'[s] = change[s]
    BY <1>9, <1>10 DEF Calendar!Committing
  <2>2. ~ atOnce' => \A s \in (Calendar!Committing)' : \A q \in Calendar!Made \ {change'[s].of} :
          ~ (period'[q].start <= change'[s].dates.end /\ change'[s].dates.start <= period'[q].end)
    BY <1>1, <1>8, <2>1 DEF FoundStands, Calendar!Free, Calendar!Overlap
  <2>3. \A s \in Requests : change'[s].pc = "status" => change'[s].of \in (Calendar!Made)'
    BY <1>7, <1>9, <1>10 DEF FoundStands
  <2>4. QED BY <1>7, <2>2, <2>3 DEF FoundStands, Calendar!Free, Calendar!Overlap
<1>12. (Calendar!PeriodsApart)'
  BY <1>1, <1>7, <1>8 DEF Calendar!PeriodsApart, Calendar!Overlap
<1>13. QED BY <1>6, <1>11, <1>12

LEMMA CalendarStep == CalendarIInv /\ [Calendar!Next]_(Calendar!calendar) => CalendarIInv'
<1> SUFFICES ASSUME CalendarIInv, [Calendar!Next]_(Calendar!calendar) PROVE CalendarIInv'
  OBVIOUS
<1>1. CASE UNCHANGED Calendar!calendar
  BY <1>1 DEF Calendar!calendar, CalendarIInv, CalendarTypeOK, FoundStands, Calendar!PeriodsApart, Calendar!Made,
       Calendar!Committing, Calendar!Free, Calendar!Overlap
<1>2. CASE Calendar!Next
  BY <1>2, CalendarAsks, CalendarWrite, CalendarCommit, CalendarStatus DEF Calendar!Next
<1>3. QED BY <1>1, <1>2

\* A day has one period, unless two statements ran at once (createAccountingPeriod,
\* updateAccountingPeriod).
THEOREM PeriodsStayApart == Calendar!Spec => []Calendar!PeriodsApart
<1>1. Calendar!Spec => []CalendarIInv
  BY CalendarInit, CalendarStep, PTL DEF Calendar!Spec
<1>2. QED BY <1>1, PTL DEF CalendarIInv

---------------------------------------------------------------------------
(* Invoices, payments and their events.                                     *)

Events == [status : {"pending", "ignored", "posted"}, entry : Requests \union {None}]
Drafts == [source : Payments \union {None}, status : {"draft", "posted", "reversed"}]
PaymentRows == [status : {"pending", "completed", "void"}, amount : Int]
PaymentTable == [Payments -> PaymentRows \union {None}]
InvoiceStatuses == {"sent", "partial", "paid", "void"}
Standing == {"posted", "reversed"}

Tasks ==
  [pc : {"none", "ended"}]
    \union [pc : {"sum"}, payment : Payments, new : BOOLEAN, row : PaymentRows]
    \union [pc : {"write"}, payment : Payments, new : BOOLEAN, row : PaymentRows, sum : Int]
    \union [pc : {"edit"}, total : Int, status : InvoiceStatuses, paid : Int]
    \union [pc : {"draft"}, source : Payments]
    \union [pc : {"post", "mark", "link", "reverse"}, entry : Requests]

InvoiceTypeOK ==
  /\ invoice \in [status : InvoiceStatuses, total : Int, paid : Int]
  /\ payment \in PaymentTable
  /\ event \in [Payments -> Events \union {None}]
  /\ entry \in [Requests -> Drafts \union {None}]
  /\ task \in [Requests -> Tasks]
  /\ stale \in BOOLEAN

\* What a request made, or saw, is so when it goes on; an entry was made by a request
\* that has since done nothing but post it, for an event if at all.
TasksStand ==
  /\ \A r \in Requests : task[r].pc = "edit" /\ task[r].status # "void" => task[r].paid <= task[r].total
  /\ \A r \in Requests : task[r].pc \in {"post", "mark", "link", "reverse"} => entry[task[r].entry] # None
  /\ \A r \in Requests : task[r].pc \in {"mark", "link", "reverse"} => entry[task[r].entry].status \in Standing
  /\ \A r \in Requests : task[r].pc = "link" => task[r].entry = r
  /\ \A r \in Requests : task[r].pc \in {"post", "mark", "link"} /\ task[r].entry = r => entry[r].source # None
  /\ \A r \in Requests : entry[r] # None => task[r].pc \in {"post", "mark", "link", "ended"}

\* Events that are posted name an entry; of the others the property says what they are.
EventsNamed ==
  \A p \in Payments : event[p] # None /\ event[p].status = "posted" => event[p].entry \in Requests

InvoiceIInv == InvoiceTypeOK /\ TasksStand /\ EventsNamed /\ PaymentsAgree

LEMMA NoneIsNoInvoiceRow == None \notin Events /\ None \notin Drafts /\ None \notin PaymentRows /\ None \notin Payments
BY BooksAssumption DEF Events, Drafts, PaymentRows

LEMMA SumOfIsInt ==
  ASSUME NEW rows \in PaymentTable
  PROVE  Invoices!SumOf(rows) \in Int
<1> DEFINE S == Invoices!Completed(rows)
           f == [p \in S |-> rows[p].amount]
           Is(g) == g = [s \in SUBSET S |-> IF s = {} THEN 0
                           ELSE LET x == (CHOOSE y \in s : TRUE) IN rows[x].amount + g[s \ {x}]]
           iter == CHOOSE g : Is(g)
<1>1. IsFiniteSet(S) /\ \A p \in S : f[p] \in Int
  BY BooksAssumption, FS_Subset DEF Invoices!Completed, PaymentTable, PaymentRows
<1>2. Invoices!SumOf(rows) = iter[S]
  BY DEF Invoices!SumOf, Invoices!MapThenSumSet, Invoices!MapThenFoldSet
<1> HIDE DEF S
<1>3. ASSUME NEW g PROVE Adds(g, f, S) <=> Is(g)
  <2>1. \A s \in SUBSET S : s # {} => f[First(s)] = rows[First(s)].amount
    BY FirstIsIn
  <2> HIDE DEF f
  <2>2. [s \in SUBSET S |-> IF s = {} THEN 0 ELSE f[First(s)] + g[s \ {First(s)}]]
        = [s \in SUBSET S |-> IF s = {} THEN 0 ELSE LET x == (CHOOSE y \in s : TRUE) IN rows[x].amount + g[s \ {x}]]
    BY <2>1 DEF First
  <2>3. QED BY <2>2 DEF Adds
<1> HIDE DEF Is, f
<1>4. PICK g : Adds(g, f, S)
  BY <1>1, SumsExist
<1>5. Adds(iter, f, S)
  BY <1>3, <1>4
<1>6. QED BY <1>1, <1>2, <1>5, SumsTakeAny

LEMMA SumOfNone ==
  ASSUME NEW rows, \A p \in Payments : rows[p] = None
  PROVE  Invoices!SumOf(rows) = 0
<1> DEFINE Is(g) == g = [s \in SUBSET {} |-> IF s = {} THEN 0
                           ELSE LET x == (CHOOSE y \in s : TRUE) IN rows[x].amount + g[s \ {x}]]
           iter == CHOOSE g : Is(g)
<1>1. Invoices!Completed(rows) = {}
  BY DEF Invoices!Completed
<1>2. Invoices!SumOf(rows) = iter[{}]
  BY <1>1 DEF Invoices!SumOf, Invoices!MapThenSumSet, Invoices!MapThenFoldSet
<1>3. Is([s \in SUBSET {} |-> 0])
  OBVIOUS
<1> HIDE DEF Is
<1>4. Is(iter)
  BY <1>3
<1>5. QED BY <1>2, <1>4 DEF Is

LEMMA InvoiceInit == Invoices!Init => InvoiceIInv
<1> SUFFICES ASSUME Invoices!Init PROVE InvoiceIInv
  OBVIOUS
<1> USE DEF Invoices!Init, Invoices!NotBegun
<1>1. InvoiceTypeOK
  <2>1. PICK total \in Totals : invoice = [status |-> "sent", total |-> total, paid |-> 0]
    OBVIOUS
  <2>2. invoice \in [status : InvoiceStatuses, total : Int, paid : Int]
    BY <2>1, BooksAssumption DEF InvoiceStatuses
  <2>3. payment \in PaymentTable /\ event \in [Payments -> Events \union {None}]
        /\ entry \in [Requests -> Drafts \union {None}]
    BY DEF PaymentTable
  <2>4. task \in [Requests -> Tasks] /\ stale \in BOOLEAN
    BY DEF Tasks
  <2>5. QED BY <2>2, <2>3, <2>4 DEF InvoiceTypeOK
<1>2. TasksStand /\ EventsNamed
  BY DEF TasksStand, EventsNamed
<1>3. PaymentsAgree
  <2>1. Invoices!SumOf(payment) = 0
    BY SumOfNone
  <2>2. invoice.paid = 0 /\ 0 <= invoice.total
    BY BooksAssumption
  <2>3. \A p \in Payments : event[p] = None
    OBVIOUS
  <2>4. QED BY <2>1, <2>2, <2>3 DEF PaymentsAgree, Invoices!PaidIsSummed, Invoices!EventsMatch
<1>4. QED BY <1>1, <1>2, <1>3 DEF InvoiceIInv

\* A request goes on and writes no row.
LEMMA InvoiceGoesOn ==
  ASSUME InvoiceIInv, NEW r \in Requests, NEW h \in Tasks, task' = [task EXCEPT ![r] = h],
         UNCHANGED <<invoice, payment, event, entry, stale>>,
         h.pc \notin {"mark", "link"},
         h.pc \in {"post", "reverse"} => entry[h.entry] # None,
         h.pc = "reverse" => entry[h.entry].status \in Standing,
         h.pc = "ended" \/ task[r].pc \notin {"post", "mark", "link", "ended"},
         h.pc = "edit" /\ h.status # "void" => h.paid <= h.total
  PROVE  InvoiceIInv'
<1> USE DEF InvoiceIInv
<1>1. task'[r] = h /\ \A q \in Requests : q # r => task'[q] = task[q]
  BY DEF InvoiceTypeOK
<1>2. InvoiceTypeOK'
  BY DEF InvoiceTypeOK
<1>3. TasksStand'
  BY <1>1 DEF TasksStand
<1>4. EventsNamed' /\ PaymentsAgree'
  BY DEF EventsNamed, PaymentsAgree, Invoices!PaidIsSummed, Invoices!EventsMatch, Invoices!InBook, Standing
<1>5. QED BY <1>2, <1>3, <1>4

LEMMA InvoicePays ==
  ASSUME InvoiceIInv, NEW r \in Requests,
         \/ \E p \in Payments, status \in Invoices!Statuses :
              \/ \E total \in Totals : Invoices!Create(r, p, total - 1, status)
              \/ Invoices!Update(r, p, status)
         \/ Invoices!ReadSum(r)
  PROVE  InvoiceIInv'
<1> USE DEF InvoiceIInv
<1>1. CASE \E p \in Payments, status \in Invoices!Statuses, total \in Totals : Invoices!Create(r, p, total - 1, status)
  <2>1. PICK p \in Payments, status \in Invoices!Statuses, total \in Totals : Invoices!Create(r, p, total - 1, status)
    BY <1>1
  <2> DEFINE new == [status |-> status, amount |-> total - 1]
             h == [pc |-> "sum", payment |-> p, new |-> TRUE, row |-> new]
  <2>2. /\ task[r].pc = "none" /\ task' = [task EXCEPT ![r] = h]
        /\ UNCHANGED <<invoice, payment, event, entry, stale>>
    BY <2>1 DEF Invoices!Create, Invoices!Begin, Invoices!NotBegun
  <2>3. new \in PaymentRows
    BY BooksAssumption DEF PaymentRows, Invoices!Statuses
  <2> HIDE DEF new
  <2>4. h \in Tasks /\ h.pc = "sum"
    BY <2>3 DEF Tasks
  <2> HIDE DEF h
  <2>5. QED BY <2>2, <2>4, InvoiceGoesOn
<1>2. CASE \E p \in Payments, status \in Invoices!Statuses : Invoices!Update(r, p, status)
  <2>1. PICK p \in Payments, status \in Invoices!Statuses : Invoices!Update(r, p, status)
    BY <1>2
  <2> DEFINE new == [payment[p] EXCEPT !.status = status]
             h == [pc |-> "sum", payment |-> p, new |-> FALSE, row |-> new]
  <2>2. /\ task[r].pc = "none" /\ task' = [task EXCEPT ![r] = h] /\ payment[p] # None
        /\ UNCHANGED <<invoice, payment, event, entry, stale>>
    BY <2>1 DEF Invoices!Update, Invoices!Begin, Invoices!NotBegun
  <2>3. new \in PaymentRows
    BY <2>2 DEF PaymentRows, Invoices!Statuses, InvoiceTypeOK, PaymentTable
  <2> HIDE DEF new
  <2>4. h \in Tasks /\ h.pc = "sum"
    BY <2>3 DEF Tasks
  <2> HIDE DEF h
  <2>5. QED BY <2>2, <2>4, InvoiceGoesOn
<1>3. CASE Invoices!ReadSum(r)
  <2> DEFINE table == Invoices!Changed(r)
             sum == Invoices!SumOf(table)
             h == [pc |-> "write", payment |-> task[r].payment, new |-> task[r].new, row |-> task[r].row, sum |-> sum]
  <2>1. /\ task[r].pc = "sum" /\ task' = [task EXCEPT ![r] = h]
        /\ UNCHANGED <<invoice, payment, event, entry, stale>>
    BY <1>3 DEF Invoices!ReadSum
  <2>2. task[r].payment \in Payments /\ task[r].row \in PaymentRows /\ task[r].new \in BOOLEAN
    BY <2>1 DEF InvoiceTypeOK, Tasks
  <2>3. table \in PaymentTable
    BY <2>2 DEF InvoiceTypeOK, PaymentTable, Invoices!Changed
  <2> HIDE DEF table
  <2>4. sum \in Int
    BY <2>3, SumOfIsInt
  <2> HIDE DEF sum
  <2>5. h \in Tasks /\ h.pc = "write"
    BY <2>2, <2>4 DEF Tasks
  <2> HIDE DEF h
  <2>6. QED BY <2>1, <2>5, InvoiceGoesOn
<1>4. QED BY <1>1, <1>2, <1>3

LEMMA InvoiceAsks ==
  ASSUME InvoiceIInv, NEW r \in Requests,
         \/ \E total \in Totals, status \in {invoice.status, "sent", "void"} : Invoices!EditRead(r, total, status)
         \/ \E p \in Payments : Invoices!EventRead(r, p)
         \/ \E e \in Requests : Invoices!PostRead(r, e) \/ Invoices!ReverseRead(r, e)
         \/ Invoices!Fail(r)
  PROVE  InvoiceIInv'
<1> USE DEF InvoiceIInv
<1>1. CASE \E total \in Totals, status \in {invoice.status, "sent", "void"} : Invoices!EditRead(r, total, status)
  <2>1. PICK total \in Totals, status \in {invoice.status, "sent", "void"} : Invoices!EditRead(r, total, status)
    BY <1>1
  <2> DEFINE paid == invoice.paid
             h == [pc |-> "edit", total |-> total, status |-> status, paid |-> paid]
  <2>2. /\ task[r].pc = "none" /\ task' = [task EXCEPT ![r] = h]
        /\ paid <= total \/ status = "void"
        /\ UNCHANGED <<invoice, payment, event, entry, stale>>
    BY <2>1 DEF Invoices!EditRead, Invoices!Begin, Invoices!NotBegun
  <2>3. paid \in Int /\ total \in Int /\ status \in InvoiceStatuses
    BY BooksAssumption DEF InvoiceTypeOK, InvoiceStatuses
  <2> HIDE DEF paid
  <2>4. h \in Tasks /\ h.pc = "edit" /\ h.paid = paid /\ h.total = total /\ h.status = status
    BY <2>3 DEF Tasks
  <2> HIDE DEF h
  <2>5. QED BY <2>2, <2>4, InvoiceGoesOn
<1>2. CASE \E source \in Payments :
             /\ task[r].pc = "none" /\ task' = [task EXCEPT ![r] = [pc |-> "draft", source |-> source]]
             /\ UNCHANGED <<invoice, payment, event, entry, stale>>
  <2>1. PICK source \in Payments :
             /\ task[r].pc = "none" /\ task' = [task EXCEPT ![r] = [pc |-> "draft", source |-> source]]
             /\ UNCHANGED <<invoice, payment, event, entry, stale>>
    BY <1>2
  <2> DEFINE h == [pc |-> "draft", source |-> source]
  <2>2. h \in Tasks /\ h.pc = "draft"
    BY DEF Tasks
  <2>3. task' = [task EXCEPT ![r] = h]
    BY <2>1
  <2> HIDE DEF h
  <2>4. QED BY <2>1, <2>2, <2>3, InvoiceGoesOn
<1>3. CASE Invoices!Fail(r)
  <2> DEFINE h == [pc |-> "ended"]
  <2>1. task' = [task EXCEPT ![r] = h] /\ UNCHANGED <<invoice, payment, event, entry, stale>>
    BY <1>3 DEF Invoices!Fail, Invoices!End, Invoices!Ended
  <2>2. h \in Tasks /\ h.pc = "ended"
    BY DEF Tasks
  <2> HIDE DEF h
  <2>3. QED BY <2>1, <2>2, InvoiceGoesOn
<1>4. CASE \E e \in Requests : Invoices!PostRead(r, e) \/ Invoices!ReverseRead(r, e)
  <2>1. PICK e \in Requests : Invoices!PostRead(r, e) \/ Invoices!ReverseRead(r, e)
    BY <1>4
  <2>2. PICK pc \in {"post", "reverse"} :
          /\ task[r].pc = "none" /\ task' = [task EXCEPT ![r] = [pc |-> pc, entry |-> e]]
          /\ entry[e] # None /\ (pc = "reverse" => entry[e].status \in Standing)
          /\ UNCHANGED <<invoice, payment, event, entry, stale>>
    BY <2>1 DEF Invoices!PostRead, Invoices!ReverseRead, Invoices!Begin, Invoices!NotBegun, Invoices!InBook, Standing
  <2> DEFINE h == [pc |-> pc, entry |-> e]
  <2>3. h \in Tasks /\ h.pc = pc /\ h.entry = e
    BY DEF Tasks
  <2>4. task' = [task EXCEPT ![r] = h]
    BY <2>2
  <2> HIDE DEF h
  <2>5. QED BY <2>2, <2>3, <2>4, InvoiceGoesOn
<1>5. QED BY <1>1, <1>2, <1>3, <1>4 DEF Invoices!EventRead, Invoices!Begin, Invoices!NotBegun

LEMMA InvoiceEditWrite ==
  ASSUME InvoiceIInv, NEW r \in Requests, Invoices!EditWrite(r)
  PROVE  InvoiceIInv'
<1> USE DEF InvoiceIInv
<1> DEFINE q == task[r]
<1>1. /\ q.pc = "edit" /\ invoice' = [invoice EXCEPT !.total = q.total, !.status = q.status]
      /\ stale' = (stale \/ q.paid # invoice.paid) /\ UNCHANGED <<payment, event, entry>>
      /\ task' = [task EXCEPT ![r] = [pc |-> "ended"]]
  BY DEF Invoices!EditWrite, Invoices!End, Invoices!Ended
<1>2. /\ q.total \in Int /\ q.status \in InvoiceStatuses /\ q.paid \in Int
      /\ q.status # "void" => q.paid <= q.total
  BY <1>1 DEF InvoiceTypeOK, Tasks, TasksStand
<1>3. /\ invoice'.paid = invoice.paid /\ invoice'.total = q.total /\ invoice'.status = q.status
      /\ invoice' \in [status : InvoiceStatuses, total : Int, paid : Int]
  BY <1>1, <1>2 DEF InvoiceTypeOK
<1>4. task'[r].pc = "ended" /\ \A s \in Requests : s # r => task'[s] = task[s]
  BY <1>1 DEF InvoiceTypeOK
<1>5. InvoiceTypeOK'
  <2>1. task' \in [Requests -> Tasks]
    BY <1>1 DEF InvoiceTypeOK, Tasks
  <2>2. QED BY <1>1, <1>3, <2>1 DEF InvoiceTypeOK
<1>6. TasksStand' /\ EventsNamed'
  BY <1>1, <1>4 DEF TasksStand, EventsNamed, Invoices!InBook, Standing
<1> HIDE DEF q
<1>7. (Invoices!PaidIsSummed)'
  BY <1>1, <1>2, <1>3 DEF PaymentsAgree, Invoices!PaidIsSummed
<1>8. (Invoices!EventsMatch)'
  BY <1>1 DEF PaymentsAgree, Invoices!EventsMatch, Invoices!InBook, Standing
<1>9. QED BY <1>5, <1>6, <1>7, <1>8 DEF PaymentsAgree

LEMMA InvoiceWrite ==
  ASSUME InvoiceIInv, NEW r \in Requests, Invoices!Write(r)
  PROVE  InvoiceIInv'
<1> USE DEF InvoiceIInv
<1> DEFINE q == task[r]
           p == q.payment
           status == Invoices!NextStatus(q.sum)
           made == [status |-> "pending", entry |-> None]
<1>1. /\ q.pc = "write" /\ q.sum <= invoice.total /\ payment' = [payment EXCEPT ![p] = q.row]
      /\ invoice' = [invoice EXCEPT !.paid = q.sum, !.status = status]
      /\ event' = Invoices!Synced(p, q.row)
      /\ stale' = (stale \/ q.sum # Invoices!SumOf(payment')) /\ UNCHANGED entry
      /\ task' = [task EXCEPT ![r] = [pc |-> "ended"]]
  BY DEF Invoices!Write, Invoices!End, Invoices!Ended, Invoices!Changed
<1>2. p \in Payments /\ q.row \in PaymentRows /\ q.sum \in Int
  BY <1>1 DEF InvoiceTypeOK, Tasks
<1>3. status \in InvoiceStatuses
  BY DEF Invoices!NextStatus, InvoiceStatuses
<1>4. /\ invoice'.paid = q.sum /\ invoice'.total = invoice.total
      /\ invoice' \in [status : InvoiceStatuses, total : Int, paid : Int]
  BY <1>1, <1>2, <1>3 DEF InvoiceTypeOK
<1> HIDE DEF status
<1>5. task'[r].pc = "ended" /\ \A s \in Requests : s # r => task'[s] = task[s]
  BY <1>1 DEF InvoiceTypeOK
<1>6. made \in Events /\ made # None /\ made.status = "pending"
  BY NoneIsNoInvoiceRow DEF Events
<1>7. \/ event[p] # None /\ event[p].status = "posted" /\ event' = event
      \/ /\ ~ (event[p] # None /\ event[p].status = "posted")
         /\ \/ q.row.status = "completed" /\ event' = [event EXCEPT ![p] = made]
            \/ q.row.status # "completed" /\ event[p] = None /\ event' = event
            \/ q.row.status # "completed" /\ event[p] # None /\ event' = [event EXCEPT ![p].status = "ignored"]
  BY <1>1 DEF Invoices!Synced
<1> HIDE DEF made, q, p
<1>8. /\ event' \in [Payments -> Events \union {None}]
      /\ \A s \in Payments : s # p => event'[s] = event[s]
      /\ event'[p] # None /\ event'[p].status = "posted" => event'[p] = event[p]
      /\ event'[p] # None /\ event'[p].status # "posted" => (event'[p].status = "pending" <=> q.row.status = "completed")
  <2>1. CASE event' = event /\ (event[p] = None \/ event[p].status = "posted")
    BY <2>1 DEF InvoiceTypeOK
  <2>2. CASE q.row.status = "completed" /\ event' = [event EXCEPT ![p] = made]
    BY <1>2, <1>6, <2>2 DEF InvoiceTypeOK
  <2>3. CASE q.row.status # "completed" /\ event[p] # None /\ event' = [event EXCEPT ![p].status = "ignored"]
    <3> DEFINE off == [event[p] EXCEPT !.status = "ignored"]
    <3>1. event[p] \in Events /\ event' = [event EXCEPT ![p] = off]
      BY <1>2, <2>3 DEF InvoiceTypeOK
    <3>2. off \in Events /\ off # None /\ off.status = "ignored"
      BY <3>1, NoneIsNoInvoiceRow DEF Events
    <3> HIDE DEF off
    <3>3. QED BY <1>2, <2>3, <3>1, <3>2 DEF InvoiceTypeOK
  <2>4. QED BY <1>7, <2>1, <2>2, <2>3
<1>9. payment' \in PaymentTable /\ payment'[p] = q.row /\ \A s \in Payments : s # p => payment'[s] = payment[s]
  BY <1>1, <1>2 DEF InvoiceTypeOK, PaymentTable
<1>10. InvoiceTypeOK'
  <2>1. task' \in [Requests -> Tasks]
    BY <1>1 DEF InvoiceTypeOK, Tasks
  <2>2. stale' \in BOOLEAN
    BY <1>1 DEF InvoiceTypeOK
  <2>3. QED BY <1>1, <1>4, <1>8, <1>9, <2>1, <2>2 DEF InvoiceTypeOK
<1>11. TasksStand'
  BY <1>1, <1>5 DEF TasksStand
<1>12. EventsNamed'
  BY <1>8 DEF EventsNamed
<1>13. (Invoices!PaidIsSummed)'
  BY <1>1, <1>4 DEF Invoices!PaidIsSummed
<1>14. (Invoices!EventsMatch)'
  <2> SUFFICES ASSUME NEW s \in Payments, event'[s] # None
               PROVE  IF event'[s].status = "posted"
                      THEN entry'[event'[s].entry] # None /\ entry'[event'[s].entry].source = s
                           /\ entry'[event'[s].entry].status \in Standing
                      ELSE event'[s].status = "pending" <=> payment'[s].status = "completed"
    BY DEF Invoices!EventsMatch, Invoices!InBook, Standing
  <2>1. CASE s = p
    BY <1>1, <1>8, <1>9, <2>1 DEF PaymentsAgree, Invoices!EventsMatch, Invoices!InBook, Standing
  <2>2. CASE s # p
    BY <1>1, <1>8, <1>9, <2>2 DEF PaymentsAgree, Invoices!EventsMatch, Invoices!InBook, Standing
  <2>3. QED BY <2>1, <2>2
<1>15. QED BY <1>10, <1>11, <1>12, <1>13, <1>14 DEF PaymentsAgree

\* Entries stay, with their source, and in the book; events are as they were or name an
\* entry of their own payment.
LEMMA InvoiceEntries ==
  ASSUME InvoiceIInv, NEW r \in Requests, NEW h \in Tasks, task' = [task EXCEPT ![r] = h],
         entry' \in [Requests -> Drafts \union {None}],
         \A e \in Requests : entry[e] # None => entry'[e] # None /\ entry'[e].source = entry[e].source,
         \A e \in Requests : entry[e] # None /\ entry[e].status \in Standing => entry'[e].status \in Standing,
         \A e \in Requests : entry'[e] # None => entry[e] # None \/ e = r,
         h.pc \in {"post", "mark", "link", "ended"},
         h.pc # "ended" => entry'[h.entry] # None,
         h.pc \in {"mark", "link"} => entry'[h.entry].status \in Standing,
         h.pc = "link" => h.entry = r,
         h.pc # "ended" /\ h.entry = r => entry'[r].source # None,
         event' \in [Payments -> Events \union {None}],
         \A p \in Payments :
           \/ event'[p] = event[p]
           \/ \E e \in Requests : /\ event'[p] = [status |-> "posted", entry |-> e]
                                  /\ entry'[e] # None /\ entry'[e].source = p /\ entry'[e].status \in Standing,
         UNCHANGED <<invoice, payment, stale>>
  PROVE  InvoiceIInv'
<1> USE DEF InvoiceIInv
<1>1. task'[r] = h /\ \A q \in Requests : q # r => task'[q] = task[q]
  BY DEF InvoiceTypeOK
<1>2. InvoiceTypeOK'
  BY DEF InvoiceTypeOK
<1>3. TasksStand'
  <2>1. \A q \in Requests : task[q].pc \in {"post", "mark", "link", "reverse"} => task[q].entry \in Requests
    BY DEF InvoiceTypeOK, Tasks
  <2>2. ASSUME NEW q \in Requests, task'[q].pc \in {"post", "mark", "link", "reverse"}
        PROVE  /\ entry'[task'[q].entry] # None
               /\ task'[q].pc \in {"mark", "link", "reverse"} => entry'[task'[q].entry].status \in Standing
               /\ task'[q].pc = "link" => task'[q].entry = q
               /\ task'[q].pc # "reverse" /\ task'[q].entry = q => entry'[q].source # None
    <3>1. CASE q = r
      BY <1>1, <2>2, <3>1
    <3>2. CASE q # r
      <4> DEFINE e == task[q].entry
      <4>1. task'[q] = task[q] /\ e \in Requests /\ entry[e] # None
        BY <1>1, <2>1, <2>2, <3>2 DEF TasksStand
      <4>2. task[q].pc \in {"mark", "link", "reverse"} => entry[e].status \in Standing
        BY DEF TasksStand
      <4>3. (task[q].pc = "link" => e = q) /\ (task[q].pc # "reverse" /\ e = q => entry[q].source # None)
        BY <2>2, <4>1 DEF TasksStand
      <4> HIDE DEF e
      <4>4. QED BY <4>1, <4>2, <4>3 DEF e
    <3>3. QED BY <3>1, <3>2
  <2>3. \A q \in Requests : task'[q].pc = "edit" /\ task'[q].status # "void" => task'[q].paid <= task'[q].total
    BY <1>1 DEF TasksStand
  <2>4. \A q \in Requests : entry'[q] # None => task'[q].pc \in {"post", "mark", "link", "ended"}
    BY <1>1 DEF TasksStand
  <2>5. QED BY <2>2, <2>3, <2>4 DEF TasksStand
<1>4. EventsNamed'
  BY DEF EventsNamed
<1>5. (Invoices!EventsMatch)'
  <2> SUFFICES ASSUME NEW p \in Payments, event'[p] # None
               PROVE  IF event'[p].status = "posted"
                      THEN entry'[event'[p].entry] # None /\ entry'[event'[p].entry].source = p
                           /\ entry'[event'[p].entry].status \in Standing
                      ELSE event'[p].status = "pending" <=> payment[p].status = "completed"
    BY DEF Invoices!EventsMatch, Invoices!InBook, Standing
  <2>1. CASE event'[p] # event[p]
    BY <2>1
  <2>2. CASE event'[p] = event[p] /\ event[p].status # "posted"
    BY <2>2 DEF PaymentsAgree, Invoices!EventsMatch
  <2>3. CASE event'[p] = event[p] /\ event[p].status = "posted"
    <3> DEFINE e == event[p].entry
    <3>1. e \in Requests /\ entry[e] # None /\ entry[e].source = p /\ entry[e].status \in Standing
      BY <2>3 DEF PaymentsAgree, Invoices!EventsMatch, EventsNamed, Invoices!InBook, Standing
    <3>2. event'[p].status = "posted" /\ event'[p].entry = e
      BY <2>3
    <3> HIDE DEF e
    <3>3. QED BY <3>1, <3>2
  <2>4. QED BY <2>1, <2>2, <2>3
<1>6. (Invoices!PaidIsSummed)'
  BY DEF PaymentsAgree, Invoices!PaidIsSummed
<1>7. QED BY <1>2, <1>3, <1>4, <1>5, <1>6 DEF PaymentsAgree

LEMMA InvoiceByHand ==
  ASSUME InvoiceIInv, NEW r \in Requests, NEW source \in Payments \union {None}, Invoices!JournalByHand(r, source)
  PROVE  InvoiceIInv'
<1> USE DEF InvoiceIInv
<1> DEFINE new == [source |-> source, status |-> "draft"]
           h == [pc |-> "ended"]
<1>1. /\ task[r].pc = "none" /\ entry' = [entry EXCEPT ![r] = new] /\ task' = [task EXCEPT ![r] = h]
      /\ UNCHANGED <<invoice, payment, event, stale>>
  BY DEF Invoices!JournalByHand, Invoices!Begin, Invoices!NotBegun, Invoices!Ended
<1>2. new \in Drafts /\ new # None
  BY NoneIsNoInvoiceRow DEF Drafts
<1>3. h \in Tasks /\ h.pc = "ended"
  BY DEF Tasks
<1>4. entry[r] = None
  BY <1>1 DEF TasksStand
<1> HIDE DEF new, h
<1>5. /\ entry' \in [Requests -> Drafts \union {None}]
      /\ \A e \in Requests : e # r => entry'[e] = entry[e]
      /\ event' \in [Payments -> Events \union {None}]
  BY <1>1, <1>2 DEF InvoiceTypeOK
<1>6. \A e \in Requests : entry[e] # None /\ entry[e].status \in Standing => entry'[e].status \in Standing
  BY <1>4, <1>5
<1>7. QED BY <1>1, <1>3, <1>4, <1>5, <1>6, InvoiceEntries

LEMMA InvoiceDraft ==
  ASSUME InvoiceIInv, NEW r \in Requests, Invoices!Draft(r)
  PROVE  InvoiceIInv'
<1> USE DEF InvoiceIInv
<1> DEFINE new == [source |-> task[r].source, status |-> "draft"]
           h == [pc |-> "post", entry |-> r]
<1>1. /\ task[r].pc = "draft" /\ entry' = [entry EXCEPT ![r] = new] /\ task' = [task EXCEPT ![r] = h]
      /\ UNCHANGED <<invoice, payment, event, stale>>
  BY DEF Invoices!Draft
<1>2. new \in Drafts /\ new # None /\ new.source # None
  BY <1>1, NoneIsNoInvoiceRow DEF InvoiceTypeOK, Tasks, Drafts
<1>3. h \in Tasks /\ h.pc = "post" /\ h.entry = r
  BY DEF Tasks
<1>4. entry[r] = None
  BY <1>1 DEF TasksStand
<1> HIDE DEF new, h
<1>5. /\ entry' \in [Requests -> Drafts \union {None}] /\ entry'[r] = new
      /\ \A e \in Requests : e # r => entry'[e] = entry[e]
      /\ event' \in [Payments -> Events \union {None}]
  BY <1>1, <1>2 DEF InvoiceTypeOK
<1>6. \A e \in Requests : entry[e] # None /\ entry[e].status \in Standing => entry'[e].status \in Standing
  BY <1>4, <1>5 DEF Invoices!InBook, Standing
<1>7. QED BY <1>1, <1>2, <1>3, <1>4, <1>5, <1>6, InvoiceEntries

\* The entry that is reversed stays in the book, and the new one is that of a request
\* that had none.
LEMMA InvoiceReverse ==
  ASSUME InvoiceIInv, NEW r \in Requests, Invoices!ReverseWrite(r)
  PROVE  InvoiceIInv'
<1> USE DEF InvoiceIInv
<1> DEFINE e == task[r].entry
           old == [entry[e] EXCEPT !.status = "reversed"]
           new == [source |-> None, status |-> "posted"]
           h == [pc |-> "ended"]
<1>1. /\ task[r].pc = "reverse" /\ task' = [task EXCEPT ![r] = h]
      /\ entry' = [entry EXCEPT ![e].status = "reversed", ![r] = new]
      /\ UNCHANGED <<invoice, payment, event, stale>>
  BY DEF Invoices!ReverseWrite, Invoices!End, Invoices!Ended
<1>2. e \in Requests /\ entry[e] # None /\ entry[e] \in Drafts /\ entry[r] = None /\ e # r
  BY <1>1 DEF TasksStand, InvoiceTypeOK, Tasks
<1>3. /\ new \in Drafts /\ new # None
      /\ old \in Drafts /\ old # None /\ old.source = entry[e].source /\ old.status = "reversed"
  BY <1>2, NoneIsNoInvoiceRow DEF Drafts
<1>4. h \in Tasks /\ h.pc = "ended"
  BY DEF Tasks
<1>5. entry' = [entry EXCEPT ![e] = old, ![r] = new]
  BY <1>1, <1>2 DEF InvoiceTypeOK
<1> HIDE DEF new, old, h, e
<1>6. /\ entry' \in [Requests -> Drafts \union {None}] /\ entry'[r] = new /\ entry'[e] = old
      /\ \A s \in Requests : s \notin {r, e} => entry'[s] = entry[s]
      /\ event' \in [Payments -> Events \union {None}]
  BY <1>1, <1>2, <1>3, <1>5 DEF InvoiceTypeOK
<1>7. \A s \in Requests : entry[s] # None /\ entry[s].status \in Standing => entry'[s].status \in Standing
  BY <1>2, <1>3, <1>6 DEF Invoices!InBook, Standing
<1>8. \A s \in Requests : entry[s] # None => entry'[s] # None /\ entry'[s].source = entry[s].source
  BY <1>2, <1>3, <1>6
<1>9. \A s \in Requests : entry'[s] # None => entry[s] # None \/ s = r
  BY <1>2, <1>6
<1>10. QED BY <1>1, <1>4, <1>6, <1>7, <1>8, <1>9, InvoiceEntries

LEMMA LinkedIs ==
  ASSUME InvoiceIInv, NEW e \in Requests, NEW p \in Payments
  PROVE  /\ Invoices!Linked(p, e) \in Events \union {None}
         /\ \/ Invoices!Linked(p, e) = event[p]
            \/ /\ Invoices!Linked(p, e) = [status |-> "posted", entry |-> e]
               /\ entry[e].source = p
BY DEF InvoiceIInv, InvoiceTypeOK, Invoices!Linked, Events

LEMMA InvoicePost ==
  ASSUME InvoiceIInv, NEW r \in Requests, Invoices!Post(r)
  PROVE  InvoiceIInv'
<1> USE DEF InvoiceIInv
<1> DEFINE e == task[r].entry
           new == [entry[e] EXCEPT !.status = "posted"]
           h == [pc |-> "mark", entry |-> e]
<1>1. /\ task[r].pc = "post" /\ entry' = [entry EXCEPT ![e] = new] /\ task' = [task EXCEPT ![r] = h]
      /\ UNCHANGED <<invoice, payment, stale>>
      /\ event' = [p \in Payments |->
           IF event[p] # None /\ event[p].status = "pending" /\ entry[e].source = p /\ entry[e].status # "posted"
           THEN Invoices!Linked(p, e) ELSE event[p]]
  BY DEF Invoices!Post
<1>2. /\ e \in Requests /\ entry[e] # None /\ entry[e] \in Drafts
      /\ e = r => entry[r].source # None
  BY <1>1 DEF TasksStand, InvoiceTypeOK, Tasks
<1>3. new \in Drafts /\ new # None /\ new.source = entry[e].source /\ new.status \in Standing
  BY <1>2, NoneIsNoInvoiceRow DEF Drafts, Standing
<1>4. h \in Tasks /\ h.pc = "mark" /\ h.entry = e
  BY <1>2 DEF Tasks
<1> HIDE DEF new, h, e
<1>5. /\ entry' \in [Requests -> Drafts \union {None}] /\ entry'[e] = new
      /\ \A s \in Requests : s # e => entry'[s] = entry[s]
  BY <1>1, <1>2, <1>3 DEF InvoiceTypeOK
<1>6. /\ \A s \in Requests : entry[s] # None => entry'[s] # None /\ entry'[s].source = entry[s].source
      /\ \A s \in Requests : entry'[s] # None => entry[s] # None
      /\ \A s \in Requests : entry[s] # None /\ entry[s].status \in Standing => entry'[s].status \in Standing
  BY <1>2, <1>3, <1>5
<1>7. /\ event' \in [Payments -> Events \union {None}]
      /\ \A p \in Payments :
           \/ event'[p] = event[p]
           \/ /\ event'[p] = [status |-> "posted", entry |-> e]
              /\ entry'[e] # None /\ entry'[e].source = p /\ entry'[e].status \in Standing
  <2>1. \A p \in Payments : event'[p] \in {Invoices!Linked(p, e), event[p]}
    BY <1>1
  <2>2. \A p \in Payments : event[p] \in Events \union {None}
    BY DEF InvoiceTypeOK
  <2>3. event' = [p \in Payments |-> event'[p]]
    BY <1>1
  <2>4. entry'[e] # None /\ entry'[e].source = entry[e].source /\ entry'[e].status \in Standing
    BY <1>3, <1>5
  <2>5. QED BY <1>2, <2>1, <2>2, <2>3, <2>4, LinkedIs
<1>8. \A p \in Payments :
        \/ event'[p] = event[p]
        \/ \E s \in Requests : /\ event'[p] = [status |-> "posted", entry |-> s]
                               /\ entry'[s] # None /\ entry'[s].source = p /\ entry'[s].status \in Standing
  BY <1>2, <1>7
<1>9. entry'[e] # None /\ entry'[e].status \in Standing /\ (e = r => entry'[r].source # None)
  BY <1>2, <1>3, <1>5
<1>10. QED BY <1>1, <1>4, <1>5, <1>6, <1>7, <1>8, <1>9, InvoiceEntries

LEMMA InvoiceMark ==
  ASSUME InvoiceIInv, NEW r \in Requests, Invoices!Mark(r)
  PROVE  InvoiceIInv'
<1> USE DEF InvoiceIInv
<1> DEFINE e == task[r].entry
           source == entry[e].source
           h == IF e # r THEN [pc |-> "ended"] ELSE [pc |-> "link", entry |-> r]
<1>1. /\ task[r].pc = "mark" /\ task' = [task EXCEPT ![r] = h]
      /\ UNCHANGED <<invoice, payment, entry, stale>>
      /\ event' = [p \in Payments |->
           IF event[p] # None /\ event[p].status = "pending" /\ source \in {None, p}
           THEN Invoices!Linked(p, e) ELSE event[p]]
  BY DEF Invoices!Mark, Invoices!End, Invoices!Ended
<1>2. /\ e \in Requests /\ entry[e] # None /\ entry[e].status \in Standing
      /\ e = r => source # None
  BY <1>1 DEF TasksStand, InvoiceTypeOK, Tasks
<1>3. h \in Tasks /\ (h.pc = "ended" \/ (h.pc = "link" /\ h.entry = r /\ e = r /\ source # None))
  BY <1>2 DEF Tasks
<1> HIDE DEF h, e
<1>4. /\ \A s \in Requests : entry[s].status \in Standing => entry'[s].status \in Standing
      /\ entry' \in [Requests -> Drafts \union {None}]
  BY <1>1 DEF InvoiceTypeOK, Invoices!InBook, Standing
<1>5. /\ event' \in [Payments -> Events \union {None}]
      /\ \A p \in Payments :
           \/ event'[p] = event[p]
           \/ /\ event'[p] = [status |-> "posted", entry |-> e]
              /\ entry'[e] # None /\ entry'[e].source = p /\ entry'[e].status \in Standing
  <2>1. \A p \in Payments : event'[p] \in {Invoices!Linked(p, e), event[p]}
    BY <1>1
  <2>2. \A p \in Payments : event[p] \in Events \union {None}
    BY DEF InvoiceTypeOK
  <2>3. event' = [p \in Payments |-> event'[p]]
    BY <1>1
  <2>4. QED BY <1>1, <1>2, <1>4, <2>1, <2>2, <2>3, LinkedIs
<1>6. QED BY <1>1, <1>2, <1>3, <1>4, <1>5, InvoiceEntries

LEMMA InvoiceLink ==
  ASSUME InvoiceIInv, NEW r \in Requests, Invoices!Link(r)
  PROVE  InvoiceIInv'
<1> USE DEF InvoiceIInv
<1> DEFINE source == entry[r].source
           linked == Invoices!Linked(source, r)
           h == [pc |-> "ended"]
<1>1. /\ task[r].pc = "link" /\ task' = [task EXCEPT ![r] = h]
      /\ UNCHANGED <<invoice, payment, entry, stale>>
      /\ event' = [event EXCEPT ![source] = linked]
  BY DEF Invoices!Link, Invoices!End, Invoices!Ended
<1>2. entry[r] # None /\ entry[r] \in Drafts /\ entry[r].status \in Standing /\ source \in Payments
  BY <1>1 DEF TasksStand, InvoiceTypeOK, Drafts
<1>3. h \in Tasks /\ h.pc = "ended"
  BY DEF Tasks
<1> HIDE DEF h
<1>4. /\ \A s \in Requests : entry[s].status \in Standing => entry'[s].status \in Standing
      /\ entry' \in [Requests -> Drafts \union {None}]
  BY <1>1 DEF InvoiceTypeOK, Invoices!InBook, Standing
<1>5. linked \in Events \union {None} /\ (linked = event[source] \/ linked = [status |-> "posted", entry |-> r])
  BY <1>2, LinkedIs
<1> HIDE DEF linked
<1>6. entry'[r] # None /\ entry'[r].source = source /\ entry'[r].status \in Standing
  BY <1>1, <1>2, <1>4
<1>7. /\ event' \in [Payments -> Events \union {None}]
      /\ \A p \in Payments :
           \/ event'[p] = event[p]
           \/ /\ event'[p] = [status |-> "posted", entry |-> r]
              /\ entry'[r] # None /\ entry'[r].source = p /\ entry'[r].status \in Standing
  <2> HIDE DEF source
  <2>1. QED BY <1>1, <1>2, <1>5, <1>6 DEF InvoiceTypeOK
<1> HIDE DEF source
<1>8. QED BY <1>1, <1>2, <1>3, <1>4, <1>7, InvoiceEntries

LEMMA InvoiceStep == InvoiceIInv /\ [Invoices!Next]_(Invoices!invoices) => InvoiceIInv'
<1> SUFFICES ASSUME InvoiceIInv, [Invoices!Next]_(Invoices!invoices) PROVE InvoiceIInv'
  OBVIOUS
<1>1. CASE UNCHANGED Invoices!invoices
  BY <1>1 DEF Invoices!invoices, InvoiceIInv, InvoiceTypeOK, TasksStand, EventsNamed, PaymentsAgree,
       Invoices!PaidIsSummed, Invoices!EventsMatch, Invoices!InBook, Standing
<1>2. CASE Invoices!Next
  <2>1. PICK r \in Requests :
          \/ \E p \in Payments, status \in Invoices!Statuses :
               \/ \E total \in Totals : Invoices!Create(r, p, total - 1, status)
               \/ Invoices!Update(r, p, status)
          \/ \E total \in Totals, status \in {invoice.status, "sent", "void"} : Invoices!EditRead(r, total, status)
          \/ \E p \in Payments : Invoices!EventRead(r, p)
          \/ \E source \in Payments \union {None} : Invoices!JournalByHand(r, source)
          \/ \E e \in Requests : Invoices!PostRead(r, e) \/ Invoices!ReverseRead(r, e)
          \/ Invoices!ReadSum(r) \/ Invoices!Write(r) \/ Invoices!EditWrite(r)
          \/ Invoices!Draft(r) \/ Invoices!Post(r) \/ Invoices!Mark(r) \/ Invoices!Link(r)
          \/ Invoices!ReverseWrite(r) \/ Invoices!Fail(r)
    BY <1>2 DEF Invoices!Next
  <2>2. QED BY <2>1, InvoicePays, InvoiceAsks, InvoiceWrite, InvoiceEditWrite, InvoiceByHand, InvoiceDraft, InvoicePost,
              InvoiceMark, InvoiceLink, InvoiceReverse
<1>3. QED BY <1>1, <1>2

\* What is stored as paid is the sum of the completed payments, and events that are
\* posted name entries of their own payment that are in the book, reversed or not, in
\* whatever order requests read, sum, post, reverse and write (recalculateInvoice,
\* updateInvoice, postAccountingEvent, postJournal, reverseJournal).
THEOREM PaymentsAlwaysAgree == Invoices!Spec => []PaymentsAgree
<1>1. Invoices!Spec => []InvoiceIInv
  BY InvoiceInit, InvoiceStep, PTL DEF Invoices!Spec
<1>2. QED BY <1>1, PTL DEF InvoiceIInv

---------------------------------------------------------------------------
(* Opening balances.                                                        *)

OpeningRows == [amount : Int, entry : Requests]
OpeningEntries == [amount : Int, reversals : Nat]
Settings ==
  [pc : {"none", "ended"}]
    \union [pc : {"set"}, amount : Int, previous : OpeningRows \union {None}]
    \union [pc : {"reverse"}, entry : Requests]

OpeningTypeOK ==
  /\ opening \in OpeningRows \union {None}
  /\ posting \in [Requests -> OpeningEntries \union {None}]
  /\ setting \in [Requests -> Settings]
  /\ reversedLate \in BOOLEAN

\* Who has read a row for update holds it alone, and it is the row still.
RowIsHeld ==
  /\ \A r \in Requests : setting[r].pc = "set" /\ setting[r].previous # None => opening = setting[r].previous
  /\ \A r, s \in Openings!Holders : r = s

\* What the row names is there, and what it does not name is reversed.
RestIsReversed ==
  /\ opening # None => posting[opening.entry] # None /\ posting[opening.entry].amount = opening.amount
  /\ \A r \in Requests : setting[r].pc = "reverse" => posting[setting[r].entry] # None
  /\ ~ reversedLate => \A e \in Requests : posting[e] # None =>
       posting[e].reversals = 1 \/ (posting[e].reversals = 0 /\ opening # None /\ opening.entry = e)

OpeningIInv == OpeningTypeOK /\ RowIsHeld /\ RestIsReversed

LEMMA NoneIsNoOpening == None \notin OpeningRows /\ None \notin OpeningEntries
BY BooksAssumption DEF OpeningRows, OpeningEntries

LEMMA OpeningInit == Openings!Init => OpeningIInv
<1> SUFFICES ASSUME Openings!Init PROVE OpeningIInv
  OBVIOUS
<1> USE DEF Openings!Init, Openings!NotBegun
<1>1. OpeningTypeOK
  BY DEF OpeningTypeOK, Settings
<1>2. RowIsHeld /\ RestIsReversed
  BY DEF RowIsHeld, RestIsReversed, Openings!Holders
<1>3. QED BY <1>1, <1>2 DEF OpeningIInv

LEMMA OpeningLock ==
  ASSUME OpeningIInv, NEW r \in Requests, NEW amount \in Balances \union {0}, Openings!Lock(r, amount)
  PROVE  OpeningIInv'
<1> USE DEF OpeningIInv
<1> DEFINE h == [pc |-> "set", amount |-> amount, previous |-> opening]
<1>1. /\ setting[r].pc = "none" /\ (opening # None => Openings!Holders = {})
      /\ setting' = [setting EXCEPT ![r] = h] /\ UNCHANGED <<opening, posting, reversedLate>>
  BY DEF Openings!Lock, Openings!NotBegun
<1>2. h \in Settings /\ h.pc = "set" /\ h.previous = opening
  BY BooksAssumption DEF OpeningTypeOK, Settings
<1> HIDE DEF h
<1>3. setting'[r] = h /\ \A s \in Requests : s # r => setting'[s] = setting[s]
  BY <1>1 DEF OpeningTypeOK
<1>4. OpeningTypeOK'
  BY <1>1, <1>2 DEF OpeningTypeOK
<1>5. RowIsHeld'
  BY <1>1, <1>2, <1>3 DEF RowIsHeld, Openings!Holders
<1>6. RestIsReversed'
  BY <1>1, <1>2, <1>3 DEF RestIsReversed
<1>7. QED BY <1>4, <1>5, <1>6

LEMMA OpeningSet ==
  ASSUME OpeningIInv, NEW r \in Requests, Openings!Set(r)
  PROVE  OpeningIInv'
<1> USE DEF OpeningIInv
<1> DEFINE q == setting[r]
           old == IF q.previous = None THEN None ELSE q.previous.entry
           reversed == Openings!Reversed(old)
           new == [amount |-> q.amount, reversals |-> 0]
           line == [amount |-> q.amount, entry |-> r]
<1>1. /\ q.pc = "set" /\ (q.previous = None /\ q.amount # 0 => opening = None)
      /\ posting' = IF q.amount = 0 THEN reversed ELSE [reversed EXCEPT ![r] = new]
      /\ opening' = IF q.amount # 0 THEN line ELSE IF q.previous = None THEN opening ELSE None
      /\ setting' = [setting EXCEPT ![r] = [pc |-> "ended"]]
      /\ UNCHANGED reversedLate
  BY DEF Openings!Set, Openings!Ended
<1>2. q.amount \in Int /\ q.previous \in OpeningRows \union {None}
  BY <1>1 DEF OpeningTypeOK, Settings
<1>3. new \in OpeningEntries /\ new # None /\ new.amount = q.amount /\ new.reversals = 0
  BY <1>2, NoneIsNoOpening DEF OpeningEntries
<1>4. line \in OpeningRows /\ line # None /\ line.amount = q.amount /\ line.entry = r
  BY <1>2, NoneIsNoOpening DEF OpeningRows
<1>5. /\ reversed \in [Requests -> OpeningEntries \union {None}]
      /\ \A e \in Requests : posting[e] # None <=> reversed[e] # None
      /\ \A e \in Requests : posting[e] # None => reversed[e].amount = posting[e].amount
      /\ \A e \in Requests : reversed[e] = posting[e] \/ (posting[e] # None /\ reversed[e].reversals = 1)
      /\ q.previous # None => \A e \in Requests : posting[e] # None /\ e = q.previous.entry => reversed[e].reversals # 0
  <2>1. CASE old # None /\ Openings!Posted(old)
    <3> DEFINE back == [posting[old] EXCEPT !.reversals = 1]
    <3>1. old \in Requests /\ posting[old] # None /\ posting[old] \in OpeningEntries /\ reversed = [posting EXCEPT ![old] = back]
      BY <1>2, <2>1 DEF Openings!Reversed, Openings!Posted, OpeningTypeOK, OpeningRows
    <3>2. back \in OpeningEntries /\ back # None /\ back.reversals = 1 /\ back.amount = posting[old].amount
      BY <3>1, NoneIsNoOpening DEF OpeningEntries
    <3>3. q.previous # None => q.previous.entry = old
      OBVIOUS
    <3> HIDE DEF back, reversed, old, q
    <3>4. reversed[old] = back /\ \A e \in Requests : e # old => reversed[e] = posting[e]
      BY <3>1 DEF OpeningTypeOK
    <3>5. reversed \in [Requests -> OpeningEntries \union {None}]
      BY <3>1, <3>2 DEF OpeningTypeOK
    <3>6. QED BY <3>1, <3>2, <3>3, <3>4, <3>5
  <2>2. CASE ~ (old # None /\ Openings!Posted(old))
    <3>1. reversed = posting
      BY <2>2 DEF Openings!Reversed
    <3>2. ASSUME q.previous # None, posting[q.previous.entry] # None PROVE posting[q.previous.entry].reversals # 0
      <4>1. old = q.previous.entry /\ old \in Requests
        BY <1>2, <3>2 DEF OpeningRows
      <4>2. old # None => ~ Openings!Posted(old)
        BY <2>2
      <4>3. QED BY BooksAssumption, <4>1, <4>2, <3>2 DEF Openings!Posted
    <3> HIDE DEF reversed
    <3>3. QED BY <3>1, <3>2 DEF OpeningTypeOK
  <2>3. QED BY <2>1, <2>2
<1> HIDE DEF reversed, new, line, old
<1>6. /\ posting' \in [Requests -> OpeningEntries \union {None}]
      /\ \A e \in Requests : e # r => posting'[e] = reversed[e]
      /\ q.amount # 0 => posting'[r] = new
      /\ q.amount = 0 => posting' = reversed
  BY <1>1, <1>3, <1>5
<1>7. setting'[r].pc = "ended" /\ \A s \in Requests : s # r => setting'[s] = setting[s]
  BY <1>1 DEF OpeningTypeOK
<1>8. q.previous # None => opening = q.previous /\ r \in Openings!Holders
  BY <1>1 DEF RowIsHeld, Openings!Holders
<1> HIDE DEF q
<1>9. OpeningTypeOK'
  <2>1. setting' \in [Requests -> Settings]
    BY <1>1 DEF OpeningTypeOK, Settings
  <2>2. QED BY <1>1, <1>4, <1>6, <2>1 DEF OpeningTypeOK
<1>10. RowIsHeld'
  <2>1. \A s \in Requests : s # r /\ setting[s].pc = "set" /\ setting[s].previous # None => s \in Openings!Holders /\ opening = setting[s].previous
    BY DEF RowIsHeld, Openings!Holders
  <2>2. ASSUME NEW s \in Requests, s # r, setting[s].pc = "set", setting[s].previous # None
        PROVE  q.previous = None /\ q.amount = 0
    <3>1. q.previous = None
      BY <1>8, <2>1, <2>2 DEF RowIsHeld
    <3>2. QED BY <1>1, <2>1, <2>2, <3>1
  <2>3. QED BY <1>1, <1>7, <2>1, <2>2 DEF RowIsHeld, Openings!Holders
<1>11. RestIsReversed'
  <2>1. opening' # None => posting'[opening'.entry] # None /\ posting'[opening'.entry].amount = opening'.amount
    <3>1. CASE q.amount # 0
      BY <1>1, <1>3, <1>4, <1>6, <3>1
    <3>2. CASE q.amount = 0 /\ q.previous = None
      BY <1>1, <1>5, <1>6, <3>2 DEF RestIsReversed, OpeningTypeOK, OpeningRows
    <3>3. CASE q.amount = 0 /\ q.previous # None
      BY <1>1, <3>3
    <3>4. QED BY <3>1, <3>2, <3>3
  <2>2. \A s \in Requests : setting'[s].pc = "reverse" => posting'[setting'[s].entry] # None
    <3> SUFFICES ASSUME NEW s \in Requests, setting'[s].pc = "reverse" PROVE posting'[setting'[s].entry] # None
      OBVIOUS
    <3>1. s # r /\ setting'[s] = setting[s] /\ posting[setting[s].entry] # None /\ setting[s].entry \in Requests
      BY <1>7 DEF RestIsReversed, OpeningTypeOK, Settings
    <3>2. QED BY <1>3, <1>5, <1>6, <3>1
  <2>3. ASSUME ~ reversedLate, NEW e \in Requests, posting'[e] # None
        PROVE  posting'[e].reversals = 1 \/ (posting'[e].reversals = 0 /\ opening' # None /\ opening'.entry = e)
    <3>1. posting[e] # None => posting[e].reversals = 1 \/ (posting[e].reversals = 0 /\ opening # None /\ opening.entry = e)
      BY <2>3 DEF RestIsReversed
    <3>2. CASE q.amount # 0 /\ e = r
      BY <1>1, <1>3, <1>4, <1>6, <3>2
    <3>3. CASE posting'[e] = reversed[e]
      <4>1. posting[e] # None
        BY <1>5, <2>3, <3>3
      <4>2. CASE reversed[e].reversals = 1
        BY <3>3, <4>2
      <4>3. CASE reversed[e].reversals # 1
        <5>1. reversed[e] = posting[e] /\ posting[e].reversals = 0 /\ opening # None /\ opening.entry = e
          BY <1>5, <3>1, <4>1, <4>3
        <5>2. q.previous = None
          BY <1>5, <1>8, <4>1, <5>1
        <5>3. q.amount = 0 /\ opening' = opening
          BY <1>1, <5>1, <5>2
        <5>4. QED BY <3>3, <5>1, <5>3
      <4>4. QED BY <4>2, <4>3
    <3>4. QED BY <1>6, <3>2, <3>3
  <2>4. QED BY <1>1, <2>1, <2>2, <2>3 DEF RestIsReversed
<1>12. QED BY <1>9, <1>10, <1>11

LEMMA OpeningReverseRead ==
  ASSUME OpeningIInv, NEW r \in Requests, NEW e \in Requests, Openings!ReverseRead(r, e)
  PROVE  OpeningIInv'
<1> USE DEF OpeningIInv
<1> DEFINE h == [pc |-> "reverse", entry |-> e]
<1>1. /\ setting' = [setting EXCEPT ![r] = h] /\ posting[e] # None
      /\ UNCHANGED <<opening, posting, reversedLate>>
  BY DEF Openings!ReverseRead, Openings!Posted
<1>2. h \in Settings /\ h.pc = "reverse" /\ h.entry = e
  BY DEF Settings
<1> HIDE DEF h
<1>3. setting'[r] = h /\ \A s \in Requests : s # r => setting'[s] = setting[s]
  BY <1>1 DEF OpeningTypeOK
<1>4. OpeningTypeOK'
  BY <1>1, <1>2 DEF OpeningTypeOK
<1>5. RowIsHeld'
  BY <1>1, <1>2, <1>3 DEF RowIsHeld, Openings!Holders
<1>6. RestIsReversed'
  BY <1>1, <1>2, <1>3 DEF RestIsReversed
<1>7. QED BY <1>4, <1>5, <1>6

LEMMA OpeningReverseWrite ==
  ASSUME OpeningIInv, NEW r \in Requests, Openings!ReverseWrite(r)
  PROVE  OpeningIInv'
<1> USE DEF OpeningIInv
<1> DEFINE e == setting[r].entry
           back == [posting[e] EXCEPT !.reversals = @ + 1]
<1>1. /\ setting[r].pc = "reverse" /\ posting' = [posting EXCEPT ![e] = back]
      /\ reversedLate' = (reversedLate \/ ~ Openings!Posted(e))
      /\ setting' = [setting EXCEPT ![r] = [pc |-> "ended"]] /\ UNCHANGED opening
  BY DEF Openings!ReverseWrite, Openings!Ended
<1>2. e \in Requests /\ posting[e] # None /\ posting[e] \in OpeningEntries
  BY <1>1 DEF RestIsReversed, OpeningTypeOK, Settings
<1>3. /\ back \in OpeningEntries /\ back # None
      /\ back.amount = posting[e].amount /\ back.reversals = posting[e].reversals + 1
  BY <1>2, NoneIsNoOpening DEF OpeningEntries
<1> HIDE DEF back, e
<1>4. /\ posting'[e] = back /\ \A d \in Requests : d # e => posting'[d] = posting[d]
      /\ posting' \in [Requests -> OpeningEntries \union {None}]
  BY <1>1, <1>2, <1>3 DEF OpeningTypeOK
<1>5. setting'[r].pc = "ended" /\ \A s \in Requests : s # r => setting'[s] = setting[s]
  BY <1>1 DEF OpeningTypeOK
<1>6. OpeningTypeOK'
  <2>1. setting' \in [Requests -> Settings]
    BY <1>1 DEF OpeningTypeOK, Settings
  <2>2. reversedLate' \in BOOLEAN
    BY <1>1 DEF OpeningTypeOK
  <2>3. QED BY <1>1, <1>4, <2>1, <2>2 DEF OpeningTypeOK
<1>7. RowIsHeld'
  BY <1>1, <1>5 DEF RowIsHeld, Openings!Holders
<1>8. RestIsReversed'
  <2>1. opening' # None => posting'[opening'.entry] # None /\ posting'[opening'.entry].amount = opening'.amount
    BY <1>1, <1>2, <1>3, <1>4 DEF RestIsReversed, OpeningTypeOK, OpeningRows
  <2>2. \A s \in Requests : setting'[s].pc = "reverse" => posting'[setting'[s].entry] # None
    BY <1>2, <1>3, <1>4, <1>5 DEF RestIsReversed, OpeningTypeOK, Settings
  <2>3. ASSUME ~ reversedLate', NEW d \in Requests, posting'[d] # None
        PROVE  posting'[d].reversals = 1 \/ (posting'[d].reversals = 0 /\ opening' # None /\ opening'.entry = d)
    <3>1. ~ reversedLate /\ posting[e].reversals = 0
      BY <1>1, <2>3 DEF Openings!Posted
    <3>2. CASE d = e
      BY <1>3, <1>4, <3>1, <3>2
    <3>3. CASE d # e
      BY <1>1, <1>4, <2>3, <3>1, <3>3 DEF RestIsReversed
    <3>4. QED BY <3>2, <3>3
  <2>4. QED BY <2>1, <2>2, <2>3 DEF RestIsReversed
<1>9. QED BY <1>6, <1>7, <1>8

LEMMA OpeningFail ==
  ASSUME OpeningIInv, NEW r \in Requests, Openings!Fail(r)
  PROVE  OpeningIInv'
<1> USE DEF OpeningIInv
<1>1. /\ setting' = [setting EXCEPT ![r] = [pc |-> "ended"]]
      /\ UNCHANGED <<opening, posting, reversedLate>>
  BY DEF Openings!Fail, Openings!Ended
<1>2. setting'[r].pc = "ended" /\ \A s \in Requests : s # r => setting'[s] = setting[s]
  BY <1>1 DEF OpeningTypeOK
<1>3. OpeningTypeOK'
  BY <1>1 DEF OpeningTypeOK, Settings
<1>4. RowIsHeld'
  BY <1>1, <1>2 DEF RowIsHeld, Openings!Holders
<1>5. RestIsReversed'
  BY <1>1, <1>2 DEF RestIsReversed
<1>6. QED BY <1>3, <1>4, <1>5

LEMMA OpeningStep == OpeningIInv /\ [Openings!Next]_(Openings!balances) => OpeningIInv'
<1> SUFFICES ASSUME OpeningIInv, [Openings!Next]_(Openings!balances) PROVE OpeningIInv'
  OBVIOUS
<1>1. CASE UNCHANGED Openings!balances
  BY <1>1 DEF Openings!balances, OpeningIInv, OpeningTypeOK, RowIsHeld, RestIsReversed, Openings!Holders
<1>2. CASE Openings!Next
  BY <1>2, OpeningLock, OpeningSet, OpeningReverseRead, OpeningReverseWrite, OpeningFail DEF Openings!Next
<1>3. QED BY <1>1, <1>2

\* What the ledger has is the sum over the entries of what each adds to it.
LEMMA LedgerIsSum ==
  ASSUME OpeningTypeOK
  PROVE  Openings!InLedger = SumOver([e \in {d \in Requests : posting[d] # None} |-> posting[e].amount * (1 - posting[e].reversals)],
                                     {d \in Requests : posting[d] # None})
<1> DEFINE S == {d \in Requests : posting[d] # None}
           f == [e \in S |-> posting[e].amount * (1 - posting[e].reversals)]
           Is(g) == g = [s \in SUBSET S |-> IF s = {} THEN 0
                           ELSE LET x == (CHOOSE y \in s : TRUE)
                                IN posting[x].amount * (1 - posting[x].reversals) + g[s \ {x}]]
           iter == CHOOSE g : Is(g)
<1>1. IsFiniteSet(S)
  BY BooksAssumption, FS_Subset
<1>2. Openings!InLedger = iter[S]
  BY DEF Openings!InLedger, Openings!MapThenSumSet, Openings!MapThenFoldSet
<1>3. ASSUME NEW g PROVE Adds(g, f, S) <=> Is(g)
  <2>1. \A s \in SUBSET S : s # {} => First(s) \in S
    BY FirstIsIn
  <2> HIDE DEF S
  <2>2. \A s \in SUBSET S : s # {} => f[First(s)] = posting[First(s)].amount * (1 - posting[First(s)].reversals)
    BY <2>1
  <2> HIDE DEF f
  <2>3. [s \in SUBSET S |-> IF s = {} THEN 0 ELSE f[First(s)] + g[s \ {First(s)}]]
        = [s \in SUBSET S |-> IF s = {} THEN 0
             ELSE LET x == (CHOOSE y \in s : TRUE) IN posting[x].amount * (1 - posting[x].reversals) + g[s \ {x}]]
    BY <2>2 DEF First
  <2>4. QED BY <2>3 DEF Adds
<1> HIDE DEF S, Is, f
<1>4. PICK g : Adds(g, f, S) /\ SumOver(f, S) = g[S]
  BY <1>1, SumOverIs
<1>5. Adds(iter, f, S)
  BY <1>3, <1>4
<1>6. iter[S] = g[S]
  BY <1>1, <1>4, <1>5, SumsAgree
<1>7. SumOver(f, S) = iter[S]
  BY <1>4, <1>6
<1>8. QED BY <1>2, <1>7 DEF S, f

LEMMA OpeningSum == OpeningIInv => Openings!LedgerAgrees
<1> SUFFICES ASSUME OpeningIInv, ~ reversedLate
             PROVE  Openings!InLedger = IF opening # None /\ Openings!Posted(opening.entry) THEN opening.amount ELSE 0
  BY DEF Openings!LedgerAgrees
<1> USE DEF OpeningIInv
<1> DEFINE S == {d \in Requests : posting[d] # None}
           f == [e \in S |-> posting[e].amount * (1 - posting[e].reversals)]
<1>1. IsFiniteSet(S)
  BY BooksAssumption, FS_Subset
<1>2. Openings!InLedger = SumOver(f, S)
  BY LedgerIsSum
<1>3. \A e \in S : posting[e].amount \in Int /\ posting[e].reversals \in Nat /\ f[e] = posting[e].amount * (1 - posting[e].reversals)
  BY DEF OpeningTypeOK, OpeningEntries
<1>4. \A e \in S : f[e] \in Int
  <2>1. SUFFICES ASSUME NEW e \in S PROVE f[e] \in Int
    OBVIOUS
  <2> HIDE DEF S, f
  <2>2. QED BY <1>3
<1>5. \A e \in S : posting[e].reversals = 1 \/ (posting[e].reversals = 0 /\ opening # None /\ opening.entry = e)
  BY DEF RestIsReversed
<1>6. \A e \in S : posting[e].reversals = 1 => f[e] = 0
  <2>1. SUFFICES ASSUME NEW e \in S, posting[e].reversals = 1 PROVE f[e] = 0
    OBVIOUS
  <2> HIDE DEF S, f
  <2>2. f[e] = posting[e].amount * 0
    BY <1>3, <2>1
  <2>3. QED BY <1>3, <2>2
<1>7. CASE opening # None /\ Openings!Posted(opening.entry)
  <2>1. opening.entry \in S /\ posting[opening.entry].amount = opening.amount
    BY <1>7 DEF Openings!Posted, RestIsReversed, OpeningTypeOK, OpeningRows
  <2>2. posting[opening.entry].reversals = 0
    BY <1>7 DEF Openings!Posted
  <2> HIDE DEF S, f
  <2>3. f[opening.entry] = opening.amount
    <3>1. f[opening.entry] = posting[opening.entry].amount * 1
      BY <1>3, <2>1, <2>2
    <3>2. QED BY <1>3, <2>1, <3>1
  <2>4. \A e \in S \ {opening.entry} : f[e] = 0
    BY <1>5, <1>6
  <2>5. SumOver(f, S) = f[opening.entry]
    BY <1>1, <1>4, <2>1, <2>4, SumOfOne
  <2>6. QED BY <1>2, <1>7, <2>3, <2>5
<1>8. CASE ~ (opening # None /\ Openings!Posted(opening.entry))
  <2>1. \A e \in S : posting[e].reversals = 1
    BY <1>5, <1>8 DEF Openings!Posted
  <2> HIDE DEF S, f
  <2>2. SumOver(f, S) = 0
    BY <1>1, <1>6, <2>1, SumOfZeros
  <2>3. QED BY <1>2, <1>8, <2>2
<1>9. QED BY <1>7, <1>8

\* The ledger has what the row of an opening balance says, whatever is set and reversed
\* at the same time, unless a reversal came late (setAccountOpeningBalance).
THEOREM LedgerAlwaysAgrees == Openings!Spec => []LedgerAgrees
<1>1. Openings!Init => OpeningIInv
  BY OpeningInit
<1>2. OpeningIInv /\ [Openings!Next]_(Openings!balances) => OpeningIInv'
  BY OpeningStep
<1>3. OpeningIInv => LedgerAgrees
  BY OpeningSum DEF LedgerAgrees
<1>4. QED BY <1>1, <1>2, <1>3, PTL DEF Openings!Spec

---------------------------------------------------------------------------
(* The tree of accounts.                                                    *)

Moves ==
  [pc : {"none", "ended"}]
    \union [pc : {"check", "write"}, account : Accounts, to : Accounts \union {None}, fresh : BOOLEAN]

TreeTypeOK ==
  /\ parent \in [Accounts -> Accounts \union {None}]
  /\ exists \in SUBSET Accounts
  /\ update \in [Requests -> Moves]
  /\ overlapped \in BOOLEAN

\* What is a parent, or is to be one, has been created.
AccountsExist ==
  /\ \A a \in Accounts : parent[a] \in exists \union {None}
  /\ \A r \in Requests : update[r].pc \in {"check", "write"} =>
       update[r].account \in exists /\ update[r].to \in exists \union {None}

\* A set of accounts with all that is below them
Closed(D, up) == \A b \in Accounts : up[b] \in D => b \in D

\* p is not a, nor below it.
Clear(a, p, up) == \E D \in SUBSET Accounts : a \in D /\ p \notin D /\ Closed(D, up)

NoCycle(up) == \A S \in SUBSET Accounts : S # {} => \E a \in S : up[a] \notin S

\* What is to be written back is the parent still, and what was checked is right still,
\* unless an account has moved since.
FreshIsClear ==
  ~ overlapped =>
    /\ NoCycle(parent)
    /\ \A r \in Requests : update[r].pc \in {"check", "write"} /\ update[r].fresh =>
         \/ update[r].to = parent[update[r].account]
         \/ update[r].pc = "write" /\ Clear(update[r].account, update[r].to, parent)

TreeIInv == TreeTypeOK /\ AccountsExist /\ FreshIsClear

\* The levels below an account, as the recursive query finds them.
Levels(below, a, up, n) ==
  below = [m \in 0 .. n |-> IF m = 0 THEN {a} ELSE {b \in Accounts : up[b] \in below[m - 1]}]

LEMMA LevelsExist ==
  ASSUME NEW a, NEW up, NEW k \in Nat
  PROVE  \E below : Levels(below, a, up, k)
<1> DEFINE Good(n) == \E below : Levels(below, a, up, n)
           Bad == {n \in Nat : ~ Good(n)}
<1>1. Good(0)
  <2> DEFINE g == [m \in 0 .. 0 |-> {a}]
  <2>1. g = [m \in 0 .. 0 |-> IF m = 0 THEN {a} ELSE {b \in Accounts : up[b] \in g[m - 1]}]
    OBVIOUS
  <2>2. QED BY <2>1 DEF Levels
<1>2. ASSUME NEW n \in Nat, Good(n) PROVE Good(n + 1)
  <2>1. PICK g : Levels(g, a, up, n)
    BY <1>2
  <2> DEFINE h == [m \in 0 .. (n + 1) |-> IF m = n + 1 THEN {b \in Accounts : up[b] \in g[n]} ELSE g[m]]
  <2>2. \A m \in 0 .. n : h[m] = g[m] /\ g[m] = IF m = 0 THEN {a} ELSE {b \in Accounts : up[b] \in g[m - 1]}
    <3>1. \A m \in 0 .. n : m \in 0 .. (n + 1) /\ m # n + 1
      OBVIOUS
    <3>2. \A m \in 0 .. n : h[m] = g[m]
      BY <3>1
    <3>3. g = [m \in 0 .. n |-> IF m = 0 THEN {a} ELSE {b \in Accounts : up[b] \in g[m - 1]}]
      BY <2>1 DEF Levels
    <3> HIDE DEF h
    <3>4. QED BY <3>2, <3>3
  <2>3. h[n + 1] = {b \in Accounts : up[b] \in g[n]}
    OBVIOUS
  <2>4. h = [m \in 0 .. (n + 1) |-> h[m]]
    OBVIOUS
  <2> HIDE DEF h
  <2>5. ASSUME NEW m \in 0 .. (n + 1)
        PROVE  h[m] = IF m = 0 THEN {a} ELSE {b \in Accounts : up[b] \in h[m - 1]}
    <3>1. CASE m \in 0 .. n
      <4>1. m # 0 => m - 1 \in 0 .. n
        BY <3>1
      <4>2. QED BY <2>2, <3>1, <4>1
    <3>2. CASE m = n + 1
      <4>1. m # 0 /\ m - 1 = n /\ n \in 0 .. n
        BY <3>2
      <4>2. h[m - 1] = g[n]
        BY <2>2, <4>1
      <4>3. QED BY <2>3, <3>2, <4>1, <4>2
    <3>3. QED BY <3>1, <3>2
  <2>6. Levels(h, a, up, n + 1)
    BY <2>4, <2>5 DEF Levels
  <2>7. QED BY <2>6
<1>3. Bad = {}
  <2> SUFFICES ASSUME Bad # {} PROVE FALSE
    OBVIOUS
  <2> HIDE DEF Good
  <2>1. PICK n \in Bad : \A m \in Bad : n <= m
    <3>1. Bad \in SUBSET Nat
      OBVIOUS
    <3> HIDE DEF Bad
    <3>2. QED BY <3>1, LeastNumber
  <2>2. n \in Nat /\ n # 0
    BY <1>1
  <2>3. n - 1 \in Nat /\ (n - 1) + 1 = n
    BY <2>2
  <2>4. Good(n - 1)
    BY <2>1, <2>2
  <2>5. QED BY <1>2, <2>3, <2>4
<1>4. QED BY <1>3

\* As many levels as there are accounts are all of them: each level but the last has
\* an account that those above it have not.
LEMMA LevelsAreAll ==
  ASSUME NEW a \in Accounts, NEW up, NEW below, Levels(below, a, up, Cardinality(Accounts))
  PROVE  Closed({a} \union UNION {below[m] : m \in 1 .. Cardinality(Accounts)}, up)
<1> DEFINE N == Cardinality(Accounts)
           D(n) == UNION {below[m] : m \in 0 .. n}
           Good(n) == Closed(D(n), up) \/ Cardinality(D(n)) >= n + 1
           Bad == {n \in 0 .. N : ~ Good(n)}
<1>1. IsFiniteSet(Accounts) /\ N \in Nat /\ N # 0
  BY BooksAssumption, FS_CardinalityType, FS_EmptySet
<1> HIDE DEF N
<1>2. /\ below[0] = {a}
      /\ \A m \in 1 .. N : below[m] = {b \in Accounts : up[b] \in below[m - 1]}
  <2>1. \A m \in 0 .. N : below[m] = IF m = 0 THEN {a} ELSE {b \in Accounts : up[b] \in below[m - 1]}
    BY DEF Levels, N
  <2>2. 0 \in 0 .. N /\ \A m \in 1 .. N : m \in 0 .. N /\ m # 0
    BY <1>1
  <2>3. QED BY <2>1, <2>2
<1>3. \A n \in 0 .. N : D(n) \in SUBSET Accounts
  <2>1. \A m \in 0 .. N : below[m] \subseteq Accounts
    <3>1. \A m \in 0 .. N : m = 0 \/ m \in 1 .. N
      BY <1>1
    <3>2. QED BY <1>2, <3>1
  <2>2. \A n \in 0 .. N : \A m \in 0 .. n : m \in 0 .. N
    BY <1>1
  <2>3. QED BY <2>1, <2>2
<1>4. \A n \in 0 .. N : n # N => n + 1 \in 1 .. N /\ D(n + 1) = D(n) \union below[n + 1]
  <2> SUFFICES ASSUME NEW n \in 0 .. N, n # N PROVE n + 1 \in 1 .. N /\ D(n + 1) = D(n) \union below[n + 1]
    OBVIOUS
  <2>1. 0 .. (n + 1) = (0 .. n) \union {n + 1}
    BY <1>1
  <2>2. n + 1 \in 1 .. N
    BY <1>1
  <2>3. QED BY <2>1, <2>2
<1>5. ASSUME NEW n \in 0 .. N, n # N, NEW b \in Accounts, up[b] \in D(n)
      PROVE  b \in D(n + 1)
  <2>1. PICK m \in 0 .. n : up[b] \in below[m]
    BY <1>5
  <2>2. m + 1 \in 1 .. N /\ (m + 1) - 1 = m /\ m + 1 \in 0 .. (n + 1)
    BY <1>1, <1>5
  <2>3. b \in below[m + 1]
    BY <1>2, <2>1, <2>2
  <2>4. QED BY <2>2, <2>3
<1>6. ASSUME NEW n \in 0 .. N, n # N, Closed(D(n), up)
      PROVE  D(n + 1) = D(n)
  <2>1. \A b \in below[n + 1] : b \in D(n)
    <3> SUFFICES ASSUME NEW b \in below[n + 1] PROVE b \in D(n)
      OBVIOUS
    <3>1. n + 1 \in 1 .. N /\ (n + 1) - 1 = n /\ n \in 0 .. n
      BY <1>4, <1>6
    <3>2. b \in Accounts /\ up[b] \in below[n]
      BY <1>2, <3>1
    <3>3. up[b] \in D(n)
      BY <3>1, <3>2
    <3> HIDE DEF D
    <3>4. QED BY <1>6, <3>2, <3>3 DEF Closed
  <2>2. QED BY <1>4, <1>6, <2>1
<1>7. Good(0)
  <2>1. D(0) = {a}
    BY <1>2
  <2>2. Cardinality({a}) = 1
    BY FS_Singleton
  <2>3. QED BY <2>1, <2>2
<1>8. ASSUME NEW n \in 0 .. N, n # N, Good(n) PROVE Good(n + 1)
  <2>1. CASE Closed(D(n), up)
    <3>1. D(n + 1) = D(n)
      BY <1>6, <1>8, <2>1
    <3> HIDE DEF D
    <3>2. QED BY <2>1, <3>1
  <2>2. CASE ~ Closed(D(n), up)
    <3>1. PICK b \in Accounts : up[b] \in D(n) /\ b \notin D(n)
      BY <2>2 DEF Closed
    <3>2. b \in D(n + 1)
      BY <1>5, <1>8, <3>1
    <3>3. D(n) \subseteq D(n + 1) /\ D(n + 1) \in SUBSET Accounts
      <4>1. n + 1 \in 0 .. N
        BY <1>4, <1>8
      <4>2. QED BY <1>3, <1>4, <1>8, <4>1
    <3>4. Cardinality(D(n)) >= n + 1
      BY <1>8, <2>2
    <3> HIDE DEF D
    <3>5. IsFiniteSet(D(n + 1)) /\ IsFiniteSet(D(n)) /\ Cardinality(D(n)) < Cardinality(D(n + 1))
      <4>1. IsFiniteSet(D(n + 1))
        BY <1>1, <3>3, FS_Subset
      <4>2. IsFiniteSet(D(n)) /\ Cardinality(D(n)) <= Cardinality(D(n + 1))
        BY <3>3, <4>1, FS_Subset
      <4>3. Cardinality(D(n)) # Cardinality(D(n + 1))
        BY <3>1, <3>2, <3>3, <4>1, FS_Subset
      <4>4. Cardinality(D(n)) \in Nat /\ Cardinality(D(n + 1)) \in Nat
        BY <4>1, <4>2, FS_CardinalityType
      <4>5. QED BY <4>1, <4>2, <4>3, <4>4
    <3>6. Cardinality(D(n)) \in Nat /\ Cardinality(D(n + 1)) \in Nat
      BY <3>5, FS_CardinalityType
    <3>7. QED BY <3>4, <3>5, <3>6
  <2>3. QED BY <2>1, <2>2
<1>9. Bad = {}
  <2> SUFFICES ASSUME Bad # {} PROVE FALSE
    OBVIOUS
  <2> HIDE DEF Good
  <2>1. PICK n \in Bad : \A m \in Bad : n <= m
    <3>1. Bad \in SUBSET Nat
      BY <1>1
    <3> HIDE DEF Bad
    <3>2. QED BY <3>1, LeastNumber
  <2>2. n \in 0 .. N /\ n # 0
    BY <1>7
  <2>3. n - 1 \in 0 .. N /\ (n - 1) + 1 = n /\ n - 1 # N
    BY <1>1, <2>2
  <2>4. Good(n - 1)
    <3>1. ~ (n <= n - 1)
      BY <2>2
    <3>2. QED BY <2>1, <2>3, <3>1
  <2>5. Good(n)
    BY <1>8, <2>3, <2>4
  <2>6. QED BY <2>5
<1>10. Closed(D(N - 1), up)
  <2>1. N - 1 \in 0 .. N /\ (N - 1) + 1 = N
    BY <1>1
  <2>2. Good(N - 1)
    BY <1>9, <2>1
  <2>3. CASE Cardinality(D(N - 1)) >= (N - 1) + 1
    <3>1. D(N - 1) \in SUBSET Accounts
      BY <1>3, <2>1
    <3> HIDE DEF D
    <3>2. IsFiniteSet(D(N - 1)) /\ Cardinality(D(N - 1)) <= N /\ (Cardinality(D(N - 1)) = N => D(N - 1) = Accounts)
      BY <1>1, <3>1, FS_Subset DEF N
    <3>3. Cardinality(D(N - 1)) \in Nat
      BY <3>2, FS_CardinalityType
    <3>4. D(N - 1) = Accounts
      BY <1>1, <2>1, <2>3, <3>2, <3>3
    <3>5. QED BY <3>4 DEF Closed
  <2>4. QED BY <2>2, <2>3
<1>11. D(N) = D(N - 1)
  <2>1. N - 1 \in 0 .. N /\ (N - 1) + 1 = N /\ N - 1 # N
    BY <1>1
  <2> HIDE DEF D
  <2>2. D((N - 1) + 1) = D(N - 1)
    BY <1>6, <1>10, <2>1
  <2>3. QED BY <2>1, <2>2
<1>12. D(N) = {a} \union UNION {below[m] : m \in 1 .. N}
  <2>1. 0 .. N = {0} \union 1 .. N
    BY <1>1
  <2>2. QED BY <1>2, <2>1
<1> HIDE DEF D
<1>13. QED BY <1>10, <1>11, <1>12 DEF N

\* What the query finds, with the account, has all that is below it.
LEMMA DescendantsAreAll ==
  ASSUME NEW a \in Accounts
  PROVE  Closed({a} \union Tree!Descendants(a), parent)
<1> DEFINE N == Cardinality(Accounts)
           below == CHOOSE g : g = [m \in 0 .. N |-> IF m = 0 THEN {a} ELSE {b \in Accounts : parent[b] \in g[m - 1]}]
<1>1. Tree!Cardinality(Accounts) = N
  BY DEF Tree!Cardinality, Cardinality
<1>2. Tree!Descendants(a) = UNION {below[m] : m \in 1 .. N}
  BY <1>1 DEF Tree!Descendants
<1>3. N \in Nat
  BY BooksAssumption, FS_CardinalityType
<1>4. PICK g : Levels(g, a, parent, N)
  BY <1>3, LevelsExist
<1>5. Levels(below, a, parent, N)
  BY <1>4 DEF Levels
<1> HIDE DEF below
<1>6. QED BY <1>2, <1>5, LevelsAreAll

\* An account is moved to another that is not below it without closing a cycle.
LEMMA MovedWithoutCycle ==
  ASSUME NEW up \in [Accounts -> Accounts \union {None}], NoCycle(up),
         NEW a \in Accounts, NEW p \in Accounts \union {None}, Clear(a, p, up)
  PROVE  NoCycle([up EXCEPT ![a] = p])
<1> DEFINE new == [up EXCEPT ![a] = p]
<1>1. new[a] = p /\ \A b \in Accounts : b # a => new[b] = up[b]
  OBVIOUS
<1> HIDE DEF new
<1>2. SUFFICES ASSUME NEW S \in SUBSET Accounts, S # {}, \A b \in S : new[b] \in S PROVE FALSE
  BY DEF NoCycle, new
<1>3. PICK D \in SUBSET Accounts : a \in D /\ p \notin D /\ Closed(D, up)
  BY DEF Clear
<1>4. CASE a \notin S
  BY <1>1, <1>2, <1>4 DEF NoCycle
<1>5. CASE a \in S
  <2> DEFINE rest == S \ D
  <2>1. p \in rest
    BY <1>1, <1>2, <1>3, <1>5
  <2>2. \A b \in rest : up[b] \in rest
    BY <1>1, <1>2, <1>3 DEF Closed
  <2>3. rest \in SUBSET Accounts /\ rest # {}
    BY <2>1
  <2> HIDE DEF rest
  <2>4. QED BY <2>2, <2>3 DEF NoCycle
<1>6. QED BY <1>4, <1>5

LEMMA TreeInit == Tree!Init => TreeIInv
<1> SUFFICES ASSUME Tree!Init PROVE TreeIInv
  OBVIOUS
<1> USE DEF Tree!Init, Tree!NotBegun
<1>1. TreeTypeOK
  BY DEF TreeTypeOK, Moves
<1>2. AccountsExist
  BY DEF AccountsExist
<1>3. FreshIsClear
  BY BooksAssumption DEF FreshIsClear, NoCycle
<1>4. QED BY <1>1, <1>2, <1>3 DEF TreeIInv

LEMMA TreeCreate ==
  ASSUME TreeIInv, NEW a \in Accounts, NEW p \in Accounts \union {None}, Tree!Create(a, p)
  PROVE  TreeIInv'
<1> USE DEF TreeIInv
<1>1. /\ a \notin exists /\ p \in exists \union {None} /\ exists' = exists \union {a}
      /\ parent' = [parent EXCEPT ![a] = p] /\ UNCHANGED <<update, overlapped>>
  BY DEF Tree!Create
<1>2. parent'[a] = p /\ \A b \in Accounts : b # a => parent'[b] = parent[b]
  BY <1>1 DEF TreeTypeOK
<1>3. TreeTypeOK'
  BY <1>1 DEF TreeTypeOK
<1>4. AccountsExist'
  BY <1>1, <1>2 DEF AccountsExist
<1>5. a # None /\ p # a /\ \A b \in Accounts : parent[b] # a
  BY <1>1, BooksAssumption DEF AccountsExist
<1>6. ASSUME NoCycle(parent) PROVE NoCycle(parent')
  <2>1. SUFFICES ASSUME NEW S \in SUBSET Accounts, S # {}, \A b \in S : parent'[b] \in S PROVE FALSE
    BY DEF NoCycle
  <2> DEFINE rest == S \ {a}
  <2>2. \A b \in rest : parent[b] \in rest
    BY <1>2, <1>5, <2>1
  <2>3. rest \in SUBSET Accounts /\ rest # {}
    BY <1>2, <1>5, <2>1
  <2> HIDE DEF rest
  <2>4. QED BY <1>6, <2>2, <2>3 DEF NoCycle
<1>7. ASSUME NEW b \in exists, NEW q \in exists \union {None}, Clear(b, q, parent)
      PROVE  Clear(b, q, parent')
  <2>1. PICK D \in SUBSET Accounts : b \in D /\ q \notin D /\ Closed(D, parent)
    BY <1>7 DEF Clear
  <2> DEFINE E == D \union {a}
  <2>2. E \in SUBSET Accounts /\ b \in E /\ q \notin E
    BY <1>1, <1>5, <2>1
  <2>3. Closed(E, parent')
    BY <1>2, <1>5, <2>1 DEF Closed
  <2> HIDE DEF E
  <2>4. QED BY <2>2, <2>3 DEF Clear
<1>8. FreshIsClear'
  <2> SUFFICES ASSUME ~ overlapped'
               PROVE  /\ NoCycle(parent')
                      /\ \A r \in Requests : update'[r].pc \in {"check", "write"} /\ update'[r].fresh =>
                           \/ update'[r].to = parent'[update'[r].account]
                           \/ update'[r].pc = "write" /\ Clear(update'[r].account, update'[r].to, parent')
    BY DEF FreshIsClear, NoCycle, Clear, Closed
  <2>1. ~ overlapped /\ update' = update
    BY <1>1
  <2>2. NoCycle(parent')
    BY <1>6, <2>1 DEF FreshIsClear
  <2>3. ASSUME NEW r \in Requests, update[r].pc \in {"check", "write"}, update[r].fresh
        PROVE  \/ update[r].to = parent'[update[r].account]
               \/ update[r].pc = "write" /\ Clear(update[r].account, update[r].to, parent')
    <3>1. update[r].account \in exists /\ update[r].to \in exists \union {None}
      BY <2>3 DEF AccountsExist
    <3>2. update[r].account \in Accounts /\ update[r].account # a
      BY <1>1, <3>1 DEF TreeTypeOK
    <3>3. parent'[update[r].account] = parent[update[r].account]
      BY <1>2, <3>2
    <3>4. \/ update[r].to = parent[update[r].account]
          \/ update[r].pc = "write" /\ Clear(update[r].account, update[r].to, parent)
      BY <2>1, <2>3 DEF FreshIsClear
    <3>5. QED BY <1>7, <3>1, <3>3, <3>4
  <2>4. QED BY <2>1, <2>2, <2>3
<1>9. QED BY <1>3, <1>4, <1>8

\* A request goes on, and moves no account.
LEMMA TreeGoesOn ==
  ASSUME TreeIInv, NEW r \in Requests, NEW h \in Moves, update' = [update EXCEPT ![r] = h],
         UNCHANGED <<parent, exists, overlapped>>,
         h.pc \in {"check", "write"} => h.account \in exists /\ h.to \in exists \union {None},
         ~ overlapped /\ h.pc \in {"check", "write"} /\ h.fresh =>
           h.to = parent[h.account] \/ (h.pc = "write" /\ Clear(h.account, h.to, parent))
  PROVE  TreeIInv'
<1> USE DEF TreeIInv
<1>1. update'[r] = h /\ \A q \in Requests : q # r => update'[q] = update[q]
  BY DEF TreeTypeOK
<1>2. TreeTypeOK'
  BY DEF TreeTypeOK
<1>3. AccountsExist'
  BY <1>1 DEF AccountsExist
<1>4. FreshIsClear'
  BY <1>1 DEF FreshIsClear, NoCycle, Clear, Closed
<1>5. QED BY <1>2, <1>3, <1>4

LEMMA TreeUpdate ==
  ASSUME TreeIInv, NEW r \in Requests,
         \/ \E a \in Accounts : Tree!Read(r, a)
         \/ \E p \in Accounts \union {None} : Tree!Check(r, p)
         \/ Tree!CheckNone(r) \/ Tree!Fail(r)
  PROVE  TreeIInv'
<1> USE DEF TreeIInv
<1>1. CASE \E a \in Accounts : Tree!Read(r, a)
  <2>1. PICK a \in Accounts : Tree!Read(r, a)
    BY <1>1
  <2> DEFINE h == [pc |-> "check", account |-> a, to |-> parent[a], fresh |-> TRUE]
  <2>2. a \in exists /\ update' = [update EXCEPT ![r] = h] /\ UNCHANGED <<parent, exists, overlapped>>
    BY <2>1 DEF Tree!Read
  <2>3. h \in Moves /\ h.pc = "check" /\ h.account = a /\ h.to = parent[a]
    BY DEF TreeTypeOK, Moves
  <2>4. parent[a] \in exists \union {None}
    BY DEF AccountsExist
  <2> HIDE DEF h
  <2>5. QED BY <2>2, <2>3, <2>4, TreeGoesOn
<1>2. CASE \E p \in Accounts \union {None} : Tree!Check(r, p)
  <2>1. PICK p \in Accounts \union {None} : Tree!Check(r, p)
    BY <1>2
  <2> DEFINE a == update[r].account
             h == [update[r] EXCEPT !.pc = "write", !.to = p]
             D == {a} \union Tree!Descendants(a)
  <2>2. /\ update[r].pc = "check" /\ p # a /\ p \in exists \union {None} /\ p \notin Tree!Descendants(a)
        /\ update' = [update EXCEPT ![r] = h] /\ UNCHANGED <<parent, exists, overlapped>>
    BY <2>1 DEF Tree!Check
  <2>3. a \in Accounts /\ a \in exists
    BY <2>2 DEF AccountsExist, TreeTypeOK
  <2>4. h \in Moves /\ h.pc = "write" /\ h.account = a /\ h.to = p
    BY <2>2 DEF TreeTypeOK, Moves
  <2>5. Clear(a, p, parent)
    <3>1. Closed(D, parent)
      BY <2>3, DescendantsAreAll
    <3> DEFINE E == D \intersect Accounts
    <3>2. E \in SUBSET Accounts /\ a \in E /\ p \notin E
      BY <2>2, <2>3
    <3>3. Closed(E, parent)
      BY <3>1 DEF Closed
    <3> HIDE DEF E
    <3>4. QED BY <3>2, <3>3 DEF Clear
  <2> HIDE DEF a, h
  <2>6. QED BY <2>2, <2>3, <2>4, <2>5, TreeGoesOn
<1>3. CASE Tree!CheckNone(r)
  <2> DEFINE h == [update[r] EXCEPT !.pc = "write"]
  <2>1. update[r].pc = "check" /\ update' = [update EXCEPT ![r] = h] /\ UNCHANGED <<parent, exists, overlapped>>
    BY <1>3 DEF Tree!CheckNone
  <2>2. h \in Moves /\ h.pc = "write" /\ h.account = update[r].account /\ h.to = update[r].to /\ h.fresh = update[r].fresh
    BY <2>1 DEF TreeTypeOK, Moves
  <2> HIDE DEF h
  <2>3. update[r].account \in exists /\ update[r].to \in exists \union {None}
    BY <2>1 DEF AccountsExist
  <2>4. ~ overlapped /\ h.fresh => h.to = parent[h.account]
    BY <2>1, <2>2 DEF FreshIsClear
  <2>5. QED BY <2>1, <2>2, <2>3, <2>4, TreeGoesOn
<1>4. CASE Tree!Fail(r)
  <2> DEFINE h == [pc |-> "ended"]
  <2>1. update' = [update EXCEPT ![r] = h] /\ UNCHANGED <<parent, exists, overlapped>>
    BY <1>4 DEF Tree!Fail, Tree!Ended
  <2>2. h \in Moves /\ h.pc = "ended"
    BY DEF Moves
  <2> HIDE DEF h
  <2>3. QED BY <2>1, <2>2, TreeGoesOn
<1>5. QED BY <1>1, <1>2, <1>3, <1>4

LEMMA TreeWrite ==
  ASSUME TreeIInv, NEW r \in Requests, Tree!Write(r)
  PROVE  TreeIInv'
<1> USE DEF TreeIInv
<1> DEFINE a == update[r].account
           p == update[r].to
           moved == parent[a] # p
           After(q) == IF q = r THEN [pc |-> "ended"]
                       ELSE IF moved /\ update[q].pc \in {"check", "write"}
                       THEN [update[q] EXCEPT !.fresh = FALSE] ELSE update[q]
<1>1. /\ update[r].pc = "write" /\ parent' = [parent EXCEPT ![a] = p]
      /\ update' = [q \in Requests |-> After(q)]
      /\ overlapped' = (overlapped \/ (moved /\ ~ update[r].fresh)) /\ UNCHANGED exists
  BY DEF Tree!Write, Tree!Ended
<1>2. a \in Accounts /\ a \in exists /\ p \in Accounts \union {None} /\ p \in exists \union {None} /\ update[r].fresh \in BOOLEAN
  BY <1>1 DEF AccountsExist, TreeTypeOK, Moves
<1>3. \A q \in Requests : update'[q] = After(q)
  BY <1>1
<1>4. ASSUME NEW q \in Requests
      PROVE  /\ After(q) \in Moves
             /\ After(q).pc \in {"check", "write"} =>
                  q # r /\ After(q).pc = update[q].pc /\ After(q).account = update[q].account /\ After(q).to = update[q].to
             /\ After(q).pc \in {"check", "write"} /\ After(q).fresh => ~ moved /\ update[q].fresh
  <2>1. update[q] \in Moves
    BY DEF TreeTypeOK
  <2>2. CASE q = r
    BY <2>2 DEF Moves
  <2>3. CASE q # r /\ moved /\ update[q].pc \in {"check", "write"}
    <3> DEFINE h == [update[q] EXCEPT !.fresh = FALSE]
    <3>1. h \in Moves /\ h.pc = update[q].pc /\ h.account = update[q].account /\ h.to = update[q].to /\ h.fresh = FALSE
      BY <2>1, <2>3 DEF Moves
    <3>2. After(q) = h
      BY <2>3
    <3> HIDE DEF h, After
    <3>3. QED BY <2>3, <3>1, <3>2
  <2>4. CASE q # r /\ ~ (moved /\ update[q].pc \in {"check", "write"})
    <3>1. After(q) = update[q]
      BY <2>4
    <3> HIDE DEF After
    <3>2. QED BY <2>1, <2>4, <3>1
  <2>5. QED BY <2>2, <2>3, <2>4
<1> HIDE DEF After
<1>5. parent'[a] = p /\ \A b \in Accounts : b # a => parent'[b] = parent[b]
  BY <1>1, <1>2 DEF TreeTypeOK
<1>6. TreeTypeOK'
  <2>1. update' \in [Requests -> Moves]
    BY <1>1, <1>4
  <2>2. parent' \in [Accounts -> Accounts \union {None}]
    BY <1>1, <1>2 DEF TreeTypeOK
  <2>3. overlapped' \in BOOLEAN
    BY <1>1, <1>2 DEF TreeTypeOK
  <2>4. QED BY <1>1, <2>1, <2>2, <2>3 DEF TreeTypeOK
<1>7. AccountsExist'
  BY <1>1, <1>2, <1>3, <1>4, <1>5 DEF AccountsExist
<1>8. ~ moved => parent' = parent
  BY <1>1, <1>2 DEF TreeTypeOK
<1>9. ~ overlapped' => NoCycle(parent')
  <2> SUFFICES ASSUME ~ overlapped' PROVE NoCycle(parent')
    OBVIOUS
  <2>1. ~ overlapped /\ (moved => update[r].fresh) /\ NoCycle(parent)
    BY <1>1, <1>2 DEF FreshIsClear
  <2>2. CASE moved
    <3>1. Clear(a, p, parent)
      BY <1>1, <2>1, <2>2 DEF FreshIsClear
    <3> HIDE DEF moved, a, p
    <3>2. QED BY <1>1, <1>2, <2>1, <3>1, MovedWithoutCycle DEF TreeTypeOK
  <2>3. CASE ~ moved
    BY <1>8, <2>1, <2>3
  <2>4. QED BY <2>2, <2>3
<1>10. ASSUME ~ overlapped', NEW q \in Requests, update'[q].pc \in {"check", "write"}, update'[q].fresh
       PROVE  \/ update'[q].to = parent'[update'[q].account]
              \/ update'[q].pc = "write" /\ Clear(update'[q].account, update'[q].to, parent')
  <2>1. /\ ~ moved /\ update[q].fresh /\ update'[q].pc = update[q].pc /\ update[q].pc \in {"check", "write"}
        /\ update'[q].account = update[q].account /\ update'[q].to = update[q].to
    BY <1>3, <1>4, <1>10
  <2>2. ~ overlapped
    BY <1>1, <1>10
  <2>3. \/ update[q].to = parent[update[q].account]
        \/ update[q].pc = "write" /\ Clear(update[q].account, update[q].to, parent)
    BY <2>1, <2>2 DEF FreshIsClear
  <2>4. QED BY <1>8, <2>1, <2>3
<1>11. FreshIsClear'
  BY <1>9, <1>10 DEF FreshIsClear, NoCycle, Clear, Closed
<1>12. QED BY <1>6, <1>7, <1>11

LEMMA TreeStep == TreeIInv /\ [Tree!Next]_(Tree!tree) => TreeIInv'
<1> SUFFICES ASSUME TreeIInv, [Tree!Next]_(Tree!tree) PROVE TreeIInv'
  OBVIOUS
<1>1. CASE UNCHANGED Tree!tree
  BY <1>1 DEF Tree!tree, TreeIInv, TreeTypeOK, AccountsExist, FreshIsClear, NoCycle, Clear, Closed
<1>2. CASE Tree!Next
  BY <1>2, TreeCreate, TreeUpdate, TreeWrite DEF Tree!Next
<1>3. QED BY <1>1, <1>2

\* No account is below itself, in a chart of any size, unless updates that moved
\* accounts overlapped (validateParent, updateBookkeepingAccount).
THEOREM NoAccountBelowItself == Tree!Spec => []Tree!Acyclic
<1>1. Tree!Init => TreeIInv
  BY TreeInit
<1>2. TreeIInv /\ [Tree!Next]_(Tree!tree) => TreeIInv'
  BY TreeStep
<1>3. TreeIInv => Tree!Acyclic
  BY DEF TreeIInv, FreshIsClear, NoCycle, Tree!Acyclic
<1>4. QED BY <1>1, <1>2, <1>3, PTL DEF Tree!Spec

---------------------------------------------------------------------------
(* The books as a whole.                                                    *)

\* Each part runs by itself, whatever the others do.
THEOREM PartsRunAlone ==
  BooksSpec => /\ Spec /\ Recurring!Spec /\ Intercompany!Spec /\ Openings!Spec
               /\ Tree!Spec /\ Calendar!Spec /\ Invoices!Spec /\ Files!Spec
<1>1. BooksInit => /\ Init /\ Recurring!Init /\ Intercompany!Init /\ Openings!Init
                   /\ Tree!Init /\ Calendar!Init /\ Invoices!Init /\ Files!Init
  BY DEF BooksInit
<1> USE DEF BooksNext, books
<1>2. [BooksNext]_books => [Next]_reconciliations
  OBVIOUS
<1>3. [BooksNext]_books => [Recurring!Next]_(Recurring!schedule)
  BY DEF schedule, Recurring!schedule
<1>4. [BooksNext]_books => [Intercompany!Next]_(Intercompany!intercompany)
  BY DEF intercompany, Intercompany!intercompany
<1>5. [BooksNext]_books => [Openings!Next]_(Openings!balances)
  BY DEF balances, Openings!balances
<1>6. [BooksNext]_books => [Tree!Next]_(Tree!tree)
  BY DEF tree, Tree!tree
<1>7. [BooksNext]_books => [Calendar!Next]_(Calendar!calendar)
  BY DEF calendar, Calendar!calendar
<1>8. [BooksNext]_books => [Invoices!Next]_(Invoices!invoices)
  BY DEF invoices, Invoices!invoices
<1>9. [BooksNext]_books => [Files!Next]_(Files!attachments)
  BY DEF attachments, Files!attachments
<1>10. QED
  BY <1>1, <1>2, <1>3, <1>4, <1>5, <1>6, <1>7, <1>8, <1>9, PTL
     DEF BooksSpec, Spec, Recurring!Spec, Intercompany!Spec, Openings!Spec, Tree!Spec,
         Calendar!Spec, Invoices!Spec, Files!Spec

\* No account is below itself, and no day in two periods, in the books as a whole
\* (updateBookkeepingAccount, createAccountingPeriod, updateAccountingPeriod).
THEOREM StructureAlwaysStands == BooksSpec => []StructureStands
BY NoAccountBelowItself, PeriodsStayApart, PartsRunAlone, PTL DEF StructureStands

\* So is all that the other parts promise.
THEOREM BooksHold ==
  BooksSpec => [](/\ CompletedStands /\ MadeOnce /\ PairAgrees /\ LedgerAgrees
                  /\ PaymentsAgree /\ FileIsThere)
BY CompletedAddsUp, MadeAlwaysOnce, PairsAlwaysAgree, LedgerAlwaysAgrees, PaymentsAlwaysAgree, FileAlwaysThere,
   PartsRunAlone, PTL
=============================================================================
