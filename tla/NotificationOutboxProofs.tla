----------------------- MODULE NotificationOutboxProofs -----------------------
(***************************************************************************)
(* The safety of NotificationOutbox, for any notifications and any number   *)
(* of runs and administrators. What makes it true is that a claim counts    *)
(* the attempt before anything is sent, and that a row which no             *)
(* administrator manages leaves "processing" only by the hand of its run.   *)
(***************************************************************************)
EXTENDS NotificationOutbox, FiniteSetTheorems, TLAPS

Holds(w, c) == c \in worker[w].batch \/ (worker[w].item # None /\ c = worker[w].item)

\* The runs that have a row in their batch.
Holders(r) == { w \in Workers : \E c \in worker[w].batch : c.id = r }

Counted(r) == delivered[r] + Cardinality(Holders(r)) <= row[r].attempts

\* What a run holds: each row once, with an attempt counted for it since.
RunStands(w) ==
  /\ worker[w].phase \in {"idle", "between"} => worker[w].batch = {} /\ worker[w].item = None
  /\ \A c \in Claimed : Holds(w, c) => c.attempts < row[c.id].attempts
  /\ \A c, d \in Claimed : Holds(w, c) /\ Holds(w, d) /\ c.id = d.id => c = d
  /\ worker[w].item # None => worker[w].item \notin worker[w].batch
  /\ worker[w].item # None /\ worker[w].outcome = "accepted" => delivered[worker[w].item.id] > 0

\* No two runs hold one row.
Apart ==
  \A w \in Workers, c \in Claimed : Holds(w, c) /\ c.id \notin Managed =>
    /\ row[c.id].status = "processing"
    /\ \A v \in Workers, d \in Claimed : Holds(v, d) /\ d.id = c.id => v = w

AdminsStand == \A a \in Admins : admin[a] # None => admin[a].id \in Managed

IInv ==
  /\ TypeOK /\ Apart /\ AdminsStand /\ SentWasDelivered
  /\ \A r \in Rows : Counted(r)
  /\ \A w \in Workers : RunStands(w)

---------------------------------------------------------------------------
\* The runs are finitely many, so that those with a row can be counted.
LEMMA HoldersFinite ==
  ASSUME NEW r
  PROVE  IsFiniteSet(Holders(r)) /\ Cardinality(Holders(r)) \in Nat
<1>1. Holders(r) \subseteq Workers
  BY DEF Holders
<1>2. IsFiniteSet(Holders(r))
  BY <1>1, FS_Subset, OutboxAssumption
<1>3. QED BY <1>2, FS_CardinalityType

\* A row that no run newly holds stays counted.
LEMMA CountedKept ==
  ASSUME NEW r \in Rows, Counted(r), Holders(r)' \subseteq Holders(r),
         delivered[r] \in Nat, row[r].attempts \in Nat, row'[r].attempts \in Nat,
         delivered'[r] = delivered[r], row[r].attempts <= row'[r].attempts
  PROVE  Counted(r)'
<1>1. Cardinality(Holders(r)') <= Cardinality(Holders(r)) /\ Cardinality(Holders(r)') \in Nat
  BY HoldersFinite, FS_Subset, FS_CardinalityType
<1>2. Cardinality(Holders(r)) \in Nat
  BY HoldersFinite
<1>3. QED BY <1>1, <1>2 DEF Counted

\* In the beginning nobody holds anything.
LEMMA InitIInv ==
  ASSUME Init
  PROVE  IInv
<1>1. \A w \in Workers : worker[w] = Idle
  BY DEF Init
<1>2. Idle \in Worker /\ Idle.batch = {} /\ Idle.item = None
  BY DEF Idle, Worker
<1>3. TypeOK
  BY <1>2, OutboxAssumption DEF Init, TypeOK, Row, Channel, Status
<1>4. \A w \in Workers, c \in Claimed : ~ Holds(w, c)
  BY <1>1, <1>2 DEF Holds
<1>5. \A r \in Rows : Holders(r) = {}
  BY <1>1, <1>2 DEF Holders
<1>6. \A r \in Rows : Counted(r)
  <2>1. \A r \in Rows : delivered[r] = 0 /\ row[r].attempts = 0
    BY DEF Init
  <2>2. \A r \in Rows : Cardinality(Holders(r)) = 0
    BY <1>5, FS_EmptySet
  <2>3. QED BY <2>1, <2>2 DEF Counted
<1>7. Apart /\ AdminsStand /\ SentWasDelivered
  BY <1>4 DEF Init, Apart, AdminsStand, SentWasDelivered
<1>8. \A w \in Workers : RunStands(w)
  BY <1>1, <1>2, <1>4 DEF RunStands
<1>9. QED BY <1>3, <1>6, <1>7, <1>8 DEF IInv

\* A run that takes up nothing: it ends a phase, or stops, or treats what it sent as failed.
LEMMA LetGoIInv ==
  ASSUME IInv, NEW w \in Workers, NEW x \in Worker,
         worker' = [worker EXCEPT ![w] = x], UNCHANGED <<row, admin, delivered>>,
         x.batch \subseteq worker[w].batch, x.item \in {None, worker[w].item},
         x.phase \in {"idle", "between"} => x.batch = {} /\ x.item = None,
         x.item # None => x.outcome # "accepted"
  PROVE  IInv'
<1>1. worker'[w] = x /\ \A v \in Workers \ {w} : worker'[v] = worker[v]
  BY DEF IInv, TypeOK
<1>2. TypeOK'
  BY DEF IInv, TypeOK
<1>3. \A v \in Workers, c \in Claimed : Holds(v, c)' => Holds(v, c)
  BY <1>1 DEF Holds
<1>4. Apart'
  BY <1>3 DEF IInv, Apart
<1>5. AdminsStand' /\ SentWasDelivered'
  BY DEF IInv, AdminsStand, SentWasDelivered
<1>6. ASSUME NEW r \in Rows
      PROVE  Counted(r)'
  <2>1. Holders(r)' \subseteq Holders(r)
    BY <1>1 DEF Holders
  <2>2. QED BY <2>1, CountedKept DEF IInv, TypeOK, Row
<1>7. ASSUME NEW v \in Workers
      PROVE  RunStands(v)'
  <2>1. CASE v = w
    BY <1>1, <1>3, <2>1 DEF IInv, RunStands
  <2>2. CASE v # w
    BY <1>1, <1>3, <2>2 DEF IInv, RunStands
  <2>3. QED BY <2>1, <2>2
<1>8. QED BY <1>2, <1>4, <1>5, <1>6, <1>7 DEF IInv

\* A claim counts an attempt of each row before it is held, and takes only rows that nobody
\* holds, as far as no administrator manages them.
LEMMA ClaimIInv ==
  ASSUME IInv, NEW w \in Workers, worker[w].phase \in {"idle", "between"},
         NEW channel \in Channel, NEW configured \in BOOLEAN,
         ClaimBatch(w, channel, configured)
  PROVE  IInv'
<1>1. PICK batch \in SUBSET { r \in Rows : Claimable(r, channel) } :
        /\ \A r \in batch : row[r].attempts < MaxAttempts
        /\ Claim(batch)
        /\ worker' = [worker EXCEPT ![w] =
             [Idle EXCEPT !.phase = channel, !.configured = configured,
                          !.batch = { [id |-> r, attempts |-> row[r].attempts] : r \in batch }]]
        /\ UNCHANGED <<admin, delivered>>
  BY DEF ClaimBatch
<1> DEFINE claims == { [id |-> r, attempts |-> row[r].attempts] : r \in batch }
           x == [Idle EXCEPT !.phase = channel, !.configured = configured, !.batch = claims]
<1>2. claims \in SUBSET Claimed
  BY DEF IInv, TypeOK, Row, Claimed
<1>3. \A c \in claims : c.id \in batch /\ c.attempts = row[c.id].attempts
  OBVIOUS
<1> HIDE DEF claims
<1>4. x \in Worker /\ x.batch = claims /\ x.item = None /\ x.phase \notin {"idle", "between"}
  BY <1>2 DEF Worker, Idle, Channel
<1> HIDE DEF x
<1>5. worker' = [worker EXCEPT ![w] = x]
  BY <1>1 DEF x, claims
<1>6. worker'[w] = x /\ \A v \in Workers \ {w} : worker'[v] = worker[v]
  BY <1>5 DEF IInv, TypeOK
<1>7. \A r \in Rows :
        /\ row[r] \in Row
        /\ r \in batch => /\ row'[r] = [row[r] EXCEPT !.status = "processing", !.attempts = @ + 1]
                          /\ row[r].attempts < MaxAttempts /\ row[r].status \in {"pending", "failed"}
        /\ r \notin batch => row'[r] = row[r]
  BY <1>1 DEF IInv, TypeOK, Claim, Claimable
<1>8. \A r \in Rows :
        /\ row'[r] \in Row
        /\ r \in batch => row'[r].attempts = row[r].attempts + 1 /\ row'[r].status = "processing"
  <2>1. TAKE r \in Rows
  <2>2. CASE r \in batch
    <3>1. row[r] \in Row /\ row[r].attempts + 1 \in 0 .. MaxAttempts
      <4>1. row[r] \in Row /\ row[r].attempts < MaxAttempts /\ MaxAttempts \in Nat
        BY <1>7, <2>2, OutboxAssumption
      <4>2. row[r].attempts \in 0 .. MaxAttempts
        BY <4>1 DEF Row
      <4>3. QED BY <4>1, <4>2
    <3>2. row'[r] = [row[r] EXCEPT !.status = "processing", !.attempts = row[r].attempts + 1]
      BY <1>7, <2>2
    <3>3. QED BY <3>1, <3>2 DEF Row, Status
  <2>3. CASE r \notin batch
    BY <1>7, <2>3
  <2>4. QED BY <2>2, <2>3
<1>9. TypeOK'
  <2>1. row' \in [Rows -> Row]
    BY <1>1, <1>8 DEF Claim
  <2>2. QED BY <1>1, <1>4, <1>5, <2>1 DEF IInv, TypeOK
<1>10. \A r \in batch : row'[r].attempts = row[r].attempts + 1 /\ row'[r].status = "processing"
  BY <1>8
<1>11. \A c \in Claimed : (Holds(w, c)' <=> c \in claims) /\ ~ Holds(w, c)
  BY <1>4, <1>6 DEF Holds, IInv, RunStands
<1>12. \A v \in Workers \ {w}, c \in Claimed : Holds(v, c)' <=> Holds(v, c)
  BY <1>6 DEF Holds
<1>13. Apart'
  <2>1. SUFFICES ASSUME NEW v \in Workers, NEW c \in Claimed, Holds(v, c)', c.id \notin Managed
                 PROVE  /\ row'[c.id].status = "processing"
                        /\ \A u \in Workers, d \in Claimed : Holds(u, d)' /\ d.id = c.id => u = v
    BY DEF Apart
  <2>2. c.id \in Rows
    BY DEF Claimed
  <2>3. CASE v = w
    <3>1. c.id \in batch
      BY <1>3, <1>11, <2>1, <2>3
    <3>2. \A u \in Workers \ {w}, d \in Claimed : Holds(u, d) => d.id # c.id
      BY <1>7, <2>1, <2>2, <3>1 DEF IInv, Apart
    <3>3. QED BY <1>10, <1>12, <2>3, <3>1, <3>2
  <2>4. CASE v # w
    <3>1. Holds(v, c) /\ row[c.id].status = "processing"
      BY <1>12, <2>1, <2>4 DEF IInv, Apart
    <3>2. c.id \notin batch
      BY <1>7, <2>2, <3>1
    <3>3. \A d \in Claimed : Holds(w, d)' => d.id # c.id
      BY <1>3, <1>11, <3>2
    <3>4. \A u \in Workers \ {w}, d \in Claimed : Holds(u, d)' /\ d.id = c.id => u = v
      BY <1>12, <2>1, <3>1 DEF IInv, Apart
    <3>5. QED BY <1>7, <2>2, <3>1, <3>2, <3>3, <3>4
  <2>5. QED BY <2>3, <2>4
<1>14. AdminsStand' /\ SentWasDelivered'
  BY <1>1, <1>7, <1>10 DEF IInv, AdminsStand, SentWasDelivered
<1>15. ASSUME NEW r \in Rows
       PROVE  Counted(r)'
  <2>1. Counted(r) /\ delivered'[r] = delivered[r] /\ delivered[r] \in Nat /\ row[r].attempts \in Nat /\ row'[r].attempts \in Nat
    BY <1>1, <1>8 DEF IInv, TypeOK, Row
  <2>2. CASE r \in batch
    <3>1. Holders(r)' \subseteq Holders(r) \union {w}
      BY <1>6 DEF Holders
    <3>2. IsFiniteSet(Holders(r) \union {w}) /\ Cardinality(Holders(r) \union {w}) <= Cardinality(Holders(r)) + 1
      <4>1. IsFiniteSet(Holders(r)) /\ Cardinality(Holders(r)) \in Nat
        BY HoldersFinite
      <4>2. /\ IsFiniteSet(Holders(r) \union {w})
            /\ Cardinality(Holders(r) \union {w}) \in {Cardinality(Holders(r)), Cardinality(Holders(r)) + 1}
        BY <4>1, FS_AddElement
      <4>3. QED BY <4>1, <4>2
    <3>3. Cardinality(Holders(r)') <= Cardinality(Holders(r)) + 1 /\ Cardinality(Holders(r)') \in Nat
      BY <3>1, <3>2, HoldersFinite, FS_Subset, FS_CardinalityType
    <3>4. QED BY <1>10, <2>1, <2>2, <3>3, HoldersFinite DEF Counted
  <2>3. CASE r \notin batch
    <3>1. Holders(r)' \subseteq Holders(r)
      BY <1>3, <1>4, <1>6, <2>3 DEF Holders
    <3>2. row'[r] = row[r]
      BY <1>7, <2>3
    <3>3. QED BY <2>1, <3>1, <3>2, CountedKept
  <2>4. QED BY <2>2, <2>3
<1>16. ASSUME NEW v \in Workers
       PROVE  RunStands(v)'
  <2>1. CASE v = w
    <3>1. \A c \in Claimed : Holds(w, c)' => c.attempts < row'[c.id].attempts
      <4>1. TAKE c \in Claimed
      <4>2. HAVE Holds(w, c)'
      <4>3. c.id \in batch /\ c.attempts = row[c.id].attempts /\ c.id \in Rows
        BY <1>3, <1>11, <4>2
      <4>4. row[c.id].attempts \in Nat /\ row'[c.id].attempts = row[c.id].attempts + 1
        <5>1. row[c.id] \in Row /\ row'[c.id].attempts = row[c.id].attempts + 1
          BY <1>7, <1>10, <4>3
        <5>2. QED BY <5>1 DEF Row
      <4>5. QED BY <4>3, <4>4
    <3>2. \A c, d \in Claimed : Holds(w, c)' /\ Holds(w, d)' /\ c.id = d.id => c = d
      BY <1>3, <1>11 DEF Claimed
    <3>3. QED BY <1>4, <1>6, <2>1, <3>1, <3>2 DEF RunStands
  <2>2. CASE v # w
    <3>1. worker'[v] = worker[v] /\ RunStands(v)
      BY <1>6, <2>2 DEF IInv
    <3>2. \A c \in Claimed : Holds(v, c)' => c.attempts < row'[c.id].attempts
      <4>1. TAKE c \in Claimed
      <4>2. HAVE Holds(v, c)'
      <4>3. c.id \in Rows /\ c.attempts \in Nat /\ c.attempts < row[c.id].attempts
        BY <1>12, <2>2, <3>1, <4>2 DEF RunStands, Claimed
      <4>4. /\ row[c.id].attempts \in Nat
            /\ row'[c.id].attempts \in {row[c.id].attempts, row[c.id].attempts + 1}
        <5>1. row[c.id] \in Row
          BY <1>7, <4>3
        <5>2. c.id \notin batch => row'[c.id] = row[c.id]
          BY <1>7, <4>3
        <5>3. row'[c.id].attempts \in {row[c.id].attempts, row[c.id].attempts + 1}
          BY <1>10, <5>2
        <5>4. QED BY <5>1, <5>3 DEF Row
      <4>5. QED BY <4>3, <4>4
    <3>3. QED BY <1>1, <1>12, <2>2, <3>1, <3>2 DEF RunStands
  <2>3. QED BY <2>1, <2>2
<1>17. QED BY <1>9, <1>13, <1>14, <1>15, <1>16 DEF IInv

\* A message handed over leaves the batch: it is counted as delivered, at most, instead of
\* as held.
LEMMA SendIInv ==
  ASSUME IInv, NEW w \in Workers, Send(w)
  PROVE  IInv'
<1>1. PICK c \in worker[w].batch, outcome \in {"accepted", "failed"}, n \in {0, 1} :
        /\ outcome = "accepted" => n = 1
        /\ worker' = [worker EXCEPT ![w].batch = @ \ {c}, ![w].item = c, ![w].outcome = outcome]
        /\ delivered' = [delivered EXCEPT ![c.id] = @ + n]
  BY DEF Send
<1>2. worker[w].phase \in Channel /\ worker[w].item = None /\ UNCHANGED <<row, admin>>
  BY DEF Send
<1> DEFINE x == [worker[w] EXCEPT !.batch = @ \ {c}, !.item = c, !.outcome = outcome]
<1>3. worker[w] \in Worker /\ c \in Claimed /\ c.id \in Rows
  BY <1>1 DEF IInv, TypeOK, Worker, Claimed
<1>4. /\ x \in Worker /\ x.batch = worker[w].batch \ {c} /\ x.item = c /\ x.outcome = outcome
      /\ x.phase = worker[w].phase
  BY <1>3 DEF Worker
<1> HIDE DEF x
<1>5. worker' = [worker EXCEPT ![w] = x]
  BY <1>1 DEF x
<1>6. worker'[w] = x /\ \A v \in Workers \ {w} : worker'[v] = worker[v]
  BY <1>5 DEF IInv, TypeOK
<1>7. c # None
  BY <1>3, OutboxAssumption
<1>8. \A v \in Workers, d \in Claimed : Holds(v, d)' => Holds(v, d)
  BY <1>1, <1>2, <1>4, <1>6 DEF Holds
<1>9. /\ \A r \in Rows : delivered[r] \in Nat /\ delivered'[r] \in Nat /\ delivered'[r] >= delivered[r]
      /\ delivered'[c.id] = delivered[c.id] + n
      /\ \A r \in Rows \ {c.id} : delivered'[r] = delivered[r]
  BY <1>1, <1>3 DEF IInv, TypeOK
<1>10. TypeOK'
  <2>1. delivered' \in [Rows -> Nat]
    BY <1>1, <1>9 DEF IInv, TypeOK
  <2>2. QED BY <1>2, <1>4, <1>5, <2>1 DEF IInv, TypeOK
<1>11. Apart' /\ AdminsStand'
  BY <1>2, <1>8 DEF IInv, Apart, AdminsStand
<1>12. SentWasDelivered'
  BY <1>2, <1>9 DEF IInv, SentWasDelivered
<1>13. ASSUME NEW r \in Rows
       PROVE  Counted(r)'
  <2>1. Counted(r) /\ row[r].attempts \in Nat /\ row' = row
    BY <1>2 DEF IInv, TypeOK, Row
  <2>2. CASE r = c.id
    <3>1. w \in Holders(r)
      BY <1>1, <2>2 DEF Holders
    <3>2. \A d \in worker[w].batch \ {c} : d.id # r
      BY <1>1, <1>3, <2>2 DEF IInv, RunStands, Holds, Worker
    <3>3. Holders(r)' \subseteq Holders(r) \ {w}
      BY <1>4, <1>6, <3>2 DEF Holders
    <3>4. IsFiniteSet(Holders(r) \ {w}) /\ Cardinality(Holders(r) \ {w}) = Cardinality(Holders(r)) - 1
      BY <3>1, HoldersFinite, FS_RemoveElement
    <3>5. Cardinality(Holders(r)') <= Cardinality(Holders(r)) - 1 /\ Cardinality(Holders(r)') \in Nat
      BY <3>3, <3>4, FS_Subset, FS_CardinalityType
    <3>6. QED BY <1>9, <2>1, <2>2, <3>5, HoldersFinite DEF Counted
  <2>3. CASE r # c.id
    <3>1. Holders(r)' \subseteq Holders(r)
      BY <1>4, <1>6 DEF Holders
    <3>2. QED BY <1>9, <2>1, <2>3, <3>1, CountedKept
  <2>4. QED BY <2>2, <2>3
<1>14. ASSUME NEW v \in Workers
       PROVE  RunStands(v)'
  <2>1. RunStands(v)
    BY DEF IInv
  <2>2. /\ \A d \in Claimed : Holds(v, d)' => d.attempts < row'[d.id].attempts
        /\ \A d, e \in Claimed : Holds(v, d)' /\ Holds(v, e)' /\ d.id = e.id => d = e
    BY <1>2, <1>8, <2>1 DEF RunStands
  <2>3. CASE v = w
    <3>1. x.outcome = "accepted" => delivered'[c.id] > 0
      BY <1>1, <1>3, <1>4, <1>9
    <3>2. QED BY <1>2, <1>4, <1>6, <2>2, <2>3, <3>1 DEF RunStands, Channel
  <2>4. CASE v # w
    <3>1. worker'[v] = worker[v] /\ worker[v] \in Worker
      BY <1>6, <2>4 DEF IInv, TypeOK
    <3>2. worker[v].item # None => delivered'[worker[v].item.id] >= delivered[worker[v].item.id]
                                   /\ delivered[worker[v].item.id] \in Nat /\ delivered'[worker[v].item.id] \in Nat
      BY <1>9, <3>1 DEF Worker, Claimed
    <3>3. QED BY <2>1, <2>2, <3>1, <3>2 DEF RunStands
  <2>5. QED BY <2>3, <2>4
<1>15. QED BY <1>10, <1>11, <1>12, <1>13, <1>14 DEF IInv

\* A run settles its item: the row leaves its hands with the attempts it has, as sent only if
\* the message was accepted.
LEMMA SettleIInv ==
  ASSUME IInv, NEW w \in Workers, worker[w].item # None, NEW columns \in Row,
         Settle(w, columns), columns.attempts = row[worker[w].item.id].attempts,
         columns.status = "sent" => worker[w].outcome = "accepted"
  PROVE  IInv'
<1> DEFINE c == worker[w].item
           x == [worker[w] EXCEPT !.item = None]
<1>1. worker[w] \in Worker /\ c \in Claimed /\ c.id \in Rows /\ Holds(w, c)
  BY DEF IInv, TypeOK, Worker, Claimed, Holds
<1>2. x \in Worker /\ x.batch = worker[w].batch /\ x.item = None /\ x.phase = worker[w].phase
  BY <1>1 DEF Worker
<1>3. /\ row' = [row EXCEPT ![c.id] = columns] /\ worker' = [worker EXCEPT ![w] = x]
      /\ UNCHANGED <<admin, delivered>>
  BY DEF Settle
<1>4. c \notin worker[w].batch /\ (worker[w].outcome = "accepted" => delivered[c.id] > 0)
  BY DEF IInv, RunStands
<1>5. columns.attempts = row[c.id].attempts
  OBVIOUS
<1> HIDE DEF x, c
<1>6. worker'[w] = x /\ \A v \in Workers \ {w} : worker'[v] = worker[v]
  BY <1>3 DEF IInv, TypeOK
<1>7. row'[c.id] = columns /\ \A r \in Rows \ {c.id} : row'[r] = row[r]
  BY <1>1, <1>3 DEF IInv, TypeOK
<1>8. \A v \in Workers, d \in Claimed : Holds(v, d)' => Holds(v, d)
  BY <1>2, <1>6 DEF Holds
<1>9. \A d \in Claimed : Holds(w, d)' => d.id # c.id
  BY <1>1, <1>2, <1>4, <1>6 DEF Holds, IInv, RunStands
<1>10. TypeOK'
  BY <1>2, <1>3 DEF IInv, TypeOK
<1>11. Apart'
  <2>1. SUFFICES ASSUME NEW v \in Workers, NEW d \in Claimed, Holds(v, d)', d.id \notin Managed
                 PROVE  /\ row'[d.id].status = "processing"
                        /\ \A u \in Workers, e \in Claimed : Holds(u, e)' /\ e.id = d.id => u = v
    BY DEF Apart
  <2>2. /\ Holds(v, d) /\ row[d.id].status = "processing"
        /\ \A u \in Workers, e \in Claimed : Holds(u, e) /\ e.id = d.id => u = v
    BY <1>8, <2>1 DEF IInv, Apart
  <2>3. d.id \in Rows /\ d.id # c.id
    BY <1>1, <1>9, <2>1, <2>2 DEF Claimed
  <2>4. QED BY <1>7, <1>8, <2>2, <2>3
<1>12. AdminsStand'
  BY <1>3 DEF IInv, AdminsStand
<1>13. SentWasDelivered'
  <2>1. SUFFICES ASSUME NEW r \in Rows, row'[r].status = "sent" PROVE delivered[r] > 0
    BY <1>3 DEF SentWasDelivered
  <2>2. CASE r = c.id
    BY <1>4, <1>7, <2>1, <2>2
  <2>3. CASE r # c.id
    BY <1>7, <2>1, <2>3 DEF IInv, SentWasDelivered
  <2>4. QED BY <2>2, <2>3
<1>14. ASSUME NEW r \in Rows
       PROVE  Counted(r)' /\ row'[r].attempts = row[r].attempts
  <2>1. Holders(r)' \subseteq Holders(r)
    BY <1>2, <1>6 DEF Holders
  <2>2. row'[r].attempts = row[r].attempts /\ row[r].attempts \in Nat
    BY <1>5, <1>7 DEF IInv, TypeOK, Row
  <2>3. QED BY <1>3, <2>1, <2>2, CountedKept DEF IInv, TypeOK
<1>15. ASSUME NEW v \in Workers
       PROVE  RunStands(v)'
  <2>1. \A d \in Claimed : row'[d.id].attempts = row[d.id].attempts
    BY <1>14 DEF Claimed
  <2>2. /\ \A d \in Claimed : Holds(v, d)' => d.attempts < row'[d.id].attempts
        /\ \A d, e \in Claimed : Holds(v, d)' /\ Holds(v, e)' /\ d.id = e.id => d = e
    BY <1>8, <2>1 DEF IInv, RunStands
  <2>3. CASE v = w
    BY <1>2, <1>6, <2>2, <2>3 DEF IInv, RunStands
  <2>4. CASE v # w
    BY <1>3, <1>6, <2>2, <2>4 DEF IInv, RunStands
  <2>5. QED BY <2>3, <2>4
<1>16. QED BY <1>10, <1>11, <1>12, <1>13, <1>14, <1>15 DEF IInv

\* The rows alone change: time passes, or an administrator writes.
LEMMA RowIInv ==
  ASSUME IInv, NEW r \in Rows, NEW columns \in Row,
         row' = [row EXCEPT ![r] = columns], UNCHANGED <<worker, delivered>>,
         TypeOK', AdminsStand', columns.attempts = row[r].attempts,
         columns.status # row[r].status => r \in Managed /\ columns.status # "sent"
  PROVE  IInv'
<1>1. /\ \A s \in Rows : row'[s].attempts = row[s].attempts
      /\ \A s \in Rows \ Managed : row'[s].status = row[s].status
      /\ \A s \in Rows : row'[s].status = "sent" => row[s].status = "sent"
  BY DEF IInv, TypeOK
<1>2. /\ \A w \in Workers, c \in Claimed : Holds(w, c)' <=> Holds(w, c)
      /\ \A s : Holders(s)' = Holders(s)
  BY DEF Holds, Holders
<1>3. \A c \in Claimed : c.id \in Rows
  BY DEF Claimed
<1>4. Apart'
  BY <1>1, <1>2, <1>3 DEF IInv, Apart
<1>5. SentWasDelivered'
  BY <1>1 DEF IInv, SentWasDelivered
<1>6. \A s \in Rows : Counted(s)'
  BY <1>1, <1>2 DEF IInv, Counted
<1>7. \A w \in Workers : RunStands(w)'
  BY <1>1, <1>2, <1>3 DEF IInv, RunStands
<1>8. QED BY <1>4, <1>5, <1>6, <1>7 DEF IInv

\* What a run does with its item.
LEMMA SettlesIInv ==
  ASSUME IInv, NEW w \in Workers, MarkSent(w) \/ FallBackToEmail(w) \/ MarkFailed(w)
  PROVE  IInv'
<1>1. worker[w].item # None
  BY DEF MarkSent, FallBackToEmail, MarkFailed
<1>2. row[worker[w].item.id] \in Row
  BY <1>1 DEF IInv, TypeOK, Worker, Claimed
<1> DEFINE old == row[worker[w].item.id]
<1>3. CASE MarkSent(w)
  <2> DEFINE columns == [old EXCEPT !.status = "sent"]
  <2>1. columns \in Row /\ columns.attempts = old.attempts
    BY <1>2 DEF Row, Status
  <2>2. Settle(w, columns) /\ worker[w].outcome = "accepted"
    BY <1>3 DEF MarkSent
  <2> HIDE DEF columns
  <2>3. QED BY <1>1, <2>1, <2>2, SettleIInv
<1>4. CASE FallBackToEmail(w)
  <2> DEFINE columns == [old EXCEPT !.channel = "email", !.status = "pending", !.due = TRUE]
  <2>1. columns \in Row /\ columns.attempts = old.attempts /\ columns.status = "pending"
    BY <1>2 DEF Row, Status, Channel
  <2>2. Settle(w, columns)
    BY <1>4 DEF FallBackToEmail
  <2> HIDE DEF columns
  <2>3. QED BY <1>1, <2>1, <2>2, SettleIInv
<1>5. CASE MarkFailed(w)
  <2> DEFINE columns == [old EXCEPT !.status = "failed", !.due = FALSE]
  <2>1. columns \in Row /\ columns.attempts = old.attempts /\ columns.status = "failed"
    BY <1>2 DEF Row, Status
  <2>2. Settle(w, columns)
    BY <1>5 DEF MarkFailed
  <2> HIDE DEF columns
  <2>3. QED BY <1>1, <2>1, <2>2, SettleIInv
<1>6. QED BY <1>3, <1>4, <1>5

\* A run that ends, stops, or loses what it had to write.
LEMMA EndsIInv ==
  ASSUME IInv, NEW w \in Workers, EndSms(w) \/ EndRun(w) \/ MarkSentThrows(w) \/ Crash(w)
  PROVE  IInv'
<1>1. worker[w] \in Worker /\ UNCHANGED <<row, admin, delivered>>
  BY DEF IInv, TypeOK, EndSms, EndRun, MarkSentThrows, Crash
<1>2. Idle \in Worker /\ Idle.batch = {} /\ Idle.item = None
  BY DEF Idle, Worker
<1>3. CASE EndRun(w) \/ Crash(w)
  <2>1. worker' = [worker EXCEPT ![w] = Idle]
    BY <1>3 DEF EndRun, Crash
  <2>2. QED BY <1>1, <1>2, <2>1, LetGoIInv
<1>4. CASE EndSms(w)
  <2> DEFINE x == [worker[w] EXCEPT !.phase = "between"]
  <2>1. x \in Worker /\ x.batch = {} /\ x.item = None /\ worker[w].batch = {}
    BY <1>1, <1>4 DEF EndSms, Worker
  <2>2. worker' = [worker EXCEPT ![w] = x]
    BY <1>4 DEF EndSms
  <2> HIDE DEF x
  <2>3. QED BY <1>1, <2>1, <2>2, LetGoIInv
<1>5. CASE MarkSentThrows(w)
  <2> DEFINE x == [worker[w] EXCEPT !.outcome = "failed"]
  <2>1. /\ x \in Worker /\ x.batch = worker[w].batch /\ x.item = worker[w].item
        /\ x.outcome = "failed" /\ x.phase = worker[w].phase
    BY <1>1 DEF Worker
  <2>2. worker' = [worker EXCEPT ![w] = x]
    BY <1>5 DEF MarkSentThrows
  <2>3. x.phase \in {"idle", "between"} => x.batch = {} /\ x.item = None
    BY <2>1 DEF IInv, RunStands
  <2> HIDE DEF x
  <2>4. QED BY <1>1, <2>1, <2>2, <2>3, LetGoIInv
<1>6. QED BY <1>3, <1>4, <1>5

\* Time passes for a row.
LEMMA BecomeDueIInv ==
  ASSUME IInv, NEW r \in Rows, BecomeDue(r)
  PROVE  IInv'
<1> DEFINE columns == [row[r] EXCEPT !.due = TRUE]
<1>1. row[r] \in Row
  BY DEF IInv, TypeOK
<1>2. columns \in Row /\ columns.attempts = row[r].attempts /\ columns.status = row[r].status
  BY <1>1 DEF Row
<1>3. row' = [row EXCEPT ![r] = columns] /\ UNCHANGED <<worker, admin, delivered>>
  BY DEF BecomeDue
<1> HIDE DEF columns
<1>4. TypeOK' /\ AdminsStand'
  BY <1>2, <1>3 DEF IInv, TypeOK, AdminsStand
<1>5. QED BY <1>2, <1>3, <1>4, RowIInv

\* An administrator reads a row that administrators manage, and later writes it.
LEMMA ManageIInv ==
  ASSUME IInv, NEW a \in Admins,
         \/ \E r \in Managed : ManageRead(a, r, "retry") \/ ManageRead(a, r, "cancel")
         \/ ManageWrite(a)
  PROVE  IInv'
<1>1. CASE \E r \in Managed : ManageRead(a, r, "retry") \/ ManageRead(a, r, "cancel")
  <2>1. PICK r \in Managed, action \in {"retry", "cancel"} : ManageRead(a, r, action)
    BY <1>1
  <2>2. r \in Rows /\ UNCHANGED <<row, worker, delivered>>
    BY <2>1, OutboxAssumption DEF ManageRead
  <2>3. admin' = [admin EXCEPT ![a] = [id |-> r, action |-> action]]
    BY <2>1 DEF ManageRead
  <2>4. TypeOK' /\ AdminsStand'
    BY <2>2, <2>3 DEF IInv, TypeOK, AdminsStand
  <2>5. Apart' /\ SentWasDelivered' /\ (\A s \in Rows : Counted(s)') /\ \A w \in Workers : RunStands(w)'
    BY <2>2 DEF IInv, Apart, SentWasDelivered, Counted, RunStands, Holds, Holders
  <2>6. QED BY <2>4, <2>5 DEF IInv
<1>2. CASE ManageWrite(a)
  <2> DEFINE r == admin[a].id
             columns == IF admin[a].action = "retry" THEN [row[r] EXCEPT !.status = "pending", !.due = TRUE]
                                                     ELSE [row[r] EXCEPT !.status = "cancelled"]
  <2>1. r \in Managed /\ r \in Rows /\ row[r] \in Row
    BY <1>2, OutboxAssumption DEF ManageWrite, IInv, TypeOK, AdminsStand
  <2>2. columns \in Row /\ columns.attempts = row[r].attempts /\ columns.status \in {"pending", "cancelled"}
    BY <2>1 DEF Row, Status
  <2>3. /\ row' = [row EXCEPT ![r] = columns] /\ admin' = [admin EXCEPT ![a] = None]
        /\ UNCHANGED <<worker, delivered>>
    BY <1>2 DEF ManageWrite
  <2> HIDE DEF r, columns
  <2>4. TypeOK' /\ AdminsStand'
    BY <2>2, <2>3 DEF IInv, TypeOK, AdminsStand
  <2>5. QED BY <2>1, <2>2, <2>3, <2>4, RowIInv
<1>3. QED BY <1>1, <1>2

\* Every step preserves the invariant.
LEMMA NextIInv ==
  ASSUME IInv, [Next]_vars
  PROVE  IInv'
<1>1. CASE UNCHANGED vars
  BY <1>1 DEF vars, IInv, TypeOK, Apart, AdminsStand, SentWasDelivered, Counted, RunStands, Holds, Holders
<1>2. ASSUME NEW w \in Workers, StartRun(w) \/ StartEmail(w)
      PROVE  IInv'
  <2>1. PICK channel \in Channel, configured \in BOOLEAN : ClaimBatch(w, channel, configured)
    BY <1>2, OutboxAssumption DEF StartRun, StartEmail, Channel
  <2>2. QED BY <1>2, <2>1, ClaimIInv DEF StartRun, StartEmail
<1>3. ASSUME NEW w \in Workers, EndSms(w) \/ EndRun(w) \/ Progress(w) \/ Crash(w)
      PROVE  IInv'
  BY <1>3, EndsIInv, SendIInv, SettlesIInv DEF Progress
<1>4. QED BY <1>1, <1>2, <1>3, BecomeDueIInv, ManageIInv DEF Next

---------------------------------------------------------------------------
\* What a run holds, named as the properties name it.
LEMMA HeldIsHolds ==
  ASSUME TypeOK, NEW w \in Workers, NEW r
  PROVE  r \in Held(w) <=> \E c \in Claimed : Holds(w, c) /\ c.id = r
BY DEF TypeOK, Worker, Held, Holds

\* A channel changes only when its run falls back to email.
LEMMA ChannelKept ==
  ASSUME IInv, Next, NEW r \in Rows, row'[r].channel # row[r].channel
  PROVE  \E w \in Workers : FallBackToEmail(w) /\ r = worker[w].item.id
<1>1. row[r] \in Row /\ row = [s \in Rows |-> row[s]]
  BY DEF IInv, TypeOK
<1>2. ASSUME NEW w \in Workers, StartRun(w) \/ StartEmail(w)
      PROVE  FALSE
  <2>1. PICK batch \in SUBSET Rows : Claim(batch)
    BY <1>2 DEF StartRun, StartEmail, ClaimBatch
  <2>2. row'[r].channel = row[r].channel
    BY <1>1, <2>1 DEF Claim, Row
  <2>3. QED BY <2>2
<1>3. ASSUME NEW w \in Workers, MarkSent(w) \/ MarkFailed(w)
      PROVE  FALSE
  <2> DEFINE old == row[worker[w].item.id]
  <2>1. PICK columns \in {[old EXCEPT !.status = "sent"], [old EXCEPT !.status = "failed", !.due = FALSE]} :
          row' = [row EXCEPT ![worker[w].item.id] = columns]
    BY <1>3 DEF MarkSent, MarkFailed, Settle
  <2>2. CASE worker[w].item.id = r
    <3>1. row'[r] = columns /\ old = row[r]
      BY <1>1, <2>1, <2>2
    <3>2. columns.channel = row[r].channel
      BY <1>1, <3>1 DEF Row
    <3>3. QED BY <3>1, <3>2
  <2>3. CASE worker[w].item.id # r
    BY <1>1, <2>1, <2>3
  <2>4. QED BY <2>2, <2>3
<1>4. ASSUME NEW w \in Workers, FallBackToEmail(w)
      PROVE  r = worker[w].item.id
  BY <1>1, <1>4 DEF FallBackToEmail, Settle
<1>5. ASSUME NEW s \in Rows, BecomeDue(s)
      PROVE  FALSE
  BY <1>1, <1>5 DEF BecomeDue, Row
<1>6. ASSUME NEW a \in Admins, ManageWrite(a)
      PROVE  FALSE
  <2>1. PICK columns : /\ row' = [row EXCEPT ![admin[a].id] = columns]
                       /\ columns = IF admin[a].action = "retry"
                                    THEN [row[admin[a].id] EXCEPT !.status = "pending", !.due = TRUE]
                                    ELSE [row[admin[a].id] EXCEPT !.status = "cancelled"]
    BY <1>6 DEF ManageWrite
  <2>2. admin[a].id = r => columns.channel = row[r].channel
    BY <1>1, <2>1 DEF Row
  <2>3. CASE admin[a].id = r
    BY <1>1, <2>1, <2>2, <2>3
  <2>4. CASE admin[a].id # r
    BY <1>1, <2>1, <2>4
  <2>5. QED BY <2>3, <2>4
<1>7. row' = row \/ \/ \E w \in Workers : StartRun(w) \/ StartEmail(w) \/ MarkSent(w) \/ MarkFailed(w) \/ FallBackToEmail(w)
                    \/ \E s \in Rows : BecomeDue(s)
                    \/ \E a \in Admins : ManageWrite(a)
  BY DEF Next, Progress, EndSms, EndRun, Send, MarkSentThrows, Crash, ManageRead
<1>8. QED BY <1>2, <1>3, <1>4, <1>5, <1>6, <1>7

\* In any history of overlapping and stopped runs, what they hold and have sent is
\* accounted for in the rows (claimBatch, markSent).
THEOREM RowsAccountForDeliveries == Spec => []DeliveriesAccounted
<1>1. Init => IInv
  BY InitIInv
<1>2. IInv /\ [Next]_vars => IInv'
  BY NextIInv
<1>3. IInv => DeliveriesAccounted
  <2>1. IInv => AttemptsCountDeliveries /\ SentWasDelivered
    BY DEF IInv, AttemptsCountDeliveries, Counted, Holders
  <2>2. IInv => HeldByOneRun
    BY HeldIsHolds DEF IInv, Apart, HeldByOneRun
  <2>3. QED BY <2>1, <2>2 DEF DeliveriesAccounted
<1>4. QED BY <1>1, <1>2, <1>3, PTL DEF Spec

\* No step of such a history sends a notification that is sent, or moves a text message to
\* email before its third attempt (processSmsNotifications, fallBackSmsToEmail).
THEOREM SendingAlwaysStands == Spec => SendingStands
<1>1. Init => IInv
  BY InitIInv
<1>2. IInv /\ [Next]_vars => IInv'
  BY NextIInv
<1>3. IInv /\ [Next]_vars =>
        [\A r \in Rows \ Managed : row[r].status = "sent" => delivered'[r] = delivered[r]]_vars
  <2>1. SUFFICES ASSUME IInv, Next, NEW r \in Rows \ Managed, row[r].status = "sent"
                 PROVE  delivered'[r] = delivered[r]
    OBVIOUS
  <2>2. ASSUME NEW w \in Workers, Send(w)
        PROVE  delivered'[r] = delivered[r]
    <3>1. PICK c \in worker[w].batch, n \in {0, 1} : delivered' = [delivered EXCEPT ![c.id] = @ + n]
      BY <2>2 DEF Send
    <3>2. c \in Claimed /\ Holds(w, c)
      BY <2>1 DEF IInv, TypeOK, Worker, Holds
    <3>3. c.id # r
      BY <2>1, <3>2 DEF IInv, Apart
    <3>4. QED BY <3>1, <3>3 DEF IInv, TypeOK
  <2>3. Next => delivered' = delivered \/ \E w \in Workers : Send(w)
    BY DEF Next, Progress, StartRun, ClaimBatch, EndSms, StartEmail, EndRun, Crash, Settle,
           MarkSent, MarkSentThrows, FallBackToEmail, MarkFailed, BecomeDue, ManageRead, ManageWrite
  <2>4. QED BY <2>1, <2>2, <2>3
<1>4. IInv /\ [Next]_vars =>
        [\A r \in Rows : row[r].channel = "sms" /\ row'[r].channel = "email" =>
           /\ row'[r].status = "pending"
           /\ \/ row[r].attempts >= 3
              \/ \E w \in Workers : ~ worker[w].configured /\ r \in Held(w)]_vars
  <2>1. SUFFICES ASSUME IInv, Next, NEW r \in Rows, row[r].channel = "sms", row'[r].channel = "email"
                 PROVE  /\ row'[r].status = "pending"
                        /\ \/ row[r].attempts >= 3
                           \/ \E w \in Workers : ~ worker[w].configured /\ r \in Held(w)
    OBVIOUS
  <2>2. PICK w \in Workers : FallBackToEmail(w) /\ r = worker[w].item.id
    BY <2>1, ChannelKept
  <2>3. /\ worker[w].item # None /\ worker[w] \in Worker
        /\ row' = [row EXCEPT ![r] = [row[r] EXCEPT !.channel = "email", !.status = "pending", !.due = TRUE]]
        /\ worker[w].configured => worker[w].item.attempts >= 2
    BY <2>1, <2>2 DEF FallBackToEmail, Settle, FallsBack, IInv, TypeOK
  <2>4. row'[r].status = "pending"
    BY <2>1, <2>3 DEF IInv, TypeOK, Row
  <2>5. worker[w].item \in Claimed /\ Holds(w, worker[w].item)
    BY <2>3 DEF Worker, Holds
  <2>6. worker[w].item.attempts < row[r].attempts
    BY <2>1, <2>2, <2>5 DEF IInv, RunStands
  <2>7. r \in Held(w)
    BY <2>1, <2>2, <2>5, HeldIsHolds DEF IInv
  <2>8. worker[w].item.attempts \in Nat /\ row[r].attempts \in Nat
    BY <2>1, <2>5 DEF Claimed, IInv, TypeOK, Row
  <2>9. QED BY <2>3, <2>4, <2>6, <2>7, <2>8
<1>5. QED BY <1>1, <1>2, <1>3, <1>4, PTL DEF Spec, SendingStands, NotSentAgain, FallbackIsLate
=============================================================================
