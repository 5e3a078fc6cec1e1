------------------------- MODULE NotificationOutbox -------------------------
(***************************************************************************)
(* Delivery from notification_outbox. Workers are runs of                  *)
(* `npm run process-notifications', which may overlap: each claims a batch *)
(* of text messages and works it off, then a batch of emails.              *)
(* Administrators retry and cancel notifications meanwhile, with a read    *)
(* and a later write. The mail server and the text message provider accept *)
(* a message or not, and may accept one and be reported to have failed.    *)
(*                                                                         *)
(* A definition whose name extends that of the definition after it is a    *)
(* wrong variant of it, which no specification uses.                       *)
(***************************************************************************)
EXTENDS Integers, FiniteSets

CONSTANTS
  Rows,         \* notifications
  SmsRows,      \* those enqueued as text messages
  WithEmail,    \* those whose payload names an email address to fall back to
  Workers,      \* runs of the job
  Admins,       \* administrators' requests
  SmsSettings,  \* whether a run may find text messages configured, or not
  BatchSize,    \* NOTIFICATION_BATCH_SIZE
  MaxAttempts,  \* a bound on the claims of a row, for TLC
  Mortal,       \* runs that may stop half-way
  Managed,      \* notifications that administrators retry and cancel
  None

VARIABLES
  row,        \* notification_outbox
  worker,     \* what each run does
  admin,      \* what each administrator's request is about to write
  delivered   \* how often the message of a row was accepted

vars == <<row, worker, admin, delivered>>

Channel == {"email", "sms"}
Status == {"pending", "processing", "sent", "failed", "cancelled"}

Row == [channel : Channel, status : Status, attempts : 0 .. MaxAttempts,
        due : BOOLEAN]      \* available_at <= now()

\* A claimed row, with the attempts before the claim.
Claimed == [id : Rows, attempts : 0 .. MaxAttempts]

ASSUME OutboxAssumption ==
  /\ SmsRows \subseteq Rows /\ WithEmail \subseteq Rows
  /\ SmsSettings \subseteq BOOLEAN /\ Mortal \subseteq Workers
  /\ Managed \subseteq Rows
  /\ BatchSize \in Nat \ {0} /\ MaxAttempts \in Nat
  /\ IsFiniteSet(Workers)
  /\ None \notin Claimed \union [id : Rows, action : {"retry", "cancel"}]

Worker == [phase : {"idle", "sms", "between", "email"},
           configured : BOOLEAN,        \* TEXTBEE_API_KEY is set
           batch : SUBSET Claimed,      \* still to be worked off
           item : Claimed \union {None},
           outcome : {"accepted", "failed"}]

Idle == [phase |-> "idle", configured |-> TRUE, batch |-> {}, item |-> None,
         outcome |-> "failed"]

Init ==
  /\ row = [r \in Rows |-> [channel  |-> IF r \in SmsRows THEN "sms" ELSE "email",
                            status   |-> "pending",
                            attempts |-> 0,
                            due      |-> TRUE]]
  /\ worker = [w \in Workers |-> Idle]
  /\ admin = [a \in Admins |-> None]
  /\ delivered = [r \in Rows |-> 0]

\* The rows a run holds: those it has claimed and not yet settled.
Held(w) ==
  { c.id : c \in worker[w].batch \union
                 (IF worker[w].item = None THEN {} ELSE {worker[w].item}) }

---------------------------------------------------------------------------
Claimable(r, channel) ==
  /\ row[r].channel = channel /\ row[r].due
  /\ row[r].status \in {"pending", "failed"}

ClaimUncounted(batch) ==
  row' = [r \in Rows |-> IF r \in batch THEN [row[r] EXCEPT !.status = "processing"]
                                        ELSE row[r]]

\* The UPDATE of claimBatch.
Claim(batch) ==
  row' = [r \in Rows |-> IF r \in batch
                           THEN [row[r] EXCEPT !.status = "processing", !.attempts = @ + 1]
                           ELSE row[r]]

\* claimBatch: one transaction, which skips the rows that others have locked,
\* so that it may find fewer rows than there are.
ClaimBatch(w, channel, configured) ==
  \E batch \in SUBSET { r \in Rows : Claimable(r, channel) } :
    /\ Cardinality(batch) <= BatchSize
    /\ \A r \in batch : row[r].attempts < MaxAttempts
    /\ Claim(batch)
    /\ worker' = [worker EXCEPT ![w] =
         [Idle EXCEPT !.phase = channel, !.configured = configured,
                      !.batch = { [id |-> r, attempts |-> row[r].attempts] : r \in batch }]]
    /\ UNCHANGED <<admin, delivered>>

StartRun(w) ==
  /\ worker[w].phase = "idle"
  /\ \E configured \in SmsSettings : ClaimBatch(w, "sms", configured)

EndSms(w) ==
  /\ worker[w].phase = "sms" /\ worker[w].batch = {} /\ worker[w].item = None
  /\ worker' = [worker EXCEPT ![w].phase = "between"]
  /\ UNCHANGED <<row, admin, delivered>>

\* Then the emails, if the mail server is configured.
StartEmail(w) ==
  /\ worker[w].phase = "between"
  /\ ClaimBatch(w, "email", TRUE)

EndRun(w) ==
  /\ \/ worker[w].phase = "between"
     \/ worker[w].phase = "email" /\ worker[w].batch = {} /\ worker[w].item = None
  /\ worker' = [worker EXCEPT ![w] = Idle]
  /\ UNCHANGED <<row, admin, delivered>>

SendKept(w) ==
  /\ worker[w].phase \in Channel /\ worker[w].item = None
  /\ \E c \in worker[w].batch, outcome \in {"accepted", "failed"}, n \in {0, 1} :
       /\ worker[w].configured \/ (outcome = "failed" /\ n = 0)
       /\ outcome = "accepted" => n = 1
       /\ worker' = [worker EXCEPT ![w].item = c, ![w].outcome = outcome]
       /\ delivered' = [delivered EXCEPT ![c.id] = @ + n]
  /\ UNCHANGED <<row, admin>>

\* Rendering the next message and handing it over: accepted, refused, or
\* accepted although an error was reported. Nothing is sent when text messages
\* are not configured.
Send(w) ==
  /\ worker[w].phase \in Channel /\ worker[w].item = None
  /\ \E c \in worker[w].batch, outcome \in {"accepted", "failed"}, n \in {0, 1} :
       /\ worker[w].configured \/ (outcome = "failed" /\ n = 0)
       /\ outcome = "accepted" => n = 1
       /\ worker' = [worker EXCEPT ![w].batch = @ \ {c}, ![w].item = c, ![w].outcome = outcome]
       /\ delivered' = [delivered EXCEPT ![c.id] = @ + n]
  /\ UNCHANGED <<row, admin>>

\* The worker has written what became of its item.
Settle(w, columns) ==
  /\ row' = [row EXCEPT ![worker[w].item.id] = columns]
  /\ worker' = [worker EXCEPT ![w].item = None]
  /\ UNCHANGED <<admin, delivered>>

MarkSent(w) ==
  /\ worker[w].item # None /\ worker[w].outcome = "accepted"
  /\ Settle(w, [row[worker[w].item.id] EXCEPT !.status = "sent"])

\* markSent throws inside the try: the sent message is treated as a failed one.
MarkSentThrows(w) ==
  /\ worker[w].item # None /\ worker[w].outcome = "accepted"
  /\ worker' = [worker EXCEPT ![w].outcome = "failed"]
  /\ UNCHANGED <<row, admin, delivered>>

FallsBack(w) ==
  /\ worker[w].phase = "sms" /\ worker[w].item.id \in WithEmail
  /\ worker[w].configured => worker[w].item.attempts >= 2

FallBackToEmail(w) ==
  /\ worker[w].item # None /\ worker[w].outcome = "failed" /\ FallsBack(w)
  /\ Settle(w, [row[worker[w].item.id] EXCEPT
                  !.channel = "email", !.status = "pending", !.due = TRUE])

MarkFailedKeepsStatus(w) ==
  /\ worker[w].item # None /\ worker[w].outcome = "failed" /\ ~ FallsBack(w)
  /\ Settle(w, [row[worker[w].item.id] EXCEPT !.due = FALSE])

\* markFailed puts the row off by 5 minutes for every attempt.
MarkFailed(w) ==
  /\ worker[w].item # None /\ worker[w].outcome = "failed" /\ ~ FallsBack(w)
  /\ Settle(w, [row[worker[w].item.id] EXCEPT !.status = "failed", !.due = FALSE])

\* The process stops, or a statement outside a try throws. Nobody releases what
\* it holds.
Crash(w) ==
  /\ w \in Mortal /\ worker[w].phase # "idle"
  /\ worker' = [worker EXCEPT ![w] = Idle]
  /\ UNCHANGED <<row, admin, delivered>>

BecomeDue(r) ==
  /\ ~ row[r].due
  /\ row' = [row EXCEPT ![r].due = TRUE]
  /\ UNCHANGED <<worker, admin, delivered>>

\* manageNotification reads the row and checks that the action is allowed ...
ManageRead(a, r, action) ==
  /\ admin[a] = None
  /\ row[r].status \in (IF action = "retry" THEN {"failed", "cancelled"}
                                            ELSE {"pending", "processing", "failed"})
  /\ admin' = [admin EXCEPT ![a] = [id |-> r, action |-> action]]
  /\ UNCHANGED <<row, worker, delivered>>

\* ... and then updates it by its id alone.
ManageWrite(a) ==
  /\ admin[a] # None
  /\ row' = [row EXCEPT ![admin[a].id] =
       IF admin[a].action = "retry" THEN [@ EXCEPT !.status = "pending", !.due = TRUE]
                                    ELSE [@ EXCEPT !.status = "cancelled"]]
  /\ admin' = [admin EXCEPT ![a] = None]
  /\ UNCHANGED <<worker, delivered>>

---------------------------------------------------------------------------
Progress(w) ==
  \/ Send(w) \/ MarkSent(w) \/ MarkSentThrows(w) \/ FallBackToEmail(w) \/ MarkFailed(w)

Next ==
  \/ \E w \in Workers : \/ StartRun(w) \/ EndSms(w) \/ StartEmail(w) \/ EndRun(w)
                        \/ Progress(w) \/ Crash(w)
  \/ \E r \in Rows : BecomeDue(r)
  \/ \E a \in Admins : \/ \E r \in Managed : ManageRead(a, r, "retry") \/ ManageRead(a, r, "cancel")
                       \/ ManageWrite(a)

\* A run that has claimed a batch works it off. Whether another run is started, and
\* what the providers answer, is not up to this code.
Fairness == \A w \in Workers : WF_vars(Progress(w))

Spec == Init /\ [][Next]_vars /\ Fairness

---------------------------------------------------------------------------
TypeOK ==
  /\ row \in [Rows -> Row]
  /\ worker \in [Workers -> Worker]
  /\ admin \in [Admins -> [id : Rows, action : {"retry", "cancel"}] \union {None}]
  /\ delivered \in [Rows -> Nat]

\* A message is handed over at most once for each attempt that is counted, those
\* lost in a crash included: the counter never runs behind what the customer got.
AttemptsCountDeliveries ==
  \A r \in Rows :
    delivered[r] + Cardinality({ w \in Workers : \E c \in worker[w].batch : c.id = r })
      <= row[r].attempts

\* What the list of notifications shows as sent has been accepted by a provider.
SentWasDelivered == \A r \in Rows : row[r].status = "sent" => delivered[r] > 0

\* A text message becomes an email only from its third attempt on, unless text
\* messages are not configured, and then it is sent again as an email.
FallbackIsLate ==
  [][\A r \in Rows : row[r].channel = "sms" /\ row'[r].channel = "email" =>
       /\ row'[r].status = "pending"
       /\ \/ row[r].attempts >= 3
          \/ \E w \in Workers : ~ worker[w].configured /\ r \in Held(w)]_vars

\* However many runs overlap or stop, no two hold one notification with which no
\* administrator interferes, and what a run holds is marked as processing.
HeldByOneRun ==
  \A w \in Workers : \A r \in Held(w) \ Managed :
    /\ row[r].status = "processing"
    /\ \A v \in Workers : r \in Held(v) => v = w

\* What runs hold and have sent is accounted for in the rows, which is all that a later
\* run or an administrator sees (claimBatch, markSent).
DeliveriesAccounted == AttemptsCountDeliveries /\ SentWasDelivered /\ HeldByOneRun

\* A sent notification is not sent again, unless an administrator interferes.
NotSentAgain ==
  [][\A r \in Rows \ Managed : row[r].status = "sent" => delivered'[r] = delivered[r]]_vars

\* A message is sent again only as a retry of one not sent, on its own channel until
\* that has failed often enough (processSmsNotifications, fallBackSmsToEmail).
SendingStands == NotSentAgain /\ FallbackIsLate

\* A run that does not stop settles every notification that it has claimed, whatever
\* happens to the runs beside it.
BatchWorkedOff ==
  \A w \in Workers \ Mortal : \A r \in Rows :
    (r \in Held(w)) ~> (r \notin Held(w) /\ row[r].status # "processing")

\* admin-notification.service.ts:13 answers "Notification is already final." for a
\* notification that is sent: it is not cancelled, nor sent again.
SentIsFinal == [][\A r \in Rows : row[r].status = "sent" => row'[r].status = "sent"]_vars
=============================================================================
