-------------------------- MODULE CustomerAccounts --------------------------
(***************************************************************************)
(* One customer: registered in the portal or entered by the office, with   *)
(* consent to text messages given and withdrawn in the portal and by       *)
(* messages that the gateway may deliver again, sessions of the portal,    *)
(* and edits of the office that write back the columns they read.          *)
(***************************************************************************)
EXTENDS Integers

CONSTANTS
  Sessions, Messages, Requests,
  MaxPasswords,  \* bound: passwords ever set
  None

VARIABLES
  customer,   \* customers: status, consent, its source, the preferred channel
  account,    \* customer_portal_accounts.password_hash, by number, 0 without account
  session,    \* customer_portal_sessions, with the history of the password they stand on
  inbound,    \* inbound_sms_events: what each message of the gateway did
  doing,      \* requests under way
  word,       \* history: the customer's last word about text messages
  crossed     \* history: whether the consent changed under an update of the profile

vars == <<customer, account, session, inbound, doing, word, crossed>>

NoCustomer == [status |-> None, consent |-> FALSE, source |-> None, preferred |-> None]
NoSession == [live |-> FALSE, on |-> None, late |-> FALSE]
Idle == [kind |-> "idle", data |-> None, seen |-> None]

Init ==
  /\ customer = NoCustomer /\ account = 0
  /\ session = [s \in Sessions |-> NoSession]
  /\ inbound = [m \in Messages |-> None]
  /\ doing = [r \in Requests |-> Idle]
  /\ word = FALSE /\ crossed = FALSE

Begin(r, kind, data, seen) ==
  doing[r] = Idle /\ doing' = [doing EXCEPT ![r] = [kind |-> kind, data |-> data, seen |-> seen]]
End(r) == doing' = [doing EXCEPT ![r] = Idle]

RequestFails(r) ==
  /\ doing[r] # Idle
  /\ End(r) /\ UNCHANGED <<customer, account, session, inbound, word, crossed>>

---------------------------------------------------------------------------
(* Records and sessions.                                                    *)

InsertSession(s, on, late) ==
  /\ ~session[s].live /\ \A r \in Requests : doing[r].data # s
  /\ session' = [session EXCEPT ![s] = [live |-> TRUE, on |-> on, late |-> late]]

\* registerCustomerAccount: customer, account and first session in one transaction
Register(s, consent) ==
  /\ customer.status = None
  /\ customer' = [status |-> "active", consent |-> consent,
                  source |-> IF consent THEN "customer_registration" ELSE None,
                  preferred |-> IF consent THEN "text" ELSE "email"]
  /\ account' = 1 /\ InsertSession(s, 1, FALSE)
  /\ word' = consent
  /\ UNCHANGED <<inbound, doing, crossed>>

\* The columns that an insertion of the office leaves to their defaults: no consent, and
\* texts preferred.
Entered(status) == [status |-> status, consent |-> FALSE, source |-> None, preferred |-> "text"]

\* createCustomer
EnterCustomer(status) ==
  /\ customer.status = None
  /\ customer' = Entered(status)
  /\ UNCHANGED <<account, session, inbound, doing, word, crossed>>

\* convertContactToCustomer, under the lock of the contact: a second conversion
\* returns the customer of the first.
ConvertContact ==
  /\ customer' = IF customer.status = None THEN Entered("active") ELSE customer
  /\ UNCHANGED <<account, session, inbound, doing, word, crossed>>

\* updateCustomer, its read, with the status it was given or has read ...
EditRead(r, status) ==
  /\ customer.status # None
  /\ Begin(r, "edit", status, None)
  /\ UNCHANGED <<customer, account, session, inbound, word, crossed>>

\* ... and the write of every column, which are not those of the consent.
EditWrite(r) ==
  /\ doing[r].kind = "edit"
  /\ customer' = [customer EXCEPT !.status = doing[r].data]
  /\ End(r) /\ UNCHANGED <<account, session, inbound, word, crossed>>

\* authenticateCustomerSessionToken
Authenticated(s) == session[s].live /\ customer.status = "active"

\* loginCustomerAccount, up to the check of the password, and its session
LoginCheck(r) ==
  /\ account # 0 /\ customer.status = "active"
  /\ Begin(r, "login", None, account)
  /\ UNCHANGED <<customer, account, session, inbound, word, crossed>>

LoginInsert(r, s) ==
  /\ doing[r].kind = "login"
  /\ InsertSession(s, doing[r].seen, doing[r].seen # account)
  /\ End(r) /\ UNCHANGED <<customer, account, inbound, word, crossed>>

\* revokeCustomerSession, or its time is over
EndSession(s) ==
  /\ session[s].live
  /\ session' = [session EXCEPT ![s] = NoSession]
  /\ UNCHANGED <<customer, account, inbound, doing, word, crossed>>

\* changeCustomerPassword, up to the check of the current one ...
ChangeCheck(r, s) ==
  /\ Authenticated(s)
  /\ Begin(r, "change", s, account)
  /\ UNCHANGED <<customer, account, session, inbound, word, crossed>>

\* ... and its transaction, which spares the session it came through.
ChangeWrite(r) ==
  /\ doing[r].kind = "change" /\ account < MaxPasswords
  /\ account' = account + 1
  /\ session' = [s \in Sessions |->
       IF s = doing[r].data /\ session[s].live THEN [session[s] EXCEPT !.on = account'] ELSE NoSession]
  /\ End(r) /\ UNCHANGED <<customer, inbound, word, crossed>>

---------------------------------------------------------------------------
(* Text messages.                                                           *)

Inputs == [preferred : {None, "text"}, consent : {None, TRUE, FALSE}]

\* updateCustomerProfile reads the profile ...
ProfileRead(r, s, input) ==
  /\ Authenticated(s)
  /\ input.preferred = "text" => input.consent # FALSE /\ (input.consent = TRUE \/ customer.consent)
  /\ Begin(r, "profile", input, [consent |-> customer.consent, preferred |-> customer.preferred])
  /\ UNCHANGED <<customer, account, session, inbound, word, crossed>>

\* An explicit withdrawal takes the preference for texts with it.
Preferred(input, seen) ==
  IF input.consent = FALSE /\ input.preferred = None /\ seen.preferred = "text"
  THEN "email" ELSE input.preferred

\* ... and writes what was given.
ProfileWrite(r) ==
  /\ doing[r].kind = "profile"
  /\ LET input == doing[r].data
         seen == doing[r].seen
         given == input.consent # None
         preferred == Preferred(input, seen)
     IN  /\ customer' = IF customer.status # "active" THEN customer ELSE
              [customer EXCEPT
                 !.preferred = IF preferred = None THEN @ ELSE preferred,
                 !.consent = IF given THEN input.consent ELSE @,
                 !.source = IF input.consent = TRUE /\ ~customer.consent THEN "customer_profile"
                            ELSE IF input.consent = FALSE THEN None ELSE @]
         /\ word' = IF given /\ customer.status = "active" THEN input.consent ELSE word
         /\ crossed' = (crossed \/ seen.consent # customer.consent \/ seen.preferred # customer.preferred)
  /\ End(r) /\ UNCHANGED <<account, session, inbound>>

\* classifyInboundMessage, of the messages that are obeyed: HELP and others are
\* only answered.
Words == {"stop", "start"}

\* processInboundSms, which finds active customers only
Says(m, what) ==
  /\ customer' = [customer EXCEPT !.consent = (what = "start"),
                                  !.source = IF what = "start" THEN "textbee-start" ELSE "textbee-stop"]
  /\ word' = IF inbound[m] # None THEN word ELSE what = "start"

ReceiveAgain(m, what) ==
  /\ customer.status = "active" /\ inbound[m] \in {None, what}
  /\ inbound' = [inbound EXCEPT ![m] = what]
  /\ Says(m, what)
  /\ UNCHANGED <<account, session, doing, crossed>>

\* A message is recorded and obeyed in one transaction, and once.
Receive(m, what) ==
  /\ customer.status = "active" /\ inbound[m] = None
  /\ inbound' = [inbound EXCEPT ![m] = what]
  /\ Says(m, what)
  /\ UNCHANGED <<account, session, doing, crossed>>

Next ==
  \/ \E status \in {"active", "inactive"} : EnterCustomer(status)
  \/ ConvertContact
  \/ \E s \in Sessions :
       \/ \E consent \in BOOLEAN : Register(s, consent)
       \/ EndSession(s)
  \/ \E m \in Messages : \E what \in Words : Receive(m, what)
  \/ \E r \in Requests :
       \/ \E status \in {"active", "inactive"} : EditRead(r, status)
       \/ EditWrite(r) \/ LoginCheck(r) \/ ChangeWrite(r) \/ ProfileWrite(r) \/ RequestFails(r)
       \/ \E s \in Sessions :
            \/ LoginInsert(r, s) \/ ChangeCheck(r, s)
            \/ \E input \in Inputs : ProfileRead(r, s, input)

Spec == Init /\ [][Next]_vars

---------------------------------------------------------------------------
(* Properties.                                                              *)

\* Who prefers texts has consented to them, or has said STOP since, which leaves the
\* preference, or has no account and said nothing, so that the preference is the
\* default of a customer the office entered - unless a profile was written that was
\* read before the change of another (updateCustomerProfile, createCustomer).
TextHasConsent ==
  customer.preferred = "text" /\ ~customer.consent =>
    \/ customer.source = "textbee-stop"
    \/ customer.source = None /\ account = 0
    \/ crossed

\* The consent is the customer's last word, whichever way it came; no message counts
\* again when it is delivered again (updateCustomerProfile, processInboundSms), nor
\* does an edit of the office bring back a consent it has read.
ConsentIsLastWord == customer.consent = word

\* A live session stands on the current password, or its login overlapped the change
\* (loginCustomerAccount, changeCustomerPassword).
OldPasswordsEnd ==
  \A s \in Sessions : session[s].live => session[s].on = account \/ session[s].late
=============================================================================
