----------------------------- MODULE Credentials -----------------------------
(***************************************************************************)
(* The password, the sessions and the reset tokens of one user. A password *)
(* is checked before the transaction that acts on it, so that a login or a *)
(* change may outlive the password it gave. A password is known by its     *)
(* number: a user of an invitation has none, 0, until a token sets one.    *)
(***************************************************************************)
EXTENDS Integers, FiniteSets

CONSTANTS
  Sessions, Tokens, Requests,
  MaxPasswords,    \* bound: passwords ever set
  None

VARIABLES
  status,      \* users.status
  password,    \* users.password_hash
  session,     \* user_sessions: state, and as history the password it stands on and
               \* whether that was replaced, unseen, before the session was inserted
  token,       \* password_reset_tokens, and as history the password it was asked under
               \* and whether a password or another live token came between its steps
  access       \* requests under way

vars == <<status, password, session, token, access>>

NoSession == [state |-> "absent", on |-> None, late |-> FALSE]
NoToken == [state |-> "absent", on |-> None, late |-> FALSE]
Idle == [kind |-> "idle", session |-> None, token |-> None, checked |-> None]

Init ==
  /\ status = "active"
  /\ password \in {0, 1}
  /\ session = [s \in Sessions |-> NoSession]
  /\ token = [t \in Tokens |-> NoToken]
  /\ access = [r \in Requests |-> Idle]

Unused(s) == session[s].state = "absent" /\ \A r \in Requests : access[r].session # s

\* authenticateSessionToken
Authenticated(s) == session[s].state = "live" /\ status = "active"

Revoked(which) ==
  [s \in Sessions |-> IF s \in which /\ session[s].state = "live"
                      THEN [session[s] EXCEPT !.state = "revoked"] ELSE session[s]]

Consumed(which) ==
  [t \in Tokens |-> IF t \in which /\ token[t].state = "live"
                    THEN [token[t] EXCEPT !.state = "consumed"] ELSE token[t]]

Begin(r, kind, s, t) ==
  /\ access[r] = Idle
  /\ access' = [access EXCEPT ![r] =
       [kind |-> kind, session |-> s, token |-> t, checked |-> password]]

End(r) == access' = [access EXCEPT ![r] = Idle]

\* Whether the password has changed since r checked it.
Late(r) == access[r].checked # password

---------------------------------------------------------------------------
(* Sessions.                                                                *)

\* createSession, up to the check of the password
LoginCheck(r, s) ==
  /\ Unused(s) /\ status = "active" /\ password # 0
  /\ Begin(r, "login", s, None)
  /\ UNCHANGED <<status, password, session, token>>

LoginInsert(r) ==
  /\ access[r].kind = "login"
  /\ session' = [session EXCEPT ![access[r].session] = [state |-> "live", on |-> access[r].checked, late |-> Late(r)]]
  /\ End(r) /\ UNCHANGED <<status, password, token>>

\* revokeSession and revokeOwnSession
Logout(s, other) ==
  /\ Authenticated(s)
  /\ session' = Revoked({other})
  /\ UNCHANGED <<status, password, token, access>>

RevokeOtherSessions(s) ==
  /\ Authenticated(s)
  /\ session' = Revoked(Sessions \ {s})
  /\ UNCHANGED <<status, password, token, access>>

\* What is revoked or expired is deleted in the end.
CleanupSessions ==
  /\ session' = [s \in Sessions |-> IF session[s].state = "revoked" THEN NoSession ELSE session[s]]
  /\ token' = [t \in Tokens |-> IF token[t].state = "consumed" THEN NoToken ELSE token[t]]
  /\ UNCHANGED <<status, password, access>>

Expire(s) ==
  /\ session' = Revoked({s})
  /\ UNCHANGED <<status, password, token, access>>

ExpireToken(t) ==
  /\ token' = Consumed({t})
  /\ UNCHANGED <<status, password, session, access>>

\* The update of a user by an administrator, who can enable what is disabled.
SetStatus(new) ==
  /\ status' = new
  /\ UNCHANGED <<password, session, token, access>>

---------------------------------------------------------------------------
(* Passwords.                                                               *)

\* changePassword, up to the check of the current password
ChangeCheck(r, s) ==
  /\ Authenticated(s) /\ password # 0
  /\ Begin(r, "change", s, None)
  /\ UNCHANGED <<status, password, session, token>>

ChangeWriteKeepingTokens(r) ==
  /\ access[r].kind = "change" /\ password < MaxPasswords
  /\ password' = password + 1
  /\ LET kept == access[r].session
         others == Revoked(Sessions \ {kept})
     IN  session' = [others EXCEPT ![kept].on = IF @ = None THEN None ELSE password']
  /\ End(r) /\ UNCHANGED <<status, token>>

\* ... its transaction, which spares the session it came through
ChangeWrite(r) ==
  /\ access[r].kind = "change" /\ password < MaxPasswords
  /\ password' = password + 1
  /\ LET kept == access[r].session
         others == Revoked(Sessions \ {kept})
     IN  session' = [others EXCEPT ![kept].on = IF @ = None THEN None ELSE password']
  /\ token' = Consumed(Tokens)
  /\ End(r) /\ UNCHANGED status

\* requestPasswordReset: its update does not see the token that another request
\* inserts before it commits ...
ResetConsume(r, t) ==
  /\ status = "active" /\ token[t].state = "absent" /\ \A q \in Requests : access[q].token # t
  /\ Begin(r, "mail", None, t)
  /\ token' = Consumed(Tokens)
  /\ UNCHANGED <<status, password, session>>

ResetInsert(r) ==
  /\ access[r].kind = "mail"
  /\ LET live == {t \in Tokens : token[t].state = "live"} IN
       token' = [t \in Tokens |->
         IF t = access[r].token
           THEN [state |-> "live", on |-> access[r].checked, late |-> Late(r) \/ live # {}]
           ELSE [token[t] EXCEPT !.late = @ \/ t \in live]]
  /\ End(r) /\ UNCHANGED <<status, password, session>>

\* ... or is undone.
RequestFails(r) ==
  /\ access[r] # Idle
  /\ End(r) /\ UNCHANGED <<status, password, session, token>>

\* A disabled user uses the token up and keeps the password.
ResetPassword(t) ==
  /\ token[t].state = "live" /\ password < MaxPasswords
  /\ password' = IF status = "active" THEN password + 1 ELSE password
  /\ token' = Consumed({t})
  /\ session' = Revoked(Sessions)
  /\ UNCHANGED <<status, access>>

Next ==
  \/ CleanupSessions
  \/ \E new \in {"active", "disabled"} : SetStatus(new)
  \/ \E s \in Sessions :
       \/ RevokeOtherSessions(s)
       \/ Expire(s)
       \/ \E other \in Sessions : Logout(s, other)
  \/ \E t \in Tokens : ExpireToken(t) \/ ResetPassword(t)
  \/ \E r \in Requests :
       \/ \E s \in Sessions : LoginCheck(r, s) \/ ChangeCheck(r, s)
       \/ \E t \in Tokens : ResetConsume(r, t)
       \/ LoginInsert(r) \/ ChangeWrite(r) \/ ResetInsert(r) \/ RequestFails(r)

Spec == Init /\ [][Next]_vars

---------------------------------------------------------------------------
(* Properties.                                                              *)

\* A password that is no more opens nothing: every live session stands on the
\* current one, by its login or by the change made through it, and of the mailed
\* tokens at most one is live, asked for since the password was set. What was
\* inserted after a change its check did not see, or among other requests for a
\* token, outlives that one, and ends with the next (createSession, changePassword,
\* requestPasswordReset, resetPassword).
OldSecretsDie ==
  /\ \A s \in Sessions : session[s].state = "live" => session[s].on = password \/ session[s].late
  /\ \A t \in Tokens : token[t].state = "live" => token[t].on = password \/ token[t].late
  /\ Cardinality({t \in Tokens : token[t].state = "live" /\ ~token[t].late}) <= 1
=============================================================================
