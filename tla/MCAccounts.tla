----------------------------- MODULE MCAccounts -----------------------------
(***************************************************************************)
(* Who may come in and what they may do: users of the administration,      *)
(* their passwords and sessions, the limits of attempts, and the customers *)
(* with their accounts and addresses, one part at a time. They share no    *)
(* table that two of them write but the status of a user, which the        *)
(* credentials take as it comes.                                           *)
(***************************************************************************)
EXTENDS AdminUsers

CONSTANTS Sessions, Tokens, Requests, MaxPasswords, Entity,
          Messages, Addresses, Edits, Attempts, Limit, MaxWindows

VARIABLES part, status, password, session, token, access,
          customer, account, visit, inbound, doing, word, crossed,
          address, edit, counter, attempt, window, spared

Credential == INSTANCE Credentials
Customer == INSTANCE CustomerAccounts WITH session <- visit
Places == INSTANCE CustomerAddresses
Limits == INSTANCE RateLimits

credentials == <<status, password, session, token, access>>
clients == <<customer, account, visit, inbound, doing, word, crossed>>
places == <<address, edit>>
limits == <<counter, attempt, window, spared>>
accounts == <<part, vars, credentials, clients, places, limits>>

\* Every unit belongs to the one entity that has any.
EntityOfUnits == [m \in Units |-> Entity]

AccountsInit ==
  /\ part \in {"credentials", "admin", "customers", "addresses", "limits"}
  /\ Init /\ Credential!Init /\ Customer!Init /\ Places!Init /\ Limits!Init
  /\ password = 1 \/ part = "credentials"

AccountsNext ==
  \/ part = "admin" /\ Next /\ UNCHANGED <<part, credentials, clients, places, limits>>
  \/ part = "credentials" /\ Credential!Next /\ UNCHANGED <<part, vars, clients, places, limits>>
  \/ part = "customers" /\ Customer!Next /\ UNCHANGED <<part, vars, credentials, places, limits>>
  \/ part = "addresses" /\ Places!Next /\ UNCHANGED <<part, vars, credentials, clients, limits>>
  \/ part = "limits" /\ Limits!Next /\ UNCHANGED <<part, vars, credentials, clients, places>>

AccountsSpec == AccountsInit /\ [][AccountsNext]_accounts

\* The null is no value a column has; attempts are finitely many, and limited.
ASSUME AccountsAssumption ==
  /\ None \notin Int \union BOOLEAN \union {"text", "email", "active", "inactive"}
  /\ None \notin [hits : Nat, over : BOOLEAN]
  /\ IsFiniteSet(Attempts) /\ Limit \in Nat

\* Who prefers texts has consented, or said STOP since, or was never asked, and the
\* consent is the last word, whichever way it came (updateCustomerProfile,
\* createCustomer, processInboundSms).
Consented == Customer!TextHasConsent /\ Customer!ConsentIsLastWord

\* Old passwords open nothing, of users or of customers (changePassword,
\* resetPassword, changeCustomerPassword).
OldPasswordsEnd == Credential!OldSecretsDie /\ Customer!OldPasswordsEnd

\* An unrelated edit leaves the primary address (updateCustomerAddress).
PrimaryKept == Places!PrimaryKept

\* A window admits as many failures as its limit (PostgresRateLimitStore).
FailuresBounded == Limits!FailuresBounded
=============================================================================
