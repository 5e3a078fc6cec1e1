-------------------------- MODULE CustomerAddresses --------------------------
(***************************************************************************)
(* The addresses of one customer, of which one of each type is primary. The *)
(* office edits an address from what it read before its transaction; the    *)
(* portal locks the row. Row locks and the unique index on active primary   *)
(* addresses make the transactions come one after another or fail.          *)
(***************************************************************************)
EXTENDS Integers

CONSTANTS Addresses, Edits, None

VARIABLES
  address,   \* customer_addresses
  edit       \* requests of the office under way: the row they read and what they were given

vars == <<address, edit>>

Types == {"service", "billing"}
NoAddress == [type |-> None, primary |-> FALSE, active |-> FALSE]
IsPrimary(row) == row.primary /\ row.active

Init ==
  /\ address = [a \in Addresses |-> NoAddress]
  /\ edit = [e \in Edits |-> None]

\* The statement that precedes the write of a primary address.
Cleared(a, row) ==
  [b \in Addresses |->
     IF IsPrimary(row) /\ b # a /\ address[b].active /\ address[b].type = row.type
     THEN [address[b] EXCEPT !.primary = FALSE] ELSE address[b]]

Write(a, row) == address' = [Cleared(a, row) EXCEPT ![a] = row]

\* createCustomerAddress and, in the portal, createCustomerProperty
Create(a, type, primary) ==
  /\ address[a] = NoAddress
  /\ Write(a, [type |-> type, primary |-> primary, active |-> TRUE])
  /\ UNCHANGED edit

\* updateCustomerAddress reads the row ...
EditRead(e, a, given) ==
  /\ address[a] # NoAddress /\ edit[e] = None
  /\ edit' = [edit EXCEPT ![e] = [of |-> a, row |-> address[a], given |-> given]]
  /\ UNCHANGED address

Given(field, given, row) == IF field \in DOMAIN given THEN given[field] ELSE row[field]

EditedAlways(row, given) ==
  [type |-> Given("type", given, row), primary |-> TRUE, active |-> Given("active", given, row)]

Edited(row, given) ==
  [type |-> Given("type", given, row), primary |-> Given("primary", given, row),
   active |-> Given("active", given, row)]

\* ... and writes it back, its primary mark included.
EditWrite(e) ==
  /\ edit[e] # None
  /\ Write(edit[e].of, Edited(edit[e].row, edit[e].given))
  /\ edit' = [edit EXCEPT ![e] = None]

EditFails(e) ==
  /\ edit[e] # None
  /\ edit' = [edit EXCEPT ![e] = None] /\ UNCHANGED address

\* updateCustomerProperty
UpdateProperty(a, given) ==
  /\ address[a].active /\ address[a].type = "service"
  /\ Write(a, Edited(address[a], given))
  /\ UNCHANGED edit

\* archiveCustomerProperty
ArchiveProperty(a) ==
  /\ address[a].active /\ address[a].type = "service"
  /\ address' = [address EXCEPT ![a].active = FALSE, ![a].primary = FALSE]
  /\ UNCHANGED edit

\* What one update may name.
Inputs ==
  {<<>>} \union [{"primary"} -> BOOLEAN] \union [{"active"} -> BOOLEAN] \union [{"type"} -> Types]

Next ==
  \/ \E a \in Addresses :
       \/ \E type \in Types, primary \in BOOLEAN : Create(a, type, primary)
       \/ \E given \in {<<>>} \union [{"primary"} -> BOOLEAN] : UpdateProperty(a, given)
       \/ ArchiveProperty(a)
       \/ \E e \in Edits, given \in Inputs : EditRead(e, a, given)
  \/ \E e \in Edits : EditWrite(e) \/ EditFails(e)

Spec == Init /\ [][Next]_vars

---------------------------------------------------------------------------
(* Properties.                                                              *)

\* An edit that names neither mark, type nor status of an active address leaves the
\* primary address of the customer where it is, unless the address has changed since
\* the edit read it (updateCustomerAddress).
PrimaryKept ==
  [][\A e \in Edits :
       LET q == edit[e] IN
       /\ q # None /\ edit'[e] = None
       /\ q.given = <<>> /\ q.row.active /\ address[q.of] = q.row
       => \A b \in Addresses : IsPrimary(address[b]) => IsPrimary(address'[b])]_vars
=============================================================================
