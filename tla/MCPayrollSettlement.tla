------------------------ MODULE MCPayrollSettlement ------------------------
(***************************************************************************)
(* Small instances of PayrollSettlement for TLC, and of PayrollFilings     *)
(* beside it, one of them at a time: a return is of any checks.            *)
(***************************************************************************)
EXTENDS PayrollSettlement, TLC

CONSTANTS Grosses, Verified, Months, LastMonth, SsBase, Threshold, MaxActivity

VARIABLES part, check, paid, activity, packet, month

\* The names of the registers serve for checks and those of the adjustments for people,
\* so that TLC permutes no more names than before.
Returns == INSTANCE PayrollFilings
             WITH Paydays <- Months, Checks <- Runs, People <- Adjustments

\* Wages, and the bounds of what is taxed, are in cents.
ASSUME ReturnsAssumption ==
  /\ Grosses \subseteq Nat /\ Verified \subseteq Nat \X Nat
  /\ SsBase \in Nat /\ Threshold \in Nat /\ IsFiniteSet(Runs)

returns == <<check, paid, activity, packet, month>>

Symmetric == Permutations(Runs) \union Permutations(Adjustments)

\* The wages of two checks in a row, and of one that leaves a gap or the taxed wages out
VerifiedWages == {<<0, 0>>, <<101, 101>>, <<0, 101>>, <<150, 200>>}

PayrollInit == Init /\ Returns!Init /\ part \in {"settlement", "returns"}

PayrollNext ==
  \/ part = "settlement" /\ Next /\ UNCHANGED <<part, returns>>
  \/ part = "returns" /\ Returns!Next /\ UNCHANGED <<part, vars>>

PayrollSpec == PayrollInit /\ [][PayrollNext]_<<part, vars, returns>>

\* A return is handed out for what was paid in its quarter (download941).
ReturnsStand == Returns!ReturnsStand
=============================================================================
