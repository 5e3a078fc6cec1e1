-------------------------- MODULE PayrollRegisters --------------------------
(***************************************************************************)
(* What the payroll registers of a business unit promise to those who      *)
(* settle them: a register covers a period, and no other register covers a *)
(* week of it for as long as it is not void. PayrollRuns implements this,  *)
(* PayrollSettlement relies on it.                                         *)
(***************************************************************************)
CONSTANTS
  Runs,    \* payroll registers
  Periods  \* the sets of weeks that a register may cover

VARIABLE register  \* payroll_runs: status and period of each

Init == register = [r \in Runs |-> [status |-> "absent", period |-> {}]]

Live(r) == register[r].status \in {"draft", "approved", "posted"}

Covered(p) == \E r \in Runs : Live(r) /\ register[r].period \cap p # {}

Prepare(r, p) ==
  /\ register[r].status = "absent" /\ ~ Covered(p)
  /\ register' = [register EXCEPT ![r] = [status |-> "draft", period |-> p]]

Move(r, from, to) ==
  /\ register[r].status \in from
  /\ register' = [register EXCEPT ![r].status = to]

Approve(r) == Move(r, {"draft"}, "approved")
Post(r) == Move(r, {"approved"}, "posted")
Void(r) == Move(r, {"draft", "approved"}, "void")

Next == \E r \in Runs : (\E p \in Periods : Prepare(r, p)) \/ Approve(r) \/ Post(r) \/ Void(r)

Spec == Init /\ [][Next]_register

---------------------------------------------------------------------------
TypeOK ==
  register \in [Runs -> [status : {"absent", "draft", "approved", "posted", "void"},
                         period : Periods \union {{}}]]

Disjoint ==
  \A r, s \in Runs : (r # s /\ Live(r) /\ Live(s)) => register[r].period \cap register[s].period = {}
=============================================================================
