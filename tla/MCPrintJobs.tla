---------------------------- MODULE MCPrintJobs ----------------------------
(* Instances of PrintJobs for TLC. *)
EXTENDS PrintJobs, TLC

CONSTANTS a1, a2, x1, x2, t1, t2

OneTenant == [i \in Agents \cup Assets |-> t1]
TwoTenants == (a1 :> t1) @@ (a2 :> t2) @@ (x1 :> t1) @@ (x2 :> t2)
HandlerSymmetry == Permutations(Handlers)
=============================================================================
