------------------------- MODULE MCWorkflowPatient -------------------------
(* A small bereavement consultation for the liveness run: one verified     *)
(* national item and one local item that asks for nothing.                 *)
EXTENDS Workflow
MCEvents == {"spouse_death"}
MCItems == {"survivor_pension", "taipei_joint_funeral"}
MCBaseItems == [e \in MCEvents |-> {"survivor_pension"}]
MCProgramStatus ==
  [i \in MCItems |-> IF i = "survivor_pension" THEN "verified" ELSE "candidate"]
MCFields == {"jurisdiction", "insurance"}
MCUsedBy == [f \in MCFields |-> {"survivor_pension"}]
MCAskOrder == [f \in MCFields |-> IF f = "jurisdiction" THEN 1 ELSE 2]
MCValues == {"TPE", "unsure"}
MCLegal ==
  [f \in MCFields |-> IF f = "jurisdiction" THEN MCValues ELSE {"unsure"}]
MCLocalOf ==
  [v \in MCValues |-> IF v = "TPE" THEN {"taipei_joint_funeral"} ELSE {}]
MCRelevantWhen == [i \in MCItems |-> {}]
=============================================================================
