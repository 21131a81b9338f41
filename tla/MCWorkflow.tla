----------------------------- MODULE MCWorkflow -----------------------------
(* A funeral consultation, whose list gains a local item with the place; a     *)
(* care consultation, whose list is re-expanded after every answer; and an     *)
(* event without items.                                                       *)
EXTENDS Workflow

MCEvents == {"spouse_death", "job_loss", "occupational_injury"}
MCFuneralEvents == {"spouse_death"}

MCItems == {"death_registration", "survivor_pension", "taipei_joint_funeral",
            "recognition_follow_up", "disability_assessment"}
MCBaseItems ==
  [e \in MCEvents |->
     CASE e = "spouse_death" -> {"death_registration", "survivor_pension"}
       [] e = "occupational_injury" ->
            {"recognition_follow_up", "disability_assessment"}
       [] OTHER -> {}]
MCProgramStatus ==
  [i \in MCItems |->
     CASE i = "survivor_pension" -> "verified"
       [] i = "disability_assessment" -> "rejected"
       [] OTHER -> "candidate"]

MCFields == {"jurisdiction", "cause", "free_text"}
MCRegistered == MCFields \ {"free_text"}
MCUsedBy ==
  [f \in MCFields |->
     CASE f = "jurisdiction" -> {"survivor_pension"}
       [] f = "cause" -> {"survivor_pension", "recognition_follow_up"}
       [] OTHER -> {}]
MCAskOrder == [f \in MCFields |-> IF f = "jurisdiction" THEN 1 ELSE 2]

MCValues == {"TPE", "occupational", "unsure"}
MCLegal ==
  [f \in MCFields |->
     CASE f = "jurisdiction" -> {"TPE", "unsure"}
       [] f = "cause" -> {"occupational", "unsure"}
       [] OTHER -> {}]
MCLocalOf ==
  [v \in MCValues |-> IF v = "TPE" THEN {"taipei_joint_funeral"} ELSE {}]
MCRelevantWhen ==
  [i \in MCItems |->
     IF i = "recognition_follow_up"
     THEN {[field |-> "cause", accepted |-> {"occupational"}]} ELSE {}]
=============================================================================
