-------------------------- MODULE MCSerialService ---------------------------
(* One event, one verified item and the one field it needs: the smallest    *)
(* consultation that has a question, a verdict, a review and every end.     *)
EXTENDS SerialService
MCEvents == {"spouse_death"}
MCItems == {"survivor_pension"}
MCBaseItems == [e \in MCEvents |-> MCItems]
MCProgramStatus == [i \in MCItems |-> "verified"]
MCFields == {"insurance"}
MCUsedBy == [f \in MCFields |-> MCItems]
MCAskOrder == [f \in MCFields |-> 1]
MCValues == {"labor"}
MCLegal == [f \in MCFields |-> MCValues]
MCLocalOf == [v \in MCValues |-> {}]
MCRelevantWhen == [i \in MCItems |-> {}]
=============================================================================
