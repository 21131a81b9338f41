------------------------------ MODULE MCOnline -------------------------------
(* Four parts around a consultation that share no variable, so that exploring  *)
(* each of them by itself reaches every state of each: a behaviour chooses one  *)
(* part and stays with it.                                                    *)
(*                                                                            *)
(* SessionClient: six requests are enough for a description with its retry and *)
(*   two more inputs.                                                         *)
(* TrackedCases: two tabs, or one of them, and two items of two steps, each     *)
(*   listed under one or two life events.                                     *)
(* RateLimiter: three threads; a tick is about half a second.                  *)
(* RuleEngine: six programmes use every rule field between them; an attribute *)
(*   has one to three answers, on both sides of the boundaries.               *)
EXTENDS SessionClient, TrackedCases, RateLimiter, RuleEngine

VARIABLE part

Others(p) ==
  /\ p # "client" => UNCHANGED clientVars
  /\ p # "tracking" => UNCHANGED trackedVars
  /\ p # "rate" => UNCHANGED rateVars
  /\ p # "rules" => UNCHANGED ruleVars

-----------------------------------------------------------------------------
(* RuleEngine *)

MCValues ==
  [registered_in_city |-> BOOLEAN, remains_type |-> {"ash", "body"},
   deceased_status |-> {"veteran", "other"}, eco_burial_completed |-> BOOLEAN,
   eco_burial_planned |-> {TRUE}, days_since |-> {2, 3},
   current_date |-> {1, 2, 4}, jurisdiction |-> {"tpe"}]

Plain ==
  [jurisdiction |-> "tpe", requires_city_registration |-> FALSE,
   eligible_remains_types |-> {}, eligible_deceased_statuses |-> {},
   fee_reduction_for_unqualified |-> FALSE, eco_burial_required |-> FALSE,
   application_deadline_days |-> NoRule, deadline_starts_from |-> FALSE,
   application_period_start |-> NoRule, application_period_end |-> NoRule,
   amount_conditions |-> <<>>, min_amount |-> NoRule]

Everything ==
  [Plain EXCEPT !.eligible_remains_types = {"ash"},
                !.eligible_deceased_statuses = {"veteran"},
                !.application_deadline_days = 2, !.deadline_starts_from = TRUE,
                !.application_period_start = 2, !.application_period_end = 3,
                !.min_amount = 10]

AnyAmount ==
  [Plain EXCEPT !.amount_conditions = <<[wants |-> [f \in {} |-> ""]]>>]

MCPrograms ==
  {AnyAmount,
   Everything,
   [Everything EXCEPT !.requires_city_registration = NoRule],
   [Everything EXCEPT !.requires_city_registration = TRUE,
                      !.eco_burial_required = TRUE],
   [Everything EXCEPT !.fee_reduction_for_unqualified = TRUE,
                      !.application_period_start = NoRule],
   [Plain EXCEPT !.eligible_deceased_statuses = {"veteran"},
                 !.application_deadline_days = 2,
                 !.application_period_end = 3,
                 !.amount_conditions =
                   <<[wants |-> [remains_type |-> "ash", days_since |-> 2]],
                     [wants |-> [remains_type |-> "body"]]>>]}

-----------------------------------------------------------------------------

\* A part that is not the chosen one starts in one of its initial states.
Init ==
  /\ part \in {"client", "tracking", "rate", "rules"}
  /\ ClientInit /\ TrackedInit /\ RateInit /\ RuleInit
  /\ part # "tracking" => open = Tabs
  /\ part # "rate" => time = 0
  /\ part # "rules" => rules = AnyAmount

\* Only the bound on the clock stops the rate limiter.
ClockStopped == time = LastTick /\ UNCHANGED rateVars

Next ==
  /\ \/ part = "client" /\ ClientNext
     \/ part = "tracking" /\ TrackedNext
     \/ part = "rate" /\ RateNext
     \/ part = "rate" /\ ClockStopped
     \/ part = "rules" /\ RuleNext
  /\ Others(part)
  /\ UNCHANGED part

\* The fairness of FairClientSpec and AskedSpec, each for its own part.
Spec ==
  /\ Init
  /\ [][Next]_<<clientVars, trackedVars, rateVars, ruleVars, part>>
  /\ WF_clientVars(part = "client" /\ Resume)
  /\ \A n \in Numbers : WF_clientVars(part = "client" /\ Serve(n))
  /\ WF_ruleVars(part = "rules" /\ AnswerMissing)

\* What the parts keep has its shape; among other things, two tabs together take
\* no item past the last step of its flow (TrackedTypeOK).
TypeOK == ClientTypeOK /\ TrackedTypeOK /\ RateTypeOK
=============================================================================
