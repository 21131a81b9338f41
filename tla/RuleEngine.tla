------------------------------ MODULE RuleEngine ------------------------------
(***************************************************************************)
(* The generic eligibility engine (rules/engine.py) in use: a person answers   *)
(* one question after another, time passes, and after each step the engine     *)
(* judges a programme from its structured fields.  Reasons, labels and the     *)
(* sources of a result are left out; a date is a number.                      *)
(***************************************************************************)
EXTENDS Integers, Sequences

CONSTANTS
  Programs,  \* the sets of rule fields the engine is run on
  Values,    \* [attributes -> the answers they may get]
  Unknown,   \* an attribute that is not in user_attrs
  NoRule     \* a rule field the programme does not have

Attributes == DOMAIN Values

\* What the engine reads is among the attributes, and an amount condition asks
\* for values, not for their absence.
ASSUME EngineAssumption ==
  /\ \A f \in Attributes : Unknown \notin Values[f]
  /\ {"registered_in_city", "remains_type", "deceased_status",
      "eco_burial_completed", "days_since", "current_date"} \subseteq Attributes
  /\ \A p \in Programs : \A i \in DOMAIN p.amount_conditions :
       LET wants == p.amount_conditions[i].wants
       IN  DOMAIN wants \subseteq Attributes
           /\ \A f \in DOMAIN wants : wants[f] # Unknown

VARIABLES rules, attrs
ruleVars == <<rules, attrs>>

RuleInit == rules \in Programs /\ attrs = [f \in Attributes |-> Unknown]

Known(f) == attrs[f] # Unknown

-----------------------------------------------------------------------------
(* evaluate_program.                                                       *)

\* The attributes a rule asks about; a fee reduction lets anybody through.
Needed ==
  {f \in {"registered_in_city", "remains_type", "deceased_status",
          "eco_burial_completed", "days_since"} :
     CASE f = "registered_in_city" -> rules.requires_city_registration = TRUE
       [] f = "remains_type" -> rules.eligible_remains_types # {}
       [] f = "deceased_status" -> rules.eligible_deceased_statuses # {}
       [] f = "eco_burial_completed" -> rules.eco_burial_required
       [] f = "days_since" -> rules.application_deadline_days # NoRule
                                /\ rules.deadline_starts_from}

TooLate == attrs["days_since"] > rules.application_deadline_days

\* An unknown date passes: the period is only looked at when the date is there.
OutsidePeriod ==
  /\ Known("current_date")
  /\ \/ /\ rules.application_period_start # NoRule
        /\ attrs["current_date"] < rules.application_period_start
     \/ /\ rules.application_period_end # NoRule
        /\ attrs["current_date"] > rules.application_period_end

Refuses(f) ==
  CASE f = "registered_in_city" -> ~attrs[f]
    [] f = "remains_type" -> attrs[f] \notin rules.eligible_remains_types
    [] f = "deceased_status" -> /\ attrs[f] \notin rules.eligible_deceased_statuses
                                /\ ~rules.fee_reduction_for_unqualified
    [] f = "days_since" -> TooLate
    [] OTHER -> FALSE

\* Mutant of Ineligible: an unknown remains type is not among the eligible ones.
IneligibleIfUnknown ==
  \/ \E f \in Needed : (Known(f) \/ f = "remains_type") /\ Refuses(f)
  \/ OutsidePeriod

Ineligible == (\E f \in Needed : Known(f) /\ Refuses(f)) \/ OutsidePeriod

-----------------------------------------------------------------------------
(* _evaluate_amount, as far as the verdict depends on it: a condition is a     *)
(* function from attributes to the value whose text it names.                 *)

Holds(c) == \A f \in DOMAIN c.wants : attrs[f] = c.wants[f]
Matching == {i \in DOMAIN rules.amount_conditions : Holds(rules.amount_conditions[i])}

\* Mutant of AmountMissing: what is known is asked for as well.
AmountMissingAlways ==
  UNION {DOMAIN rules.amount_conditions[i].wants :
           i \in DOMAIN rules.amount_conditions}

\* Only when no condition holds.
AmountMissing ==
  IF Matching # {} THEN {}
  ELSE {f \in UNION {DOMAIN rules.amount_conditions[i].wants :
                       i \in DOMAIN rules.amount_conditions} : ~Known(f)}

MissingInputs == {f \in Needed : ~Known(f)} \cup AmountMissing

Status ==
  IF Ineligible THEN "ineligible"
  ELSE IF MissingInputs # {} THEN "needs_information"
  ELSE "eligible"

-----------------------------------------------------------------------------
(* compute_relevance_score.                                                *)

Points(condition, points) == IF condition THEN points ELSE 0

EcoAlignment ==
  Points(\/ Known("eco_burial_completed") /\ attrs["eco_burial_completed"]
         \/ Known("eco_burial_planned") /\ attrs["eco_burial_planned"], 15)

\* Mutant of EcoPoints: the two branches do not exclude each other.
EcoPointsBoth == EcoAlignment + Points(~rules.eco_burial_required, 5)

EcoPoints == IF rules.eco_burial_required THEN EcoAlignment ELSE 5

\* The sum of the criteria, before min(score, 100) caps it.
Score ==
  LET days == rules.application_deadline_days
      start == rules.application_period_start
      end == rules.application_period_end
      now == attrs["current_date"]
  IN  Points(attrs["jurisdiction"] = rules.jurisdiction, 25)
      + Points(attrs["remains_type"] \in rules.eligible_remains_types, 15)
      + EcoPoints
      + Points(attrs["deceased_status"] \in rules.eligible_deceased_statuses, 20)
      + Points(/\ days # NoRule /\ days # 0 /\ rules.deadline_starts_from
               /\ Known("days_since") /\ ~TooLate, 10)
      + Points(/\ start # NoRule /\ end # NoRule /\ Known("current_date")
               /\ start <= now /\ now <= end, 5)
      + Points(/\ rules.requires_city_registration = FALSE
               /\ Known("registered_in_city") => ~attrs["registered_in_city"], 5)
      + Points(rules.min_amount # NoRule, 5)

-----------------------------------------------------------------------------

\* The person answers, or corrects an answer.
Answer(f) ==
  /\ \E v \in Values[f] : attrs' = [attrs EXCEPT ![f] = v]
  /\ UNCHANGED rules

\* What the result asks for.
AnswerMissing == Status = "needs_information" /\ \E f \in MissingInputs : Answer(f)

RuleNext == \E f \in Attributes : Answer(f)

RuleSpec == RuleInit /\ [][RuleNext]_ruleVars

\* A person who goes on answering what is asked.
AskedSpec == RuleSpec /\ WF_ruleVars(AnswerMissing)

-----------------------------------------------------------------------------
(* Properties.                                                             *)

\* A step that answers an open question and corrects none.
NewAnswer == \A f \in Attributes : Known(f) => attrs'[f] = attrs[f]

\* However the questions are ordered, a refusal is never taken back by answering
\* more of them: the early returns of evaluate_program rest on given answers.
RefusalIsFinal ==
  [][NewAnswer /\ Status = "ineligible" => Status' = "ineligible"]_ruleVars

\* A programme found eligible stays so when more is said, unless the date of
\* today was not given: a programme with a period is then judged without it.
EligibleIsStable ==
  [][/\ NewAnswer /\ Status = "eligible"
     /\ Known("current_date") \/ ~Known("current_date")'
     => Status' = "eligible"]_ruleVars

\* New answers turn no verdict round.
VerdictIsStable == RefusalIsFinal /\ EligibleIsStable

\* Answering what is asked leads to a verdict: no question comes back, and
\* every missing input is one that can be answered.
AskingEnds == []<>(Status # "needs_information")

\* compute_relevance_score, "0-100": the points of the criteria never add up to
\* more, so that the cap does not level programmes that differ.
ScoreWithinCap == Score \in 0..100

=============================================================================
