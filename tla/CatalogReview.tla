---------------------------- MODULE CatalogReview ----------------------------
(***************************************************************************)
(* From extracted candidates to verified programmes: load_candidates_to_db   *)
(* .py and the review server, over the tables benefit_programs,              *)
(* program_sources, program_organization_roles and program_rule_fields with  *)
(* their CHECK constraints (services/benefit_catalog.py).  Every action is   *)
(* one SQLite transaction; a constraint that fails undoes all of it.         *)
(***************************************************************************)
EXTENDS Naturals

CONSTANTS
  Programs,   \* program_id, computed from the candidate's id
  KeyFields,  \* support_purpose, program_basis, delivery_form
  Unknown,    \* [Programs -> SUBSET KeyFields], what extraction left unknown
  PageOf,     \* [Programs -> pages], the source_url of a candidate
  HasAgency,  \* candidates with an accepting agency
  HasExcerpt, \* candidates with a source excerpt
  RuleNames,  \* names of rule fields
  NoRow,      \* there is no row
  LastTick    \* model bound: verifications counted altogether

Pages == {PageOf[p] : p \in Programs}

Program == [status : {"candidate", "verified"}, missing : SUBSET KeyFields,
            firstVerified : Nat, lastVerified : Nat]
Evidence == [review : {"pending", "verified"}, excerpt : BOOLEAN]
Role == [review : {"pending", "verified"}, document : BOOLEAN]

ASSUME ReviewAssumption ==
  /\ Unknown \in [Programs -> SUBSET KeyFields]
  /\ HasAgency \subseteq Programs /\ HasExcerpt \subseteq Programs
  /\ NoRow \notin Program \cup Evidence \cup Role
  /\ LastTick \in Nat

VARIABLES
  pages,     \* pages that are in source_documents by now
  programs,  \* [Programs -> row or none]
  sources,   \* [Programs -> the overview row of program_sources]
  roles,     \* [Programs -> the agency's row or none]
  rules,     \* [Programs -> [RuleNames -> review status]]
  reply,     \* how the last request of a reviewer ended
  now        \* the clock, which ticks at every verification

reviewVars == <<pages, programs, sources, roles, rules, reply, now>>

ReviewInit ==
  /\ pages = {}
  /\ programs = [p \in Programs |-> NoRow]
  /\ sources = [p \in Programs |-> NoRow]
  /\ roles = [p \in Programs |-> NoRow]
  /\ rules = [p \in Programs |-> [f \in RuleNames |-> NoRow]]
  /\ reply = "none"
  /\ now = 0

\* A sync stores the page of a candidate (module SourceSync); rows stay.
PageArrives(u) ==
  /\ u \notin pages
  /\ pages' = pages \cup {u}
  /\ UNCHANGED <<programs, sources, roles, rules, reply, now>>

-----------------------------------------------------------------------------
(* load_candidates_to_db.py.                                               *)

\* Mutant of Skipped: only verified programmes are left alone.
SkippedIfVerified(p) == programs[p] # NoRow /\ programs[p].status = "verified"

\* An existing programme is skipped, together with its evidence.
Skipped(p) == programs[p] # NoRow

NewProgram(p) == [status |-> "candidate", missing |-> Unknown[p],
                  firstVerified |-> 0, lastVerified |-> 0]

\* The page is looked up once, when the programme is inserted.
NewSource(p) ==
  IF PageOf[p] \in pages THEN [review |-> "pending", excerpt |-> p \in HasExcerpt]
                         ELSE NoRow

NewRole(p) ==
  IF p \in HasAgency THEN [review |-> "pending", document |-> PageOf[p] \in pages]
                     ELSE NoRow

\* Mutant of SourcesAfterLoad: a reload adds the evidence that was missing.
SourcesCompleted(batch) ==
  [p \in Programs |-> IF p \in batch /\ sources[p] = NoRow THEN NewSource(p)
                                                         ELSE sources[p]]

SourcesAfterLoad(batch) ==
  [p \in Programs |-> IF p \in batch /\ ~Skipped(p) THEN NewSource(p)
                                                     ELSE sources[p]]

\* All candidates of the file in one transaction.
LoadCandidates(batch) ==
  LET new == {p \in batch : ~Skipped(p)} IN
  /\ programs' = [p \in Programs |->
                    IF p \in new THEN NewProgram(p) ELSE programs[p]]
  /\ sources' = SourcesAfterLoad(batch)
  /\ roles' = [p \in Programs |-> IF p \in new THEN NewRole(p) ELSE roles[p]]
  /\ UNCHANGED <<pages, rules, reply, now>>

-----------------------------------------------------------------------------
(* review_server.py.                                                       *)

\* PATCH: a key field gets a legal value.  It cannot be emptied again: None
\* means "not sent" and the empty string violates a CHECK.
UpdateProgram(p, f) ==
  /\ programs[p] # NoRow
  /\ programs' = [programs EXCEPT ![p].missing = @ \ {f}]
  /\ reply' = "updated"
  /\ UNCHANGED <<pages, sources, roles, rules, now>>

\* CHECK of program_sources and program_organization_roles on verified rows.
SourceMayBeVerified(p) == sources[p] # NoRow => sources[p].excerpt
RoleMayBeVerified(p) == roles[p] # NoRow => roles[p].document

\* first_verified_at = COALESCE(first_verified_at, now).
FirstTime(p) ==
  IF programs[p].firstVerified # 0 THEN programs[p].firstVerified ELSE now'

MarkVerified(row) == IF row = NoRow THEN NoRow ELSE [row EXCEPT !.review = "verified"]

VerifyProgram(p) ==
  /\ programs[p] # NoRow
  /\ programs[p].missing = {}
  /\ SourceMayBeVerified(p) /\ RoleMayBeVerified(p)
  /\ now < LastTick
  /\ now' = now + 1
  /\ programs' = [programs EXCEPT ![p] =
       [@ EXCEPT !.status = "verified", !.firstVerified = FirstTime(p),
                 !.lastVerified = now']]
  /\ sources' = [sources EXCEPT ![p] = MarkVerified(@)]
  /\ roles' = [roles EXCEPT ![p] = MarkVerified(@)]
  /\ reply' = "verified"
  /\ UNCHANGED <<pages, rules>>

\* A key field is missing (400), and nothing is written ...
RefuseVerify(p) ==
  /\ programs[p] # NoRow
  /\ programs[p].missing # {}
  /\ reply' = "missing fields"
  /\ UNCHANGED <<pages, programs, sources, roles, rules, now>>

\* ... or a constraint on a source or a role fails and everything is undone.
FailVerify(p) ==
  /\ programs[p] # NoRow
  /\ programs[p].missing = {}
  /\ ~(SourceMayBeVerified(p) /\ RoleMayBeVerified(p))
  /\ reply' = "IntegrityError"
  /\ UNCHANGED <<pages, programs, sources, roles, rules, now>>

\* Only the programme's own status is reverted.
UnverifyProgram(p) ==
  /\ programs[p] # NoRow
  /\ programs' = [programs EXCEPT ![p].status = "candidate"]
  /\ reply' = "reverted"
  /\ UNCHANGED <<pages, sources, roles, rules, now>>

\* Mutant of UpsertRuleField: a field edited in the review counts as verified.
UpsertVerified(p, f) ==
  /\ programs[p] # NoRow
  /\ rules' = [rules EXCEPT ![p][f] = "verified"]
  /\ reply' = "saved"
  /\ UNCHANGED <<pages, programs, sources, roles, now>>

\* A new rule field is pending, an existing one keeps its review status.
UpsertRuleField(p, f) ==
  /\ programs[p] # NoRow
  /\ rules' = [rules EXCEPT ![p][f] = IF @ = NoRow THEN "pending" ELSE @]
  /\ reply' = "saved"
  /\ UNCHANGED <<pages, programs, sources, roles, now>>

DeleteRuleField(p, f) ==
  /\ rules' = [rules EXCEPT ![p][f] = NoRow]
  /\ reply' = "deleted"
  /\ UNCHANGED <<pages, programs, sources, roles, now>>

-----------------------------------------------------------------------------

ReviewNext ==
  \/ \E u \in Pages : PageArrives(u)
  \/ \E batch \in SUBSET Programs : LoadCandidates(batch)
  \/ \E p \in Programs :
       \/ \E f \in KeyFields : UpdateProgram(p, f)
       \/ VerifyProgram(p) \/ RefuseVerify(p) \/ FailVerify(p)
       \/ UnverifyProgram(p)
       \/ \E f \in RuleNames : UpsertRuleField(p, f) \/ DeleteRuleField(p, f)

ReviewSpec == ReviewInit /\ [][ReviewNext]_reviewVars

-----------------------------------------------------------------------------
(* Properties.                                                             *)

\* The tables keep their shape, and no request verifies a rule field.
ReviewTypeOK ==
  /\ pages \subseteq Pages
  /\ programs \in [Programs -> Program \cup {NoRow}]
  /\ sources \in [Programs -> Evidence \cup {NoRow}]
  /\ roles \in [Programs -> Role \cup {NoRow}]
  /\ rules \in [Programs -> [RuleNames -> {"pending", NoRow}]]
  /\ now \in 0..LastTick

\* What stands behind a verified programme is verified as well, down to the
\* page that proves a role: reloading the candidates or storing further pages
\* never slips unreviewed evidence under it.  (ADR 0010: "Evidence and
\* organization roles cannot be marked verified without a supporting official
\* document")
IsVerified(p) == programs[p] # NoRow /\ programs[p].status = "verified"
VerifiedMeansReviewed ==
  \A p \in Programs : IsVerified(p) =>
    /\ programs[p].missing = {}
    /\ programs[p].lastVerified # 0
    /\ sources[p] # NoRow => sources[p].review = "verified" /\ sources[p].excerpt
    /\ roles[p] # NoRow => /\ roles[p].review = "verified" /\ roles[p].document
                          /\ sources[p] # NoRow

\* The review history is kept: whatever is loaded, edited, reverted or verified
\* again, the time of the first verification stays, and a reload never resets a
\* programme.  (load_candidates_to_db.py: "existing program_id rows are skipped")
ReviewHistoryIsKept ==
  [][\A p \in Programs : programs[p] # NoRow =>
       /\ programs'[p] # NoRow
       /\ programs'[p].missing \subseteq programs[p].missing
       /\ programs[p].firstVerified # 0 =>
            programs'[p].firstVerified = programs[p].firstVerified]_reviewVars
=============================================================================
