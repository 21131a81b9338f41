------------------------- MODULE CatalogReviewProofs -------------------------
(***************************************************************************)
(* Theorems about the review of programmes, for every set of candidates.      *)
(***************************************************************************)
EXTENDS CatalogReview, TLAPS

\* The rows of a new programme have the shape of the tables.
LEMMA NewRows ==
  ASSUME NEW p \in Programs
  PROVE  /\ NewProgram(p) \in Program
         /\ NewSource(p) \in Evidence \cup {NoRow}
         /\ NewRole(p) \in Role \cup {NoRow}
BY ReviewAssumption
   DEF NewProgram, NewSource, NewRole, Program, Evidence, Role

\* Verifying a row keeps its shape, and a missing row missing.
LEMMA MarkedRows ==
  /\ \A row \in Evidence \cup {NoRow} :
       /\ MarkVerified(row) \in Evidence \cup {NoRow}
       /\ MarkVerified(row) = NoRow <=> row = NoRow
       /\ row # NoRow => /\ MarkVerified(row).review = "verified"
                        /\ MarkVerified(row).excerpt = row.excerpt
  /\ \A row \in Role \cup {NoRow} :
       /\ MarkVerified(row) \in Role \cup {NoRow}
       /\ MarkVerified(row) = NoRow <=> row = NoRow
       /\ row # NoRow => /\ MarkVerified(row).review = "verified"
                        /\ MarkVerified(row).document = row.document
BY ReviewAssumption DEF MarkVerified, Evidence, Role

\* The tables keep their shape (the CREATE TABLE statements of
\* benefit_catalog.py).
THEOREM ReviewTypeCorrect == ReviewSpec => []ReviewTypeOK
<1>1. ReviewInit => ReviewTypeOK
  BY ReviewAssumption DEF ReviewInit, ReviewTypeOK
<1>2. ReviewTypeOK /\ [ReviewNext]_reviewVars => ReviewTypeOK'
  <2> SUFFICES ASSUME ReviewTypeOK, [ReviewNext]_reviewVars PROVE ReviewTypeOK'
    OBVIOUS
  <2> USE DEF ReviewTypeOK
  <2>1. CASE UNCHANGED reviewVars
    BY <2>1 DEF reviewVars
  <2>2. ASSUME NEW u \in Pages, PageArrives(u) PROVE ReviewTypeOK'
    BY <2>2 DEF PageArrives
  <2>3. ASSUME NEW batch \in SUBSET Programs, LoadCandidates(batch) PROVE ReviewTypeOK'
    BY <2>3, NewRows DEF LoadCandidates, SourcesAfterLoad
  <2>4. ASSUME NEW p \in Programs, NEW f \in KeyFields, UpdateProgram(p, f)
        PROVE  ReviewTypeOK'
    BY <2>4 DEF UpdateProgram, Program
  <2>5. ASSUME NEW p \in Programs, VerifyProgram(p) PROVE ReviewTypeOK'
    <3>1. now' \in 1..LastTick
      BY <2>5, ReviewAssumption DEF VerifyProgram
    <3>2. programs' \in [Programs -> Program \cup {NoRow}]
      <4>1. programs[p] \in Program
        BY <2>5 DEF VerifyProgram
      <4>2. FirstTime(p) \in Nat
        BY <3>1, <4>1, ReviewAssumption DEF FirstTime, Program
      <4>3. [programs[p] EXCEPT !.status = "verified", !.firstVerified = FirstTime(p),
                                !.lastVerified = now'] \in Program
        <5>1. now' \in Nat
          BY <3>1, ReviewAssumption
        <5> HIDE DEF ReviewTypeOK
        <5> QED BY <4>1, <4>2, <5>1 DEF Program
      <4> QED BY <2>5, <4>3 DEF VerifyProgram
    <3>3. /\ sources' \in [Programs -> Evidence \cup {NoRow}]
          /\ roles' \in [Programs -> Role \cup {NoRow}]
      BY <2>5, MarkedRows DEF VerifyProgram
    <3> QED BY <2>5, <3>1, <3>2, <3>3, ReviewAssumption DEF VerifyProgram
  <2>6. ASSUME NEW p \in Programs, RefuseVerify(p) \/ FailVerify(p) PROVE ReviewTypeOK'
    BY <2>6 DEF RefuseVerify, FailVerify
  <2>7. ASSUME NEW p \in Programs, UnverifyProgram(p) PROVE ReviewTypeOK'
    BY <2>7 DEF UnverifyProgram, Program
  <2>8. ASSUME NEW p \in Programs, NEW f \in RuleNames,
               UpsertRuleField(p, f) \/ DeleteRuleField(p, f)
        PROVE  ReviewTypeOK'
    BY <2>8 DEF UpsertRuleField, DeleteRuleField
  <2> QED BY <2>1, <2>2, <2>3, <2>4, <2>5, <2>6, <2>7, <2>8 DEF ReviewNext
<1> QED BY <1>1, <1>2, PTL DEF ReviewSpec

-----------------------------------------------------------------------------
(* What stands behind a verified programme.                                 *)

\* A role whose page was found at insertion has the evidence row of that page:
\* both look the page up in the same transaction.
RolesHaveSources ==
  \A p \in Programs :
    roles[p] # NoRow /\ roles[p].document => sources[p] # NoRow

ReviewInv == VerifiedMeansReviewed /\ RolesHaveSources

\* A programme whose rows a step leaves alone satisfies the invariant after it.
LEMMA RowsKept ==
  ASSUME ReviewInv, NEW p \in Programs,
         programs'[p] = programs[p] \/ ~IsVerified(p)',
         sources'[p] = sources[p], roles'[p] = roles[p]
  PROVE  /\ IsVerified(p)' =>
              /\ programs'[p].missing = {}
              /\ programs'[p].lastVerified # 0
              /\ sources'[p] # NoRow =>
                   sources'[p].review = "verified" /\ sources'[p].excerpt
              /\ roles'[p] # NoRow =>
                   /\ roles'[p].review = "verified" /\ roles'[p].document
                   /\ sources'[p] # NoRow
         /\ roles'[p] # NoRow /\ roles'[p].document => sources'[p] # NoRow
BY DEF ReviewInv, VerifiedMeansReviewed, RolesHaveSources, IsVerified

\* What stands behind a verified programme is verified as well: no reload and no
\* page stored later slips unreviewed evidence under it (verify_program,
\* load_candidates).
THEOREM EvidenceIsReviewed == ReviewSpec => []VerifiedMeansReviewed
<1>1. ReviewInit => ReviewInv
  BY DEF ReviewInit, ReviewInv, VerifiedMeansReviewed, RolesHaveSources, IsVerified
<1>2. ReviewTypeOK /\ ReviewInv /\ [ReviewNext]_reviewVars => ReviewInv'
  <2> SUFFICES ASSUME ReviewTypeOK, ReviewInv, [ReviewNext]_reviewVars, NEW q \in Programs
               PROVE  /\ IsVerified(q)' =>
                           /\ programs'[q].missing = {}
                           /\ programs'[q].lastVerified # 0
                           /\ sources'[q] # NoRow =>
                                sources'[q].review = "verified" /\ sources'[q].excerpt
                           /\ roles'[q] # NoRow =>
                                /\ roles'[q].review = "verified"
                                /\ roles'[q].document
                                /\ sources'[q] # NoRow
                      /\ roles'[q] # NoRow /\ roles'[q].document => sources'[q] # NoRow
    BY DEF ReviewInv, VerifiedMeansReviewed, RolesHaveSources
  <2> DEFINE Goal ==
        /\ IsVerified(q)' =>
             /\ programs'[q].missing = {}
             /\ programs'[q].lastVerified # 0
             /\ sources'[q] # NoRow =>
                  sources'[q].review = "verified" /\ sources'[q].excerpt
             /\ roles'[q] # NoRow =>
                  /\ roles'[q].review = "verified" /\ roles'[q].document
                  /\ sources'[q] # NoRow
        /\ roles'[q] # NoRow /\ roles'[q].document => sources'[q] # NoRow
  <2>1. CASE UNCHANGED <<programs, sources, roles>>
    BY <2>1, RowsKept
  <2>2. ASSUME NEW batch \in SUBSET Programs, LoadCandidates(batch) PROVE Goal
    <3>1. CASE q \in batch /\ ~Skipped(q)
      <4>1. /\ programs'[q] = NewProgram(q) /\ sources'[q] = NewSource(q)
            /\ roles'[q] = NewRole(q)
        BY <2>2, <3>1 DEF LoadCandidates, SourcesAfterLoad
      <4>2. ~IsVerified(q)'
        BY <4>1 DEF IsVerified, NewProgram
      <4>3. NewRole(q) # NoRow /\ NewRole(q).document => NewSource(q) # NoRow
        <5>1. CASE PageOf[q] \in pages
          <6>1. NewSource(q) = [review |-> "pending", excerpt |-> q \in HasExcerpt]
            BY <5>1 DEF NewSource
          <6>2. NewSource(q) \in Evidence
            BY <6>1 DEF Evidence
          <6> QED BY <6>2, ReviewAssumption
        <5>2. CASE PageOf[q] \notin pages
          BY <5>2 DEF NewRole
        <5> QED BY <5>1, <5>2
      <4> QED BY <4>1, <4>2, <4>3
    <3>2. CASE ~(q \in batch /\ ~Skipped(q))
      <4>1. /\ programs'[q] = programs[q] /\ sources'[q] = sources[q]
            /\ roles'[q] = roles[q]
        BY <2>2, <3>2 DEF LoadCandidates, SourcesAfterLoad, ReviewTypeOK
      <4> QED BY <4>1, RowsKept
    <3> QED BY <3>1, <3>2
  <2>3. ASSUME NEW p \in Programs, NEW f \in KeyFields, UpdateProgram(p, f)
        PROVE  Goal
    <3>1. UNCHANGED <<sources, roles>>
      BY <2>3 DEF UpdateProgram
    <3>2. CASE q # p
      BY <2>3, <3>1, <3>2, RowsKept DEF UpdateProgram, ReviewTypeOK
    <3>3. CASE q = p
      <4>1. programs[p] \in Program
        BY <2>3 DEF UpdateProgram, ReviewTypeOK
      <4>2. programs'[p] = [programs[p] EXCEPT !.missing = @ \ {f}]
        BY <2>3 DEF UpdateProgram, ReviewTypeOK
      <4>3. /\ programs'[p].status = programs[p].status
            /\ programs'[p].missing = programs[p].missing \ {f}
            /\ programs'[p].lastVerified = programs[p].lastVerified
            /\ programs[p] # NoRow
        BY <4>1, <4>2, ReviewAssumption DEF Program
      <4> QED BY <3>1, <3>3, <4>3
              DEF ReviewInv, VerifiedMeansReviewed, RolesHaveSources, IsVerified
    <3> QED BY <3>2, <3>3
  <2>4. ASSUME NEW p \in Programs, VerifyProgram(p) PROVE Goal
    <3>1. CASE q # p
      BY <2>4, <3>1, RowsKept DEF VerifyProgram, ReviewTypeOK
    <3>2. CASE q = p
      <4>1. /\ sources'[p] = MarkVerified(sources[p])
            /\ roles'[p] = MarkVerified(roles[p])
            /\ sources[p] \in Evidence \cup {NoRow}
            /\ roles[p] \in Role \cup {NoRow}
        BY <2>4 DEF VerifyProgram, ReviewTypeOK
      <4>2. /\ sources[p] # NoRow => sources[p].excerpt
            /\ roles[p] # NoRow => roles[p].document
        BY <2>4 DEF VerifyProgram, SourceMayBeVerified, RoleMayBeVerified
      <4>3. programs[p] \in Program /\ programs[p].missing = {} /\ now' # 0
        BY <2>4, ReviewAssumption DEF VerifyProgram, ReviewTypeOK
      <4>4. programs'[p].missing = {} /\ programs'[p].lastVerified = now'
        BY <2>4, <4>3 DEF VerifyProgram, ReviewTypeOK, Program
      <4>5. roles[p] # NoRow => sources[p] # NoRow
        BY <4>2 DEF ReviewInv, RolesHaveSources
      <4> QED BY <3>2, <4>1, <4>2, <4>3, <4>4, <4>5, MarkedRows
    <3> QED BY <3>1, <3>2
  <2>5. ASSUME NEW p \in Programs, UnverifyProgram(p) PROVE Goal
    <3>1. programs'[q] = programs[q] \/ ~IsVerified(q)'
      BY <2>5 DEF UnverifyProgram, ReviewTypeOK, Program, IsVerified
    <3> QED BY <2>5, <3>1, RowsKept DEF UnverifyProgram
  <2> QED BY <2>1, <2>2, <2>3, <2>4, <2>5
          DEF ReviewNext, reviewVars, PageArrives, RefuseVerify, FailVerify, UpsertRuleField,
              DeleteRuleField
<1>3. ReviewInv => VerifiedMeansReviewed
  BY DEF ReviewInv
<1> QED BY <1>1, <1>2, <1>3, ReviewTypeCorrect, PTL DEF ReviewSpec

\* The time of the first verification stays, and no load resets a programme
\* (_insert_program skips existing rows, verify_program's COALESCE).
THEOREM ProgrammesStay == ReviewSpec => ReviewHistoryIsKept
<1>1. ASSUME ReviewTypeOK, [ReviewNext]_reviewVars, NEW q \in Programs, programs[q] # NoRow
      PROVE  /\ programs'[q] # NoRow
             /\ programs'[q].missing \subseteq programs[q].missing
             /\ programs[q].firstVerified # 0 =>
                  programs'[q].firstVerified = programs[q].firstVerified
  <2>0. programs[q] \in Program
    BY <1>1 DEF ReviewTypeOK
  <2>1. CASE programs'[q] = programs[q]
    BY <1>1, <2>1
  <2>2. ASSUME NEW batch \in SUBSET Programs, LoadCandidates(batch)
        PROVE  programs'[q] = programs[q]
    BY <1>1, <2>2 DEF LoadCandidates, Skipped
  <2>3. ASSUME NEW p \in Programs, p # q,
               \/ \E f \in KeyFields : UpdateProgram(p, f)
               \/ VerifyProgram(p) \/ UnverifyProgram(p)
        PROVE  programs'[q] = programs[q]
    BY <1>1, <2>3 DEF UpdateProgram, VerifyProgram, UnverifyProgram, ReviewTypeOK
  <2>4. ASSUME NEW f \in KeyFields, UpdateProgram(q, f)
        PROVE  /\ programs'[q] \in Program
               /\ programs'[q].missing \subseteq programs[q].missing
               /\ programs'[q].firstVerified = programs[q].firstVerified
    BY <1>1, <2>0, <2>4 DEF UpdateProgram, ReviewTypeOK, Program
  <2>5. ASSUME VerifyProgram(q)
        PROVE  /\ programs'[q] \in Program
               /\ programs'[q].missing = programs[q].missing
               /\ programs[q].firstVerified # 0 =>
                    programs'[q].firstVerified = programs[q].firstVerified
    <3>1. now' \in Nat
      BY <1>1, <2>5, ReviewAssumption DEF VerifyProgram, ReviewTypeOK
    <3>2. FirstTime(q) \in Nat
      BY <2>0, <3>1 DEF FirstTime, Program
    <3> QED BY <1>1, <2>0, <2>5, <3>1, <3>2
            DEF VerifyProgram, FirstTime, ReviewTypeOK, Program
  <2>6. ASSUME UnverifyProgram(q)
        PROVE  /\ programs'[q] \in Program
               /\ programs'[q].missing = programs[q].missing
               /\ programs'[q].firstVerified = programs[q].firstVerified
    BY <1>1, <2>0, <2>6 DEF UnverifyProgram, ReviewTypeOK, Program
  <2>7. CASE UNCHANGED programs
    BY <2>1, <2>7
  <2> QED BY <1>1, <2>1, <2>2, <2>3, <2>4, <2>5, <2>6, <2>7, ReviewAssumption
          DEF ReviewNext, reviewVars, PageArrives, RefuseVerify, FailVerify, UpsertRuleField,
              DeleteRuleField
<1>2. ReviewTypeOK /\ [ReviewNext]_reviewVars =>
        [\A p \in Programs : programs[p] # NoRow =>
           /\ programs'[p] # NoRow
           /\ programs'[p].missing \subseteq programs[p].missing
           /\ programs[p].firstVerified # 0 =>
                programs'[p].firstVerified = programs[p].firstVerified]_reviewVars
  BY <1>1
<1> QED BY <1>2, ReviewTypeCorrect, PTL DEF ReviewSpec, ReviewHistoryIsKept

=============================================================================
