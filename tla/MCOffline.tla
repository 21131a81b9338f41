------------------------------ MODULE MCOffline ------------------------------
(* The four parts that keep the catalogue up to date share no variable, so     *)
(* that exploring each of them by itself reaches every state of each: a        *)
(* behaviour chooses one part and stays with it.                              *)
(*                                                                            *)
(* SourceSync: two sources; a child page that may redirect to the index page   *)
(*   or off the government hosts; three contents, two with the same text.      *)
(* OidImport: the second file drops an organisation and changes another, the   *)
(*   third repeats a row, has invalid and blank rows and brings one back; the   *)
(*   fourth contradicts itself and the last has no record.                    *)
(* CatalogReview: one candidate complete but for a key field, one without an   *)
(*   agency, one with an agency and no excerpt, on pages of their own.         *)
(* SourceRefresh: two threads; two events share a source, the third has none;   *)
(*   one source was never crawled, two fall due at noon of the second day, one   *)
(*   not before the end.                                                      *)
EXTENDS SourceSync, OidImport, CatalogReview, SourceRefresh, TLC

VARIABLE part

Others(p) ==
  /\ p # "sync" => UNCHANGED syncVars
  /\ p # "import" => UNCHANGED importVars
  /\ p # "review" => UNCHANGED reviewVars
  /\ p # "refresh" => UNCHANGED refreshVars

Init ==
  /\ SyncInit /\ ImportInit /\ ReviewInit /\ RefreshInit
  /\ part \in {"sync", "import", "review", "refresh"}

Next ==
  /\ \/ part = "sync" /\ SyncNext
     \/ part = "import" /\ ImportNext
     \/ part = "review" /\ ReviewNext
     \/ part = "refresh" /\ RefreshNext
  /\ Others(part)
  /\ UNCHANGED part

Spec == Init /\ [][Next]_<<syncVars, importVars, reviewVars, refreshVars, part>>

\* Tables, files and processes keep their shape; among other things, no request
\* of a reviewer verifies a rule field (ReviewTypeOK).
TypeOK == SyncTypeOK /\ ImportTypeOK /\ ReviewTypeOK /\ RefreshTypeOK

-----------------------------------------------------------------------------
(* SourceSync *)

MCLandsOn ==
  [u \in Urls |-> IF u = "child" THEN {"child", "index", "abroad"} ELSE {u}]
MCTextOf == [b \in Bodies |-> IF b = "moved" THEN "t2" ELSE "t1"]

Entry(s) == [kind |-> "entry", source |-> s, url |-> "index"]
Reviewed(s, u) == [kind |-> "reviewed", source |-> s, url |-> u]
Reuse(s) == [kind |-> "reuse", source |-> s, url |-> "index"]

MCJobs ==
  {<<Entry("egov"), Entry("taipei")>>,
   <<Reviewed("taipei", "child"), Reviewed("egov", "child"), Reuse("egov"),
     Reviewed("egov", "index")>>}

(* OidImport *)

R(o, d) == [oid |-> o, details |-> d]

MCFeeds == {<<R("tax", "d1"), R("labor", "d1")>>,
            <<R("tax", "d2"), Invalid>>,
            <<R("labor", "d1"), Blank, R("labor", "d1"), R("post", "d1")>>,
            <<R("tax", "d1"), R("tax", "d2")>>,
            <<Invalid, Blank>>}

(* CatalogReview *)

MCUnknown == [p \in Programs |-> IF p = "green" THEN {"purpose"} ELSE {}]
MCPageOf == [p \in Programs |-> p]

(* SourceRefresh *)

MCRelated == [e \in Events |-> CASE e = "death" -> {"fund", "city", "tax"}
                                 [] e = "birth" -> {"city", "labour"}
                                 [] OTHER -> {}]
MCCrawled == [s \in SourceIds |-> CASE s = "fund" -> Never [] s = "city" -> 1
                                    [] s = "tax" -> 0 [] OTHER -> -1]
MCFrequency ==
  [s \in SourceIds |-> CASE s = "city" -> 1 [] s = "tax" -> 9 [] OTHER -> 2]

ProcessSymmetry == Permutations(Workers) \cup Permutations(Importers)
=============================================================================
