---------------------------- MODULE BoundaryProofs ----------------------------
(* What is proved of the boundaries of the toolkit: with Git, whose answers   *)
(* depend on a configuration that moves (GitlinkReview), with OCR, whose bytes *)
(* are cut anywhere (FederationWire), with the servers of others, which survive *)
(* what should have ended them (UpstreamTransport), and between the two jobs,  *)
(* which share nothing but a file (ReceiptContract).                           *)
EXTENDS PartsInvariant, ReceiptContract, UpstreamTransport, FiniteSetTheorems, SequenceTheorems, TLAPS

-----------------------------------------------------------------------------
(* The trees and the records between them.                                    *)
LEMMA RangeFacts ==
  ASSUME GitlinkTypes
  PROVE  /\ IsFiniteSet(TreePaths) /\ NoPath \notin TreePaths
         /\ \A p \in TreePaths : OldAt(p) \in Entries /\ NewAt(p) \in Entries
         /\ \A m \in glRange.renames :
              /\ m \in TreePaths \X TreePaths
              /\ OldAt(m[1]) # NoEntry /\ NewAt(m[1]) = NoEntry /\ OldAt(m[2]) = NoEntry /\ NewAt(m[2]) # NoEntry
         /\ \A m, n \in glRange.renames : m[1] = n[1] \/ m[2] = n[2] => m = n
<1>1. glRange \in CommitRanges BY DEF GitlinkTypes
<1> DEFINE paths == DOMAIN glRange.base
<1>2. /\ IsFiniteSet(paths) /\ <<>> \notin paths
      /\ glRange.base \in [paths -> Entries] /\ glRange.head \in [paths -> Entries]
      /\ Renamed(glRange)
  BY <1>1, RangeAssumption
<1>3. \A p \in TreePaths : OldAt(p) \in Entries /\ NewAt(p) \in Entries BY <1>2 DEF TreePaths, OldAt, NewAt
<1>4. IsFiniteSet(TreePaths) /\ NoPath \notin TreePaths BY <1>2 DEF TreePaths, NoPath
<1>5. \A m \in glRange.renames :
        /\ m \in TreePaths \X TreePaths
        /\ OldAt(m[1]) # NoEntry /\ NewAt(m[1]) = NoEntry /\ OldAt(m[2]) = NoEntry /\ NewAt(m[2]) # NoEntry
  <2> SUFFICES ASSUME NEW m \in glRange.renames
               PROVE  /\ m \in paths \X paths
                      /\ glRange.base[m[1]] # NoEntry /\ glRange.head[m[1]] = NoEntry
                      /\ glRange.base[m[2]] = NoEntry /\ glRange.head[m[2]] # NoEntry
    BY DEF TreePaths, OldAt, NewAt
  <2>1. m \in {x \in paths \X paths :
                /\ glRange.base[x[1]] # NoEntry /\ glRange.head[x[1]] = NoEntry
                /\ glRange.base[x[2]] = NoEntry /\ glRange.head[x[2]] # NoEntry
                /\ IsLink(glRange.base[x[1]]) \/ IsLink(glRange.head[x[2]]) => glRange.base[x[1]] = glRange.head[x[2]]}
    BY <1>2 DEF Renamed
  <2> QED BY <2>1
<1>6. \A m, n \in glRange.renames : m[1] = n[1] \/ m[2] = n[2] => m = n BY <1>2 DEF Renamed
<1> QED BY <1>3, <1>4, <1>5, <1>6

LEMMA EntryFacts ==
  ASSUME NEW e \in Entries
  PROVE  /\ Pointer(e) \in Nat /\ (IsLink(e) => Pointer(e) # 0 /\ e # NoEntry) /\ (~IsLink(e) => Pointer(e) = 0)
         /\ \A f \in Entries : (IsLink(e) \/ IsLink(f)) => (e # f <=> Pointer(e) # Pointer(f))
         /\ ~IsLink(NoEntry) /\ NoEntry \in Entries
BY DEF Entries, Pointer, IsLink, NoEntry

(* A path whose entries differ is a link's or an ordinary one.                *)
LEMMA ChangedPaths ==
  ASSUME GitlinkTypes
  PROVE  /\ LinkPaths = {p \in TreePaths : OldAt(p) # NewAt(p) /\ (IsLink(OldAt(p)) \/ IsLink(NewAt(p)))}
         /\ LinkPaths \cup OrdinaryPaths = {p \in TreePaths : OldAt(p) # NewAt(p)}
<1>1. \A p \in TreePaths : OldAt(p) \in Entries /\ NewAt(p) \in Entries BY RangeFacts
<1>2. \A p \in TreePaths : /\ (IsLink(OldAt(p)) \/ IsLink(NewAt(p))) => (OldAt(p) # NewAt(p) <=> Pointer(OldAt(p)) # Pointer(NewAt(p)))
                           /\ ~IsLink(OldAt(p)) /\ ~IsLink(NewAt(p)) => Pointer(OldAt(p)) = Pointer(NewAt(p))
  BY <1>1, EntryFacts
<1> QED BY <1>2 DEF LinkPaths, OrdinaryPaths

(* Every record is of changed paths, and its ends are those of its entries.   *)
InPlace(p) == RawRecord(IF OldAt(p) = NoEntry THEN NoPath ELSE p, IF NewAt(p) = NoEntry THEN NoPath ELSE p)
Moved(r) == <<r.old, r.new>> \in glRange.renames
Stayed(r) == \E p \in TreePaths : /\ OldAt(p) # NewAt(p) /\ r = InPlace(p)
                                  /\ \A m \in glRange.renames : p # m[1] /\ p # m[2]

LEMMA RecordShapes ==
  ASSUME GitlinkTypes, NEW r \in RawRecords
  PROVE  (Moved(r) \/ Stayed(r)) /\ r = RawRecord(r.old, r.new)
<1> DEFINE inPlace == {p \in TreePaths : OldAt(p) # NewAt(p) /\ \A m \in glRange.renames : p # m[1] /\ p # m[2]}
<1>1. RawRecords = {RawRecord(m[1], m[2]) : m \in glRange.renames} \cup {InPlace(p) : p \in inPlace}
  BY DEF RawRecords, InPlace
<1>2. CASE r \in {RawRecord(m[1], m[2]) : m \in glRange.renames}
  <2>1. PICK m \in glRange.renames : r = RawRecord(m[1], m[2]) BY <1>2
  <2>2. m = <<m[1], m[2]>> BY <2>1, RangeFacts
  <2> QED BY <2>1, <2>2 DEF Moved, RawRecord
<1>3. CASE r \in {InPlace(p) : p \in inPlace} BY <1>3 DEF Stayed, InPlace, RawRecord
<1> QED BY <1>1, <1>2, <1>3

LEMMA RecordEnds ==
  ASSUME GitlinkTypes, NEW r \in RawRecords
  PROVE  /\ r = RawRecord(r.old, r.new) /\ (r.old # NoPath \/ r.new # NoPath)
         /\ r.old # NoPath => r.old \in TreePaths /\ OldAt(r.old) # NoEntry /\ OldAt(r.old) # NewAt(r.old)
         /\ r.new # NoPath => r.new \in TreePaths /\ NewAt(r.new) # NoEntry /\ OldAt(r.new) # NewAt(r.new)
<1>1. (Moved(r) \/ Stayed(r)) /\ r = RawRecord(r.old, r.new) BY RecordShapes
<1>2. NoPath \notin TreePaths BY RangeFacts
<1>3. CASE Moved(r)
  <2> DEFINE m == <<r.old, r.new>>
  <2>1. m \in glRange.renames /\ m[1] = r.old /\ m[2] = r.new BY <1>3 DEF Moved
  <2> HIDE DEF m
  <2> QED BY <1>1, <1>2, <2>1, RangeFacts
<1>4. CASE Stayed(r) BY <1>1, <1>2, <1>4 DEF Stayed, InPlace, RawRecord
<1> QED BY <1>1, <1>3, <1>4

(* No two records begin, or end, at the same path.                            *)
LEMMA OneRecordAnEnd ==
  ASSUME GitlinkTypes, NEW r \in RawRecords, NEW s \in RawRecords,
         (r.old = s.old /\ r.old # NoPath) \/ (r.new = s.new /\ r.new # NoPath)
  PROVE  r = s
<1>1. (Moved(r) \/ Stayed(r)) /\ (Moved(s) \/ Stayed(s)) BY RecordShapes
<1>2. r = RawRecord(r.old, r.new) /\ s = RawRecord(s.old, s.new) BY RecordShapes
<1>3. NoPath \notin TreePaths BY RangeFacts
<1> DEFINE mine == <<r.old, r.new>>
           other == <<s.old, s.new>>
<1>4. mine[1] = r.old /\ mine[2] = r.new /\ other[1] = s.old /\ other[2] = s.new OBVIOUS
<1>5. (Moved(r) => mine \in glRange.renames) /\ (Moved(s) => other \in glRange.renames) BY DEF Moved
<1> HIDE DEF mine, other
<1>6. CASE Moved(r) /\ Moved(s) BY <1>2, <1>4, <1>5, <1>6, RangeFacts
<1>7. CASE Stayed(r) /\ Stayed(s) BY <1>3, <1>7 DEF Stayed, InPlace, RawRecord
<1>8. CASE Moved(r) /\ Stayed(s) BY <1>3, <1>4, <1>5, <1>8 DEF Stayed, InPlace, RawRecord
<1>9. CASE Stayed(r) /\ Moved(s) BY <1>3, <1>4, <1>5, <1>9 DEF Stayed, InPlace, RawRecord
<1> QED BY <1>1, <1>6, <1>7, <1>8, <1>9

(* So what agrees with the trees is all of it, whatever Git hides.            *)
LEMMA RevealComplete ==
  ASSUME GitlinkTypes, TreesAgree(RawDiff(TRUE))
  PROVE  RawDiff(TRUE) = RawRecords
<1> DEFINE left == {r \in RawRecords : TRUE \/ localGit = "links" \/ ~OfLink(r)}
<1>1. left = RawRecords OBVIOUS
<1>2. RawDiff(TRUE) = IF localGit = "hiding" /\ left # {} THEN left \ {CHOOSE r \in left : TRUE} ELSE left
  BY DEF RawDiff
<1> HIDE DEF left
<1>3. RawDiff(TRUE) \subseteq RawRecords BY <1>1, <1>2
<1>4. /\ {t.old : t \in RawDiff(TRUE)} \ {NoPath} = {p \in LinkPaths \cup OrdinaryPaths : OldAt(p) # NoEntry}
      /\ {t.new : t \in RawDiff(TRUE)} \ {NoPath} = {p \in LinkPaths \cup OrdinaryPaths : NewAt(p) # NoEntry}
  BY DEF TreesAgree
<1>5. ASSUME NEW r \in RawRecords, r \notin RawDiff(TRUE) PROVE FALSE
  <2>1. CASE r.old # NoPath
    <3>1. r.old \in TreePaths /\ OldAt(r.old) # NoEntry /\ r.old \in LinkPaths \cup OrdinaryPaths
      BY <2>1, RecordEnds, ChangedPaths
    <3>2. r.old \in {t.old : t \in RawDiff(TRUE)} \ {NoPath} BY <3>1, <1>4
    <3>3. PICK s \in RawDiff(TRUE) : s.old = r.old BY <3>2
    <3> QED BY <3>3, <1>3, <1>5, <2>1, OneRecordAnEnd
  <2>2. CASE r.new # NoPath
    <3>1. r.new \in TreePaths /\ NewAt(r.new) # NoEntry /\ r.new \in LinkPaths \cup OrdinaryPaths
      BY <2>2, RecordEnds, ChangedPaths
    <3>2. r.new \in {t.new : t \in RawDiff(TRUE)} \ {NoPath} BY <3>1, <1>4
    <3>3. PICK s \in RawDiff(TRUE) : s.new = r.new BY <3>2
    <3> QED BY <3>3, <1>3, <1>5, <2>2, OneRecordAnEnd
  <2> QED BY <2>1, <2>2, RecordEnds
<1> QED BY <1>3, <1>5

LEMMA QuietDiff ==
  ASSUME localGit = "plain"
  PROVE  RawDiff(TRUE) = RawRecords /\ RawDiff(FALSE) = OrdinaryRecords
BY DEF RawDiff, OrdinaryRecords

LEMMA RecordsFinite ==
  ASSUME GitlinkTypes
  PROVE  IsFiniteSet(OrdinaryRecords)
<1> DEFINE ends == TreePaths \cup {NoPath}
           all == {RawRecord(e[1], e[2]) : e \in ends \X ends}
           make == [e \in ends \X ends |-> RawRecord(e[1], e[2])]
<1>1. IsFiniteSet(ends) BY RangeFacts, FS_Singleton, FS_Union
<1>2. IsFiniteSet(ends \X ends) BY <1>1, FS_Product
<1>3. make \in Surjection(ends \X ends, all) BY DEF Surjection
<1>4. IsFiniteSet(all) BY <1>2, <1>3, FS_Surjection
<1>5. OrdinaryRecords \subseteq all
  <2>1. ASSUME NEW r \in RawRecords PROVE r \in all
    <3>1. r = RawRecord(r.old, r.new) /\ r.old \in ends /\ r.new \in ends BY RecordEnds
    <3>2. <<r.old, r.new>> \in ends \X ends BY <3>1
    <3> QED BY <3>1, <3>2
  <2> QED BY <2>1 DEF OrdinaryRecords
<1> QED BY <1>4, <1>5, FS_Subset

-----------------------------------------------------------------------------
(* What is said of the range does not change while its two trees do not.      *)
LEMMA SameRange ==
  ASSUME glRange' = glRange
  PROVE  /\ RawRecords' = RawRecords /\ OrdinaryRecords' = OrdinaryRecords
         /\ PlanRefused' = PlanRefused /\ LinkPaths' = LinkPaths /\ LinkCounts' = LinkCounts
         /\ TreesAgree(RawRecords)' = TreesAgree(RawRecords) /\ OnlyFiles' = OnlyFiles
<1>1. /\ TreePaths' = TreePaths /\ LinkPaths' = LinkPaths /\ RawRecords' = RawRecords
  BY DEF TreePaths, LinkPaths, RawRecords, Pointer, IsLink, OldAt, NewAt
<1>2. OrdinaryRecords' = OrdinaryRecords
  BY <1>1 DEF OrdinaryRecords, OfLink, OldEntry, NewEntry, OldAt, NewAt
<1>3. \A k : LinksOfKind(k)' = LinksOfKind(k)
  BY <1>1 DEF LinksOfKind, LinkKind, OldAt, NewAt, Pointer
<1>4. Moves' = Moves BY <1>1, <1>3 DEF Moves, OldAt, NewAt
<1>5. LinkCounts' = LinkCounts BY <1>3, <1>4 DEF LinkCounts, MovedPaths
<1>6. PlanRefused' = PlanRefused BY <1>1, <1>3, <1>4 DEF PlanRefused, MoveIsAmbiguous, DirectoryTransition, LinkKind, OldAt, NewAt, Pointer
<1>7. OnlyFiles' = OnlyFiles BY <1>2 DEF OnlyFiles, OldEntry, NewEntry, OldAt, NewAt
<1>8. OrdinaryPaths' = OrdinaryPaths BY <1>1 DEF OrdinaryPaths, OldAt, NewAt
<1>9. TreesAgree(RawRecords)' = TreesAgree(RawRecords) BY <1>1, <1>8 DEF TreesAgree, OldAt, NewAt
<1> QED BY <1>1, <1>2, <1>5, <1>6, <1>7, <1>9

LEMMA Parts ==
  /\ Len(ReadingParts) = 5
  /\ ReadingParts[1] = "digest" /\ ReadingParts[2] = "reveal" /\ ReadingParts[3] = "project"
  /\ ReadingParts[4] = "patch" /\ ReadingParts[5] = "redigest"
BY DEF ReadingParts

(* Where a reading goes on, and when.                                         *)
LEMMA FreezeEffect ==
  ASSUME GitlinkTypes, FreezePart
  PROVE  /\ glStage \in Freezing /\ UNCHANGED <<glRange, localGit, drifts, chosen, seen, glResult>>
         /\ \/ /\ ~Qualifies(ReadingParts[glPart]) /\ UNCHANGED frozen
               /\ glStage' = (IF glStage = "freeze" THEN "unqualified" ELSE "refused") /\ glPart' = 1
            \/ /\ Qualifies(ReadingParts[glPart]) /\ frozen' = Reading(ReadingParts[glPart])
               /\ glPart \in 1..4 /\ glPart' = glPart + 1 /\ UNCHANGED glStage
            \/ /\ Qualifies(ReadingParts[glPart]) /\ frozen' = Reading(ReadingParts[glPart])
               /\ glPart = 5 /\ glPart' = 1 /\ glStage' = (IF glStage = "freeze" THEN "preview" ELSE "bind")
<1>1. glStage \in Freezing /\ glPart \in 1..5 /\ UNCHANGED <<glRange, localGit, drifts, chosen, seen, glResult>>
  BY DEF FreezePart, GitlinkTypes
<1>2. /\ WhenRefused(glStage) = (IF glStage = "freeze" THEN "unqualified" ELSE "refused")
      /\ WhenDone(glStage) = (IF glStage = "freeze" THEN "preview" ELSE "bind")
  BY <1>1 DEF WhenRefused, WhenDone, Freezing
<1> QED BY <1>1, <1>2, Parts DEF FreezePart, GoesTo

LEMMA VerifyEffect ==
  ASSUME GitlinkTypes, VerifyPart
  PROVE  /\ glStage \in Verifying /\ UNCHANGED <<glRange, localGit, drifts, frozen, chosen, seen, glResult>>
         /\ \/ /\ ~Unchanged(ReadingParts[glPart])
               /\ glStage' = (IF glStage = "postVerify" THEN "refused" ELSE "error") /\ glPart' = 1
            \/ glPart \in 1..3 /\ glPart' = glPart + 1 /\ UNCHANGED glStage
            \/ /\ glPart' = 1
               /\ glStage' = (IF glStage = "before" THEN "model" ELSE IF glStage = "after" THEN "finalize" ELSE "published")
<1>1. /\ glStage \in Verifying /\ glPart \in 1..4
      /\ UNCHANGED <<glRange, localGit, drifts, frozen, chosen, seen, glResult>>
  BY DEF VerifyPart, GitlinkTypes
<1>2. /\ WhenRefused(glStage) = (IF glStage = "postVerify" THEN "refused" ELSE "error")
      /\ WhenDone(glStage) = (IF glStage = "before" THEN "model" ELSE IF glStage = "after" THEN "finalize" ELSE "published")
  BY <1>1 DEF WhenRefused, WhenDone, Verifying
<1> QED BY <1>1, <1>2, Parts DEF VerifyPart, GoesTo

LEMMA FailsEffect ==
  ASSUME GitlinkTypes, GitFails
  PROVE  /\ drifts' = drifts + 1 /\ glPart' = 1 /\ glStage' \in {"unqualified", "refused", "error"}
         /\ UNCHANGED <<glRange, localGit, frozen, chosen, seen, glResult>>
         /\ glStage' = "refused" => glStage \in {"postFreeze", "postVerify"}
BY DEF GitFails, GoesTo, WhenRefused, Freezing, Verifying

LEMMA PlanEffect ==
  ASSUME PlanInput
  PROVE  /\ glStage = "plan" /\ UNCHANGED <<glRange, localGit, drifts, frozen, chosen, seen, glResult>>
         /\ glPart' = 1 /\ glStage' \in {"error", "ordinary", "unqualified", "freeze"}
         /\ glStage' = "freeze" => ~PlanRefused
BY DEF PlanInput, GoesTo

LEMMA PreviewEffect ==
  ASSUME Preview
  PROVE  /\ glStage = "preview" /\ glPart' = 1 /\ UNCHANGED <<glRange, localGit, drifts, frozen, seen>>
         /\ \/ glStage' = "error" /\ UNCHANGED <<chosen, glResult>>
            \/ /\ glStage' = "postPlan" /\ CoverageIsValid(CoverageOf({}, "not_started"))
               /\ glResult' = [kind |-> "advice", coverage |-> CoverageOf({}, "not_started")]
            \/ /\ glStage' = "before" /\ chosen' \subseteq frozen.ordinary /\ chosen' # {} /\ UNCHANGED glResult
<1>1. glStage = "preview" /\ UNCHANGED <<glRange, localGit, drifts, frozen, seen>> BY DEF Preview
<1>2. CASE GoesTo("error") /\ UNCHANGED <<chosen, glResult>> BY <1>1, <1>2 DEF GoesTo
<1>3. CASE \E picked \in SUBSET frozen.ordinary :
             /\ picked = {} => CoverageIsValid(CoverageOf({}, "not_started"))
             /\ chosen' = picked
             /\ IF picked = {} THEN /\ glResult' = [kind |-> "advice", coverage |-> CoverageOf({}, "not_started")]
                                    /\ GoesTo("postPlan")
                               ELSE GoesTo("before") /\ UNCHANGED glResult
  <2>1. PICK picked \in SUBSET frozen.ordinary :
             /\ picked = {} => CoverageIsValid(CoverageOf({}, "not_started"))
             /\ chosen' = picked
             /\ IF picked = {} THEN /\ glResult' = [kind |-> "advice", coverage |-> CoverageOf({}, "not_started")]
                                    /\ GoesTo("postPlan")
                               ELSE GoesTo("before") /\ UNCHANGED glResult
    BY <1>3
  <2>2. CASE picked = {} BY <1>1, <2>1, <2>2 DEF GoesTo
  <2>3. CASE picked # {} BY <1>1, <2>1, <2>3 DEF GoesTo
  <2> QED BY <2>2, <2>3
<1> QED BY <1>2, <1>3 DEF Preview

LEMMA ModelEffect ==
  ASSUME ModelReviews
  PROVE  /\ glStage = "model" /\ glStage' = "after" /\ glPart' = 1 /\ seen'.text = PatchText
         /\ UNCHANGED <<glRange, localGit, drifts, frozen, chosen, glResult>>
BY DEF ModelReviews, GoesTo

LEMMA FinalizeEffect ==
  ASSUME FinalizeResult
  PROVE  /\ glStage = "finalize" /\ glPart' = 1 /\ UNCHANGED <<glRange, localGit, drifts, frozen, chosen, seen>>
         /\ \/ glStage' = "error" /\ UNCHANGED glResult
            \/ /\ glStage' = "postPlan" /\ CoverageIsValid(CoverageOf(chosen, "partial"))
               /\ seen.completed = chosen /\ seen.text = frozen.text
               /\ glResult'.kind \in {"manifest", "proof"} /\ glResult'.coverage = CoverageOf(chosen, "partial")
               /\ glResult'.items = chosen /\ glResult'.text = seen.text
<1>1. glStage = "finalize" /\ UNCHANGED <<glRange, localGit, drifts, frozen, chosen, seen>> BY DEF FinalizeResult
<1>2. CASE GoesTo("error") /\ UNCHANGED glResult BY <1>1, <1>2 DEF GoesTo
<1>3. CASE /\ ManifestProves(chosen, seen) /\ CoverageIsValid(CoverageOf(chosen, "partial"))
           /\ \E kind \in {"manifest", "proof"} :
                /\ glResult' = [kind |-> kind, coverage |-> CoverageOf(chosen, "partial"),
                                items |-> IF kind = "proof" THEN chosen ELSE seen.selected,
                                text |-> IF kind = "proof" THEN frozen.text ELSE seen.text]
                /\ GoesTo("postPlan")
  BY <1>1, <1>3 DEF GoesTo, ManifestProves
<1> QED BY <1>2, <1>3 DEF FinalizeResult

LEMMA BindEffect ==
  ASSUME BindResult
  PROVE  /\ glStage = "bind" /\ glPart' = 1
         /\ UNCHANGED <<glRange, localGit, drifts, frozen, chosen, seen, glResult>>
         /\ \/ glStage' = "postVerify" /\ (glResult.kind # "advice" => glResult.text = frozen.text)
            \/ glStage' = "refused" /\ ~ResultBinds
BY DEF BindResult, GoesTo, ResultBinds, EntriesOfManifest, EntriesOfProof, ManifestProves

LEMMA PostPlanEffect ==
  ASSUME PostPlan
  PROVE  /\ glStage = "postPlan" /\ glStage' = "postFreeze" /\ glPart' = 1
         /\ UNCHANGED <<glRange, localGit, drifts, chosen, seen, glResult>>
BY DEF PostPlan, GoesTo

LEMMA DriftEffect ==
  ASSUME GitDrifts
  PROVE  /\ drifts' = drifts + 1 /\ localGit' \in LocalGit
         /\ UNCHANGED <<glRange, glStage, glPart, frozen, chosen, seen, glResult>>
BY DEF GitDrifts

(* What is frozen keeps its fields; the others are as before.                 *)
LEMMA ReadingEffect ==
  ASSUME GitlinkTypes
  PROVE  /\ Reading("digest") = [digest |-> InputDigest, original |-> frozen.original, ordinary |-> frozen.ordinary,
                                 text |-> frozen.text, lines |-> frozen.lines]
         /\ Reading("reveal") = [digest |-> frozen.digest, original |-> RawDiff(TRUE), ordinary |-> frozen.ordinary,
                                 text |-> frozen.text, lines |-> frozen.lines]
         /\ Reading("project") = [digest |-> frozen.digest, original |-> frozen.original, ordinary |-> RawDiff(FALSE),
                                  text |-> frozen.text, lines |-> frozen.lines]
         /\ Reading("patch") = [digest |-> frozen.digest, original |-> frozen.original, ordinary |-> frozen.ordinary,
                                text |-> PatchText, lines |-> PatchLines]
         /\ Reading("redigest") = [digest |-> frozen.digest, original |-> frozen.original,
                                   ordinary |-> frozen.ordinary, text |-> frozen.text, lines |-> frozen.lines]
         /\ Reading("reveal").original = RawDiff(TRUE)
         /\ Reading("project").original = frozen.original /\ Reading("project").ordinary = RawDiff(FALSE)
<1> DEFINE d == frozen.digest
           o == frozen.original
           n == frozen.ordinary
           t == frozen.text
           l == frozen.lines
           reveal == RawDiff(TRUE)
           project == RawDiff(FALSE)
           text == PatchText
           lines == PatchLines
           digest == InputDigest
<1>1. frozen = [digest |-> d, original |-> o, ordinary |-> n, text |-> t, lines |-> l] BY DEF GitlinkTypes
<1>2. /\ Reading("digest") = [frozen EXCEPT !.digest = digest]
      /\ Reading("reveal") = [frozen EXCEPT !.original = reveal]
      /\ Reading("project") = [frozen EXCEPT !.ordinary = project]
      /\ Reading("patch") = [frozen EXCEPT !.text = text, !.lines = lines]
      /\ Reading("redigest") = frozen
  BY DEF Reading
<1> HIDE DEF d, o, n, t, l, reveal, project, text, lines, digest
<1>3. Reading("digest") = [digest |-> digest, original |-> o, ordinary |-> n, text |-> t, lines |-> l] BY <1>1, <1>2
<1>4. Reading("reveal") = [digest |-> d, original |-> reveal, ordinary |-> n, text |-> t, lines |-> l] BY <1>1, <1>2
<1>5. Reading("project") = [digest |-> d, original |-> o, ordinary |-> project, text |-> t, lines |-> l] BY <1>1, <1>2
<1>6. Reading("patch") = [digest |-> d, original |-> o, ordinary |-> n, text |-> text, lines |-> lines]
  <2>1. Reading("patch") = [[frozen EXCEPT !.text = text] EXCEPT !.lines = lines] BY <1>2, Zenon
  <2>2. [frozen EXCEPT !.text = text] = [digest |-> d, original |-> o, ordinary |-> n, text |-> text, lines |-> l] BY <1>1
  <2> QED BY <2>1, <2>2
<1>7. Reading("redigest") = [digest |-> d, original |-> o, ordinary |-> n, text |-> t, lines |-> l] BY <1>1, <1>2
<1>8. Reading("reveal").original = reveal BY <1>4
<1>9. Reading("project").original = o /\ Reading("project").ordinary = project BY <1>5
<1> QED BY <1>3, <1>4, <1>5, <1>6, <1>7, <1>8, <1>9 DEF d, o, n, t, l, reveal, project, text,
   lines, digest

LEMMA GitlinkTypesKept ==
  ASSUME GitlinkInv, [GitlinkNext]_gitlinkVars
  PROVE  GitlinkTypes' /\ glRange' = glRange
<1> USE DEF GitlinkStages, GitlinkTypes, GitlinkInv, Freezing, Verifying
<1>1. CASE PlanInput BY <1>1, PlanEffect
<1>2. CASE FreezePart
  <2>1. ReadingParts[glPart] \in {"digest", "reveal", "project", "patch", "redigest"} BY Parts
  <2>2. \A part \in {"digest", "reveal", "project", "patch", "redigest"} :
          LET f == Reading(part) IN
          f = [digest |-> f.digest, original |-> f.original, ordinary |-> f.ordinary, text |-> f.text, lines |-> f.lines]
    BY ReadingEffect
  <2> QED BY <1>2, <2>1, <2>2, FreezeEffect
<1>3. CASE VerifyPart BY <1>3, VerifyEffect
<1>4. CASE Preview BY <1>4, PreviewEffect
<1>5. CASE ModelReviews BY <1>5, ModelEffect
<1>6. CASE FinalizeResult BY <1>6, FinalizeEffect
<1>7. CASE GitFails BY <1>7, FailsEffect
<1>8. CASE PostPlan BY <1>8, PostPlanEffect DEF PostPlan, NotFrozen
<1>9. CASE BindResult BY <1>9, BindEffect
<1>10. CASE GitDrifts BY <1>10, DriftEffect
<1>11. CASE UNCHANGED gitlinkVars BY <1>11 DEF gitlinkVars
<1> QED BY <1>1, <1>2, <1>3, <1>4, <1>5, <1>6, <1>7, <1>8, <1>9, <1>10, <1>11 DEF GitlinkNext

(* A coverage that is worked out from what is frozen.                         *)
LEMMA CoverageAsStated ==
  ASSUME frozen.ordinary = OrdinaryRecords, NEW picked, NEW state
  PROVE  CoverageOf(picked, state) = CoverageStated(picked, state)
BY DEF CoverageOf, CoverageStated

LEMMA GitlinkFrozenKept ==
  ASSUME GitlinkInv, [GitlinkNext]_gitlinkVars
  PROVE  GitlinkFrozen'
<1> DEFINE Goal == GitlinkFrozen'
<1>0. /\ GitlinkTypes /\ GitlinkTypes' /\ glRange' = glRange
      /\ glStage \notin Unplanned => ~PlanRefused
      /\ HasRead(1) \/ glStage \in Posted => glRange.modules = "fine"
      /\ HasRead(2) => frozen.original = RawRecords
      /\ HasRead(2) \/ glStage \in Posted => TreesAgree(RawRecords)
      /\ HasRead(3) => frozen.ordinary = OrdinaryRecords
      /\ HasRead(3) \/ glStage \in Posted => OnlyFiles
  BY GitlinkTypesKept DEF GitlinkInv, GitlinkFrozen
<1>same. /\ RawRecords' = RawRecords /\ OrdinaryRecords' = OrdinaryRecords /\ PlanRefused' = PlanRefused
         /\ TreesAgree(RawRecords)' = TreesAgree(RawRecords) /\ OnlyFiles' = OnlyFiles
  BY <1>0, SameRange
<1> SUFFICES Goal OBVIOUS
<1> USE DEF HasRead, Freezing, Verifying, Posted, Frozen, ForModel, Unplanned
<1>1. CASE PlanInput BY <1>0, <1>same, <1>1, PlanEffect DEF GitlinkFrozen
<1>2. CASE FreezePart
  <2>0. /\ glStage \in Freezing /\ UNCHANGED <<glRange, localGit, drifts, chosen, seen, glResult>> /\ glPart \in 1..5
    BY <1>0, <1>2, FreezeEffect DEF GitlinkTypes
  <2>1. CASE /\ UNCHANGED frozen /\ glPart' = 1
             /\ glStage' = (IF glStage = "freeze" THEN "unqualified" ELSE "refused")
    BY <1>0, <1>same, <2>0, <2>1 DEF GitlinkFrozen
  <2>2. CASE /\ Qualifies(ReadingParts[glPart]) /\ frozen' = Reading(ReadingParts[glPart])
             /\ \/ glPart \in 1..4 /\ glPart' = glPart + 1 /\ UNCHANGED glStage
                \/ glPart = 5 /\ glPart' = 1 /\ glStage' = (IF glStage = "freeze" THEN "preview" ELSE "bind")
    <3>1. CASE glPart = 1
      <4>1. glRange.modules = "fine" BY <2>2, <3>1, Parts DEF Qualifies
      <4> QED BY <1>0, <1>same, <2>0, <2>2, <3>1, <4>1 DEF GitlinkFrozen
    <3>2. CASE glPart = 2
      <4>1. TreesAgree(RawDiff(TRUE)) /\ frozen'.original = RawDiff(TRUE)
        <5>1. Qualifies("reveal") /\ frozen' = Reading("reveal") BY <2>2, <3>2, Parts
        <5>2. frozen'.original = RawDiff(TRUE) BY <1>0, <5>1, ReadingEffect
        <5> QED BY <5>1, <5>2 DEF Qualifies
      <4>2. RawDiff(TRUE) = RawRecords BY <1>0, <2>0, <4>1, RevealComplete
      <4>3. TreesAgree(RawRecords) /\ frozen'.original = RawRecords BY <4>1, <4>2
      <4>4. glPart' = 3 /\ UNCHANGED glStage BY <2>2, <3>2
      <4>5. glPart > 1 /\ ~(glPart' > 3) BY <3>2, <4>4
      <4>6. glStage \notin Frozen /\ glStage \notin Unplanned BY <2>0
      <4>7. glRange'.modules = "fine" /\ (glStage \in Posted => OnlyFiles) BY <1>0, <2>0, <4>5
      <4>8. ~PlanRefused BY <1>0, <4>6
      <4> QED BY <1>same, <2>0, <4>3, <4>4, <4>5, <4>6, <4>7, <4>8 DEF GitlinkFrozen
    <3>3. CASE glPart = 3
      <4>1. /\ RawDiff(FALSE) = {r \in frozen.original : ~OfLink(r)}
            /\ \A r \in RawDiff(FALSE) : Regular(OldEntry(r)) /\ Regular(NewEntry(r))
            /\ frozen'.ordinary = RawDiff(FALSE) /\ frozen'.original = frozen.original
        <5>1. Qualifies("project") /\ frozen' = Reading("project") BY <2>2, <3>3, Parts
        <5>2. frozen'.original = frozen.original /\ frozen'.ordinary = RawDiff(FALSE) BY <1>0, <5>1, ReadingEffect
        <5> QED BY <5>1, <5>2 DEF Qualifies
      <4>2. frozen.original = RawRecords BY <1>0, <2>0, <3>3
      <4>3. RawDiff(FALSE) = OrdinaryRecords BY <4>1, <4>2 DEF OrdinaryRecords
      <4>4. OnlyFiles BY <4>1, <4>3 DEF OnlyFiles
      <4>5. frozen'.original = RawRecords /\ frozen'.ordinary = OrdinaryRecords BY <4>1, <4>2, <4>3
      <4>6. glPart' = 4 /\ UNCHANGED glStage BY <2>2, <3>3
      <4>7. glPart > 2 /\ glPart \in 1..5 BY <3>3
      <4> QED BY <1>0, <1>same, <2>0, <4>4, <4>5, <4>6, <4>7 DEF GitlinkFrozen
    <3>4. CASE glPart \in {4, 5}
      <4>1. frozen'.ordinary = frozen.ordinary /\ frozen'.original = frozen.original
        BY <1>0, <2>2, <3>4, Parts, ReadingEffect
      <4> QED BY <1>0, <1>same, <2>0, <2>2, <3>4, <4>1 DEF GitlinkFrozen
    <3> QED BY <2>0, <3>1, <3>2, <3>3, <3>4
  <2> QED BY <1>0, <1>2, <2>1, <2>2, FreezeEffect
<1>3. CASE VerifyPart BY <1>0, <1>same, <1>3, VerifyEffect DEF GitlinkFrozen
<1>4. CASE Preview BY <1>0, <1>same, <1>4, PreviewEffect DEF GitlinkFrozen
<1>5. CASE ModelReviews BY <1>0, <1>same, <1>5, ModelEffect DEF GitlinkFrozen
<1>6. CASE FinalizeResult BY <1>0, <1>same, <1>6, FinalizeEffect DEF GitlinkFrozen
<1>7. CASE GitFails BY <1>0, <1>same, <1>7, FailsEffect DEF GitlinkFrozen
<1>8. CASE PostPlan BY <1>0, <1>same, <1>8, PostPlanEffect DEF GitlinkFrozen
<1>9. CASE BindResult BY <1>0, <1>same, <1>9, BindEffect DEF GitlinkFrozen
<1>10. CASE GitDrifts BY <1>0, <1>same, <1>10, DriftEffect DEF GitlinkFrozen
<1>11. CASE UNCHANGED gitlinkVars BY <1>0, <1>same, <1>11 DEF GitlinkFrozen, gitlinkVars
<1> QED BY <1>1, <1>2, <1>3, <1>4, <1>5, <1>6, <1>7, <1>8, <1>9, <1>10, <1>11 DEF GitlinkNext

LEMMA GitlinkHandoverKept ==
  ASSUME GitlinkInv, [GitlinkNext]_gitlinkVars
  PROVE  GitlinkHandover'
<1> DEFINE Goal == GitlinkHandover'
           valid == CoverageIsValid(glResult.coverage)
<1>0. /\ GitlinkTypes /\ glRange' = glRange
      /\ glStage \in UntilModel => seen = NoReview
      /\ glStage \in ForModel => chosen \subseteq OrdinaryRecords /\ chosen # {}
      /\ glStage \in Posted => (AdviceStands \/ ReviewStated) /\ valid
      /\ glStage \in {"postVerify", "published"} /\ glResult.kind # "advice" => glResult.text = frozen.text
      /\ glStage \in Frozen => frozen.ordinary = OrdinaryRecords
  BY GitlinkTypesKept DEF GitlinkInv, GitlinkFrozen, GitlinkHandover, HasRead
<1>same. OrdinaryRecords' = OrdinaryRecords /\ LinkPaths' = LinkPaths /\ LinkCounts' = LinkCounts
  BY <1>0, SameRange
<1>keep. ASSUME UNCHANGED <<glResult, seen>> PROVE AdviceStands' = AdviceStands /\ ReviewStated' = ReviewStated /\ valid' = valid
  <2>1. valid' = valid BY <1>keep DEF CoverageIsValid
  <2> HIDE DEF valid
  <2> QED BY <1>same, <1>keep, <2>1 DEF AdviceStands, ReviewStated, CoverageStated
<1>goal. Goal <=> /\ glStage' \in UntilModel => seen' = NoReview
                  /\ glStage' \in ForModel => chosen' \subseteq OrdinaryRecords' /\ chosen' # {}
                  /\ glStage' \in Posted => (AdviceStands' \/ ReviewStated') /\ valid'
                  /\ glStage' \in {"postVerify", "published"} /\ glResult'.kind # "advice" => glResult'.text = frozen'.text
  BY DEF GitlinkHandover
<1> SUFFICES Goal OBVIOUS
<1> HIDE DEF valid, Goal
<1> USE DEF Freezing, Verifying, Posted, Frozen, ForModel, UntilModel
<1>1. CASE PlanInput BY <1>0, <1>same, <1>goal, <1>1, PlanEffect
<1>2. CASE FreezePart
  <2>1. /\ glStage \in Freezing /\ UNCHANGED <<glRange, localGit, drifts, chosen, seen, glResult>>
        /\ (glStage = "freeze" /\ glStage' \in {"freeze", "unqualified", "preview"}) \/ (glStage = "postFreeze" /\ glStage' \in {"postFreeze", "refused", "bind"})
    BY <1>0, <1>2, FreezeEffect
  <2> QED BY <1>0, <1>same, <1>keep, <1>goal, <2>1
<1>3. CASE VerifyPart BY <1>0, <1>same, <1>keep, <1>goal, <1>3, VerifyEffect
<1>4. CASE Preview
  <2>1. CASE glStage' = "postPlan"
    <3>1. /\ glStage = "preview" /\ CoverageIsValid(CoverageOf({}, "not_started")) /\ seen' = seen
          /\ glResult' = [kind |-> "advice", coverage |-> CoverageOf({}, "not_started")]
      BY <1>4, <2>1, PreviewEffect
    <3>2. CoverageOf({}, "not_started") = CoverageStated({}, "not_started") BY <1>0, <3>1, CoverageAsStated
    <3>3. CoverageStated({}, "not_started")' = CoverageStated({}, "not_started") BY <1>same DEF CoverageStated
    <3>4. AdviceStands' BY <1>0, <3>1, <3>2, <3>3 DEF AdviceStands
    <3>5. valid'
      <4> DEFINE c == CoverageOf({}, "not_started")
      <4>1. CoverageIsValid(c) /\ glResult'.coverage = c BY <3>1
      <4> HIDE DEF c
      <4> QED BY <4>1 DEF valid, CoverageIsValid
    <3> QED BY <1>goal, <2>1, <3>4, <3>5
  <2>2. CASE glStage' # "postPlan" BY <1>0, <1>same, <1>goal, <1>4, <2>2, PreviewEffect
  <2> QED BY <2>1, <2>2
<1>5. CASE ModelReviews BY <1>0, <1>same, <1>goal, <1>5, ModelEffect
<1>6. CASE FinalizeResult
  <2>1. CASE glStage' = "postPlan"
    <3> DEFINE c == CoverageOf(chosen, "partial")
    <3>1. /\ glStage = "finalize" /\ CoverageIsValid(c) /\ UNCHANGED <<chosen, seen>>
          /\ seen.completed = chosen /\ glResult'.kind \in {"manifest", "proof"} /\ glResult'.coverage = c
          /\ glResult'.items = chosen /\ glResult'.text = seen.text
      BY <1>6, <2>1, FinalizeEffect
    <3>2. c = CoverageStated(seen.completed, "partial") BY <1>0, <3>1, CoverageAsStated
    <3>3. CoverageStated(seen.completed, "partial")' = CoverageStated(seen.completed, "partial")
      BY <1>same, <3>1 DEF CoverageStated
    <3> HIDE DEF c
    <3>4. ReviewStated' BY <1>0, <1>same, <3>1, <3>2, <3>3 DEF ReviewStated
    <3>5. valid' BY <3>1 DEF valid, CoverageIsValid
    <3> QED BY <1>goal, <2>1, <3>4, <3>5
  <2>2. CASE glStage' # "postPlan" BY <1>0, <1>same, <1>goal, <1>6, <2>2, FinalizeEffect
  <2> QED BY <2>1, <2>2
<1>7. CASE GitFails BY <1>0, <1>same, <1>keep, <1>goal, <1>7, FailsEffect
<1>8. CASE PostPlan BY <1>0, <1>same, <1>keep, <1>goal, <1>8, PostPlanEffect
<1>9. CASE BindResult BY <1>0, <1>same, <1>keep, <1>goal, <1>9, BindEffect
<1>10. CASE GitDrifts BY <1>0, <1>same, <1>keep, <1>goal, <1>10, DriftEffect
<1>11. CASE UNCHANGED gitlinkVars BY <1>0, <1>same, <1>keep, <1>goal, <1>11 DEF gitlinkVars
<1> QED BY <1>1, <1>2, <1>3, <1>4, <1>5, <1>6, <1>7, <1>8, <1>9, <1>10, <1>11 DEF GitlinkNext

(* While nothing moves, every part of a reading is as it was.                 *)
LEMMA QuietReading ==
  ASSUME GitlinkInv, drifts = 0
  PROVE  /\ glStage \in Posted /\ glStage \in Freezing => Qualifies(ReadingParts[glPart])
         /\ glStage = "postVerify" => Unchanged(ReadingParts[glPart])
         /\ glStage = "bind" => ResultBinds
<1>0. /\ GitlinkTypes /\ localGit = "plain" /\ InputDigest = "plain" /\ PatchText = "plain" /\ PatchLines = "plain"
  BY DEF GitlinkInv, GitlinkQuiet, InputDigest, PatchText, PatchLines
<1>1. RawDiff(TRUE) = RawRecords /\ RawDiff(FALSE) = OrdinaryRecords BY <1>0, QuietDiff
<1>2. ASSUME glStage \in Posted, glStage \in Freezing PROVE Qualifies(ReadingParts[glPart])
  <2>0. glPart \in 1..5 BY <1>0 DEF GitlinkTypes
  <2>1. CASE glPart = 1
    <3>1. glRange.modules = "fine" BY <1>2 DEF GitlinkInv, GitlinkFrozen
    <3> QED BY <1>0, <2>1, <3>1, Parts DEF Qualifies, InputsSafe
  <2>2. CASE glPart = 2
    <3>1. TreesAgree(RawRecords) BY <1>2 DEF GitlinkInv, GitlinkFrozen
    <3>2. TreesAgree(RawDiff(TRUE)) BY <1>1, <3>1
    <3> QED BY <2>2, <3>2, Parts DEF Qualifies
  <2>3. CASE glPart = 3
    <3>1. frozen.original = RawRecords /\ OnlyFiles BY <1>2, <2>3 DEF GitlinkInv, GitlinkFrozen, HasRead
    <3>2. /\ RawDiff(FALSE) = {r \in frozen.original : ~OfLink(r)}
          /\ \A r \in RawDiff(FALSE) : Regular(OldEntry(r)) /\ Regular(NewEntry(r))
      BY <1>1, <3>1 DEF OrdinaryRecords, OnlyFiles
    <3> QED BY <2>3, <3>2, Parts DEF Qualifies
  <2>4. CASE glPart = 4 BY <2>4, Parts DEF Qualifies
  <2>5. CASE glPart = 5
    <3>1. frozen.digest = "plain" BY <1>2, <2>5 DEF GitlinkInv, GitlinkQuiet, HasRead
    <3> QED BY <1>0, <2>5, <3>1, Parts DEF Qualifies
  <2> QED BY <2>0, <2>1, <2>2, <2>3, <2>4, <2>5
<1>3. ASSUME glStage = "postVerify" PROVE Unchanged(ReadingParts[glPart])
  <2>0. glPart \in 1..4 BY <1>0, <1>3 DEF GitlinkTypes, Verifying
  <2>1. HasRead(1) /\ HasRead(2) /\ HasRead(3) /\ HasRead(4) BY <1>3 DEF HasRead, Frozen
  <2>2. frozen.original = RawRecords /\ frozen.ordinary = OrdinaryRecords BY <2>1 DEF GitlinkInv, GitlinkFrozen
  <2>3. frozen.digest = "plain" /\ frozen.text = "plain" /\ frozen.lines = "plain"
    BY <2>1 DEF GitlinkInv, GitlinkQuiet
  <2>4. ReadingParts[glPart] \in {"digest", "reveal", "project", "patch"} BY <2>0, Parts
  <2> QED BY <1>0, <1>1, <2>2, <2>3, <2>4 DEF Unchanged, InputsSafe
<1>4. ASSUME glStage = "bind" PROVE ResultBinds
  <2>1. /\ AdviceStands \/ ReviewStated
        /\ CoverageIsValid(glResult.coverage)
    BY <1>4 DEF GitlinkInv, GitlinkHandover, Posted
  <2>2. frozen.ordinary = OrdinaryRecords BY <1>4 DEF GitlinkInv, GitlinkFrozen, HasRead, Frozen
  <2>3. CASE AdviceStands
    <3>1. CoverageStated({}, "not_started") = CoverageOf({}, "not_started") BY <2>2, CoverageAsStated
    <3>2. glResult.kind = "advice" /\ glResult.coverage = CoverageOf({}, "not_started")
      <4> DEFINE c == CoverageOf({}, "not_started")
      <4>1. glResult = [kind |-> "advice", coverage |-> c] BY <2>3, <3>1 DEF AdviceStands
      <4> HIDE DEF c
      <4>2. glResult.kind = "advice" /\ glResult.coverage = c BY <4>1
      <4> QED BY <4>2 DEF c
    <3> QED BY <2>1, <3>2 DEF ResultBinds
  <2>4. CASE ReviewStated
    <3>1. CoverageStated(seen.completed, "partial") = CoverageOf(seen.completed, "partial") BY <2>2, CoverageAsStated
    <3>2. /\ glResult.kind \in {"manifest", "proof"} /\ glResult.items \subseteq frozen.ordinary /\ glResult.items # {}
          /\ glResult.coverage = CoverageOf(glResult.items, "partial")
      BY <2>2, <2>4, <3>1 DEF ReviewStated
    <3>3. glResult.text = frozen.text BY <1>4, <3>2 DEF GitlinkInv, GitlinkQuiet, HasRead, Frozen, Posted
    <3> QED BY <2>1, <3>2, <3>3 DEF ResultBinds, EntriesOfManifest, EntriesOfProof, ManifestProves
  <2> QED BY <2>1, <2>3, <2>4
<1> QED BY <1>2, <1>3, <1>4

LEMMA GitlinkQuietKept ==
  ASSUME GitlinkInv, [GitlinkNext]_gitlinkVars
  PROVE  GitlinkQuiet'
<1> DEFINE Goal == GitlinkQuiet'
<1>0. GitlinkTypes /\ GitlinkTypes' /\ drifts \in Nat BY GitlinkTypesKept DEF GitlinkInv, GitlinkTypes
<1>q. drifts = 0 =>
        /\ localGit = "plain" /\ glStage # "refused"
        /\ HasRead(1) => frozen.digest = "plain"
        /\ HasRead(4) => frozen.text = "plain" /\ frozen.lines = "plain"
        /\ glStage \in {"after", "finalize"} => seen.text = "plain"
        /\ glStage \in Posted /\ glResult.kind # "advice" => glResult.text = "plain"
  BY DEF GitlinkInv, GitlinkQuiet
<1>r. drifts = 0 =>
         /\ glStage \in Posted /\ glStage \in Freezing => Qualifies(ReadingParts[glPart])
         /\ glStage = "postVerify" => Unchanged(ReadingParts[glPart])
         /\ glStage = "bind" => ResultBinds
  BY QuietReading
<1> SUFFICES Goal OBVIOUS
<1> USE DEF HasRead, Freezing, Verifying, Posted, Frozen, ForModel
<1>1. CASE PlanInput BY <1>0, <1>q, <1>1, PlanEffect DEF GitlinkQuiet
<1>2. CASE FreezePart
  <2>0. /\ glStage \in Freezing /\ UNCHANGED <<glRange, localGit, drifts, chosen, seen, glResult>> /\ glPart \in 1..5
    BY <1>0, <1>2, FreezeEffect DEF GitlinkTypes
  <2>1. CASE /\ ~Qualifies(ReadingParts[glPart]) /\ UNCHANGED frozen /\ glPart' = 1
             /\ glStage' = (IF glStage = "freeze" THEN "unqualified" ELSE "refused")
    BY <1>0, <1>q, <1>r, <2>0, <2>1 DEF GitlinkQuiet
  <2>2. CASE /\ frozen' = Reading(ReadingParts[glPart])
             /\ \/ glPart \in 1..4 /\ glPart' = glPart + 1 /\ UNCHANGED glStage
                \/ glPart = 5 /\ glPart' = 1 /\ glStage' = (IF glStage = "freeze" THEN "preview" ELSE "bind")
    <3>1. drifts = 0 =>
            /\ InputDigest = "plain" /\ PatchText = "plain" /\ PatchLines = "plain"
      BY <1>q DEF InputDigest, PatchText, PatchLines
    <3>2. drifts = 0 => frozen'.digest = "plain"
      <4>1. CASE glPart = 1
        <5>1. frozen' = Reading("digest") BY <2>2, <4>1, Parts
        <5> QED BY <1>0, <3>1, <5>1, ReadingEffect
      <4>2. CASE glPart \in 2..5
        <5>1. frozen' \in {Reading("reveal"), Reading("project"), Reading("patch"), Reading("redigest")}
          BY <2>2, <4>2, Parts
        <5>2. frozen'.digest = frozen.digest BY <1>0, <5>1, ReadingEffect
        <5> QED BY <1>q, <2>0, <4>2, <5>2
      <4> QED BY <2>0, <4>1, <4>2
    <3>3. drifts = 0 /\ glPart \in {4, 5} => frozen'.text = "plain" /\ frozen'.lines = "plain"
      <4>1. CASE glPart = 4
        <5>1. frozen' = Reading("patch") BY <2>2, <4>1, Parts
        <5>2. frozen'.text = PatchText /\ frozen'.lines = PatchLines BY <1>0, <5>1, ReadingEffect
        <5> QED BY <3>1, <5>2
      <4>2. CASE glPart = 5
        <5>1. frozen' = Reading("redigest") BY <2>2, <4>2, Parts
        <5>2. frozen'.text = frozen.text /\ frozen'.lines = frozen.lines BY <1>0, <5>1, ReadingEffect
        <5> QED BY <1>q, <2>0, <4>2, <5>2
      <4> QED BY <4>1, <4>2
    <3>4. /\ glStage' \notin {"refused", "after", "finalize"}
          /\ glStage' \in Posted => glStage \in Posted
          /\ HasRead(4)' => glPart \in {4, 5}
      BY <2>0, <2>2
    <3> QED BY <1>q, <2>0, <3>2, <3>3, <3>4 DEF GitlinkQuiet
  <2> QED BY <1>0, <1>2, <2>1, <2>2, FreezeEffect
<1>3. CASE VerifyPart BY <1>0, <1>q, <1>r, <1>3, VerifyEffect DEF GitlinkQuiet
<1>4. CASE Preview
  <2>1. glStage' = "postPlan" => glResult'.kind = "advice"
    <3> DEFINE c == CoverageOf({}, "not_started")
    <3>1. glStage' = "postPlan" => glResult' = [kind |-> "advice", coverage |-> c] BY <1>4, PreviewEffect
    <3> HIDE DEF c
    <3> QED BY <3>1
  <2> QED BY <1>0, <1>q, <1>4, <2>1, PreviewEffect DEF GitlinkQuiet
<1>5. CASE ModelReviews
  <2>1. drifts = 0 => PatchText = "plain" BY <1>q DEF PatchText
  <2> QED BY <1>0, <1>q, <1>5, <2>1, ModelEffect DEF GitlinkQuiet
<1>6. CASE FinalizeResult BY <1>0, <1>q, <1>6, FinalizeEffect DEF GitlinkQuiet
<1>7. CASE GitFails BY <1>0, <1>7, FailsEffect DEF GitlinkQuiet
<1>8. CASE PostPlan BY <1>0, <1>q, <1>8, PostPlanEffect DEF GitlinkQuiet
<1>9. CASE BindResult BY <1>0, <1>q, <1>r, <1>9, BindEffect DEF GitlinkQuiet
<1>10. CASE GitDrifts BY <1>0, <1>10, DriftEffect DEF GitlinkQuiet
<1>11. CASE UNCHANGED gitlinkVars BY <1>0, <1>q, <1>11 DEF GitlinkQuiet, gitlinkVars
<1> QED BY <1>1, <1>2, <1>3, <1>4, <1>5, <1>6, <1>7, <1>8, <1>9, <1>10, <1>11 DEF GitlinkNext

-----------------------------------------------------------------------------
(* A coverage that is stated of records that were reviewed adds up.           *)
LEMMA CoverageAddsUp ==
  ASSUME GitlinkTypes, NEW picked, picked \subseteq OrdinaryRecords, NEW state \in {"partial", "not_started"},
         CoverageIsValid(CoverageStated(picked, state)), state = "not_started" => picked = {}
  PROVE  LET c == CoverageStated(picked, state) IN
         /\ c.changed = Cardinality(OrdinaryRecords)
         /\ c.completed = Cardinality(picked)
         /\ c.excluded = Cardinality(OrdinaryRecords \ picked)
         /\ c.links.added + c.links.updated + c.links.deleted + 2 * c.links.moved
              = Cardinality({p \in TreePaths : OldAt(p) # NewAt(p) /\ (IsLink(OldAt(p)) \/ IsLink(NewAt(p)))})
<1> DEFINE c == CoverageStated(picked, state)
           all == Cardinality(OrdinaryRecords)
           some == Cardinality(picked)
           links == LinkCounts
           ends == Cardinality(LinkPaths)
<1>1. /\ c.changed = all /\ c.completed = (IF state = "partial" THEN some ELSE 0) /\ c.excluded = all - some
      /\ c.links = links /\ c.changes = ends
  <2> HIDE DEF all, some, links, ends
  <2>1. c = [state |-> state, changed |-> all, selected |-> some,
             completed |-> IF state = "partial" THEN some ELSE 0,
             excluded |-> all - some, links |-> links, changes |-> ends]
    BY DEF CoverageStated, all, some, links, ends
  <2> HIDE DEF c
  <2> QED BY <2>1
<1>2. c.changes = c.links.added + c.links.updated + c.links.deleted + 2 * c.links.moved
  <2> HIDE DEF c
  <2>1. CoverageIsValid(c) BY DEF c
  <2> QED BY <2>1 DEF CoverageIsValid
<1>3. IsFiniteSet(OrdinaryRecords) BY RecordsFinite
<1>4. IsFiniteSet(picked) /\ some \in Nat /\ all \in Nat BY <1>3, FS_Subset, FS_CardinalityType
<1>5. Cardinality(OrdinaryRecords \ picked) = all - some
  <2>1. OrdinaryRecords \cap picked = picked OBVIOUS
  <2>2. Cardinality(OrdinaryRecords \ picked) = Cardinality(OrdinaryRecords) - Cardinality(OrdinaryRecords \cap picked)
    BY <1>3, FS_Difference
  <2> QED BY <2>1, <2>2
<1>6. state = "not_started" => some = 0 BY FS_EmptySet
<1>7. ends = Cardinality({p \in TreePaths : OldAt(p) # NewAt(p) /\ (IsLink(OldAt(p)) \/ IsLink(NewAt(p)))})
  BY ChangedPaths
<1> HIDE DEF c, all, some, links, ends
<1>8. c.completed = some BY <1>1, <1>6
<1> QED BY <1>1, <1>2, <1>5, <1>7, <1>8 DEF c, all, some, ends

LEMMA GitlinkSafe ==
  ASSUME GitlinkInv
  PROVE  GitlinkReviewSafe
<1>0. GitlinkTypes /\ drifts \in Nat BY DEF GitlinkInv, GitlinkTypes
<1>1. ASSUME glStage = "published"
      PROVE  /\ AdviceStands \/ ReviewStated
             /\ CoverageIsValid(glResult.coverage)
             /\ glResult.kind # "advice" => glResult.text = frozen.text
  BY <1>1 DEF GitlinkInv, GitlinkHandover, Posted
<1>2. CoverageIsTrue
  <2> SUFFICES ASSUME glStage = "published" PROVE CoverageIsTrue BY DEF CoverageIsTrue
  <2>1. CASE AdviceStands
    <3> DEFINE c == CoverageStated({}, "not_started")
    <3>1. glResult.coverage = c /\ seen.completed = {}
      <4>1. glResult = [kind |-> "advice", coverage |-> c] /\ seen = NoReview BY <2>1 DEF AdviceStands
      <4> HIDE DEF c
      <4> QED BY <4>1 DEF NoReview
    <3>2. CoverageIsValid(c) BY <1>1, <3>1
    <3> QED BY <1>0, <3>1, <3>2, CoverageAddsUp DEF CoverageIsTrue
  <2>2. CASE ReviewStated
    <3> DEFINE c == CoverageStated(seen.completed, "partial")
    <3>1. glResult.coverage = c /\ seen.completed \subseteq OrdinaryRecords BY <2>2 DEF ReviewStated
    <3>2. CoverageIsValid(c) BY <1>1, <3>1
    <3>3. /\ c.changed = Cardinality(OrdinaryRecords)
          /\ c.completed = Cardinality(seen.completed)
          /\ c.excluded = Cardinality(OrdinaryRecords \ seen.completed)
          /\ c.links.added + c.links.updated + c.links.deleted + 2 * c.links.moved
               = Cardinality({p \in TreePaths : OldAt(p) # NewAt(p) /\ (IsLink(OldAt(p)) \/ IsLink(NewAt(p)))})
      BY <1>0, <3>1, <3>2, CoverageAddsUp
    <3> HIDE DEF c
    <3> QED BY <3>1, <3>3 DEF CoverageIsTrue
  <2> QED BY <1>1, <2>1, <2>2
<1>3. AdviceStands => glResult.kind = "advice" BY DEF AdviceStands
<1>4. ReviewStated => glResult.kind # "advice" BY DEF ReviewStated
<1>5. ReviewedTextIsProven BY <1>1, <1>3 DEF ReviewedTextIsProven, ReviewStated
<1>6. ProvenIsAccepted BY <1>0 DEF ProvenIsAccepted, GitlinkInv, GitlinkQuiet
<1>7. AdviceMeansNoModel BY <1>1, <1>4 DEF AdviceMeansNoModel, AdviceStands
<1> QED BY <1>2, <1>5, <1>6, <1>7 DEF GitlinkReviewSafe

(* Whatever the local configuration of Git becomes between any two of the     *)
(* readings of the review job and of the posting job, and whichever of the    *)
(* commands fails, for every commit range: a published result says of every   *)
(* changed path truly whether it was reviewed, of the text the model read; and *)
(* while nothing moves the posting job proves what the review job proved.     *)
THEOREM CoverageHolds == GitlinkSpec => []GitlinkReviewSafe
<1>1. GitlinkInit => GitlinkInv
  <2> SUFFICES ASSUME GitlinkInit PROVE GitlinkInv OBVIOUS
  <2>1. GitlinkTypes BY GitlinkAssumption DEF GitlinkInit, GitlinkTypes, LocalGit, GitlinkStages, NotFrozen, Verifying
  <2>2. GitlinkFrozen BY DEF GitlinkInit, GitlinkFrozen, HasRead, Freezing, Frozen, ForModel, Posted, Unplanned
  <2>3. GitlinkHandover BY DEF GitlinkInit, GitlinkHandover, UntilModel, ForModel, Posted
  <2>4. GitlinkQuiet BY DEF GitlinkInit, GitlinkQuiet, HasRead, Freezing, Frozen, ForModel, Posted
  <2> QED BY <2>1, <2>2, <2>3, <2>4 DEF GitlinkInv
<1>2. GitlinkInv /\ [GitlinkNext]_gitlinkVars => GitlinkInv'
  BY GitlinkTypesKept, GitlinkFrozenKept, GitlinkHandoverKept, GitlinkQuietKept DEF GitlinkInv
<1>3. GitlinkInv => GitlinkReviewSafe BY GitlinkSafe
<1> QED BY <1>1, <1>2, <1>3, PTL DEF GitlinkSpec

-----------------------------------------------------------------------------
(* A nonempty set of numbers has a least: were there none, one less than each *)
(* would be an injection of a finite set into less than itself.               *)
LEMMA LeastNumber ==
  ASSUME NEW T \in SUBSET Nat, T # {}
  PROVE  \E x \in T : \A y \in T : x <= y
<1> SUFFICES ASSUME ~\E x \in T : \A y \in T : x <= y PROVE FALSE OBVIOUS
<1>1. PICK k \in T : TRUE OBVIOUS
<1> DEFINE above == {m \in 0..k : \E t \in T : t <= m}
           less == [m \in above |-> m - 1]
           rest == above \ {k}
<1>2. ASSUME NEW m \in above PROVE m - 1 \in above
  <2>1. PICK t \in T : t <= m BY <1>2
  <2>2. PICK u \in T : ~(t <= u) BY <2>1
  <2>3. u \in Nat /\ t \in Nat /\ u < t /\ m \in Nat BY <2>1, <2>2, <1>2
  <2>4. u <= m - 1 /\ m - 1 \in 0..k BY <2>1, <2>3, <1>2
  <2> QED BY <2>2, <2>4
<1>3. k \in above BY <1>1
<1>4. less \in Injection(above, rest)
  <2>1. \A m \in above : m - 1 \in rest BY <1>1, <1>2
  <2>2. \A m, n \in above : less[m] = less[n] => m = n OBVIOUS
  <2>3. less \in [above -> rest] BY <2>1
  <2> HIDE DEF above, less, rest
  <2> QED BY <2>2, <2>3 DEF Injection, IsInjective
<1>5. IsFiniteSet(0..k) BY <1>1, FS_Interval
<1>6. IsFiniteSet(above) BY <1>5, FS_Subset
<1>7. IsFiniteSet(rest) /\ Cardinality(rest) = Cardinality(above) - 1 /\ Cardinality(above) \in Nat
  BY <1>3, <1>6, FS_RemoveElement, FS_CardinalityType
<1> HIDE DEF above, less, rest
<1>8. Cardinality(above) <= Cardinality(rest) BY <1>4, <1>7, FS_Injection
<1> QED BY <1>7, <1>8

(* Of numbers up to a bound there is a greatest.                              *)
LEMMA GreatestNumber ==
  ASSUME NEW k \in Nat, NEW T \in SUBSET 0..k, T # {}
  PROVE  \E x \in T : \A y \in T : y <= x
<1> DEFINE mirrored == {k - t : t \in T}
<1>1. mirrored \in SUBSET Nat /\ mirrored # {}
  <2>1. \A t \in T : k - t \in Nat OBVIOUS
  <2>2. PICK t \in T : TRUE OBVIOUS
  <2>3. k - t \in mirrored OBVIOUS
  <2> QED BY <2>1, <2>3
<1>2. PICK x \in mirrored : \A y \in mirrored : x <= y BY <1>1, LeastNumber
<1>3. PICK t \in T : x = k - t BY <1>2
<1>4. ASSUME NEW u \in T PROVE u <= t
  <2>1. k - u \in mirrored OBVIOUS
  <2> QED BY <1>2, <1>3, <2>1
<1> QED BY <1>3, <1>4

(* The bytes behind a up to b.                                                *)
LEMMA BytesFacts ==
  ASSUME NEW a \in Nat, NEW b \in Nat, a <= b
  PROVE  /\ Positions(a + 1, b) \in Seq(Nat) /\ Len(Positions(a + 1, b)) = b - a
         /\ \A i \in 1..(b - a) : Positions(a + 1, b)[i] = a + i
         /\ Positions(a + 1, b) = <<>> <=> a = b
<1> DEFINE bytes == Positions(a + 1, b)
<1>1. bytes = [i \in 1..(b - a) |-> a + i] BY DEF Positions
<1>2. bytes \in Seq(Nat) /\ Len(bytes) = b - a BY <1>1, IsASeq
<1> HIDE DEF bytes
<1> QED BY <1>1, <1>2, EmptySeq DEF bytes

LEMMA BytesJoined ==
  ASSUME NEW a \in Nat, NEW b \in Nat, NEW c \in Nat, a <= b, b <= c
  PROVE  Positions(a + 1, b) \o Positions(b + 1, c) = Positions(a + 1, c)
<1> DEFINE s == Positions(a + 1, b)
           t == Positions(b + 1, c)
           u == Positions(a + 1, c)
<1>1. /\ s \in Seq(Nat) /\ t \in Seq(Nat) /\ u \in Seq(Nat) /\ Len(s) = b - a /\ Len(t) = c - b /\ Len(u) = c - a
      /\ \A i \in 1..(b - a) : s[i] = a + i
      /\ \A i \in 1..(c - b) : t[i] = b + i
      /\ \A i \in 1..(c - a) : u[i] = a + i
  <2>1. s \in Seq(Nat) /\ Len(s) = b - a /\ \A i \in 1..(b - a) : s[i] = a + i BY BytesFacts
  <2>2. t \in Seq(Nat) /\ Len(t) = c - b /\ \A i \in 1..(c - b) : t[i] = b + i BY BytesFacts
  <2>3. a <= c OBVIOUS
  <2>4. u \in Seq(Nat) /\ Len(u) = c - a /\ \A i \in 1..(c - a) : u[i] = a + i BY <2>3, BytesFacts
  <2> QED BY <2>1, <2>2, <2>4
<1> HIDE DEF s, t, u
<1>2. s \o t \in Seq(Nat) /\ Len(s \o t) = c - a BY <1>1, ConcatProperties
<1>3. \A i \in 1..(c - a) : (s \o t)[i] = u[i]
  <2> TAKE i \in 1..(c - a)
  <2>0. i \in 1..(Len(s) + Len(t)) BY <1>1
  <2>1. (s \o t)[i] = IF i <= b - a THEN s[i] ELSE t[i - (b - a)]
    <3>1. (s \o t)[i] = IF i <= Len(s) THEN s[i] ELSE t[i - Len(s)] BY <1>1, <2>0, ConcatProperties
    <3> QED BY <1>1, <3>1
  <2>2. CASE i <= b - a BY <1>1, <2>1, <2>2
  <2>3. CASE ~(i <= b - a)
    <3>1. i - (b - a) \in 1..(c - b) BY <2>3
    <3>2. t[i - (b - a)] = b + (i - (b - a)) BY <1>1, <3>1
    <3> QED BY <1>1, <2>1, <2>3, <3>2
  <2> QED BY <2>2, <2>3
<1> QED BY <1>1, <1>2, <1>3, SeqEqual DEF s, t, u

LEMMA BytesCut ==
  ASSUME NEW a \in Nat, NEW b \in Nat, a <= b, NEW n \in 0..(b - a)
  PROVE  /\ SubSeq(Positions(a + 1, b), 1, n) = Positions(a + 1, a + n)
         /\ Tail2(Positions(a + 1, b), n) = Positions(a + n + 1, b)
<1> DEFINE s == Positions(a + 1, b)
           t == Positions(a + 1, a + n)
           u == Positions(a + n + 1, b)
<1>1. a + n \in Nat /\ a <= a + n /\ a + n <= b OBVIOUS
<1>2. /\ s \in Seq(Nat) /\ t \in Seq(Nat) /\ u \in Seq(Nat) /\ Len(s) = b - a /\ Len(t) = n /\ Len(u) = b - a - n
      /\ \A i \in 1..(b - a) : s[i] = a + i
      /\ \A i \in 1..n : t[i] = a + i
      /\ \A i \in 1..(b - a - n) : u[i] = a + n + i
  <2>1. s \in Seq(Nat) /\ Len(s) = b - a /\ \A i \in 1..(b - a) : s[i] = a + i BY BytesFacts
  <2>2. t \in Seq(Nat) /\ Len(t) = n /\ \A i \in 1..n : t[i] = a + i
    <3> DEFINE m == a + n
    <3>1. m \in Nat /\ a <= m /\ m - a = n BY <1>1
    <3> HIDE DEF m
    <3>2. Positions(a + 1, m) \in Seq(Nat) /\ Len(Positions(a + 1, m)) = m - a
          /\ \A i \in 1..(m - a) : Positions(a + 1, m)[i] = a + i
      BY <3>1, BytesFacts
    <3> QED BY <3>1, <3>2 DEF m
  <2>3. u \in Seq(Nat) /\ Len(u) = b - a - n /\ \A i \in 1..(b - a - n) : u[i] = a + n + i
    <3> DEFINE m == a + n
    <3>1. m \in Nat /\ m <= b /\ b - m = b - a - n BY <1>1
    <3> HIDE DEF m
    <3>2. Positions(m + 1, b) \in Seq(Nat) /\ Len(Positions(m + 1, b)) = b - m
          /\ \A i \in 1..(b - m) : Positions(m + 1, b)[i] = m + i
      BY <3>1, BytesFacts
    <3> QED BY <3>1, <3>2 DEF m
  <2> QED BY <2>1, <2>2, <2>3
<1> HIDE DEF s, t, u
<1>3. /\ SubSeq(s, 1, n) \in Seq(Nat) /\ Len(SubSeq(s, 1, n)) = n /\ \A i \in 1..n : SubSeq(s, 1, n)[i] = s[i]
  BY SMTT(60), <1>2
<1>4. /\ SubSeq(s, n + 1, b - a) \in Seq(Nat) /\ Len(SubSeq(s, n + 1, b - a)) = b - a - n
      /\ \A i \in 1..(b - a - n) : SubSeq(s, n + 1, b - a)[i] = s[n + i]
  BY SMTT(60), <1>2
<1>5. SubSeq(s, 1, n) = t BY SMTT(60), <1>2, <1>3, SeqEqual
<1>6. SubSeq(s, n + 1, b - a) = u BY SMTT(60), <1>2, <1>4, SeqEqual
<1> QED BY <1>2, <1>5, <1>6 DEF s, t, u, Tail2

-----------------------------------------------------------------------------
(* One way of the conversation: the relay takes bytes from the source, writes *)
(* them to the target, and the target reads them.                             *)
StreamTyped(d) == taken[d] \in Nat /\ relayed[d] \in Seq(Nat) /\ passed[d] \in Seq(Nat)

LEMMA StreamFacts ==
  ASSUME NEW d, StreamOk(d), StreamTyped(d)
  PROVE  /\ SentOn(d) \in Nat /\ Arrived(d) \in Nat /\ Arrived(d) <= SentOn(d) /\ SentOn(d) <= taken[d]
         /\ Len(relayed[d]) = taken[d] - SentOn(d) /\ Len(passed[d]) = SentOn(d) - Arrived(d)
         /\ passed[d] = <<>> <=> Arrived(d) = SentOn(d)
         /\ relayed[d] = <<>> <=> SentOn(d) = taken[d]
<1>1. Len(relayed[d]) \in Nat /\ Len(passed[d]) \in Nat /\ taken[d] \in Nat BY DEF StreamTyped
<1>2. SentOn(d) = taken[d] - Len(relayed[d]) /\ Arrived(d) = SentOn(d) - Len(passed[d]) /\ 0 <= Arrived(d)
  BY DEF SentOn, Arrived, StreamOk
<1>3. SentOn(d) \in Nat /\ Arrived(d) \in Nat /\ Arrived(d) <= SentOn(d) /\ SentOn(d) <= taken[d] BY <1>1, <1>2
<1>4. Len(relayed[d]) = taken[d] - SentOn(d) /\ Len(passed[d]) = SentOn(d) - Arrived(d) BY <1>1, <1>2, <1>3
<1>5. relayed[d] = Positions(SentOn(d) + 1, taken[d]) /\ passed[d] = Positions(Arrived(d) + 1, SentOn(d))
  BY DEF StreamOk
<1>6. passed[d] = <<>> <=> Arrived(d) = SentOn(d) BY ZenonT(60), <1>3, <1>5, BytesFacts
<1>7. relayed[d] = <<>> <=> SentOn(d) = taken[d]
  <2> DEFINE a == SentOn(d)
             b == taken[d]
  <2>1. a \in Nat /\ b \in Nat /\ a <= b /\ relayed[d] = Positions(a + 1, b) BY <1>1, <1>3, <1>5
  <2> HIDE DEF a, b
  <2>2. Positions(a + 1, b) = <<>> <=> a = b BY <2>1, BytesFacts
  <2> QED BY <2>1, <2>2 DEF a, b
<1> QED BY <1>3, <1>4, <1>6, <1>7

LEMMA StreamRests ==
  ASSUME NEW d, StreamOk(d), taken'[d] = taken[d], relayed'[d] = relayed[d], passed'[d] = passed[d]
  PROVE  StreamOk(d)' /\ SentOn(d)' = SentOn(d) /\ Arrived(d)' = Arrived(d)
BY DEF StreamOk, SentOn, Arrived

LEMMA StreamTaken ==
  ASSUME NEW d, StreamOk(d), StreamTyped(d), NEW n \in Nat, Len(relayed[d]) + n <= RelayBuffer,
         taken'[d] = taken[d] + n, relayed'[d] = relayed[d] \o Positions(taken[d] + 1, taken[d] + n),
         passed'[d] = passed[d]
  PROVE  StreamOk(d)' /\ SentOn(d)' = SentOn(d) /\ Arrived(d)' = Arrived(d)
<1> DEFINE a == SentOn(d)
           b == taken[d]
           c == taken[d] + n
<1>0. SentOn(d) \in Nat /\ Arrived(d) \in Nat /\ Arrived(d) <= SentOn(d) /\ SentOn(d) <= taken[d] /\ taken[d] \in Nat
  BY StreamFacts DEF StreamTyped
<1>1. /\ a \in Nat /\ b \in Nat /\ c \in Nat /\ a <= b /\ b <= c /\ Arrived(d) \in Nat /\ Arrived(d) <= a
      /\ relayed[d] = Positions(a + 1, b) /\ Len(relayed[d]) = b - a
  <2>1. relayed[d] = Positions(a + 1, b) BY DEF StreamOk
  <2>2. Len(relayed[d]) = b - a BY StreamFacts
  <2> QED BY <1>0, <2>1, <2>2
<1> HIDE DEF a, b, c
<1>2. relayed'[d] = Positions(a + 1, b) \o Positions(b + 1, c) BY <1>1 DEF b, c
<1>3. relayed'[d] = Positions(a + 1, c) BY <1>1, <1>2, BytesJoined
<1>4. Len(relayed'[d]) = c - a
  <2>1. a <= c BY <1>1
  <2>2. Len(Positions(a + 1, c)) = c - a BY <1>1, <2>1, BytesFacts
  <2> QED BY <1>3, <2>2
<1>5. SentOn(d)' = a /\ Arrived(d)' = Arrived(d)
  <2>1. SentOn(d)' = taken'[d] - Len(relayed'[d]) BY DEF SentOn
  <2>2. taken'[d] = c BY DEF c
  <2>3. SentOn(d)' = a BY <1>1, <1>4, <2>1, <2>2
  <2> QED BY <2>3 DEF Arrived, a
<1>6. Len(relayed'[d]) <= RelayBuffer
  <2>1. (b - a) + n <= RelayBuffer /\ c = b + n BY <1>1 DEF b, c
  <2>2. c - a = (b - a) + n BY <1>1, <2>1
  <2> QED BY <1>4, <2>1, <2>2
<1>7. taken'[d] = c /\ passed'[d] = passed[d] /\ passed[d] = Positions(Arrived(d) + 1, a) BY DEF StreamOk, a, c
<1>8. 0 <= Arrived(d)' /\ SentOn(d)' <= taken'[d] BY <1>1, <1>5, <1>7
<1>9. StreamOk(d)' BY <1>3, <1>5, <1>6, <1>7, <1>8 DEF StreamOk
<1> QED BY <1>5, <1>9 DEF a

LEMMA StreamWritten ==
  ASSUME NEW d, StreamOk(d), StreamTyped(d), NEW n \in 0..Len(relayed[d]),
         taken'[d] = taken[d], relayed'[d] = (IF n = 0 THEN relayed[d] ELSE Tail2(relayed[d], n)),
         passed'[d] = passed[d] \o SubSeq(relayed[d], 1, n)
  PROVE  StreamOk(d)' /\ SentOn(d)' = SentOn(d) + n /\ Arrived(d)' = Arrived(d)
<1> DEFINE a == Arrived(d)
           b == SentOn(d)
           c == taken[d]
           m == SentOn(d) + n
<1>0. /\ SentOn(d) \in Nat /\ Arrived(d) \in Nat /\ Arrived(d) <= SentOn(d) /\ SentOn(d) <= taken[d] /\ taken[d] \in Nat
      /\ Len(relayed[d]) = taken[d] - SentOn(d)
  BY StreamFacts DEF StreamTyped
<1>1. /\ a \in Nat /\ b \in Nat /\ c \in Nat /\ m \in Nat /\ n \in Nat /\ a <= b /\ b <= m /\ m <= c /\ m = b + n
      /\ n \in 0..(c - b) /\ Len(relayed[d]) = c - b /\ a <= m /\ b <= c
  BY <1>0
<1>11. /\ relayed[d] = Positions(b + 1, c) /\ passed[d] = Positions(a + 1, b) /\ Len(relayed[d]) <= RelayBuffer
  BY DEF StreamOk
<1> HIDE DEF a, b, c, m
<1>2. SubSeq(relayed[d], 1, n) = Positions(b + 1, m) /\ Tail2(relayed[d], n) = Positions(m + 1, c)
  <2>1. SubSeq(Positions(b + 1, c), 1, n) = Positions(b + 1, b + n) /\ Tail2(Positions(b + 1, c), n) = Positions(b + n + 1, c)
    BY <1>1, BytesCut, Zenon
  <2> QED BY <1>1, <1>11, <2>1
<1>3. passed'[d] = Positions(a + 1, m)
  <2>1. Positions(a + 1, b) \o Positions(b + 1, m) = Positions(a + 1, m) BY ZenonT(60), <1>1, BytesJoined
  <2> QED BY <1>11, <1>2, <2>1
<1>4. relayed'[d] = Positions(m + 1, c)
  <2>1. CASE n = 0 BY <1>1, <1>11, <2>1
  <2>2. CASE n # 0 BY <1>2, <2>2
  <2> QED BY <2>1, <2>2
<1>5. Len(passed'[d]) = m - a /\ Len(relayed'[d]) = c - m
  <2>1. Len(Positions(a + 1, m)) = m - a BY <1>1, BytesFacts
  <2>2. Len(Positions(m + 1, c)) = c - m BY <1>1, BytesFacts
  <2> QED BY <1>3, <1>4, <2>1, <2>2
<1>6. taken'[d] = c BY DEF c
<1>7. SentOn(d)' = m
  <2>1. SentOn(d)' = taken'[d] - Len(relayed'[d]) BY DEF SentOn
  <2> QED BY <1>1, <1>5, <1>6, <2>1
<1>8. Arrived(d)' = a
  <2>1. Arrived(d)' = SentOn(d)' - Len(passed'[d]) BY DEF Arrived
  <2> QED BY <1>1, <1>5, <1>7, <2>1
<1>9. RelayBuffer \in Nat BY WireAssumption
<1>10. Len(relayed'[d]) <= RelayBuffer
  <2>1. c - b <= RelayBuffer BY <1>1, <1>11
  <2> QED BY <1>1, <1>5, <1>9, <2>1
<1>12. 0 <= Arrived(d)' /\ SentOn(d)' <= taken'[d] BY <1>1, <1>6, <1>7, <1>8
<1>13. StreamOk(d)' BY <1>3, <1>4, <1>6, <1>7, <1>8, <1>10, <1>12 DEF StreamOk
<1> QED BY <1>7, <1>8, <1>13 DEF a, m

LEMMA StreamArrives ==
  ASSUME NEW d, StreamOk(d), StreamTyped(d), NEW n \in 0..Len(passed[d]),
         taken'[d] = taken[d], relayed'[d] = relayed[d], passed'[d] = Tail2(passed[d], n)
  PROVE  /\ StreamOk(d)' /\ SentOn(d)' = SentOn(d) /\ Arrived(d)' = Arrived(d) + n
         /\ SubSeq(passed[d], 1, n) = Positions(Arrived(d) + 1, Arrived(d) + n)
<1> DEFINE a == Arrived(d)
           b == SentOn(d)
           m == Arrived(d) + n
<1>1. /\ a \in Nat /\ b \in Nat /\ m \in Nat /\ n \in Nat /\ a <= m /\ m <= b /\ m = a + n
      /\ n \in 0..(b - a) /\ passed[d] = Positions(a + 1, b)
  BY StreamFacts DEF StreamTyped, StreamOk
<1>2. SentOn(d)' = b BY DEF SentOn
<1> HIDE DEF a, b, m
<1>3. SubSeq(passed[d], 1, n) = Positions(a + 1, m) /\ Tail2(passed[d], n) = Positions(m + 1, b)
  BY <1>1, BytesCut
<1>4. Len(passed'[d]) = b - m
  <2>1. Len(Positions(m + 1, b)) = b - m BY <1>1, BytesFacts
  <2> QED BY <1>3, <2>1
<1>5. Arrived(d)' = m
  <2>1. Arrived(d)' = SentOn(d)' - Len(passed'[d]) BY DEF Arrived
  <2> QED BY <1>1, <1>2, <1>4, <2>1
<1>6. /\ relayed'[d] = Positions(b + 1, taken'[d]) /\ b <= taken'[d] /\ Len(relayed'[d]) <= RelayBuffer
  BY DEF StreamOk, b
<1> QED BY <1>1, <1>2, <1>3, <1>5, <1>6 DEF StreamOk, a, b, m

-----------------------------------------------------------------------------
(* The ends of frames, and how the gateway finds them.                        *)
LEMMA WorldFacts ==
  ASSUME WorldOk(wire)
  PROVE  /\ wire.ask \in Seq(Nat) /\ Len(wire.ask) \in Nat /\ Len(wire.answer) \in Nat
         /\ \A i \in 1..Len(wire.ask) : wire.ask[i] \in Nat \ {0}
         /\ \A i \in 1..Len(wire.answer) : wire.answer[i] \in Nat \ {0}
         /\ \A i, j \in 1..Len(wire.ask) : i < j => wire.ask[i] < wire.ask[j]
         /\ \A i, j \in 1..Len(wire.answer) : i < j => wire.answer[i] < wire.answer[j]
         /\ EndsOf("ask") = {wire.ask[i] : i \in 1..Len(wire.ask)}
         /\ \A d \in Ways : EndsOf(d) \subseteq Nat \ {0} /\ FrameBegins(d) \subseteq Nat
         /\ wire.askBytes \in Nat /\ wire.charges \in Nat
<1>1. /\ wire.ask \in Seq(Nat \ {0}) /\ wire.answer \in Seq(Nat \ {0}) /\ wire.askBytes \in Nat /\ wire.charges \in Nat
      /\ \A d \in Ways : \A i, j \in DOMAIN wire[d] : i < j => wire[d][i] < wire[d][j]
  BY DEF WorldOk
<1>2. DOMAIN wire["ask"] = 1..Len(wire.ask) /\ DOMAIN wire["answer"] = 1..Len(wire.answer) BY <1>1
<1>3. wire.ask \in Seq(Nat) BY <1>1
<1>4. /\ \A i \in 1..Len(wire.ask) : wire.ask[i] \in Nat \ {0}
      /\ \A i \in 1..Len(wire.answer) : wire.answer[i] \in Nat \ {0}
  BY <1>1
<1>5. /\ \A i, j \in 1..Len(wire.ask) : i < j => wire.ask[i] < wire.ask[j]
      /\ \A i, j \in 1..Len(wire.answer) : i < j => wire.answer[i] < wire.answer[j]
  BY <1>1, <1>2 DEF Ways
<1>6. EndsOf("ask") = {wire.ask[i] : i \in 1..Len(wire.ask)} /\ EndsOf("answer") = {wire.answer[i] : i \in 1..Len(wire.answer)}
  BY <1>2 DEF EndsOf
<1>7. \A d \in Ways : EndsOf(d) \subseteq Nat \ {0} /\ FrameBegins(d) \subseteq Nat
  BY <1>4, <1>6 DEF Ways, FrameBegins
<1> QED BY <1>1, <1>3, <1>4, <1>5, <1>6, <1>7

(* How long the relay takes the unfinished frame to be.                       *)
LEMMA PartialFacts ==
  ASSUME WorldOk(wire), NEW d \in Ways, taken[d] \in Nat, NEW k \in Nat, taken[d] < k,
         NEW e \in FrameBegins(d), e <= taken[d], partial[d] = taken[d] - e
  PROVE  \E f \in FrameBegins(d) : f < k /\ PartialAfter(d, k) = k - f
<1> DEFINE before == {x \in EndsOf(d) : taken[d] < x /\ x < k}
           last == CHOOSE x \in before : \A y \in before : y <= x
<1>1. FrameBegins(d) \subseteq Nat /\ EndsOf(d) \subseteq FrameBegins(d) BY WorldFacts DEF FrameBegins
<1>2. PartialAfter(d, k) = IF before = {} THEN partial[d] + k - taken[d] ELSE k - last BY DEF PartialAfter
<1>3. CASE before = {}
  <2>1. e \in Nat /\ e < k /\ PartialAfter(d, k) = k - e BY <1>1, <1>2, <1>3
  <2> QED BY <2>1
<1>4. CASE before # {}
  <2>1. before \in SUBSET 0..k BY <1>1
  <2> HIDE DEF before
  <2>2. \E x \in before : \A y \in before : y <= x BY <1>4, <2>1, GreatestNumber
  <2>3. last \in before BY <2>2
  <2> HIDE DEF last
  <2>4. last \in EndsOf(d) /\ last < k BY <2>3 DEF before
  <2> QED BY <1>1, <1>2, <1>4, <2>4
<1> QED BY <1>3, <1>4

(* What read_frames does with the bytes behind a up to b, having those behind *)
(* s of a frame whose end is the next of the stream, behind m others.         *)
EndOfCall(m) == IF m = 0 THEN 0 ELSE wire.ask[m]

LEMMA NextEnd ==
  ASSUME WorldOk(wire), NEW m \in Nat, m <= Len(wire.ask), NEW x \in EndsOf("ask"), EndOfCall(m) < x,
         NEW y \in Nat, y < x, NoEndBetween(EndOfCall(m), y),
         \A z \in EndsOf("ask") : y < z => x <= z
  PROVE  m < Len(wire.ask) /\ x = wire.ask[m + 1]
<1>1. PICK i \in 1..Len(wire.ask) : x = wire.ask[i] BY WorldFacts
<1>2. m < i
  <2>1. CASE m = 0 BY <1>1, <2>1
  <2>2. CASE m # 0
    <3>1. m \in 1..Len(wire.ask) /\ EndOfCall(m) = wire.ask[m] BY <2>2, WorldFacts DEF EndOfCall
    <3>2. SUFFICES ASSUME i <= m PROVE FALSE BY <1>1
    <3>3. wire.ask[i] \in Nat /\ wire.ask[m] \in Nat /\ wire.ask[m] < wire.ask[i] BY <1>1, <3>1, WorldFacts
    <3>4. i = m \/ i < m BY <1>1, <3>2
    <3>5. i < m => wire.ask[i] < wire.ask[m] BY <1>1, <3>1, WorldFacts
    <3> QED BY <3>3, <3>4, <3>5
  <2> QED BY <2>1, <2>2
<1>3. m + 1 \in 1..Len(wire.ask) /\ Len(wire.ask) \in Nat BY SMTT(60), <1>1, <1>2, WorldFacts
<1>4. SUFFICES ASSUME m + 1 # i PROVE FALSE BY <1>1, <1>3
<1>5. wire.ask[m + 1] < x /\ wire.ask[m + 1] \in EndsOf("ask") /\ wire.ask[m + 1] \in Nat
  BY SMTT(60), <1>1, <1>2, <1>3, <1>4, WorldFacts
<1>6. EndOfCall(m) < wire.ask[m + 1]
  <2>1. CASE m = 0 BY <1>3, <2>1, WorldFacts DEF EndOfCall
  <2>2. CASE m # 0
    <3>1. m \in 1..Len(wire.ask) /\ EndOfCall(m) = wire.ask[m] /\ m < m + 1 BY <1>3, <2>2 DEF EndOfCall
    <3> QED BY <1>3, <3>1, WorldFacts
  <2> QED BY <2>1, <2>2
<1>7. ~(wire.ask[m + 1] <= y) BY <1>5, <1>6 DEF NoEndBetween
<1>8. x \in Nat BY WorldFacts DEF Ways
<1>9. x <= wire.ask[m + 1] BY <1>5, <1>7
<1> QED BY <1>5, <1>8, <1>9

LEMMA FrameFits ==
  ASSUME WorldOk(wire), NEW b \in Nat, NEW s \in Nat, NEW z \in Nat, s <= z, z <= b,
         \A e \in EndsOf("ask") : s < e => z <= e,
         \A k \in 1..b : \E e \in FrameBegins("ask") : e < k /\ k - e <= FrameLimit
  PROVE  z - s <= FrameLimit
<1>1. FrameLimit \in Nat BY WireAssumption
<1>2. CASE s = z BY <1>1, <1>2
<1>3. CASE s < z
  <2>1. z \in 1..b BY <1>3
  <2>2. PICK e \in FrameBegins("ask") : e < z /\ z - e <= FrameLimit BY <2>1
  <2>3. e \in Nat BY WorldFacts DEF Ways
  <2>4. e <= s
    <3>1. CASE e = 0 BY <3>1
    <3>2. CASE e \in EndsOf("ask") BY <2>2, <2>3, <3>2
    <3> QED BY <3>1, <3>2 DEF FrameBegins
  <2> QED BY <1>1, <2>2, <2>3, <2>4
<1> QED BY <1>2, <1>3

LEMMA SplitEffect ==
  ASSUME WorldOk(wire), NEW m \in Nat, m <= Len(wire.ask), NEW a \in Nat, NEW b \in Nat,
         EndOfCall(m) <= a, a <= b, NoEndBetween(EndOfCall(m), a),
         \A k \in 1..b : \E e \in FrameBegins("ask") : e < k /\ k - e <= FrameLimit,
         NEW c, c = Positions(a + 1, b), NEW f, f = Positions(EndOfCall(m) + 1, a),
         NEW r, r = Split(c, f)
  PROVE  \/ /\ r.at = "reading" /\ r.why = "none" /\ r.chunk = <<>> /\ r.frame = Positions(EndOfCall(m) + 1, b)
            /\ NoEndBetween(EndOfCall(m), b) /\ b - EndOfCall(m) <= FrameLimit
         \/ /\ r.at = "sending" /\ r.why = "none" /\ m < Len(wire.ask)
            /\ a < wire.ask[m + 1] /\ wire.ask[m + 1] <= b
            /\ r.chunk = Positions(wire.ask[m + 1] + 1, b) /\ r.frame = Positions(EndOfCall(m) + 1, wire.ask[m + 1])
            /\ wire.ask[m + 1] - EndOfCall(m) <= FrameLimit
         \/ /\ r.at = "failing" /\ r.why = "json" /\ r.chunk = <<>> /\ r.frame \in Seq(Nat) /\ Len(r.frame) <= FrameLimit
<1> DEFINE s == EndOfCall(m)
           stops == {i \in 1..Len(c) : c[i] \in EndsOf("ask")}
           n == IF stops = {} THEN Len(c) ELSE Least(stops)
           whole == f \o SubSeq(c, 1, n)
           x == a + n
<1>1. s \in Nat
  <2>1. CASE m = 0 BY <2>1 DEF EndOfCall
  <2>2. CASE m # 0
    <3>1. m \in 1..Len(wire.ask) BY <2>2, WorldFacts
    <3> QED BY <2>2, <3>1, WorldFacts DEF EndOfCall
  <2> QED BY <2>1, <2>2
<1>2. /\ c \in Seq(Nat) /\ Len(c) = b - a /\ \A i \in 1..(b - a) : c[i] = a + i
      /\ c = <<>> <=> a = b
  BY ZenonT(60), BytesFacts
<1>3. r = IF c = <<>> THEN Splitting("reading", <<>>, f, "none")
          ELSE IF Len(whole) > FrameLimit THEN Splitting("failing", <<>>, f, "length")
          ELSE IF stops = {} THEN Splitting("reading", <<>>, whole, "none")
          ELSE IF c[n] \in wire.invalid THEN Splitting("failing", <<>>, whole, "json")
          ELSE Splitting("sending", Tail2(c, n), whole, "none")
  BY DEF Split
<1>4. NoEndBetween(s, a) /\ s <= a /\ f = Positions(s + 1, a) OBVIOUS
<1>5. \A e \in EndsOf("ask") : e \in Nat BY WorldFacts DEF Ways
<1> HIDE DEF s
<1>6. CASE a = b
  <2>1. r = Splitting("reading", <<>>, f, "none") BY <1>2, <1>3, <1>6
  <2>2. r.at = "reading" /\ r.why = "none" /\ r.chunk = <<>> /\ r.frame = f BY <2>1 DEF Splitting
  <2>3. \A e \in EndsOf("ask") : s < e => b <= e BY <1>4, <1>5, <1>6 DEF NoEndBetween
  <2>4. s <= b /\ b <= b BY <1>1, <1>4, <1>6
  <2>5. b - s <= FrameLimit BY <1>1, <2>3, <2>4, FrameFits
  <2> QED BY <1>4, <1>6, <2>2, <2>5 DEF s
<1>7. CASE a < b /\ stops = {}
  <2>1. n = b - a /\ x = b BY <1>2, <1>7
  <2>2. NoEndBetween(s, b)
    <3>1. SUFFICES ASSUME NEW e \in EndsOf("ask"), s < e, e <= b PROVE FALSE BY DEF NoEndBetween
    <3>2. e \in Nat /\ a < e BY <1>1, <1>4, <1>5, <3>1 DEF NoEndBetween
    <3>3. e - a \in 1..(b - a) /\ c[e - a] = e BY <1>2, <3>1, <3>2
    <3> QED BY <1>2, <1>7, <3>3
  <2>3. whole = Positions(s + 1, b)
    <3>1. SubSeq(c, 1, b - a) = Positions(a + 1, a + (b - a)) BY BytesCut
    <3>2. a + (b - a) = b OBVIOUS
    <3>3. Positions(s + 1, a) \o Positions(a + 1, b) = Positions(s + 1, b) BY <1>1, <1>4, BytesJoined
    <3> QED BY <1>4, <2>1, <3>1, <3>2, <3>3
  <2>4. s <= b /\ b <= b BY <1>1, <1>4
  <2>5. \A e \in EndsOf("ask") : s < e => b <= e BY <1>5, <2>2 DEF NoEndBetween
  <2>6. b - s <= FrameLimit BY <1>1, <2>4, <2>5, FrameFits
  <2>7. Len(whole) = b - s BY <1>1, <2>3, <2>4, BytesFacts
  <2>80. FrameLimit \in Nat BY WireAssumption
  <2> HIDE DEF whole, n, stops
  <2>8. ~(Len(whole) > FrameLimit) BY <1>1, <2>6, <2>7, <2>80
  <2>9. r = Splitting("reading", <<>>, whole, "none") BY <1>2, <1>3, <1>7, <2>8
  <2>10. r.at = "reading" /\ r.why = "none" /\ r.chunk = <<>> /\ r.frame = whole BY <2>9 DEF Splitting
  <2> QED BY <2>2, <2>3, <2>6, <2>10 DEF s
<1>8. CASE a < b /\ stops # {}
  <2>1. n \in stops /\ \A y \in stops : n <= y
    <3>1. stops \in SUBSET Nat BY <1>2
    <3> HIDE DEF stops
    <3>2. \E y \in stops : \A z \in stops : y <= z BY <1>8, <3>1, LeastNumber
    <3> QED BY <1>8, <3>2 DEF Least
  <2>2. n \in 1..(b - a) /\ c[n] = x /\ x \in EndsOf("ask") /\ x \in Nat /\ a < x /\ x <= b /\ n \in 0..(b - a) /\ x = a + n
    <3>1. n \in 1..Len(c) /\ c[n] \in EndsOf("ask") BY <2>1
    <3> HIDE DEF n
    <3>2. n \in 1..(b - a) BY <1>2, <3>1
    <3>3. c[n] = a + n BY <1>2, <3>2
    <3>4. x = a + n OBVIOUS
    <3> HIDE DEF x
    <3>5. x \in EndsOf("ask") /\ c[n] = x BY <3>1, <3>3, <3>4
    <3>6. x \in Nat /\ a < x /\ x <= b /\ n \in 0..(b - a) BY <3>2, <3>4
    <3> QED BY <3>2, <3>4, <3>5, <3>6
  <2>3. ASSUME NEW z \in EndsOf("ask"), a < z PROVE x <= z
    <3>1. z \in Nat BY <1>5
    <3>2. CASE z <= b
      <4>1. z - a \in 1..(b - a) /\ c[z - a] = z BY <1>2, <2>3, <3>1, <3>2
      <4>2. z - a \in stops BY <1>2, <4>1
      <4>3. n <= z - a BY <2>1, <4>2
      <4> HIDE DEF n, x, stops
      <4> QED BY <2>2, <3>1, <4>3
    <3>3. CASE ~(z <= b) BY SMTT(60), <2>2, <3>1, <3>3
    <3> QED BY <3>2, <3>3
  <2> HIDE DEF n, stops, x
  <2>4. EndOfCall(m) < x BY <1>1, <1>4, <2>2 DEF s
  <2>5. m < Len(wire.ask) /\ x = wire.ask[m + 1] BY <2>2, <2>3, <2>4, NextEnd
  <2>6. whole = Positions(s + 1, x) /\ Tail2(c, n) = Positions(x + 1, b)
    <3>1. SubSeq(c, 1, n) = Positions(a + 1, a + n) /\ Tail2(c, n) = Positions(a + n + 1, b) BY <2>2, BytesCut
    <3>2. Positions(s + 1, a) \o Positions(a + 1, x) = Positions(s + 1, x)
      <4>1. a <= x BY <2>2
      <4> QED BY <1>1, <1>4, <2>2, <4>1, BytesJoined
    <3> QED BY <1>4, <2>2, <3>1, <3>2
  <2>7. s <= x BY <1>1, <1>4, <2>2
  <2>8. \A e \in EndsOf("ask") : s < e => x <= e
    <3> TAKE e \in EndsOf("ask")
    <3> HAVE s < e
    <3>1. a < e BY <1>4, <1>5 DEF NoEndBetween
    <3> QED BY <2>3, <3>1
  <2>9. x - s <= FrameLimit BY <1>1, <2>2, <2>7, <2>8, FrameFits
  <2>10. whole \in Seq(Nat) /\ Len(whole) = x - s
    <3>1. Positions(s + 1, x) \in Seq(Nat) /\ Len(Positions(s + 1, x)) = x - s BY <1>1, <2>2, <2>7, BytesFacts
    <3> QED BY <2>6, <3>1
  <2> HIDE DEF whole
  <2>110. FrameLimit \in Nat BY WireAssumption
  <2>11. ~(Len(whole) > FrameLimit) /\ Len(whole) <= FrameLimit BY <1>1, <2>2, <2>9, <2>10, <2>110
  <2>12. r = Splitting("failing", <<>>, whole, "json") \/ r = Splitting("sending", Tail2(c, n), whole, "none")
    BY <1>2, <1>3, <1>8, <2>11
  <2>13. CASE r = Splitting("failing", <<>>, whole, "json")
    <3>1. r.at = "failing" /\ r.why = "json" /\ r.chunk = <<>> /\ r.frame = whole BY <2>13 DEF Splitting
    <3> QED BY <2>10, <2>11, <3>1
  <2>14. CASE r = Splitting("sending", Tail2(c, n), whole, "none")
    <3>1. r.at = "sending" /\ r.why = "none" /\ r.chunk = Tail2(c, n) /\ r.frame = whole BY <2>14 DEF Splitting
    <3> QED BY <2>2, <2>5, <2>6, <2>9, <3>1 DEF s
  <2> QED BY <2>12, <2>13, <2>14
<1> QED BY <1>6, <1>7, <1>8

(* The gateway splits what it holds and what it has just read; what this costs *)
(* is part of what b holds.                                                   *)
LEMMA GoesOnEffect ==
  ASSUME WorldOk(wire), NEW m \in Nat, m <= Len(wire.ask), NEW a \in Nat, NEW z \in Nat,
         EndOfCall(m) <= a, a <= z, NoEndBetween(EndOfCall(m), a),
         \A k \in 1..z : \E e \in FrameBegins("ask") : e < k /\ k - e <= FrameLimit,
         NEW c, c = Positions(a + 1, z), NEW f, f = Positions(EndOfCall(m) + 1, a),
         NEW b \in [bytes : Nat, requests : Nat], GoesOn(c, f, b)
  PROVE  /\ wireBudget' \in [bytes : Nat, requests : Nat]
         /\ wireBudget'.bytes = b.bytes /\ wireBudget'.requests >= b.requests
         /\ \/ /\ receiveAt' = "reading" /\ trouble' = "none" /\ chunk' = <<>>
               /\ frame' = Positions(EndOfCall(m) + 1, z)
               /\ NoEndBetween(EndOfCall(m), z) /\ z - EndOfCall(m) <= FrameLimit
            \/ /\ receiveAt' = "sending" /\ trouble' = "none" /\ m < Len(wire.ask)
               /\ a < wire.ask[m + 1] /\ wire.ask[m + 1] <= z
               /\ chunk' = Positions(wire.ask[m + 1] + 1, z)
               /\ frame' = Positions(EndOfCall(m) + 1, wire.ask[m + 1])
               /\ wire.ask[m + 1] - EndOfCall(m) <= FrameLimit
               /\ wireBudget'.requests = b.requests + Cost(frame') /\ wireBudget'.requests <= WireRequests
               /\ b.bytes <= WireBytes
            \/ /\ receiveAt' = "failing" /\ trouble' \in {"budget", "json"} /\ chunk' = <<>>
               /\ frame' \in Seq(Nat) /\ Len(frame') <= FrameLimit
<1> DEFINE r == Split(c, f)
           s == EndOfCall(m)
           paid == IF r.at = "sending" THEN [b EXCEPT !.requests = @ + Cost(r.frame)] ELSE b
           bad == OverBudget(b) \/ OverBudget(paid)
<1>0. s \in Nat
  <2>1. CASE m = 0 BY <2>1 DEF EndOfCall
  <2>2. CASE m # 0
    <3>1. m \in 1..Len(wire.ask) BY <2>2, WorldFacts
    <3> QED BY <2>2, <3>1, WorldFacts DEF EndOfCall
  <2> QED BY <2>1, <2>2
<1>1. \/ /\ r.at = "reading" /\ r.why = "none" /\ r.chunk = <<>> /\ r.frame = Positions(s + 1, z)
         /\ NoEndBetween(s, z) /\ z - s <= FrameLimit
      \/ /\ r.at = "sending" /\ r.why = "none" /\ m < Len(wire.ask)
         /\ a < wire.ask[m + 1] /\ wire.ask[m + 1] <= z
         /\ r.chunk = Positions(wire.ask[m + 1] + 1, z) /\ r.frame = Positions(s + 1, wire.ask[m + 1])
         /\ wire.ask[m + 1] - s <= FrameLimit
      \/ /\ r.at = "failing" /\ r.why = "json" /\ r.chunk = <<>> /\ r.frame \in Seq(Nat) /\ Len(r.frame) <= FrameLimit
  BY SplitEffect
<1>2. /\ wireBudget' = IF OverBudget(b) THEN b ELSE paid
      /\ receiveAt' = IF bad THEN "failing" ELSE r.at
      /\ chunk' = IF bad THEN <<>> ELSE r.chunk
      /\ frame' = r.frame
      /\ trouble' = IF bad THEN "budget" ELSE r.why
  BY DEF GoesOn
<1> HIDE DEF r, s
<1>3. /\ paid \in [bytes : Nat, requests : Nat] /\ paid.bytes = b.bytes /\ paid.requests >= b.requests
      /\ r.at = "sending" => paid.requests = b.requests + Cost(r.frame)
  <2>1. Cost(r.frame) \in {0, 1} BY DEF Cost
  <2> QED BY <2>1
<1> HIDE DEF paid
<1>4. WireBytes \in Nat /\ WireRequests \in Nat BY WireAssumption
<1>5. ~bad => b.bytes <= WireBytes /\ paid.bytes <= WireBytes /\ paid.requests <= WireRequests /\ ~OverBudget(b)
  BY <1>3, <1>4 DEF OverBudget
<1>6. r.frame \in Seq(Nat) /\ Len(r.frame) <= FrameLimit
  <2>1. CASE r.frame = Positions(s + 1, z) /\ z - s <= FrameLimit
    <3>1. s <= z BY <1>0 DEF s
    <3>2. Positions(s + 1, z) \in Seq(Nat) /\ Len(Positions(s + 1, z)) = z - s BY <1>0, <3>1, BytesFacts
    <3> QED BY <2>1, <3>2
  <2>2. CASE /\ m < Len(wire.ask) /\ a < wire.ask[m + 1] /\ r.frame = Positions(s + 1, wire.ask[m + 1])
             /\ wire.ask[m + 1] - s <= FrameLimit
    <3> DEFINE x == wire.ask[m + 1]
    <3>1. m + 1 \in 1..Len(wire.ask) BY <2>2, WorldFacts
    <3>2. x \in Nat /\ r.frame = Positions(s + 1, x) /\ x - s <= FrameLimit /\ a < x BY <2>2, <3>1, WorldFacts
    <3>3. s <= a BY DEF s
    <3> HIDE DEF x
    <3>4. s <= x BY <1>0, <3>2, <3>3
    <3>5. Positions(s + 1, x) \in Seq(Nat) /\ Len(Positions(s + 1, x)) = x - s BY <1>0, <3>2, <3>4, BytesFacts
    <3> QED BY <3>2, <3>5
  <2> QED BY <1>1, <2>1, <2>2
<1>7. wireBudget' \in [bytes : Nat, requests : Nat] /\ wireBudget'.bytes = b.bytes /\ wireBudget'.requests >= b.requests
  BY <1>2, <1>3
<1>8. CASE bad BY <1>2, <1>6, <1>7, <1>8
<1>9. CASE ~bad
  <2>1. wireBudget' = paid /\ receiveAt' = r.at /\ chunk' = r.chunk /\ frame' = r.frame /\ trouble' = r.why
    BY <1>2, <1>5, <1>9
  <2>2. CASE r.at = "reading" BY <1>1, <1>7, <2>1, <2>2 DEF s
  <2>3. CASE r.at = "sending" BY <1>1, <1>3, <1>5, <1>7, <1>9, <2>1, <2>3 DEF s
  <2>4. CASE r.at = "failing" BY <1>1, <1>7, <2>1, <2>4
  <2> QED BY <1>1, <2>2, <2>3, <2>4
<1> QED BY <1>8, <1>9

-----------------------------------------------------------------------------
(* What the steps do to the two streams.                                      *)
Streams == <<taken, relayed, passed, ocrGot>>

LEMMA WayFacts ==
  ASSUME WireTypes, NEW d \in Ways
  PROVE  StreamTyped(d) /\ wrote[d] \in Nat /\ partial[d] \in Nat
BY DEF WireTypes, StreamTyped

LEMMA StreamsRest ==
  ASSUME WireStreams, UNCHANGED Streams
  PROVE  /\ WireStreams' /\ Arrived("ask")' = Arrived("ask") /\ SentOn("ask")' = SentOn("ask")
         /\ Arrived("answer")' = Arrived("answer")
<1>1. taken' = taken /\ relayed' = relayed /\ passed' = passed /\ ocrGot' = ocrGot BY DEF Streams
<1>2. StreamOk("ask") /\ StreamOk("answer") /\ ocrGot = Positions(1, Arrived("answer")) BY DEF WireStreams
<1>3. StreamOk("ask")' /\ SentOn("ask")' = SentOn("ask") /\ Arrived("ask")' = Arrived("ask") BY <1>1, <1>2, StreamRests
<1>4. StreamOk("answer")' /\ Arrived("answer")' = Arrived("answer") BY <1>1, <1>2, StreamRests
<1> QED BY <1>1, <1>2, <1>3, <1>4 DEF WireStreams

LEMMA OcrReadsEffect ==
  ASSUME WireTypes, WireStreams, OcrReads
  PROVE  /\ WireStreams' /\ Arrived("ask")' = Arrived("ask") /\ SentOn("ask")' = SentOn("ask")
         /\ ocrGot' \in Seq(Nat) /\ passed' \in [Ways -> Seq(Nat)] /\ passed'["ask"] = passed["ask"]
<1> DEFINE n == Len(passed["answer"])
           a == Arrived("answer")
<1>1. StreamOk("ask") /\ StreamOk("answer") /\ ocrGot = Positions(1, Arrived("answer")) BY DEF WireStreams
<1>2. "ask" \in Ways /\ "answer" \in Ways BY DEF Ways
<1>3. StreamTyped("ask") /\ StreamTyped("answer") BY <1>2, WayFacts
<1>4. passed \in [Ways -> Seq(Nat)] /\ ocrGot \in Seq(Nat) BY DEF WireTypes
<1>5. passed["answer"] \in Seq(Nat) /\ n \in Nat BY <1>2, <1>4
<1>6. /\ passed' = [passed EXCEPT !["answer"] = <<>>] /\ ocrGot' = ocrGot \o passed["answer"]
      /\ taken' = taken /\ relayed' = relayed
  BY DEF OcrReads, relayVars
<1>7. passed'["answer"] = <<>> /\ passed'["ask"] = passed["ask"] /\ passed' \in [Ways -> Seq(Nat)] BY <1>2, <1>4, <1>6
<1>8. Tail2(passed["answer"], n) = <<>> BY <1>5, SubSeqProperties, EmptySeq DEF Tail2
<1>9. SubSeq(passed["answer"], 1, n) = passed["answer"] BY <1>5, SubSeqProperties, SeqEqual
<1>10. /\ StreamOk("answer")' /\ Arrived("answer")' = a + n
       /\ SubSeq(passed["answer"], 1, n) = Positions(a + 1, a + n)
  <2>1. n \in 0..Len(passed["answer"]) BY <1>5
  <2> QED BY <1>1, <1>3, <1>6, <1>7, <1>8, <2>1, StreamArrives
<1>11. StreamOk("ask")' /\ Arrived("ask")' = Arrived("ask") /\ SentOn("ask")' = SentOn("ask")
  BY <1>1, <1>6, <1>7, StreamRests
<1>12. a \in Nat BY <1>1, <1>3, StreamFacts
<1> HIDE DEF a, n
<1>13. ocrGot' = Positions(1, a + n)
  <2> DEFINE c == a + n
  <2>1. a \in Nat /\ c \in Nat /\ 0 <= a /\ a <= c BY <1>5, <1>12
  <2> HIDE DEF c
  <2>2. Positions(0 + 1, a) \o Positions(a + 1, c) = Positions(0 + 1, c) BY <2>1, BytesJoined
  <2>3. ocrGot' = Positions(1, a) \o Positions(a + 1, c) BY <1>1, <1>6, <1>9, <1>10 DEF a, c
  <2> QED BY <2>2, <2>3 DEF c
<1>14. WireStreams' BY <1>10, <1>11, <1>13 DEF WireStreams
<1>15. ocrGot' \in Seq(Nat) BY <1>4, <1>5, <1>6, ConcatProperties
<1> QED BY <1>7, <1>11, <1>14, <1>15

LEMMA RelayReadsEffect ==
  ASSUME WireTypes, WireStreams, WireLengths, NEW d \in Ways, RelayReads(d)
  PROVE  /\ WireStreams' /\ Arrived("ask")' = Arrived("ask") /\ SentOn("ask")' = SentOn("ask")
         /\ passed' = passed /\ ocrGot' = ocrGot
         /\ relayTurn' = [relayTurn EXCEPT !.read = @ \ {d}] /\ d \in relayTurn.read
         /\ \/ UNCHANGED <<taken, relayed, partial, relayAt>> /\ taken[d] = wrote[d] /\ ended' = ended \cup {d}
            \/ UNCHANGED <<taken, relayed, partial, ended>> /\ relayAt' = "one"
            \/ /\ UNCHANGED <<ended, relayAt>> /\ relayed' \in [Ways -> Seq(Nat)] /\ partial' \in [Ways -> Nat]
               /\ \E n \in Nat \ {0} :
                    /\ taken[d] + n <= wrote[d] /\ taken' = [taken EXCEPT ![d] = @ + n]
                    /\ \A k \in taken[d] + 1..taken[d] + n : PartialAfter(d, k) <= FrameLimit
                    /\ partial' = [partial EXCEPT ![d] = IF taken[d] + n \in EndsOf(d) THEN 0 ELSE PartialAfter(d, taken[d] + n)]
<1>1. /\ passed' = passed /\ ocrGot' = ocrGot /\ relayTurn' = [relayTurn EXCEPT !.read = @ \ {d}] /\ d \in relayTurn.read
  BY DEF RelayReads, TurnOf
<1>2. \/ taken[d] = wrote[d] /\ ended' = ended \cup {d} /\ UNCHANGED <<relayAt, taken, relayed, partial>>
      \/ relayAt' = "one" /\ UNCHANGED <<taken, relayed, partial, ended>>
      \/ \E n \in 1..Smaller(RelayBuffer - Len(relayed[d]), wrote[d] - taken[d]) :
           /\ ~\E k \in taken[d] + 1..taken[d] + n : PartialAfter(d, k) > FrameLimit
           /\ taken' = [taken EXCEPT ![d] = taken[d] + n]
           /\ relayed' = [relayed EXCEPT ![d] = @ \o Positions(taken[d] + 1, taken[d] + n)]
           /\ partial' = [partial EXCEPT ![d] = IF taken[d] + n \in EndsOf(d) THEN 0 ELSE PartialAfter(d, taken[d] + n)]
           /\ relayAt' = relayAt /\ ended' = ended
  BY DEF RelayReads
<1>3. /\ taken \in [Ways -> Nat] /\ relayed \in [Ways -> Seq(Nat)] /\ partial \in [Ways -> Nat] /\ wrote \in [Ways -> Nat]
      /\ WorldOk(wire)
  BY DEF WireTypes
<1>4. StreamOk("ask") /\ StreamOk("answer") /\ ocrGot = Positions(1, Arrived("answer")) BY DEF WireStreams
<1>5. CASE UNCHANGED <<taken, relayed>>
  <2>1. UNCHANGED Streams BY <1>1, <1>5 DEF Streams
  <2>2. WireStreams' /\ Arrived("ask")' = Arrived("ask") /\ SentOn("ask")' = SentOn("ask") BY <2>1, StreamsRest
  <2>3. CASE taken[d] = wrote[d] /\ ended' = ended \cup {d} /\ UNCHANGED <<relayAt, taken, relayed, partial>>
    BY <1>1, <2>2, <2>3
  <2>4. CASE relayAt' = "one" /\ UNCHANGED <<taken, relayed, partial, ended>> BY <1>1, <2>2, <2>4
  <2>5. CASE \E n \in 1..Smaller(RelayBuffer - Len(relayed[d]), wrote[d] - taken[d]) : taken' = [taken EXCEPT ![d] = taken[d] + n]
    <3>1. PICK n \in 1..Smaller(RelayBuffer - Len(relayed[d]), wrote[d] - taken[d]) : taken' = [taken EXCEPT ![d] = taken[d] + n]
      BY <2>5
    <3>2. taken'[d] = taken[d] + n /\ taken[d] \in Nat /\ n > 0 BY <1>3, <3>1
    <3> QED BY <1>5, <3>2
  <2> QED BY <1>2, <2>3, <2>4, <2>5
<1>6. ASSUME NEW n \in 1..Smaller(RelayBuffer - Len(relayed[d]), wrote[d] - taken[d]),
             ~\E k \in taken[d] + 1..taken[d] + n : PartialAfter(d, k) > FrameLimit,
             taken' = [taken EXCEPT ![d] = taken[d] + n],
             relayed' = [relayed EXCEPT ![d] = @ \o Positions(taken[d] + 1, taken[d] + n)],
             partial' = [partial EXCEPT ![d] = IF taken[d] + n \in EndsOf(d) THEN 0 ELSE PartialAfter(d, taken[d] + n)],
             relayAt' = relayAt, ended' = ended
      PROVE  /\ WireStreams' /\ Arrived("ask")' = Arrived("ask") /\ SentOn("ask")' = SentOn("ask")
             /\ relayed' \in [Ways -> Seq(Nat)] /\ partial' \in [Ways -> Nat]
             /\ n \in Nat \ {0} /\ taken[d] + n <= wrote[d] /\ taken' = [taken EXCEPT ![d] = @ + n]
             /\ \A k \in taken[d] + 1..taken[d] + n : PartialAfter(d, k) <= FrameLimit
  <2>1. taken[d] \in Nat /\ relayed[d] \in Seq(Nat) /\ wrote[d] \in Nat /\ Len(relayed[d]) \in Nat BY <1>3
  <2>2. RelayBuffer \in Nat /\ FrameLimit \in Nat BY WireAssumption
  <2>3. n \in Nat \ {0} /\ Len(relayed[d]) + n <= RelayBuffer /\ taken[d] + n <= wrote[d]
    BY SMTT(60), <1>6, <2>1, <2>2 DEF Smaller
  <2>4. /\ taken'[d] = taken[d] + n /\ relayed'[d] = relayed[d] \o Positions(taken[d] + 1, taken[d] + n)
        /\ passed'[d] = passed[d]
        /\ \A e \in Ways : e # d => taken'[e] = taken[e] /\ relayed'[e] = relayed[e] /\ passed'[e] = passed[e]
    BY <1>1, <1>3, <1>6
  <2>5. StreamOk(d) /\ StreamTyped(d) /\ n \in Nat BY <1>4, <2>3, WayFacts DEF Ways
  <2>6. StreamOk(d)' /\ SentOn(d)' = SentOn(d) /\ Arrived(d)' = Arrived(d)
    BY <2>3, <2>4, <2>5, StreamTaken
  <2>7. /\ StreamOk("ask")' /\ SentOn("ask")' = SentOn("ask") /\ Arrived("ask")' = Arrived("ask")
        /\ StreamOk("answer")' /\ Arrived("answer")' = Arrived("answer")
    <3>1. CASE d = "ask"
      <4>1. taken'["answer"] = taken["answer"] /\ relayed'["answer"] = relayed["answer"] /\ passed'["answer"] = passed["answer"]
        BY <2>4, <3>1 DEF Ways
      <4>2. StreamOk("answer")' /\ Arrived("answer")' = Arrived("answer") BY <1>4, <4>1, StreamRests
      <4> QED BY <2>6, <3>1, <4>2
    <3>2. CASE d = "answer"
      <4>1. taken'["ask"] = taken["ask"] /\ relayed'["ask"] = relayed["ask"] /\ passed'["ask"] = passed["ask"]
        BY <2>4, <3>2 DEF Ways
      <4>2. StreamOk("ask")' /\ SentOn("ask")' = SentOn("ask") /\ Arrived("ask")' = Arrived("ask") BY <1>4, <4>1, StreamRests
      <4> QED BY <2>6, <3>2, <4>2
    <3> QED BY <3>1, <3>2 DEF Ways
  <2>8. WireStreams' BY <1>1, <1>4, <2>7 DEF WireStreams
  <2>9. relayed' \in [Ways -> Seq(Nat)]
    <3> DEFINE x == taken[d]
               y == taken[d] + n
    <3>1. x \in Nat /\ y \in Nat /\ x <= y BY <2>1, <2>3
    <3> HIDE DEF x, y
    <3>2. Positions(x + 1, y) \in Seq(Nat) BY <3>1, BytesFacts
    <3>3. relayed[d] \o Positions(x + 1, y) \in Seq(Nat) BY <2>1, <3>2, ConcatProperties
    <3>4. relayed' = [relayed EXCEPT ![d] = relayed[d] \o Positions(x + 1, y)] BY <1>6 DEF x, y
    <3> QED BY <1>3, <3>3, <3>4
  <2>10. ASSUME NEW k \in taken[d] + 1..taken[d] + n
         PROVE  PartialAfter(d, k) \in Nat /\ PartialAfter(d, k) <= FrameLimit
    <3>1. PICK e \in FrameBegins(d) : e <= taken[d] /\ partial[d] = taken[d] - e BY DEF WireLengths
    <3>2. k \in Nat /\ taken[d] < k BY <2>1, <2>3, <2>10
    <3>3. \E f \in FrameBegins(d) : f < k /\ PartialAfter(d, k) = k - f BY <1>3, <2>1, <3>1, <3>2, PartialFacts
    <3>4. \A f \in FrameBegins(d) : f \in Nat BY <1>3, WorldFacts
    <3>5. PartialAfter(d, k) \in Nat BY <3>2, <3>3, <3>4
    <3>6. ~(PartialAfter(d, k) > FrameLimit) BY <1>6, <2>10
    <3> QED BY <2>2, <3>5, <3>6
  <2>11. partial' \in [Ways -> Nat]
    <3>1. taken[d] + n \in taken[d] + 1..taken[d] + n BY <2>1, <2>3
    <3>2. PartialAfter(d, taken[d] + n) \in Nat BY <2>10, <3>1
    <3> QED BY <1>3, <1>6, <3>2
  <2>12. taken' = [taken EXCEPT ![d] = @ + n] BY <1>6
  <2> QED BY <2>3, <2>7, <2>8, <2>9, <2>10, <2>11, <2>12
<1>7. CASE \E n \in 1..Smaller(RelayBuffer - Len(relayed[d]), wrote[d] - taken[d]) :
             /\ ~\E k \in taken[d] + 1..taken[d] + n : PartialAfter(d, k) > FrameLimit
             /\ taken' = [taken EXCEPT ![d] = taken[d] + n]
             /\ relayed' = [relayed EXCEPT ![d] = @ \o Positions(taken[d] + 1, taken[d] + n)]
             /\ partial' = [partial EXCEPT ![d] = IF taken[d] + n \in EndsOf(d) THEN 0 ELSE PartialAfter(d, taken[d] + n)]
             /\ relayAt' = relayAt /\ ended' = ended
  <2>1. PICK n \in 1..Smaller(RelayBuffer - Len(relayed[d]), wrote[d] - taken[d]) :
             /\ ~\E k \in taken[d] + 1..taken[d] + n : PartialAfter(d, k) > FrameLimit
             /\ taken' = [taken EXCEPT ![d] = taken[d] + n]
             /\ relayed' = [relayed EXCEPT ![d] = @ \o Positions(taken[d] + 1, taken[d] + n)]
             /\ partial' = [partial EXCEPT ![d] = IF taken[d] + n \in EndsOf(d) THEN 0 ELSE PartialAfter(d, taken[d] + n)]
             /\ relayAt' = relayAt /\ ended' = ended
    BY <1>7
  <2>2. /\ WireStreams' /\ Arrived("ask")' = Arrived("ask") /\ SentOn("ask")' = SentOn("ask")
        /\ relayed' \in [Ways -> Seq(Nat)] /\ partial' \in [Ways -> Nat]
        /\ n \in Nat \ {0} /\ taken[d] + n <= wrote[d] /\ taken' = [taken EXCEPT ![d] = @ + n]
        /\ \A k \in taken[d] + 1..taken[d] + n : PartialAfter(d, k) <= FrameLimit
    BY <1>6, <2>1
  <2> QED BY <1>1, <2>1, <2>2
<1> QED BY <1>2, <1>5, <1>7

LEMMA RelayWritesEffect ==
  ASSUME WireTypes, WireStreams, NEW d \in Ways, RelayWrites(d)
  PROVE  /\ WireStreams' /\ Arrived("ask")' = Arrived("ask")
         /\ relayed' \in [Ways -> Seq(Nat)] /\ passed' \in [Ways -> Seq(Nat)]
         /\ relayTurn' = [relayTurn EXCEPT !.write = @ \ {d}] /\ relayAt' \in {relayAt, "one"}
<1>1. relayTurn' = [relayTurn EXCEPT !.write = @ \ {d}] /\ taken' = taken /\ ocrGot' = ocrGot
  BY DEF RelayWrites, TurnOf
<1>2. \/ relayAt' = "one" /\ relayed' = relayed /\ passed' = passed
      \/ \E n \in 0..Smaller(Smaller(WriteChunk, Len(relayed[d])), PipeRoom - Len(passed[d])) :
           /\ passed' = [passed EXCEPT ![d] = @ \o SubSeq(relayed[d], 1, n)]
           /\ relayed' = [relayed EXCEPT ![d] = IF n = 0 THEN @ ELSE AfterWrite(d, n)]
           /\ relayAt' = relayAt
  BY DEF RelayWrites
<1>3. relayed \in [Ways -> Seq(Nat)] /\ passed \in [Ways -> Seq(Nat)] /\ taken \in [Ways -> Nat] BY DEF WireTypes
<1>4. StreamOk("ask") /\ StreamOk("answer") /\ ocrGot = Positions(1, Arrived("answer")) BY DEF WireStreams
<1>5. CASE relayAt' = "one" /\ relayed' = relayed /\ passed' = passed
  <2>1. UNCHANGED Streams BY <1>1, <1>5 DEF Streams
  <2>2. WireStreams' /\ Arrived("ask")' = Arrived("ask") BY <2>1, StreamsRest
  <2> QED BY <1>1, <1>3, <1>5, <2>2
<1>6. CASE \E n \in 0..Smaller(Smaller(WriteChunk, Len(relayed[d])), PipeRoom - Len(passed[d])) :
             /\ passed' = [passed EXCEPT ![d] = @ \o SubSeq(relayed[d], 1, n)]
             /\ relayed' = [relayed EXCEPT ![d] = IF n = 0 THEN @ ELSE AfterWrite(d, n)]
             /\ relayAt' = relayAt
  <2>1. PICK n \in 0..Smaller(Smaller(WriteChunk, Len(relayed[d])), PipeRoom - Len(passed[d])) :
             /\ passed' = [passed EXCEPT ![d] = @ \o SubSeq(relayed[d], 1, n)]
             /\ relayed' = [relayed EXCEPT ![d] = IF n = 0 THEN @ ELSE AfterWrite(d, n)]
             /\ relayAt' = relayAt
    BY <1>6
  <2>2. relayed[d] \in Seq(Nat) /\ passed[d] \in Seq(Nat) /\ Len(relayed[d]) \in Nat /\ Len(passed[d]) \in Nat BY <1>3
  <2>3. WriteChunk \in Nat /\ PipeRoom \in Nat BY WireAssumption
  <2>4. n \in 0..Len(relayed[d]) BY <2>2, <2>3 DEF Smaller
  <2>5. /\ relayed'[d] = (IF n = 0 THEN relayed[d] ELSE Tail2(relayed[d], n))
        /\ passed'[d] = passed[d] \o SubSeq(relayed[d], 1, n) /\ taken'[d] = taken[d]
        /\ \A e \in Ways : e # d => taken'[e] = taken[e] /\ relayed'[e] = relayed[e] /\ passed'[e] = passed[e]
    BY <1>1, <1>3, <2>1 DEF AfterWrite
  <2>6. StreamOk(d) /\ StreamTyped(d) BY <1>4, WayFacts DEF Ways
  <2>7. StreamOk(d)' /\ Arrived(d)' = Arrived(d) BY <2>4, <2>5, <2>6, StreamWritten
  <2>8. /\ StreamOk("ask")' /\ Arrived("ask")' = Arrived("ask")
        /\ StreamOk("answer")' /\ Arrived("answer")' = Arrived("answer")
    <3>1. CASE d = "ask"
      <4>1. taken'["answer"] = taken["answer"] /\ relayed'["answer"] = relayed["answer"] /\ passed'["answer"] = passed["answer"]
        BY <2>5, <3>1 DEF Ways
      <4>2. StreamOk("answer")' /\ Arrived("answer")' = Arrived("answer") BY <1>4, <4>1, StreamRests
      <4> QED BY <2>7, <3>1, <4>2
    <3>2. CASE d = "answer"
      <4>1. taken'["ask"] = taken["ask"] /\ relayed'["ask"] = relayed["ask"] /\ passed'["ask"] = passed["ask"]
        BY <2>5, <3>2 DEF Ways
      <4>2. StreamOk("ask")' /\ Arrived("ask")' = Arrived("ask") BY <1>4, <4>1, StreamRests
      <4> QED BY <2>7, <3>2, <4>2
    <3> QED BY <3>1, <3>2 DEF Ways
  <2>9. WireStreams' BY <1>1, <1>4, <2>8 DEF WireStreams
  <2>10. SubSeq(relayed[d], 1, n) \in Seq(Nat) /\ Tail2(relayed[d], n) \in Seq(Nat)
    BY SMTT(60), <2>2, <2>4, SubSeqProperties DEF Tail2
  <2>11. relayed' \in [Ways -> Seq(Nat)] BY <1>3, <2>1, <2>10 DEF AfterWrite
  <2>12. passed' \in [Ways -> Seq(Nat)]
    <3>1. passed[d] \o SubSeq(relayed[d], 1, n) \in Seq(Nat) BY <2>2, <2>10, ConcatProperties
    <3> QED BY <1>3, <2>1, <3>1
  <2> QED BY <1>1, <2>1, <2>8, <2>9, <2>11, <2>12
<1> QED BY <1>2, <1>5, <1>6


LEMMA CalledFacts ==
  ASSUME WireTypes, Len(calls) <= Len(wire.ask)
  PROVE  /\ Len(calls) \in Nat /\ CalledTo = EndOfCall(Len(calls)) /\ CalledTo \in Nat /\ WorldOk(wire)
         /\ \A d \in Ways : \A e \in FrameBegins(d) : e \in Nat
<1>1. calls \in Seq(Seq(Nat)) /\ WorldOk(wire) BY DEF WireTypes
<1>2. Len(calls) \in Nat /\ (calls = <<>> <=> Len(calls) = 0) BY <1>1, EmptySeq
<1>3. CalledTo = EndOfCall(Len(calls)) BY <1>2 DEF CalledTo, EndOfCall
<1>4. CalledTo \in Nat
  <2>1. CASE Len(calls) = 0 BY <1>3, <2>1 DEF EndOfCall
  <2>2. CASE Len(calls) # 0
    <3>1. Len(calls) \in 1..Len(wire.ask) BY <1>1, <1>2, <2>2, WorldFacts
    <3> QED BY <1>1, <1>3, <2>2, <3>1, WorldFacts DEF EndOfCall
  <2> QED BY <2>1, <2>2
<1>5. \A d \in Ways : FrameBegins(d) \subseteq Nat BY <1>1, WorldFacts
<1> QED BY <1>1, <1>2, <1>3, <1>4, <1>5

(* What the gateway read is the next of what OCR wrote.                       *)
LEMMA GatewayReadsEffect ==
  ASSUME WireTypes, WireStreams, WireFrames, WireLengths, GatewayReads
  PROVE  /\ WireStreams' /\ passed' \in [Ways -> Seq(Nat)] /\ SentOn("ask")' = SentOn("ask")
         /\ Arrived("ask") \in Nat /\ Arrived("ask")' \in Nat /\ Arrived("ask") <= Arrived("ask")'
         /\ receiveAt = "reading" /\ trouble = "none"
         /\ wireBudget' \in [bytes : Nat, requests : Nat]
         /\ wireBudget'.bytes = wireBudget.bytes + (Arrived("ask")' - Arrived("ask"))
         /\ wireBudget'.requests >= wireBudget.requests
         /\ CalledTo <= Arrived("ask")
         /\ \/ /\ receiveAt' = "reading" /\ trouble' = "none" /\ chunk' = <<>>
               /\ frame' = Positions(CalledTo + 1, Arrived("ask")')
               /\ NoEndBetween(CalledTo, Arrived("ask")') /\ Arrived("ask")' - CalledTo <= FrameLimit
            \/ /\ receiveAt' = "sending" /\ trouble' = "none" /\ Len(calls) < Len(wire.ask)
               /\ Arrived("ask") < wire.ask[Len(calls) + 1] /\ wire.ask[Len(calls) + 1] <= Arrived("ask")'
               /\ chunk' = Positions(wire.ask[Len(calls) + 1] + 1, Arrived("ask")')
               /\ frame' = Positions(CalledTo + 1, wire.ask[Len(calls) + 1])
               /\ wire.ask[Len(calls) + 1] - CalledTo <= FrameLimit
               /\ wireBudget'.requests = wireBudget.requests + Cost(frame') /\ wireBudget'.requests <= WireRequests
               /\ wireBudget'.bytes <= WireBytes
            \/ /\ receiveAt' = "failing" /\ trouble' \in {"budget", "json"} /\ chunk' = <<>>
               /\ frame' \in Seq(Nat) /\ Len(frame') <= FrameLimit
<1> DEFINE a == Arrived("ask")
           t == SentOn("ask")
<1>1. /\ receiveAt = "reading" /\ taken' = taken /\ relayed' = relayed /\ ocrGot' = ocrGot
      /\ \E n \in 1..Smaller(ReadChunk, Len(passed["ask"])) :
           /\ GoesOn(SubSeq(passed["ask"], 1, n), frame, Charge(n, 0))
           /\ passed' = [passed EXCEPT !["ask"] = Tail2(@, n)]
  BY DEF GatewayReads, relayVars
<1>2. PICK n \in 1..Smaller(ReadChunk, Len(passed["ask"])) :
           /\ GoesOn(SubSeq(passed["ask"], 1, n), frame, Charge(n, 0))
           /\ passed' = [passed EXCEPT !["ask"] = Tail2(@, n)]
  BY <1>1
<1>3. /\ passed \in [Ways -> Seq(Nat)] /\ wireBudget \in [bytes : Nat, requests : Nat] /\ taken \in [Ways -> Nat]
      /\ WorldOk(wire)
  BY DEF WireTypes
<1>4. "ask" \in Ways /\ "answer" \in Ways BY DEF Ways
<1>5. ReadChunk \in Nat /\ passed["ask"] \in Seq(Nat) BY <1>3, <1>4, WireAssumption
<1>6. n \in 0..Len(passed["ask"]) /\ n \in Nat BY <1>2, <1>5 DEF Smaller
<1>7. StreamOk("ask") /\ StreamOk("answer") /\ ocrGot = Positions(1, Arrived("answer")) BY DEF WireStreams
<1>8. /\ passed'["ask"] = Tail2(passed["ask"], n) /\ passed'["answer"] = passed["answer"]
  BY <1>2, <1>3, <1>4
<1>9. /\ StreamOk("ask")' /\ SentOn("ask")' = SentOn("ask") /\ Arrived("ask")' = a + n
      /\ SubSeq(passed["ask"], 1, n) = Positions(a + 1, a + n)
  <2>1. StreamTyped("ask") BY <1>4, WayFacts
  <2>2. taken'["ask"] = taken["ask"] /\ relayed'["ask"] = relayed["ask"] BY <1>1
  <2> QED BY <1>6, <1>7, <1>8, <2>1, <2>2, StreamArrives
<1>10. StreamOk("answer")' /\ Arrived("answer")' = Arrived("answer") BY <1>1, <1>7, <1>8, StreamRests
<1>11. WireStreams' BY <1>1, <1>7, <1>9, <1>10 DEF WireStreams
<1>12. passed' \in [Ways -> Seq(Nat)]
  <2>1. Tail2(passed["ask"], n) \in Seq(Nat) BY <1>5, <1>6, SubSeqProperties DEF Tail2
  <2> QED BY <1>2, <1>3, <2>1
<1>13. a \in Nat /\ t <= taken["ask"] /\ t \in Nat
  <2>1. StreamTyped("ask") BY <1>4, WayFacts
  <2> QED BY <1>7, <2>1, StreamFacts
<1>14. a + n <= t
  <2>1. StreamTyped("ask") BY <1>4, WayFacts
  <2>2. Len(passed["ask"]) = t - a BY <1>7, <2>1, StreamFacts
  <2> HIDE DEF a, t
  <2> QED BY <1>6, <1>13, <2>2
<1>15. Len(calls) <= Len(wire.ask) BY DEF WireFrames
<1>16. /\ Len(calls) \in Nat /\ CalledTo = EndOfCall(Len(calls)) /\ CalledTo \in Nat
  BY <1>15, CalledFacts
<1>17. /\ trouble = "none" /\ chunk = <<>> /\ NoEndBetween(CalledTo, SplitTo) /\ CalledTo <= SplitTo
       /\ frame = Positions(CalledTo + 1, SplitTo)
  BY <1>1 DEF WireFrames
<1>18. SplitTo = a
  <2>1. Len(chunk) = 0 BY <1>17, EmptySeq
  <2> QED BY <1>13, <2>1 DEF SplitTo
<1>19. Charge(n, 0) \in [bytes : Nat, requests : Nat] /\ Charge(n, 0).bytes = wireBudget.bytes + n
       /\ Charge(n, 0).requests = wireBudget.requests
  BY <1>3, <1>6 DEF Charge
<1> DEFINE z == a + n
           m == Len(calls)
           c == SubSeq(passed["ask"], 1, n)
           b == Charge(n, 0)
<1>20. z \in Nat /\ a <= z BY <1>6, <1>13
<1>21. \A k \in 1..z : \E e \in FrameBegins("ask") : e < k /\ k - e <= FrameLimit
  <2>1. \A k \in 1..taken["ask"] : \E e \in FrameBegins("ask") : e < k /\ k - e <= FrameLimit BY DEF WireLengths
  <2>2. \A k \in 1..z : k \in 1..taken["ask"]
    <3>1. taken["ask"] \in Nat BY <1>3, <1>4
    <3>2. z <= taken["ask"]
      <4> HIDE DEF a, t
      <4> QED BY <1>6, <1>13, <1>14, <3>1
    <3> HIDE DEF z
    <3> QED BY <1>20, <3>1, <3>2
  <2> QED BY <2>1, <2>2
<1>22. /\ EndOfCall(m) <= a /\ NoEndBetween(EndOfCall(m), a) /\ c = Positions(a + 1, z)
       /\ frame = Positions(EndOfCall(m) + 1, a) /\ GoesOn(c, frame, b) /\ m \in Nat /\ m <= Len(wire.ask)
       /\ b \in [bytes : Nat, requests : Nat]
  BY <1>2, <1>9, <1>15, <1>16, <1>17, <1>18, <1>19
<1>23. Arrived("ask")' = z /\ z - a = n BY <1>6, <1>9, <1>13
<1>24. b.bytes = wireBudget.bytes + n /\ b.requests = wireBudget.requests BY <1>19
<1>25. CalledTo = EndOfCall(m) BY <1>16
<1> HIDE DEF a, z, c, b, m
<1>26. /\ wireBudget' \in [bytes : Nat, requests : Nat]
         /\ wireBudget'.bytes = b.bytes /\ wireBudget'.requests >= b.requests
         /\ \/ /\ receiveAt' = "reading" /\ trouble' = "none" /\ chunk' = <<>>
               /\ frame' = Positions(EndOfCall(m) + 1, z)
               /\ NoEndBetween(EndOfCall(m), z) /\ z - EndOfCall(m) <= FrameLimit
            \/ /\ receiveAt' = "sending" /\ trouble' = "none" /\ m < Len(wire.ask)
               /\ a < wire.ask[m + 1] /\ wire.ask[m + 1] <= z
               /\ chunk' = Positions(wire.ask[m + 1] + 1, z)
               /\ frame' = Positions(EndOfCall(m) + 1, wire.ask[m + 1])
               /\ wire.ask[m + 1] - EndOfCall(m) <= FrameLimit
               /\ wireBudget'.requests = b.requests + Cost(frame') /\ wireBudget'.requests <= WireRequests
               /\ b.bytes <= WireBytes
            \/ /\ receiveAt' = "failing" /\ trouble' \in {"budget", "json"} /\ chunk' = <<>>
               /\ frame' \in Seq(Nat) /\ Len(frame') <= FrameLimit
  BY <1>3, <1>13, <1>20, <1>21, <1>22, GoesOnEffect
<1>27. /\ wireBudget'.bytes = wireBudget.bytes + (z - a) /\ wireBudget'.requests >= wireBudget.requests
  BY <1>23, <1>24, <1>26
<1>28. CalledTo <= a BY <1>22, <1>25
<1>29. a \in Nat /\ z \in Nat /\ a <= z BY <1>13, <1>20
<1>30. Arrived("ask")' = z /\ Arrived("ask") = a /\ SentOn("ask")' = SentOn("ask") BY <1>9, <1>23 DEF a
<1> QED BY ONLY <1>1, <1>11, <1>12, <1>17, <1>24, <1>25, <1>26, <1>27, <1>28, <1>29, <1>30 DEF m

(* The session has received the frame the gateway found.                      *)
LEMMA SessionReceivesEffect ==
  ASSUME WireTypes, WireStreams, WireFrames, WireLengths, SessionReceives
  PROVE  /\ UNCHANGED Streams /\ calls' = Append(calls, frame) /\ calls' \in Seq(Seq(Nat)) /\ asked' = asked + Cost(frame)
         /\ Len(calls') = Len(calls) + 1 /\ Len(calls') <= Len(wire.ask) /\ receiveAt = "sending" /\ trouble = "none"
         /\ CalledTo' = SplitTo /\ SplitTo <= Arrived("ask") /\ SplitTo \in Nat
         /\ wire.ask[Len(calls')] = SplitTo /\ frame = Positions(CalledTo + 1, SplitTo)
         /\ wireBudget' \in [bytes : Nat, requests : Nat]
         /\ wireBudget'.bytes = wireBudget.bytes /\ wireBudget'.requests >= wireBudget.requests
         /\ \/ /\ receiveAt' = "reading" /\ trouble' = "none" /\ chunk' = <<>>
               /\ frame' = Positions(SplitTo + 1, Arrived("ask"))
               /\ NoEndBetween(SplitTo, Arrived("ask")) /\ Arrived("ask") - SplitTo <= FrameLimit
            \/ /\ receiveAt' = "sending" /\ trouble' = "none" /\ Len(calls') < Len(wire.ask)
               /\ SplitTo < wire.ask[Len(calls') + 1] /\ wire.ask[Len(calls') + 1] <= Arrived("ask")
               /\ chunk' = Positions(wire.ask[Len(calls') + 1] + 1, Arrived("ask"))
               /\ frame' = Positions(SplitTo + 1, wire.ask[Len(calls') + 1])
               /\ wire.ask[Len(calls') + 1] - SplitTo <= FrameLimit
               /\ wireBudget'.requests = wireBudget.requests + Cost(frame') /\ wireBudget'.requests <= WireRequests
               /\ wireBudget'.bytes <= WireBytes
            \/ /\ receiveAt' = "failing" /\ trouble' \in {"budget", "json"} /\ chunk' = <<>>
               /\ frame' \in Seq(Nat) /\ Len(frame') <= FrameLimit
<1> DEFINE a == SplitTo
           z == Arrived("ask")
           m == Len(calls')
           f == <<>>
<1>1. /\ receiveAt = "sending" /\ calls' = Append(calls, frame) /\ asked' = asked + Cost(frame)
      /\ GoesOn(chunk, f, wireBudget)
      /\ UNCHANGED Streams /\ wire' = wire
  BY DEF SessionReceives, relayVars, Streams
<1>2. /\ calls \in Seq(Seq(Nat)) /\ frame \in Seq(Nat) /\ wireBudget \in [bytes : Nat, requests : Nat] /\ WorldOk(wire)
      /\ chunk \in Seq(Nat) /\ taken \in [Ways -> Nat]
  BY DEF WireTypes
<1>3. /\ trouble = "none" /\ CalledTo <= SplitTo /\ SplitTo <= Arrived("ask")
      /\ frame = Positions(CalledTo + 1, SplitTo) /\ chunk = Positions(SplitTo + 1, Arrived("ask"))
      /\ Len(calls) < Len(wire.ask) /\ wire.ask[Len(calls) + 1] = SplitTo
  BY <1>1 DEF WireFrames
<1>4. Len(calls) \in Nat /\ CalledTo \in Nat /\ Len(calls) <= Len(wire.ask)
  <2>1. Len(calls) <= Len(wire.ask) BY DEF WireFrames
  <2> QED BY <2>1, CalledFacts
<1>5. calls' \in Seq(Seq(Nat)) /\ Len(calls') = Len(calls) + 1 BY <1>1, <1>2, AppendProperties
<1>6. m \in Nat /\ m # 0 /\ m <= Len(wire.ask) /\ wire.ask[m] = a /\ EndOfCall(m) = a /\ m \in 1..Len(wire.ask)
  <2>1. Len(wire.ask) \in Nat BY <1>2, WorldFacts
  <2> QED BY <1>3, <1>4, <1>5, <2>1 DEF EndOfCall
<1>7. a \in Nat BY <1>2, <1>6, WorldFacts
<1>8. calls' # <<>> BY <1>5, <1>4, EmptySeq
<1>9. CalledTo' = a BY <1>1, <1>6, <1>8 DEF CalledTo
<1>10. z \in Nat /\ z <= taken["ask"]
  <2>1. "ask" \in Ways BY DEF Ways
  <2>2. StreamTyped("ask") /\ StreamOk("ask") BY <2>1, WayFacts DEF WireStreams
  <2> DEFINE t == SentOn("ask")
  <2>3. z \in Nat /\ z <= t /\ t <= taken["ask"] /\ t \in Nat BY <2>2, StreamFacts
  <2>4. taken["ask"] \in Nat BY <1>2, <2>1
  <2> HIDE DEF t, z
  <2> QED BY <2>3, <2>4
<1>11. NoEndBetween(EndOfCall(m), a)
  <2>1. \A e \in EndsOf("ask") : e \in Nat BY <1>2, WorldFacts DEF Ways
  <2> HIDE DEF a, m
  <2> QED BY <1>6, <1>7, <2>1 DEF NoEndBetween
<1>12. f = Positions(EndOfCall(m) + 1, a)
  <2> HIDE DEF a, m
  <2>1. Positions(a + 1, a) = <<>> BY <1>7, BytesFacts
  <2> QED BY <1>6, <2>1
<1>13. \A k \in 1..z : \E e \in FrameBegins("ask") : e < k /\ k - e <= FrameLimit
  <2>1. \A k \in 1..taken["ask"] : \E e \in FrameBegins("ask") : e < k /\ k - e <= FrameLimit BY DEF WireLengths
  <2>2. taken["ask"] \in Nat BY <1>2 DEF Ways
  <2> HIDE DEF z
  <2> QED BY <1>10, <2>1, <2>2
<1>14. EndOfCall(m) <= a /\ a <= z /\ chunk = Positions(a + 1, z)
  <2>1. a <= a BY <1>7
  <2> QED BY <1>3, <1>6, <2>1
<1> HIDE DEF a, z, m, f
<1>15. /\ wireBudget' \in [bytes : Nat, requests : Nat]
       /\ wireBudget'.bytes = wireBudget.bytes /\ wireBudget'.requests >= wireBudget.requests
       /\ \/ /\ receiveAt' = "reading" /\ trouble' = "none" /\ chunk' = <<>>
             /\ frame' = Positions(EndOfCall(m) + 1, z)
             /\ NoEndBetween(EndOfCall(m), z) /\ z - EndOfCall(m) <= FrameLimit
          \/ /\ receiveAt' = "sending" /\ trouble' = "none" /\ m < Len(wire.ask)
             /\ a < wire.ask[m + 1] /\ wire.ask[m + 1] <= z
             /\ chunk' = Positions(wire.ask[m + 1] + 1, z)
             /\ frame' = Positions(EndOfCall(m) + 1, wire.ask[m + 1])
             /\ wire.ask[m + 1] - EndOfCall(m) <= FrameLimit
             /\ wireBudget'.requests = wireBudget.requests + Cost(frame') /\ wireBudget'.requests <= WireRequests
             /\ wireBudget.bytes <= WireBytes
          \/ /\ receiveAt' = "failing" /\ trouble' \in {"budget", "json"} /\ chunk' = <<>>
             /\ frame' \in Seq(Nat) /\ Len(frame') <= FrameLimit
  BY <1>1, <1>2, <1>6, <1>7, <1>10, <1>11, <1>12, <1>13, <1>14, GoesOnEffect
<1>16. frame = Positions(CalledTo + 1, a) BY <1>3 DEF a
<1> QED BY ONLY <1>1, <1>3, <1>5, <1>6, <1>7, <1>9, <1>14, <1>15, <1>16 DEF a, z, m

(* An answer is longer than what was written before it, and is paid for.      *)
LEMMA SessionAnswersEffect ==
  ASSUME WireTypes, WireClosings, SessionAnswers
  PROVE  /\ answered' = answered + 1 /\ answered' \in Nat /\ answered' <= Len(wire.answer)
         /\ session = "running" /\ wireBudget' \in [bytes : Nat, requests : Nat] /\ wrote' \in [Ways -> Nat]
         /\ wireBudget'.requests = wireBudget.requests /\ wireBudget'.bytes >= wireBudget.bytes
         /\ wrote'["ask"] = wrote["ask"]
         /\ \/ transmitAt' = "gone" /\ wrote' = wrote
            \/ /\ transmitAt' = "draining" /\ wrote'["answer"] = wire.answer[answered'] /\ answered' # 0
               /\ wireBudget'.bytes = wireBudget.bytes + (wrote'["answer"] - wrote["answer"])
               /\ wireBudget'.bytes <= WireBytes /\ wrote["answer"] <= wrote'["answer"]
<1> DEFINE x == wire.answer[answered + 1]
           w == wrote["answer"]
           n == x - w
<1>1. /\ session = "running" /\ transmitAt = "waiting" /\ answered < Len(wire.answer) /\ answered' = answered + 1
      /\ IF n > FrameLimit THEN transmitAt' = "gone" /\ UNCHANGED <<wrote, wireBudget>>
         ELSE /\ wireBudget' = Charge(n, 0)
              /\ IF OverBudget(wireBudget') THEN transmitAt' = "gone" /\ UNCHANGED wrote
                 ELSE transmitAt' = "draining" /\ wrote' = [wrote EXCEPT !["answer"] = x]
  BY DEF SessionAnswers, AnswerEnd
<1>2. /\ answered \in Nat /\ wrote \in [Ways -> Nat] /\ wireBudget \in [bytes : Nat, requests : Nat] /\ WorldOk(wire)
  BY DEF WireTypes
<1>3. w = IF answered = 0 THEN 0 ELSE wire.answer[answered] BY <1>1 DEF WireClosings
<1>4. Len(wire.answer) \in Nat BY <1>2, WorldFacts
<1>5. answered + 1 \in 1..Len(wire.answer) BY <1>1, <1>2, <1>4
<1>6. x \in Nat /\ w \in Nat /\ w <= x
  <2>1. x \in Nat BY <1>2, <1>5, WorldFacts
  <2>2. CASE answered = 0 BY <1>3, <2>1, <2>2
  <2>3. CASE answered # 0
    <3>1. answered \in 1..Len(wire.answer) /\ answered < answered + 1 BY <1>2, <1>4, <1>5, <2>3
    <3>2. wire.answer[answered] < x /\ wire.answer[answered] \in Nat BY <1>2, <1>5, <3>1, WorldFacts
    <3> QED BY <1>3, <2>1, <2>3, <3>2
  <2> QED BY <2>2, <2>3
<1>7. /\ "answer" \in Ways /\ "ask" \in Ways /\ WireBytes \in Nat BY WireAssumption DEF Ways
<1> HIDE DEF x, w
<1>8. n \in Nat BY <1>6
<1> HIDE DEF n
<1>9. Charge(n, 0) \in [bytes : Nat, requests : Nat] /\ Charge(n, 0).bytes = wireBudget.bytes + n
      /\ Charge(n, 0).requests = wireBudget.requests
  BY <1>2, <1>8 DEF Charge
<1>10. answered' \in Nat /\ answered' <= Len(wire.answer) /\ answered' # 0 BY <1>1, <1>2, <1>4, <1>5
<1>11. CASE n > FrameLimit
  <2>1. transmitAt' = "gone" /\ wrote' = wrote /\ wireBudget' = wireBudget BY <1>1, <1>11
  <2>2. wireBudget.bytes >= wireBudget.bytes BY <1>2
  <2> QED BY <1>1, <1>2, <1>10, <2>1, <2>2
<1>12. CASE ~(n > FrameLimit) /\ OverBudget(Charge(n, 0))
  <2>1. transmitAt' = "gone" /\ wrote' = wrote /\ wireBudget' = Charge(n, 0) BY <1>1, <1>12
  <2>2. wireBudget.bytes + n >= wireBudget.bytes BY <1>2, <1>8
  <2> QED BY <1>1, <1>2, <1>9, <1>10, <2>1, <2>2
<1>13. CASE ~(n > FrameLimit) /\ ~OverBudget(Charge(n, 0))
  <2>1. transmitAt' = "draining" /\ wrote' = [wrote EXCEPT !["answer"] = x] /\ wireBudget' = Charge(n, 0) BY <1>1, <1>13
  <2>2. wireBudget.bytes + n >= wireBudget.bytes BY <1>2, <1>8
  <2>3. wrote'["answer"] = x /\ wrote'["ask"] = wrote["ask"] /\ wrote' \in [Ways -> Nat] BY <1>2, <1>6, <1>7, <2>1
  <2>4. Charge(n, 0).bytes <= WireBytes BY <1>7, <1>9, <1>13 DEF OverBudget
  <2>5. x = wire.answer[answered'] BY <1>1 DEF x
  <2>6. n = wrote'["answer"] - wrote["answer"] /\ wrote["answer"] <= wrote'["answer"] BY <1>6, <2>3 DEF n, w
  <2> QED BY <1>1, <1>9, <1>10, <2>1, <2>2, <2>3, <2>4, <2>5, <2>6
<1> QED BY <1>11, <1>12, <1>13

-----------------------------------------------------------------------------
(* What is said keeps: others spend the budget, and that is all.              *)
LEMMA WorldKept ==
  ASSUME WorldOk(wire), [WireNext]_wireVars
  PROVE  /\ WorldOk(wire)' /\ wire'.ask = wire.ask /\ wire'.answer = wire.answer /\ wire'.askBytes = wire.askBytes
         /\ wire'.notices = wire.notices
         /\ EndsOf("ask")' = EndsOf("ask") /\ EndsOf("answer")' = EndsOf("answer")
<1> DEFINE rest == /\ wire' \in [ask : Seq(Nat \ {0}), answer : Seq(Nat \ {0}), askBytes : Nat, invalid : SUBSET Nat, notices : SUBSET Nat,
                            charges : Nat]
                   /\ wire'.ask = wire.ask /\ wire'.answer = wire.answer /\ wire'.askBytes = wire.askBytes
                   /\ wire'.notices = wire.notices
<1>1. /\ wire \in [ask : Seq(Nat \ {0}), answer : Seq(Nat \ {0}), askBytes : Nat, invalid : SUBSET Nat, notices : SUBSET Nat,
                            charges : Nat]
      /\ \A d \in Ways : \A i, j \in DOMAIN wire[d] : i < j => wire[d][i] < wire[d][j]
  BY DEF WorldOk
<1>4. wire' = wire \/ OthersCharge
  BY DEF WireNext, wireVars, OcrWrites, OcrReads, OcrCloses, RelayLooks, RelayReads, RelayWrites,
     GatewayReads,
         SessionReceives, GatewayReadsEnd, ReceiveEnds, SessionAnswers, TransmitDrains, SessionEnds
<1>5. rest
  <2>1. CASE OthersCharge
    <3>1. wire' = [wire EXCEPT !.charges = @ - 1] /\ wire.charges > 0 BY <2>1 DEF OthersCharge
    <3>2. wire.charges - 1 \in Nat BY <1>1, <3>1
    <3> QED BY <1>1, <3>1, <3>2
  <2>2. CASE wire' = wire BY <1>1, <2>2
  <2> QED BY <1>4, <2>1, <2>2
<1>6. wire'["ask"] = wire["ask"] /\ wire'["answer"] = wire["answer"] BY <1>5
<1>7. EndsOf("ask")' = EndsOf("ask") /\ EndsOf("answer")' = EndsOf("answer") BY <1>6 DEF EndsOf
<1>8. \A d \in Ways : wire'[d] = wire[d] BY <1>6 DEF Ways
<1>9. \A d \in Ways : \A i, j \in DOMAIN wire'[d] : i < j => wire'[d][i] < wire'[d][j] BY <1>1, <1>8
<1>10. WorldOk(wire)' BY <1>5, <1>9 DEF WorldOk
<1> QED BY <1>5, <1>7, <1>10

(* The cases of a step.                                                       *)
LEMMA WireTypesKept ==
  ASSUME WireInv, [WireNext]_wireVars
  PROVE  WireTypes'
<1>0. WireTypes /\ WireStreams /\ WireFrames /\ WireLengths /\ WireClosings BY DEF WireInv
<1>1. WorldOk(wire) /\ WorldOk(wire)'
  <2>1. WorldOk(wire) BY <1>0 DEF WireTypes
  <2> QED BY <2>1, WorldKept
<1>2. /\ ocrSide \in {"open", "closed", "gone"} /\ session \in {"running", "ended"}
      /\ relayAt \in {"copying", "zero", "one"} /\ relayTurn \in [read : SUBSET Ways, write : SUBSET Ways]
      /\ ended \in SUBSET Ways
      /\ wrote \in [Ways -> Nat] /\ taken \in [Ways -> Nat] /\ partial \in [Ways -> Nat]
      /\ relayed \in [Ways -> Seq(Nat)] /\ passed \in [Ways -> Seq(Nat)] /\ ocrGot \in Seq(Nat)
      /\ chunk \in Seq(Nat) /\ frame \in Seq(Nat) /\ calls \in Seq(Seq(Nat)) /\ asked \in Nat /\ answered \in Nat
      /\ receiveAt \in {"reading", "sending", "failing", "done"} /\ transmitAt \in {"waiting", "draining", "gone"}
      /\ wireBudget \in [bytes : Nat, requests : Nat]
  BY <1>0 DEF WireTypes
<1>3. CASE OcrWrites
  <2>1. wrote["ask"] \in Nat /\ taken["ask"] \in Nat /\ wire.askBytes \in Nat /\ PipeRoom \in Nat
    BY <1>1, <1>2, WorldFacts, WireAssumption DEF Ways
  <2>2. /\ PipeRoom - (wrote["ask"] - taken["ask"]) > 0
        /\ wrote' = [wrote EXCEPT !["ask"] = Smaller(@ + (PipeRoom - (wrote["ask"] - taken["ask"])), wire.askBytes)]
    BY <1>3 DEF OcrWrites
  <2>3. Smaller(wrote["ask"] + (PipeRoom - (wrote["ask"] - taken["ask"])), wire.askBytes) \in Nat
    BY <2>1, <2>2 DEF Smaller
  <2>4. wrote' \in [Ways -> Nat] BY <1>2, <2>2, <2>3
  <2> QED BY <1>1, <1>2, <1>3, <2>4 DEF OcrWrites, relayVars, gatewayVars, WireTypes
<1>4. CASE OcrReads
  <2>1. ocrGot' \in Seq(Nat) /\ passed' \in [Ways -> Seq(Nat)] BY <1>0, <1>4, OcrReadsEffect
  <2> QED BY <1>1, <1>2, <1>4, <2>1 DEF OcrReads, relayVars, gatewayVars, WireTypes
<1>5. CASE OcrCloses BY <1>1, <1>2, <1>5 DEF OcrCloses, relayVars, gatewayVars, WireTypes
<1>6. CASE RelayLooks BY SMTT(60), <1>1, <1>2, <1>6 DEF RelayLooks, gatewayVars, WireTypes, Sources, Targets
<1>7. ASSUME NEW d \in Ways, RelayReads(d) PROVE WireTypes'
  <2>1. /\ passed' = passed /\ ocrGot' = ocrGot
        /\ relayTurn' = [relayTurn EXCEPT !.read = @ \ {d}]
        /\ \/ UNCHANGED <<taken, relayed, partial, relayAt>> /\ ended' = ended \cup {d}
           \/ UNCHANGED <<taken, relayed, partial, ended>> /\ relayAt' = "one"
           \/ /\ UNCHANGED <<ended, relayAt>> /\ relayed' \in [Ways -> Seq(Nat)] /\ partial' \in [Ways -> Nat]
              /\ \E n \in Nat \ {0} : taken' = [taken EXCEPT ![d] = @ + n]
    BY <1>0, <1>7, RelayReadsEffect
  <2>2. relayTurn' \in [read : SUBSET Ways, write : SUBSET Ways] BY <1>2, <2>1
  <2>3. UNCHANGED <<ocrSide, wrote, session, chunk, frame, calls, asked, answered, receiveAt, transmitAt, wireBudget>>
    BY <1>7 DEF RelayReads, gatewayVars
  <2>4. /\ taken' \in [Ways -> Nat] /\ relayed' \in [Ways -> Seq(Nat)] /\ partial' \in [Ways -> Nat]
        /\ ended' \in SUBSET Ways /\ relayAt' \in {"copying", "zero", "one"}
    <3>1. CASE UNCHANGED <<taken, relayed, partial, relayAt>> /\ ended' = ended \cup {d} BY <1>2, <3>1
    <3>2. CASE UNCHANGED <<taken, relayed, partial, ended>> /\ relayAt' = "one" BY <1>2, <3>2
    <3>3. CASE /\ UNCHANGED <<ended, relayAt>> /\ relayed' \in [Ways -> Seq(Nat)] /\ partial' \in [Ways -> Nat]
               /\ \E n \in Nat \ {0} : taken' = [taken EXCEPT ![d] = @ + n]
      <4>1. PICK n \in Nat \ {0} : taken' = [taken EXCEPT ![d] = @ + n] BY <3>3
      <4>2. taken[d] + n \in Nat BY <1>2
      <4>3. taken' \in [Ways -> Nat] BY <1>2, <4>1, <4>2
      <4> QED BY <1>2, <3>3, <4>3
    <3> QED BY <2>1, <3>1, <3>2, <3>3
  <2> QED BY <1>1, <1>2, <2>1, <2>2, <2>3, <2>4 DEF WireTypes
<1>8. ASSUME NEW d \in Ways, RelayWrites(d) PROVE WireTypes'
  <2>1. /\ relayed' \in [Ways -> Seq(Nat)] /\ passed' \in [Ways -> Seq(Nat)]
        /\ relayTurn' = [relayTurn EXCEPT !.write = @ \ {d}] /\ relayAt' \in {relayAt, "one"}
    BY <1>0, <1>8, RelayWritesEffect
  <2>2. relayTurn' \in [read : SUBSET Ways, write : SUBSET Ways] BY <1>2, <2>1
  <2>3. UNCHANGED <<ocrSide, wrote, ocrGot, taken, partial, ended, session, chunk, frame, calls, asked, answered, receiveAt,
                    transmitAt, wireBudget>>
    BY <1>8 DEF RelayWrites, gatewayVars
  <2> QED BY <1>1, <1>2, <2>1, <2>2, <2>3 DEF WireTypes
<1>9. CASE GatewayReads
  <2>1. /\ passed' \in [Ways -> Seq(Nat)] /\ wireBudget' \in [bytes : Nat, requests : Nat]
        /\ CalledTo <= Arrived("ask") /\ Arrived("ask")' \in Nat /\ Arrived("ask") \in Nat
        /\ Arrived("ask") <= Arrived("ask")'
        /\ \/ /\ receiveAt' = "reading" /\ chunk' = <<>>
              /\ frame' = Positions(CalledTo + 1, Arrived("ask")')
           \/ /\ receiveAt' = "sending" /\ Len(calls) < Len(wire.ask)
              /\ Arrived("ask") < wire.ask[Len(calls) + 1] /\ wire.ask[Len(calls) + 1] <= Arrived("ask")'
              /\ chunk' = Positions(wire.ask[Len(calls) + 1] + 1, Arrived("ask")')
              /\ frame' = Positions(CalledTo + 1, wire.ask[Len(calls) + 1])
           \/ receiveAt' = "failing" /\ chunk' = <<>> /\ frame' \in Seq(Nat)
    BY <1>0, <1>9, GatewayReadsEffect
  <2>2. CalledTo \in Nat /\ Len(calls) \in Nat
    <3>1. Len(calls) <= Len(wire.ask) BY <1>0 DEF WireFrames
    <3> QED BY <1>0, <3>1, CalledFacts
  <2>3. receiveAt' \in {"reading", "sending", "failing", "done"} /\ chunk' \in Seq(Nat) /\ frame' \in Seq(Nat)
    <3> DEFINE z == Arrived("ask")'
               x == wire.ask[Len(calls) + 1]
               a == Arrived("ask")
               s == CalledTo
    <3>1. <<>> \in Seq(Nat) OBVIOUS
    <3>2. CASE receiveAt' = "reading" /\ chunk' = <<>> /\ frame' = Positions(CalledTo + 1, Arrived("ask")')
      <4>1. s \in Nat /\ z \in Nat /\ s <= z
        <5>1. s \in Nat /\ z \in Nat /\ a \in Nat /\ s <= a /\ a <= z BY <2>1, <2>2
        <5> HIDE DEF s, z, a
        <5> QED BY <5>1
      <4>2. frame' = Positions(s + 1, z) BY <3>2
      <4> HIDE DEF s, z
      <4>3. Positions(s + 1, z) \in Seq(Nat) BY <4>1, BytesFacts
      <4> QED BY <3>1, <3>2, <4>2, <4>3
    <3>3. CASE /\ receiveAt' = "sending" /\ Len(calls) < Len(wire.ask)
               /\ Arrived("ask") < wire.ask[Len(calls) + 1] /\ wire.ask[Len(calls) + 1] <= Arrived("ask")'
               /\ chunk' = Positions(wire.ask[Len(calls) + 1] + 1, Arrived("ask")')
               /\ frame' = Positions(CalledTo + 1, wire.ask[Len(calls) + 1])
      <4>1. s \in Nat /\ z \in Nat /\ x \in Nat /\ s <= x /\ x <= z
        <5>1. Len(wire.ask) \in Nat BY <1>1, WorldFacts
        <5>2. Len(calls) + 1 \in 1..Len(wire.ask) BY <2>2, <3>3, <5>1
        <5>3. x \in Nat BY <1>1, <5>2, WorldFacts
        <5>4. s \in Nat /\ z \in Nat /\ a \in Nat /\ s <= a /\ a < x /\ x <= z BY <2>1, <2>2, <3>3
        <5> HIDE DEF s, z, a, x
        <5> QED BY <5>3, <5>4
      <4>2. frame' = Positions(s + 1, x) /\ chunk' = Positions(x + 1, z) BY <3>3
      <4> HIDE DEF s, z, x
      <4>3. Positions(s + 1, x) \in Seq(Nat) /\ Positions(x + 1, z) \in Seq(Nat) BY <4>1, BytesFacts
      <4> QED BY <3>3, <4>2, <4>3
    <3>4. CASE receiveAt' = "failing" /\ chunk' = <<>> /\ frame' \in Seq(Nat) BY <3>1, <3>4
    <3> QED BY <2>1, <3>2, <3>3, <3>4
  <2>4. UNCHANGED <<ocrSide, wrote, ocrGot, relayAt, relayTurn, taken, relayed, partial, ended, transmitAt, session,
                    calls, asked, answered>>
    BY <1>9 DEF GatewayReads, relayVars
  <2> QED BY <1>1, <1>2, <2>1, <2>3, <2>4 DEF WireTypes
<1>10. CASE SessionReceives
  <2>0. asked' \in Nat
    <3>1. asked' = asked + Cost(frame) /\ Cost(frame) \in {0, 1} BY <1>10 DEF SessionReceives, Cost
    <3> QED BY <1>2, <3>1
  <2>1. /\ calls' \in Seq(Seq(Nat)) /\ Len(calls') = Len(calls) + 1
        /\ SplitTo \in Nat /\ SplitTo <= Arrived("ask") /\ wireBudget' \in [bytes : Nat, requests : Nat]
        /\ \/ /\ receiveAt' = "reading" /\ chunk' = <<>> /\ frame' = Positions(SplitTo + 1, Arrived("ask"))
           \/ /\ receiveAt' = "sending" /\ Len(calls') < Len(wire.ask)
              /\ SplitTo < wire.ask[Len(calls') + 1] /\ wire.ask[Len(calls') + 1] <= Arrived("ask")
              /\ chunk' = Positions(wire.ask[Len(calls') + 1] + 1, Arrived("ask"))
              /\ frame' = Positions(SplitTo + 1, wire.ask[Len(calls') + 1])
           \/ receiveAt' = "failing" /\ chunk' = <<>> /\ frame' \in Seq(Nat)
    BY <1>0, <1>10, SessionReceivesEffect
  <2>2. Arrived("ask") \in Nat
    <3>1. "ask" \in Ways BY DEF Ways
    <3>2. StreamTyped("ask") /\ StreamOk("ask") BY <1>0, <3>1, WayFacts DEF WireStreams
    <3> QED BY <3>2, StreamFacts
  <2>3. receiveAt' \in {"reading", "sending", "failing", "done"} /\ chunk' \in Seq(Nat) /\ frame' \in Seq(Nat)
    <3> DEFINE z == Arrived("ask")
               x == wire.ask[Len(calls') + 1]
               s == SplitTo
    <3>1. <<>> \in Seq(Nat) OBVIOUS
    <3>2. CASE receiveAt' = "reading" /\ chunk' = <<>> /\ frame' = Positions(SplitTo + 1, Arrived("ask"))
      <4>1. s \in Nat /\ z \in Nat /\ s <= z BY <2>1, <2>2
      <4>2. frame' = Positions(s + 1, z) BY <3>2
      <4> HIDE DEF s, z
      <4>3. Positions(s + 1, z) \in Seq(Nat) BY <4>1, BytesFacts
      <4> QED BY <3>1, <3>2, <4>2, <4>3
    <3>3. CASE /\ receiveAt' = "sending" /\ Len(calls') < Len(wire.ask)
               /\ SplitTo < wire.ask[Len(calls') + 1] /\ wire.ask[Len(calls') + 1] <= Arrived("ask")
               /\ chunk' = Positions(wire.ask[Len(calls') + 1] + 1, Arrived("ask"))
               /\ frame' = Positions(SplitTo + 1, wire.ask[Len(calls') + 1])
      <4>1. s \in Nat /\ z \in Nat /\ x \in Nat /\ s <= x /\ x <= z
        <5>1. Len(wire.ask) \in Nat BY <1>1, WorldFacts
        <5>2. Len(calls') + 1 \in 1..Len(wire.ask) BY SMTT(60), <1>2, <2>1, <3>3, <5>1
        <5>3. x \in Nat BY <1>1, <5>2, WorldFacts
        <5>4. s \in Nat /\ z \in Nat /\ s < x /\ x <= z BY <2>1, <2>2, <3>3
        <5> HIDE DEF s, z, x
        <5> QED BY <5>3, <5>4
      <4>2. frame' = Positions(s + 1, x) /\ chunk' = Positions(x + 1, z) BY <3>3
      <4> HIDE DEF s, z, x
      <4>3. Positions(s + 1, x) \in Seq(Nat) /\ Positions(x + 1, z) \in Seq(Nat) BY <4>1, BytesFacts
      <4> QED BY <3>3, <4>2, <4>3
    <3>4. CASE receiveAt' = "failing" /\ chunk' = <<>> /\ frame' \in Seq(Nat) BY <3>1, <3>4
    <3> QED BY <2>1, <3>2, <3>3, <3>4
  <2>4. UNCHANGED <<ocrSide, wrote, ocrGot, passed, relayAt, relayTurn, taken, relayed, partial, ended, transmitAt,
                    session, answered>>
    BY <1>10 DEF SessionReceives, relayVars
  <2> QED BY <1>1, <1>2, <2>0, <2>1, <2>3, <2>4 DEF WireTypes
<1>11. CASE GatewayReadsEnd BY <1>1, <1>2, <1>11 DEF GatewayReadsEnd, relayVars, WireTypes
<1>12. CASE ReceiveEnds BY <1>1, <1>2, <1>12 DEF ReceiveEnds, relayVars, WireTypes
<1>13. CASE SessionAnswers
  <2>1. UNCHANGED <<ocrSide, ocrGot, passed, relayAt, relayTurn, taken, relayed, partial, ended, receiveAt, chunk,
                    frame, session, calls, asked>>
    BY <1>13 DEF SessionAnswers, relayVars
  <2>2. /\ answered' \in Nat /\ transmitAt' \in {"waiting", "draining", "gone"} /\ wrote' \in [Ways -> Nat]
        /\ wireBudget' \in [bytes : Nat, requests : Nat]
    BY <1>0, <1>13, SessionAnswersEffect
  <2> QED BY <1>1, <1>2, <2>1, <2>2 DEF WireTypes
<1>14. CASE TransmitDrains BY <1>1, <1>2, <1>14 DEF TransmitDrains, relayVars, WireTypes
<1>15. CASE SessionEnds BY <1>1, <1>2, <1>15 DEF SessionEnds, relayVars, WireTypes
<1>16. CASE OthersCharge
  <2>1. Charge(1, 1) \in [bytes : Nat, requests : Nat] BY <1>2 DEF Charge
  <2> QED BY <1>1, <1>2, <1>16, <2>1 DEF OthersCharge, relayVars, WireTypes
<1>17. CASE UNCHANGED wireVars BY <1>1, <1>2, <1>17 DEF wireVars, relayVars, gatewayVars, WireTypes
<1> QED
  BY <1>3, <1>4, <1>5, <1>6, <1>7, <1>8, <1>9, <1>10, <1>11, <1>12, <1>13, <1>14, <1>15, <1>16,
     <1>17 DEF WireNext

-----------------------------------------------------------------------------
LEMMA WireStreamsKept ==
  ASSUME WireInv, [WireNext]_wireVars
  PROVE  WireStreams'
<1>1. WireTypes /\ WireStreams /\ WireFrames /\ WireLengths BY DEF WireInv
<1>2. CASE UNCHANGED Streams BY <1>1, <1>2, StreamsRest
<1>3. CASE OcrReads BY <1>1, <1>3, OcrReadsEffect
<1>4. ASSUME NEW d \in Ways, RelayReads(d) PROVE WireStreams' BY <1>1, <1>4, RelayReadsEffect
<1>5. ASSUME NEW d \in Ways, RelayWrites(d) PROVE WireStreams' BY <1>1, <1>5, RelayWritesEffect
<1>6. CASE GatewayReads BY <1>1, <1>6, GatewayReadsEffect
<1>7. \/ OcrReads \/ (\E d \in Ways : RelayReads(d) \/ RelayWrites(d)) \/ GatewayReads \/ UNCHANGED Streams
  BY DEF WireNext, wireVars, relayVars, Streams, OcrWrites, OcrCloses, RelayLooks,
     SessionReceives, GatewayReadsEnd,
         ReceiveEnds, SessionAnswers, TransmitDrains, SessionEnds, OthersCharge
<1> QED BY <1>2, <1>3, <1>4, <1>5, <1>6, <1>7

(* What the relay knows of the unfinished frame.                              *)
LEMMA WireLengthsKept ==
  ASSUME WireInv, [WireNext]_wireVars
  PROVE  WireLengths'
<1>1. WireTypes /\ WireStreams /\ WireLengths BY DEF WireInv
<1>2. WorldOk(wire) /\ taken \in [Ways -> Nat] /\ partial \in [Ways -> Nat] BY <1>1 DEF WireTypes
<1>3. FrameBegins("ask")' = FrameBegins("ask") /\ FrameBegins("answer")' = FrameBegins("answer")
  BY <1>2, WorldKept DEF FrameBegins
<1>4. /\ \A d \in Ways : \E e \in FrameBegins(d) : e <= taken[d] /\ partial[d] = taken[d] - e
      /\ \A k \in 1..taken["ask"] : \E e \in FrameBegins("ask") : e < k /\ k - e <= FrameLimit
  BY <1>1 DEF WireLengths
<1>5. SUFFICES /\ \E e \in FrameBegins("ask") : e <= taken'["ask"] /\ partial'["ask"] = taken'["ask"] - e
               /\ \E e \in FrameBegins("answer") : e <= taken'["answer"] /\ partial'["answer"] = taken'["answer"] - e
               /\ \A k \in 1..taken'["ask"] : \E e \in FrameBegins("ask") : e < k /\ k - e <= FrameLimit
  BY <1>3 DEF WireLengths, Ways
<1>6. CASE UNCHANGED <<taken, partial>> BY <1>4, <1>6 DEF Ways
<1>7. ASSUME NEW d \in Ways, RelayReads(d)
      PROVE  /\ \A c \in Ways : \E e \in FrameBegins(c) : e <= taken'[c] /\ partial'[c] = taken'[c] - e
             /\ \A k \in 1..taken'["ask"] : \E e \in FrameBegins("ask") : e < k /\ k - e <= FrameLimit
  <2>1. \/ UNCHANGED <<taken, partial>>
        \/ \E n \in Nat \ {0} :
             /\ taken' = [taken EXCEPT ![d] = @ + n]
             /\ \A k \in taken[d] + 1..taken[d] + n : PartialAfter(d, k) <= FrameLimit
             /\ partial' = [partial EXCEPT ![d] = IF taken[d] + n \in EndsOf(d) THEN 0 ELSE PartialAfter(d, taken[d] + n)]
    BY <1>1, <1>7, RelayReadsEffect
  <2>2. CASE UNCHANGED <<taken, partial>> BY <1>4, <2>2
  <2>3. ASSUME NEW n \in Nat \ {0}, taken' = [taken EXCEPT ![d] = @ + n],
               \A k \in taken[d] + 1..taken[d] + n : PartialAfter(d, k) <= FrameLimit,
               partial' = [partial EXCEPT ![d] = IF taken[d] + n \in EndsOf(d) THEN 0 ELSE PartialAfter(d, taken[d] + n)]
        PROVE  /\ \A c \in Ways : \E e \in FrameBegins(c) : e <= taken'[c] /\ partial'[c] = taken'[c] - e
               /\ \A k \in 1..taken'["ask"] : \E e \in FrameBegins("ask") : e < k /\ k - e <= FrameLimit
    <3> DEFINE x == taken[d]
               y == taken[d] + n
    <3>1. x \in Nat /\ y \in Nat /\ x < y /\ y \in x + 1..y BY <1>2
    <3>2. /\ taken'[d] = y /\ partial'[d] = (IF y \in EndsOf(d) THEN 0 ELSE PartialAfter(d, y))
          /\ \A c \in Ways : c # d => taken'[c] = taken[c] /\ partial'[c] = partial[c]
      BY <1>2, <2>3
    <3>3. ASSUME NEW k \in Nat, x < k PROVE \E f \in FrameBegins(d) : f < k /\ PartialAfter(d, k) = k - f
      <4>1. PICK e \in FrameBegins(d) : e <= taken[d] /\ partial[d] = taken[d] - e BY <1>4
      <4> QED BY <1>2, <3>1, <3>3, <4>1, PartialFacts
    <3>4. \A f \in FrameBegins(d) : f \in Nat BY <1>2, WorldFacts
    <3>5. \A k \in x + 1..y : PartialAfter(d, k) <= FrameLimit BY <2>3
    <3> HIDE DEF x, y
    <3>6. \E e \in FrameBegins(d) : e <= y /\ partial'[d] = y - e
      <4>1. CASE y \in EndsOf(d)
        <5>1. y \in FrameBegins(d) /\ y <= y /\ y - y = 0 BY <3>1, <4>1 DEF FrameBegins
        <5>2. partial'[d] = 0 BY <3>2, <4>1
        <5> QED BY <5>1, <5>2
      <4>2. CASE y \notin EndsOf(d)
        <5>1. PICK f \in FrameBegins(d) : f < y /\ PartialAfter(d, y) = y - f BY <3>1, <3>3
        <5>2. f \in Nat /\ f <= y BY <3>1, <3>4, <5>1
        <5> QED BY <3>2, <4>2, <5>1, <5>2
      <4> QED BY <4>1, <4>2
    <3>7. \A c \in Ways : \E e \in FrameBegins(c) : e <= taken'[c] /\ partial'[c] = taken'[c] - e
      <4> TAKE c \in Ways
      <4>1. CASE c = d BY <3>2, <3>6, <4>1
      <4>2. CASE c # d BY <1>4, <3>2, <4>2
      <4> QED BY <4>1, <4>2
    <3>8. \A k \in 1..taken'["ask"] : \E e \in FrameBegins("ask") : e < k /\ k - e <= FrameLimit
      <4>1. CASE d = "ask"
        <5> TAKE k \in 1..taken'["ask"]
        <5>0. taken'["ask"] = y /\ taken["ask"] = x BY <3>2, <4>1 DEF x
        <5>1. k \in Nat /\ k \in 1..y BY <3>1, <5>0
        <5>2. CASE k <= x
          <6>1. k \in 1..taken["ask"] BY <3>1, <5>0, <5>1, <5>2
          <6> QED BY <1>4, <6>1
        <5>3. CASE x < k
          <6>1. k \in x + 1..y BY <3>1, <5>1, <5>3
          <6>2. PICK f \in FrameBegins(d) : f < k /\ PartialAfter(d, k) = k - f BY <3>3, <5>1, <5>3
          <6>3. PartialAfter(d, k) <= FrameLimit BY <3>5, <6>1
          <6>4. k - f <= FrameLimit BY <6>2, <6>3
          <6> QED BY <4>1, <6>2, <6>4
        <5> QED BY <3>1, <5>1, <5>2, <5>3
      <4>2. CASE d # "ask"
        <5>1. taken'["ask"] = taken["ask"] BY <3>2, <4>2 DEF Ways
        <5> QED BY <1>4, <5>1
      <4> QED BY <4>1, <4>2
    <3> QED BY <3>7, <3>8
  <2> QED BY <2>1, <2>2, <2>3
<1>8. (\E d \in Ways : RelayReads(d)) \/ UNCHANGED <<taken, partial>>
  BY DEF WireNext, wireVars, relayVars, OcrWrites, OcrReads, OcrCloses, RelayLooks, RelayWrites,
     GatewayReads,
         SessionReceives, GatewayReadsEnd, ReceiveEnds, SessionAnswers, TransmitDrains, SessionEnds, OthersCharge
<1>9. CASE \E d \in Ways : RelayReads(d)
  <2>1. PICK d \in Ways : RelayReads(d) BY <1>9
  <2>2. /\ \A c \in Ways : \E e \in FrameBegins(c) : e <= taken'[c] /\ partial'[c] = taken'[c] - e
        /\ \A k \in 1..taken'["ask"] : \E e \in FrameBegins("ask") : e < k /\ k - e <= FrameLimit
    BY <1>7, <2>1
  <2> QED BY <2>2 DEF Ways
<1> QED BY <1>6, <1>8, <1>9

(* Ends are found where there is nothing more.                                *)
LEMMA WireClosingsKept ==
  ASSUME WireInv, [WireNext]_wireVars
  PROVE  WireClosings'
<1>1. WireTypes /\ WireStreams /\ WireLengths /\ WireClosings BY DEF WireInv
<1>2. /\ WorldOk(wire) /\ taken \in [Ways -> Nat] /\ wrote \in [Ways -> Nat] /\ ended \in SUBSET Ways
      /\ relayTurn \in [read : SUBSET Ways, write : SUBSET Ways] /\ answered \in Nat
      /\ relayed \in [Ways -> Seq(Nat)] /\ session \in {"running", "ended"} /\ ocrSide \in {"open", "closed", "gone"}
  BY <1>1 DEF WireTypes
<1>3. wire'.answer = wire.answer BY <1>2, WorldKept
<1>4. /\ relayTurn.read \cap ended = {}
      /\ \A d \in relayTurn.read : taken[d] < wrote[d] \/ SourceClosed(d)
      /\ \A d \in ended : SourceClosed(d) /\ taken[d] = wrote[d]
      /\ relayAt = "zero" => \E d \in ended : relayed[d] = <<>>
      /\ transmitAt # "gone" => wrote["answer"] = IF answered = 0 THEN 0 ELSE wire.answer[answered]
      /\ answered <= Len(wire.answer)
  BY <1>1 DEF WireClosings, Drained
<1>5. /\ SourceClosed("ask") <=> ocrSide # "open"
      /\ SourceClosed("answer") <=> session = "ended"
      /\ SourceClosed("ask")' <=> ocrSide' # "open"
      /\ SourceClosed("answer")' <=> session' = "ended"
  BY DEF SourceClosed
<1> DEFINE closed(d) == IF d = "ask" THEN ocrSide' # "open" ELSE session' = "ended"
           turn == /\ relayTurn'.read \cap ended' = {}
                   /\ \A d \in relayTurn'.read : taken'[d] < wrote'[d] \/ closed(d)
                   /\ \A d \in ended' : closed(d) /\ taken'[d] = wrote'[d]
                   /\ relayAt' = "zero" => \E d \in ended' : relayed'[d] = <<>>
           answers == /\ transmitAt' # "gone" => wrote'["answer"] = IF answered' = 0 THEN 0 ELSE wire.answer[answered']
                      /\ answered' <= Len(wire.answer)
<1>6. SUFFICES turn /\ answers BY <1>3 DEF WireClosings, Drained, SourceClosed
<1>7. /\ \A d \in relayTurn.read : taken[d] < wrote[d] \/ (IF d = "ask" THEN ocrSide # "open" ELSE session = "ended")
      /\ \A d \in ended : (IF d = "ask" THEN ocrSide # "open" ELSE session = "ended") /\ taken[d] = wrote[d]
  BY <1>4 DEF SourceClosed
<1>8. ASSUME UNCHANGED <<ocrSide, wrote, relayAt, relayTurn, taken, relayed, ended, session>> PROVE turn
  BY <1>4, <1>7, <1>8
<1>9. ASSUME UNCHANGED <<answered, transmitAt, wrote>> PROVE answers BY <1>4, <1>9
<1>10. CASE OcrWrites
  <2>1. /\ UNCHANGED <<ocrSide, relayAt, relayTurn, taken, relayed, ended, session, answered, transmitAt>>
        /\ ocrSide = "open" /\ wrote["ask"] < wire.askBytes
        /\ PipeRoom - (wrote["ask"] - taken["ask"]) > 0
        /\ wrote' = [wrote EXCEPT !["ask"] = Smaller(@ + (PipeRoom - (wrote["ask"] - taken["ask"])), wire.askBytes)]
    BY <1>10 DEF OcrWrites, relayVars, gatewayVars
  <2> DEFINE w == Smaller(wrote["ask"] + (PipeRoom - (wrote["ask"] - taken["ask"])), wire.askBytes)
  <2>2. wrote["ask"] \in Nat /\ taken["ask"] \in Nat /\ wire.askBytes \in Nat /\ PipeRoom \in Nat
    BY <1>2, WorldFacts, WireAssumption DEF Ways
  <2>3. w \in Nat /\ wrote["ask"] < w BY <2>1, <2>2 DEF Smaller
  <2>4. wrote' = [wrote EXCEPT !["ask"] = w] BY <2>1
  <2> HIDE DEF w
  <2>5. wrote'["ask"] = w /\ wrote'["answer"] = wrote["answer"] BY <1>2, <2>4 DEF Ways
  <2>6. "ask" \notin ended BY <1>7, <2>1
  <2>7. \A d \in ended : d = "answer" BY <1>2, <2>6 DEF Ways
  <2>8. \A d \in relayTurn.read : taken[d] < wrote'[d] \/ closed(d)
    <3> TAKE d \in relayTurn.read
    <3>1. CASE d = "ask"
      <4>1. taken["ask"] < wrote["ask"] BY <1>7, <2>1, <3>1
      <4> QED BY <2>2, <2>3, <2>5, <3>1, <4>1
    <3>2. CASE d # "ask"
      <4>1. d = "answer" BY <1>2, <3>2 DEF Ways
      <4> QED BY <1>7, <2>1, <2>5, <4>1
    <3> QED BY <3>1, <3>2
  <2>9. turn BY <1>4, <1>7, <2>1, <2>5, <2>7, <2>8
  <2>10. answers BY <1>4, <2>1, <2>5
  <2> QED BY <2>9, <2>10
<1>11. CASE OcrReads
  BY <1>8, <1>9, <1>11 DEF OcrReads, relayVars, gatewayVars
<1>12. CASE OcrCloses
  <2>1. /\ UNCHANGED <<wrote, relayAt, relayTurn, taken, relayed, ended, session, answered, transmitAt>>
        /\ ocrSide' # "open"
    BY <1>12 DEF OcrCloses, relayVars, gatewayVars
  <2>2. turn BY <1>4, <1>7, <2>1
  <2> QED BY <1>9, <2>1, <2>2
<1>13. CASE RelayLooks
  <2>1. UNCHANGED <<ocrSide, wrote, taken, relayed, ended, session, answered, transmitAt>>
    BY <1>13 DEF RelayLooks, gatewayVars
  <2>2. \/ relayAt' = "one" /\ relayTurn' = relayTurn
        \/ (\E d \in ended : relayed[d] = <<>>) /\ relayTurn' = relayTurn
        \/ relayTurn' = [read |-> Sources, write |-> Targets] /\ relayAt' = relayAt
    BY <1>13 DEF RelayLooks, Drained
  <2>3. answers BY <1>9, <2>1
  <2>4. CASE relayAt' = "one" /\ relayTurn' = relayTurn BY <1>4, <1>7, <2>1, <2>3, <2>4
  <2>5. CASE (\E d \in ended : relayed[d] = <<>>) /\ relayTurn' = relayTurn BY <1>4, <1>7, <2>1, <2>3, <2>5
  <2>6. CASE relayTurn' = [read |-> Sources, write |-> Targets] /\ relayAt' = relayAt
    <3>1. relayTurn'.read = Sources BY <2>6
    <3>2. \A d \in Sources : /\ d \notin ended
                             /\ taken[d] < wrote[d] \/ (IF d = "ask" THEN ocrSide # "open" ELSE session = "ended")
      BY DEF Sources, SourceClosed
    <3>3. turn BY <1>4, <1>7, <2>1, <2>6, <3>1, <3>2
    <3> QED BY <2>3, <3>3
  <2> QED BY <2>2, <2>4, <2>5, <2>6
<1>14. ASSUME NEW d \in Ways, RelayReads(d) PROVE turn /\ answers
  <2>1. /\ relayTurn' = [relayTurn EXCEPT !.read = @ \ {d}] /\ d \in relayTurn.read
        /\ \/ UNCHANGED <<taken, relayed, partial, relayAt>> /\ taken[d] = wrote[d] /\ ended' = ended \cup {d}
           \/ UNCHANGED <<taken, relayed, partial, ended>> /\ relayAt' = "one"
           \/ /\ UNCHANGED <<ended, relayAt>>
              /\ \E n \in Nat \ {0} : taken' = [taken EXCEPT ![d] = @ + n]
    BY <1>1, <1>14, RelayReadsEffect
  <2>2. UNCHANGED <<ocrSide, wrote, session, answered, transmitAt>> /\ relayAt = "copying"
    BY <1>14 DEF RelayReads, gatewayVars, Relaying
  <2>3. answers BY <1>9, <2>2
  <2>4. relayTurn'.read = relayTurn.read \ {d} BY <1>2, <2>1
  <2>5. CASE UNCHANGED <<taken, relayed, partial, relayAt>> /\ taken[d] = wrote[d] /\ ended' = ended \cup {d}
    <3>1. d \in relayTurn.read /\ ~(taken[d] < wrote[d]) BY <1>2, <2>1, <2>5
    <3>2. closed(d) BY <1>7, <2>2, <3>1
    <3>3. \A c \in ended' : closed(c) /\ taken'[c] = wrote'[c] BY <1>7, <2>2, <2>5, <3>2
    <3>4. \A c \in relayTurn'.read : taken'[c] < wrote'[c] \/ closed(c) BY <1>7, <2>2, <2>4, <2>5
    <3>5. relayTurn'.read \cap ended' = {} BY <1>4, <2>4, <2>5
    <3>6. relayAt' # "zero" BY <2>2, <2>5
    <3> QED BY <2>3, <3>3, <3>4, <3>5, <3>6
  <2>6. CASE UNCHANGED <<taken, relayed, partial, ended>> /\ relayAt' = "one"
    BY <1>4, <1>7, <2>2, <2>3, <2>4, <2>6
  <2>7. CASE UNCHANGED <<ended, relayAt>> /\ \E n \in Nat \ {0} : taken' = [taken EXCEPT ![d] = @ + n]
    <3>1. PICK n \in Nat \ {0} : taken' = [taken EXCEPT ![d] = @ + n] BY <2>7
    <3>2. \A c \in Ways : c # d => taken'[c] = taken[c] BY <1>2, <3>1
    <3>3. d \notin ended BY <1>4, <2>1
    <3>4. \A c \in ended : c \in Ways /\ c # d BY <1>2, <3>3
    <3>5. \A c \in relayTurn'.read : c \in Ways /\ c # d /\ c \in relayTurn.read BY <1>2, <2>4
    <3>6. \A c \in ended' : closed(c) /\ taken'[c] = wrote'[c] BY <1>7, <2>2, <2>7, <3>2, <3>4
    <3>7. \A c \in relayTurn'.read : taken'[c] < wrote'[c] \/ closed(c) BY <1>7, <2>2, <3>2, <3>5
    <3>8. relayTurn'.read \cap ended' = {} BY <1>4, <2>4, <2>7
    <3>9. relayAt' # "zero" BY <2>2, <2>7
    <3> QED BY <2>3, <3>6, <3>7, <3>8, <3>9
  <2> QED BY <2>1, <2>5, <2>6, <2>7
<1>15. ASSUME NEW d \in Ways, RelayWrites(d) PROVE turn /\ answers
  <2>1. relayTurn' = [relayTurn EXCEPT !.write = @ \ {d}] /\ relayAt' \in {relayAt, "one"}
    BY <1>1, <1>15, RelayWritesEffect
  <2>2. UNCHANGED <<ocrSide, wrote, taken, ended, session, answered, transmitAt>> /\ relayAt = "copying"
    BY <1>15 DEF RelayWrites, gatewayVars, Relaying
  <2>3. relayTurn'.read = relayTurn.read BY <1>2, <2>1
  <2>4. relayAt' # "zero" BY <2>1, <2>2
  <2>5. turn BY <1>4, <1>7, <2>2, <2>3, <2>4
  <2> QED BY <1>9, <2>2, <2>5
<1>16. CASE GatewayReads BY <1>8, <1>9, <1>16 DEF GatewayReads, relayVars
<1>17. CASE SessionReceives BY <1>8, <1>9, <1>17 DEF SessionReceives, relayVars
<1>18. CASE GatewayReadsEnd BY <1>8, <1>9, <1>18 DEF GatewayReadsEnd, relayVars
<1>19. CASE ReceiveEnds BY <1>8, <1>9, <1>19 DEF ReceiveEnds, relayVars
<1>20. CASE SessionAnswers
  <2>1. /\ answered' = answered + 1 /\ answered' <= Len(wire.answer) /\ session = "running"
        /\ wrote' \in [Ways -> Nat] /\ wrote'["ask"] = wrote["ask"]
        /\ \/ transmitAt' = "gone" /\ wrote' = wrote
           \/ /\ transmitAt' = "draining" /\ wrote'["answer"] = wire.answer[answered'] /\ answered' # 0
              /\ wrote["answer"] <= wrote'["answer"]
    BY <1>1, <1>20, SessionAnswersEffect
  <2>2. UNCHANGED <<ocrSide, relayAt, relayTurn, taken, relayed, ended, session>>
    BY <1>20 DEF SessionAnswers, relayVars
  <2>3. answers BY <2>1
  <2>4. CASE wrote' = wrote BY <1>8, <2>2, <2>3, <2>4
  <2>5. CASE wrote["answer"] <= wrote'["answer"]
    <3>1. "answer" \notin ended BY <1>7, <2>1
    <3>2. \A c \in ended : c = "ask" BY <1>2, <3>1 DEF Ways
    <3>3. \A c \in relayTurn.read : taken[c] < wrote'[c] \/ closed(c)
      <4> TAKE c \in relayTurn.read
      <4>1. CASE c = "ask" BY <1>7, <2>1, <2>2, <4>1
      <4>2. CASE c = "answer"
        <5>1. taken["answer"] < wrote["answer"] BY <1>7, <2>1, <4>2
        <5>2. taken["answer"] \in Nat /\ wrote["answer"] \in Nat /\ wrote'["answer"] \in Nat BY <1>2, <2>1 DEF Ways
        <5> QED BY <2>5, <4>2, <5>1, <5>2
      <4> QED BY <1>2, <4>1, <4>2 DEF Ways
    <3>4. turn BY <1>4, <1>7, <2>1, <2>2, <3>2, <3>3
    <3> QED BY <2>3, <3>4
  <2> QED BY <2>1, <2>4, <2>5
<1>21. CASE TransmitDrains
  <2>1. UNCHANGED <<ocrSide, wrote, relayAt, relayTurn, taken, relayed, ended, session, answered>> /\ transmitAt # "gone"
    BY <1>21 DEF TransmitDrains, relayVars
  <2>2. answers BY <1>4, <2>1
  <2> QED BY <1>8, <2>1, <2>2
<1>22. CASE SessionEnds
  <2>1. /\ UNCHANGED <<ocrSide, wrote, relayAt, relayTurn, taken, relayed, ended, answered, transmitAt>>
        /\ session' = "ended"
    BY <1>22 DEF SessionEnds, relayVars
  <2>2. turn BY <1>4, <1>7, <2>1
  <2> QED BY <1>9, <2>1, <2>2
<1>23. CASE OthersCharge BY <1>8, <1>9, <1>23 DEF OthersCharge, relayVars
<1>24. CASE UNCHANGED wireVars BY <1>8, <1>9, <1>24 DEF wireVars, relayVars, gatewayVars
<1> HIDE DEF turn, answers
<1> QED
  BY <1>10, <1>11, <1>12, <1>13, <1>14, <1>15, <1>16, <1>17, <1>18, <1>19, <1>20, <1>21, <1>22,
     <1>23, <1>24 DEF WireNext

-----------------------------------------------------------------------------
(* What the gateway holds and has called.                                     *)
Splits == <<receiveAt, chunk, frame, calls, trouble>>

LEMMA FramesRest ==
  ASSUME WireFrames, UNCHANGED Splits, wire'.ask = wire.ask, EndsOf("ask")' = EndsOf("ask"),
         Arrived("ask")' = Arrived("ask"),
         Relaying \/ (relayAt' = relayAt /\ SentOn("ask")' = SentOn("ask") /\ passed'["ask"] = passed["ask"])
  PROVE  WireFrames'
<1>1. receiveAt' = receiveAt /\ chunk' = chunk /\ frame' = frame /\ calls' = calls /\ trouble' = trouble BY DEF Splits
<1>2. CalledTo' = CalledTo /\ SplitTo' = SplitTo BY <1>1 DEF CalledTo, SplitTo
<1>3. CallsAreWhole'
  <2>1. CallsAreWhole BY DEF WireFrames
  <2>2. \A i : FrameStart("ask", i)' = FrameStart("ask", i) BY DEF FrameStart
  <2> QED BY <1>1, <2>1 DEF CallsAreWhole, FrameStart
<1>4. EndIsNoCut'
  <2>1. EndIsNoCut BY DEF WireFrames
  <2>2. CASE Relaying BY <1>1, <2>1, <2>2 DEF EndIsNoCut
  <2>3. CASE relayAt' = relayAt /\ SentOn("ask")' = SentOn("ask") /\ passed'["ask"] = passed["ask"]
    BY <1>1, <2>1, <2>3 DEF EndIsNoCut, Relaying, SentOn
  <2> QED BY <2>2, <2>3
<1>5. LengthsAgree' BY <1>1 DEF WireFrames, LengthsAgree
<1>6. /\ Len(calls) <= Len(wire.ask) /\ Len(frame) <= FrameLimit
      /\ receiveAt \in {"reading", "sending"} =>
           /\ trouble = "none" /\ CalledTo <= SplitTo /\ SplitTo <= Arrived("ask")
           /\ frame = Positions(CalledTo + 1, SplitTo) /\ chunk = Positions(SplitTo + 1, Arrived("ask"))
      /\ receiveAt = "reading" => chunk = <<>> /\ \A e \in EndsOf("ask") : ~(CalledTo < e /\ e <= SplitTo)
      /\ receiveAt = "sending" => Len(calls) < Len(wire.ask) /\ wire.ask[Len(calls) + 1] = SplitTo
      /\ CalledTo <= Arrived("ask")
      /\ receiveAt = "failing" => trouble # "none"
  BY DEF WireFrames, NoEndBetween
<1>7. /\ Len(calls') <= Len(wire'.ask) /\ Len(frame') <= FrameLimit
      /\ receiveAt' \in {"reading", "sending"} =>
           /\ trouble' = "none" /\ CalledTo' <= SplitTo' /\ SplitTo' <= Arrived("ask")'
           /\ frame' = Positions(CalledTo' + 1, SplitTo') /\ chunk' = Positions(SplitTo' + 1, Arrived("ask")')
      /\ receiveAt' = "reading" => chunk' = <<>> /\ \A e \in EndsOf("ask")' : ~(CalledTo' < e /\ e <= SplitTo')
      /\ receiveAt' = "sending" => Len(calls') < Len(wire'.ask) /\ wire'.ask[Len(calls') + 1] = SplitTo'
      /\ CalledTo' <= Arrived("ask")'
      /\ receiveAt' = "failing" => trouble' # "none"
  BY <1>1, <1>2, <1>6
<1> QED BY <1>3, <1>4, <1>5, <1>7 DEF WireFrames, NoEndBetween

(* WireFrames of the next state, told by numbers.                             *)
LEMMA FramesTold ==
  ASSUME WorldOk(wire), wire'.ask = wire.ask, EndsOf("ask")' = EndsOf("ask"), CallsAreWhole', LengthsAgree',
         receiveAt' # "done", Len(frame') <= FrameLimit, Len(calls') <= Len(wire.ask),
         NEW s \in Nat, NEW z \in Nat, s <= z, CalledTo' = s, Arrived("ask")' = z,
         \/ /\ receiveAt' = "reading" /\ trouble' = "none" /\ chunk' = <<>> /\ frame' = Positions(s + 1, z)
            /\ NoEndBetween(s, z)
         \/ /\ receiveAt' = "sending" /\ trouble' = "none" /\ Len(calls') < Len(wire.ask)
            /\ \E x \in Nat : /\ x = wire.ask[Len(calls') + 1] /\ s <= x /\ x <= z
                              /\ chunk' = Positions(x + 1, z) /\ frame' = Positions(s + 1, x)
         \/ receiveAt' = "failing" /\ trouble' # "none"
  PROVE  WireFrames'
<1>1. EndIsNoCut' BY DEF EndIsNoCut
<1>2. /\ Len(calls') <= Len(wire'.ask) /\ CalledTo' <= Arrived("ask")' OBVIOUS
<1>3. CASE /\ receiveAt' = "reading" /\ trouble' = "none" /\ chunk' = <<>> /\ frame' = Positions(s + 1, z)
           /\ NoEndBetween(s, z)
  <2>1. Len(chunk') = 0 BY <1>3, EmptySeq
  <2>2. SplitTo' = Arrived("ask")' - Len(chunk') BY DEF SplitTo
  <2>3. SplitTo' = z BY <2>1, <2>2
  <2>4. Positions(z + 1, z) = <<>> BY BytesFacts
  <2>5. \A e \in EndsOf("ask")' : ~(CalledTo' < e /\ e <= SplitTo') BY <1>3, <2>3 DEF NoEndBetween
  <2>6. z <= z OBVIOUS
  <2> QED BY <1>1, <1>2, <1>3, <2>3, <2>4, <2>5, <2>6 DEF WireFrames, NoEndBetween
<1>4. CASE /\ receiveAt' = "sending" /\ trouble' = "none" /\ Len(calls') < Len(wire.ask)
           /\ \E x \in Nat : /\ x = wire.ask[Len(calls') + 1] /\ s <= x /\ x <= z
                             /\ chunk' = Positions(x + 1, z) /\ frame' = Positions(s + 1, x)
  <2>1. PICK x \in Nat : /\ x = wire.ask[Len(calls') + 1] /\ s <= x /\ x <= z
                         /\ chunk' = Positions(x + 1, z) /\ frame' = Positions(s + 1, x)
    BY <1>4
  <2>2. Len(Positions(x + 1, z)) = z - x BY ZenonT(60), <2>1, BytesFacts
  <2>3. SplitTo' = Arrived("ask")' - Len(chunk') BY DEF SplitTo
  <2>4. SplitTo' = x BY SMTT(60), <2>1, <2>2, <2>3
  <2>5. wire'.ask[Len(calls') + 1] = x BY <2>1
  <2> QED BY <1>1, <1>2, <1>4, <2>1, <2>4, <2>5 DEF WireFrames
<1>5. CASE receiveAt' = "failing" /\ trouble' # "none" BY <1>1, <1>2, <1>5 DEF WireFrames
<1> QED BY <1>3, <1>4, <1>5

LEMMA WireFramesKept ==
  ASSUME WireInv, [WireNext]_wireVars
  PROVE  WireFrames'
<1>1. WireTypes /\ WireStreams /\ WireFrames /\ WireLengths BY DEF WireInv
<1>2. WorldOk(wire) BY <1>1 DEF WireTypes
<1>3. wire'.ask = wire.ask /\ EndsOf("ask")' = EndsOf("ask") BY <1>2, WorldKept
<1>4. /\ Len(calls) <= Len(wire.ask) /\ CallsAreWhole /\ LengthsAgree /\ Len(frame) <= FrameLimit
      /\ CalledTo <= Arrived("ask")
  BY <1>1 DEF WireFrames
<1>5. CalledTo \in Nat /\ Len(calls) \in Nat BY <1>1, <1>4, CalledFacts
<1>6. /\ Arrived("ask") \in Nat /\ SentOn("ask") = taken["ask"] - Len(relayed["ask"])
      /\ passed["ask"] = <<>> => Arrived("ask") = SentOn("ask")
  <2>1. "ask" \in Ways BY DEF Ways
  <2>2. StreamTyped("ask") /\ StreamOk("ask") BY <1>1, <2>1, WayFacts DEF WireStreams
  <2> QED BY <2>2, StreamFacts DEF SentOn
<1>7. CASE UNCHANGED Splits /\ UNCHANGED Streams /\ relayAt' = relayAt
  <2>1. Arrived("ask")' = Arrived("ask") /\ SentOn("ask")' = SentOn("ask") /\ passed' = passed
    BY <1>1, <1>7, StreamsRest DEF Streams
  <2> QED BY <1>1, <1>3, <1>7, <2>1, FramesRest
<1>8. CASE OcrReads
  <2>1. Arrived("ask")' = Arrived("ask") /\ SentOn("ask")' = SentOn("ask") /\ passed'["ask"] = passed["ask"]
    BY <1>1, <1>8, OcrReadsEffect
  <2>2. UNCHANGED Splits /\ relayAt' = relayAt BY <1>8 DEF OcrReads, relayVars, gatewayVars, Splits
  <2> QED BY <1>1, <1>3, <2>1, <2>2, FramesRest
<1>9. CASE RelayLooks
  <2>1. UNCHANGED Streams /\ UNCHANGED Splits /\ Relaying BY <1>9 DEF RelayLooks, Streams, gatewayVars, Splits
  <2>2. Arrived("ask")' = Arrived("ask") BY <1>1, <2>1, StreamsRest
  <2> QED BY <1>1, <1>3, <2>1, <2>2, FramesRest
<1>10. ASSUME NEW d \in Ways, RelayReads(d) PROVE WireFrames'
  <2>1. Arrived("ask")' = Arrived("ask") BY <1>1, <1>10, RelayReadsEffect
  <2>2. UNCHANGED Splits /\ Relaying BY <1>10 DEF RelayReads, gatewayVars, Splits
  <2> QED BY <1>1, <1>3, <2>1, <2>2, FramesRest
<1>11. ASSUME NEW d \in Ways, RelayWrites(d) PROVE WireFrames'
  <2>1. Arrived("ask")' = Arrived("ask") BY <1>1, <1>11, RelayWritesEffect
  <2>2. UNCHANGED Splits /\ Relaying BY <1>11 DEF RelayWrites, gatewayVars, Splits
  <2> QED BY <1>1, <1>3, <2>1, <2>2, FramesRest
<1>12. CASE GatewayReads
  <2> DEFINE a == Arrived("ask")
             z == Arrived("ask")'
             s == CalledTo
             x == wire.ask[Len(calls) + 1]
  <2>1. a \in Nat /\ z \in Nat /\ a <= z /\ s <= a BY <1>1, <1>12, GatewayReadsEffect
  <2>2. \/ /\ receiveAt' = "reading" /\ trouble' = "none" /\ chunk' = <<>> /\ frame' = Positions(s + 1, z)
           /\ NoEndBetween(s, z) /\ z - s <= FrameLimit
        \/ /\ receiveAt' = "sending" /\ trouble' = "none" /\ Len(calls) < Len(wire.ask)
           /\ a < x /\ x <= z /\ chunk' = Positions(x + 1, z) /\ frame' = Positions(s + 1, x)
           /\ x - s <= FrameLimit
        \/ /\ receiveAt' = "failing" /\ trouble' \in {"budget", "json"} /\ Len(frame') <= FrameLimit
    BY <1>1, <1>12, GatewayReadsEffect
  <2>3. calls' = calls BY <1>12 DEF GatewayReads
  <2>4. CalledTo' = s BY <1>3, <2>3 DEF CalledTo
  <2>5. CallsAreWhole' BY <1>3, <1>4, <2>3 DEF CallsAreWhole, FrameStart
  <2>6. LengthsAgree' BY <2>2 DEF LengthsAgree
  <2>7. s \in Nat BY <1>5
  <2>8. Len(calls) < Len(wire.ask) => x \in Nat
    <3>1. Len(wire.ask) \in Nat BY <1>2, WorldFacts
    <3>2. Len(calls) < Len(wire.ask) => Len(calls) + 1 \in 1..Len(wire.ask) BY <1>5, <3>1
    <3> QED BY <1>2, <3>2, WorldFacts
  <2>9. Arrived("ask")' = z OBVIOUS
  <2>10. x = wire.ask[Len(calls') + 1] BY <2>3
  <2> HIDE DEF a, z, s, x
  <2>11. s <= z BY <2>1, <2>7
  <2>12. Len(frame') <= FrameLimit
    <3>1. CASE frame' = Positions(s + 1, z) /\ z - s <= FrameLimit
      <4>1. Len(Positions(s + 1, z)) = z - s BY <2>1, <2>7, <2>11, BytesFacts
      <4> QED BY <3>1, <4>1
    <3>2. CASE frame' = Positions(s + 1, x) /\ x - s <= FrameLimit /\ Len(calls) < Len(wire.ask) /\ a < x
      <4>1. x \in Nat /\ s <= x BY <2>1, <2>7, <2>8, <3>2
      <4>2. Len(Positions(s + 1, x)) = x - s BY <2>7, <4>1, BytesFacts
      <4> QED BY <3>2, <4>2
    <3> QED BY <2>2, <3>1, <3>2
  <2>13. \/ /\ receiveAt' = "reading" /\ trouble' = "none" /\ chunk' = <<>> /\ frame' = Positions(s + 1, z)
            /\ NoEndBetween(s, z)
         \/ /\ receiveAt' = "sending" /\ trouble' = "none" /\ Len(calls') < Len(wire.ask)
            /\ \E y \in Nat : /\ y = wire.ask[Len(calls') + 1] /\ s <= y /\ y <= z
                              /\ chunk' = Positions(y + 1, z) /\ frame' = Positions(s + 1, y)
         \/ receiveAt' = "failing" /\ trouble' # "none"
    <3>1. CASE /\ receiveAt' = "sending" /\ trouble' = "none" /\ Len(calls) < Len(wire.ask)
               /\ a < x /\ x <= z /\ chunk' = Positions(x + 1, z) /\ frame' = Positions(s + 1, x)
      <4>1. x \in Nat /\ s <= x BY <2>1, <2>7, <2>8, <3>1
      <4> QED BY <2>3, <2>10, <3>1, <4>1
    <3> QED BY <2>2, <3>1
  <2>14. Len(calls') <= Len(wire.ask) BY <1>4, <2>3
  <2>15. receiveAt' # "done" BY <2>2
  <2> QED BY <1>2, <1>3, <2>1, <2>4, <2>5, <2>6, <2>7, <2>9, <2>11, <2>12, <2>13, <2>14, <2>15,
     FramesTold
<1>13. CASE SessionReceives
  <2> DEFINE z == Arrived("ask")
             s == SplitTo
             x == wire.ask[Len(calls') + 1]
  <2>1. /\ UNCHANGED Streams /\ calls' = Append(calls, frame) /\ calls' \in Seq(Seq(Nat))
        /\ Len(calls') = Len(calls) + 1 /\ Len(calls') <= Len(wire.ask)
        /\ CalledTo' = s /\ s <= z /\ s \in Nat /\ wire.ask[Len(calls')] = s /\ frame = Positions(CalledTo + 1, s)
        /\ trouble = "none"
    BY <1>1, <1>13, SessionReceivesEffect
  <2>2. \/ /\ receiveAt' = "reading" /\ trouble' = "none" /\ chunk' = <<>> /\ frame' = Positions(s + 1, z)
           /\ NoEndBetween(s, z) /\ z - s <= FrameLimit
        \/ /\ receiveAt' = "sending" /\ trouble' = "none" /\ Len(calls') < Len(wire.ask)
           /\ s < x /\ x <= z /\ chunk' = Positions(x + 1, z) /\ frame' = Positions(s + 1, x)
           /\ x - s <= FrameLimit
        \/ /\ receiveAt' = "failing" /\ trouble' \in {"budget", "json"} /\ Len(frame') <= FrameLimit
    BY <1>1, <1>13, SessionReceivesEffect
  <2>3. Arrived("ask")' = z BY <1>1, <2>1, StreamsRest
  <2>4. CallsAreWhole'
    <3>1. \A i \in 1..Len(calls) : calls[i] = Positions(FrameStart("ask", i), wire.ask[i])
      <4>1. calls \in Seq(Seq(Nat)) BY <1>1 DEF WireTypes
      <4> QED BY <1>4, <4>1 DEF CallsAreWhole
    <3>2. FrameStart("ask", Len(calls')) = CalledTo + 1
      <4>1. calls \in Seq(Seq(Nat)) BY <1>1 DEF WireTypes
      <4>2. calls = <<>> <=> Len(calls) = 0 BY <4>1, EmptySeq
      <4>3. CASE Len(calls) = 0 BY <2>1, <4>2, <4>3 DEF FrameStart, CalledTo
      <4>4. CASE Len(calls) # 0
        <5>1. Len(calls') # 1 /\ Len(calls') - 1 = Len(calls) BY <1>5, <2>1, <4>4
        <5>2. FrameStart("ask", Len(calls')) = wire.ask[Len(calls)] + 1 BY <5>1 DEF FrameStart
        <5> QED BY <4>2, <4>4, <5>2 DEF CalledTo
      <4> QED BY <4>3, <4>4
    <3>3. calls'[Len(calls')] = frame /\ \A i \in 1..Len(calls) : calls'[i] = calls[i]
      <4>1. calls \in Seq(Seq(Nat)) /\ frame \in Seq(Nat) BY <1>1 DEF WireTypes
      <4> QED BY <2>1, <4>1, AppendProperties
    <3>4. \A i \in 1..Len(calls') : i = Len(calls') \/ i \in 1..Len(calls) BY <1>5, <2>1
    <3>5. DOMAIN calls' = 1..Len(calls') BY <2>1
    <3>6. \A i \in 1..Len(calls') : calls'[i] = Positions(FrameStart("ask", i), wire.ask[i])
      <4> TAKE i \in 1..Len(calls')
      <4>1. CASE i = Len(calls') BY <2>1, <3>2, <3>3, <4>1
      <4>2. CASE i \in 1..Len(calls) BY <3>1, <3>3, <4>2
      <4> QED BY <3>4, <4>1, <4>2
    <3> QED BY <1>3, <3>5, <3>6 DEF CallsAreWhole, FrameStart
  <2>5. LengthsAgree' BY <2>2 DEF LengthsAgree
  <2>6. Len(calls') < Len(wire.ask) => x \in Nat
    <3>1. Len(wire.ask) \in Nat BY <1>2, WorldFacts
    <3>2. Len(calls') < Len(wire.ask) => Len(calls') + 1 \in 1..Len(wire.ask) BY <1>5, <2>1, <3>1
    <3> QED BY <1>2, <3>2, WorldFacts
  <2>7. z \in Nat BY <1>6
  <2>8. x = wire.ask[Len(calls') + 1] OBVIOUS
  <2> HIDE DEF z, s, x
  <2>9. Len(frame') <= FrameLimit
    <3>1. CASE frame' = Positions(s + 1, z) /\ z - s <= FrameLimit
      <4>1. Len(Positions(s + 1, z)) = z - s BY <2>1, <2>7, BytesFacts
      <4> QED BY <3>1, <4>1
    <3>2. CASE frame' = Positions(s + 1, x) /\ x - s <= FrameLimit /\ Len(calls') < Len(wire.ask) /\ s < x
      <4>1. x \in Nat /\ s <= x BY <2>1, <2>6, <3>2
      <4>2. Len(Positions(s + 1, x)) = x - s BY <2>1, <4>1, BytesFacts
      <4> QED BY <3>2, <4>2
    <3> QED BY <2>2, <3>1, <3>2
  <2>10. \/ /\ receiveAt' = "reading" /\ trouble' = "none" /\ chunk' = <<>> /\ frame' = Positions(s + 1, z)
            /\ NoEndBetween(s, z)
         \/ /\ receiveAt' = "sending" /\ trouble' = "none" /\ Len(calls') < Len(wire.ask)
            /\ \E y \in Nat : /\ y = wire.ask[Len(calls') + 1] /\ s <= y /\ y <= z
                              /\ chunk' = Positions(y + 1, z) /\ frame' = Positions(s + 1, y)
         \/ receiveAt' = "failing" /\ trouble' # "none"
    <3>1. CASE /\ receiveAt' = "sending" /\ trouble' = "none" /\ Len(calls') < Len(wire.ask)
               /\ s < x /\ x <= z /\ chunk' = Positions(x + 1, z) /\ frame' = Positions(s + 1, x)
      <4>1. x \in Nat /\ s <= x BY <2>1, <2>6, <3>1
      <4> QED BY <2>8, <3>1, <4>1
    <3> QED BY <2>2, <3>1
  <2>11. receiveAt' # "done" BY <2>2
  <2> QED BY <1>2, <1>3, <2>1, <2>3, <2>4, <2>5, <2>7, <2>9, <2>10, <2>11, FramesTold
<1>14. CASE GatewayReadsEnd
  <2>1. /\ receiveAt = "reading" /\ passed["ask"] = <<>> /\ ~Relaying
        /\ \/ frame = <<>> /\ receiveAt' = "done" /\ trouble' = trouble
           \/ receiveAt' = "failing" /\ trouble' \in {"torn", "reset"}
        /\ UNCHANGED <<relayAt, chunk, frame, calls>> /\ UNCHANGED Streams
    BY <1>14 DEF GatewayReadsEnd, relayVars, Streams
  <2>2. Arrived("ask")' = Arrived("ask") /\ SentOn("ask")' = SentOn("ask") BY <1>1, <2>1, StreamsRest
  <2>3. CalledTo' = CalledTo BY <1>3, <2>1 DEF CalledTo
  <2>4. CallsAreWhole' BY <1>3, <1>4, <2>1 DEF CallsAreWhole, FrameStart
  <2>5. /\ trouble = "none" /\ CalledTo <= SplitTo /\ frame = Positions(CalledTo + 1, SplitTo) /\ chunk = <<>>
    BY <1>1, <2>1 DEF WireFrames
  <2>6. LengthsAgree' BY <1>4, <2>1 DEF LengthsAgree
  <2>7. SplitTo = Arrived("ask")
    <3>1. Len(chunk) = 0 BY <2>5, EmptySeq
    <3> QED BY <1>6, <3>1 DEF SplitTo
  <2>8. CASE frame = <<>> /\ receiveAt' = "done" /\ trouble' = trouble
    <3>1. CalledTo = SplitTo
      <4> DEFINE s == CalledTo
                 z == SplitTo
      <4>1. s \in Nat /\ z \in Nat /\ s <= z /\ Positions(s + 1, z) = <<>> BY <1>5, <1>6, <2>5, <2>7, <2>8
      <4> HIDE DEF s, z
      <4>2. s = z BY <4>1, BytesFacts
      <4> QED BY <4>2 DEF s, z
    <3>2. CalledTo' = SentOn("ask")' BY <1>6, <2>1, <2>2, <2>3, <2>7, <3>1
    <3>3. CalledTo' = taken'["ask"] - Len(relayed'["ask"]) BY <3>2 DEF SentOn
    <3>4. EndIsNoCut'
      <4>1. passed' = passed BY <2>1 DEF Streams
      <4>2. (IF calls' = <<>> THEN 0 ELSE wire'.ask[Len(calls')]) = taken'["ask"] - Len(relayed'["ask"])
        BY <3>3 DEF CalledTo
      <4> QED BY <2>1, <2>5, <2>8, <4>1, <4>2 DEF EndIsNoCut, Relaying
    <3> QED BY <1>3, <1>4, <2>1, <2>2, <2>3, <2>4, <2>6, <2>8, <3>4 DEF WireFrames
  <2>9. CASE receiveAt' = "failing" /\ trouble' \in {"torn", "reset"}
    <3>1. EndIsNoCut' BY <2>9 DEF EndIsNoCut
    <3> QED BY <1>3, <1>4, <2>1, <2>2, <2>3, <2>4, <2>6, <2>9, <3>1 DEF WireFrames
  <2> QED BY <2>1, <2>8, <2>9
<1>15. CASE ReceiveEnds
  <2>1. /\ receiveAt' = "done" /\ trouble' = (IF trouble = "none" THEN "closed" ELSE trouble)
        /\ UNCHANGED <<chunk, frame, calls>> /\ UNCHANGED Streams
    BY <1>15 DEF ReceiveEnds, relayVars, Streams
  <2>2. Arrived("ask")' = Arrived("ask") BY <1>1, <2>1, StreamsRest
  <2>3. CalledTo' = CalledTo BY <1>3, <2>1 DEF CalledTo
  <2>4. CallsAreWhole' BY <1>3, <1>4, <2>1 DEF CallsAreWhole, FrameStart
  <2>5. LengthsAgree' /\ trouble' # "none" BY <1>4, <2>1 DEF LengthsAgree
  <2>6. EndIsNoCut' BY <2>5 DEF EndIsNoCut
  <2> QED BY <1>3, <1>4, <2>1, <2>2, <2>3, <2>4, <2>5, <2>6 DEF WireFrames
<1>16. \/ OcrReads \/ RelayLooks \/ (\E d \in Ways : RelayReads(d) \/ RelayWrites(d)) \/ GatewayReads
       \/ SessionReceives \/ GatewayReadsEnd \/ ReceiveEnds
       \/ UNCHANGED Splits /\ UNCHANGED Streams /\ relayAt' = relayAt
  BY DEF WireNext, wireVars, relayVars, gatewayVars, Streams, Splits, OcrWrites, OcrCloses,
     SessionAnswers,
         TransmitDrains, SessionEnds, OthersCharge
<1> QED BY <1>7, <1>8, <1>9, <1>10, <1>11, <1>12, <1>13, <1>14, <1>15, <1>16

-----------------------------------------------------------------------------
(* What was read and what is written was paid for.                            *)
LEMMA WireMoneyKept ==
  ASSUME WireInv, [WireNext]_wireVars
  PROVE  WireMoney'
<1>1. WireTypes /\ WireStreams /\ WireFrames /\ WireLengths /\ WireClosings BY DEF WireInv
<1>2. /\ WorldOk(wire) /\ wireBudget \in [bytes : Nat, requests : Nat] /\ wrote \in [Ways -> Nat]
      /\ WireBytes \in Nat /\ WireRequests \in Nat
  BY <1>1, WireAssumption DEF WireTypes
<1>3. wire'.ask = wire.ask BY <1>2, WorldKept
<1> DEFINE a == Arrived("ask")
           w == wrote["answer"]
           k == asked
           s == CalledTo
           h == InHand
           upTo(x, y, z) == IF x = "sending" THEN y ELSE z
<1>4. /\ wireBudget.bytes >= a + w
      /\ wireBudget.requests >= k + h /\ k + h <= WireRequests
      /\ upTo(receiveAt, a, s) + w <= WireBytes
  BY DEF WireInv, WireMoney
<1>5. Len(calls) <= Len(wire.ask) /\ s <= a BY <1>1 DEF WireFrames
<1>6. s \in Nat /\ k \in Nat
  <2>1. asked \in Nat BY <1>1 DEF WireTypes
  <2> QED BY <1>1, <1>5, <2>1, CalledFacts
<1>25. /\ h = (IF receiveAt = "sending" THEN Cost(frame) ELSE 0)
       /\ InHand' = IF receiveAt' = "sending" THEN Cost(frame') ELSE 0
  <2>1. wire'.notices = wire.notices BY <1>2, WorldKept
  <2> QED BY <2>1 DEF InHand, Cost
<1>26. h \in {0, 1} /\ InHand' \in {0, 1}
  <2>1. Cost(frame) \in {0, 1} /\ Cost(frame') \in {0, 1} BY DEF Cost
  <2> QED BY <1>25, <2>1
<1>7. a \in Nat
  <2>1. "ask" \in Ways BY DEF Ways
  <2>2. StreamTyped("ask") /\ StreamOk("ask") BY <1>1, <2>1, WayFacts DEF WireStreams
  <2> QED BY <2>2, StreamFacts
<1>8. w \in Nat /\ wireBudget.bytes \in Nat /\ wireBudget.requests \in Nat BY <1>2 DEF Ways
<1>9. SUFFICES /\ wireBudget'.bytes >= Arrived("ask")' + wrote'["answer"]
               /\ wireBudget'.requests >= asked' + InHand' /\ asked' + InHand' <= WireRequests
               /\ upTo(receiveAt', Arrived("ask")', CalledTo') + wrote'["answer"] <= WireBytes
  BY DEF WireMoney
<1>10. calls' = calls => CalledTo' = s BY <1>3 DEF CalledTo
<1>11. ASSUME Arrived("ask")' = a, wireBudget' = wireBudget, wrote'["answer"] = w, UNCHANGED <<calls, asked>>,
              UNCHANGED <<receiveAt, frame>> \/ receiveAt' # "sending"
       PROVE  /\ wireBudget'.bytes >= Arrived("ask")' + wrote'["answer"]
              /\ wireBudget'.requests >= asked' + InHand' /\ asked' + InHand' <= WireRequests
              /\ upTo(receiveAt', Arrived("ask")', CalledTo') + wrote'["answer"] <= WireBytes
  <2>1. CalledTo' = s /\ asked' = k BY <1>10, <1>11
  <2>2. InHand' = h \/ InHand' = 0 BY <1>11, <1>25
  <2>3. receiveAt' = receiveAt \/ receiveAt' # "sending" BY <1>11
  <2> DEFINE hh == InHand'
  <2>4. hh = h \/ hh = 0 BY <2>2
  <2>5. wireBudget'.requests = wireBudget.requests BY <1>11
  <2> HIDE DEF a, w, k, s, h, hh
  <2>6. wireBudget.requests >= k + hh /\ k + hh <= WireRequests BY <1>2, <1>4, <1>6, <1>8, <1>26, <2>4
  <2>7. wireBudget'.requests >= asked' + InHand' /\ asked' + InHand' <= WireRequests BY <2>1, <2>5, <2>6 DEF hh
  <2> QED BY <2>3, <2>7, <1>2, <1>4, <1>5, <1>6, <1>7, <1>8, <1>11, <2>1
<1>12. CASE UNCHANGED <<calls, asked, frame, receiveAt, wireBudget>> /\ wrote'["answer"] = w /\ UNCHANGED Streams
  BY <1>1, <1>11, <1>12, StreamsRest
<1>13. CASE OcrWrites
  <2>1. UNCHANGED <<calls, asked, frame, receiveAt, wireBudget>> /\ UNCHANGED Streams
        /\ \E n : wrote' = [wrote EXCEPT !["ask"] = n]
    BY <1>13 DEF OcrWrites, relayVars, gatewayVars, Streams
  <2>2. wrote'["answer"] = w BY <1>2, <2>1 DEF Ways
  <2> QED BY <1>12, <2>1, <2>2
<1>14. CASE OcrReads
  <2>1. Arrived("ask")' = Arrived("ask") BY <1>1, <1>14, OcrReadsEffect
  <2>2. UNCHANGED <<calls, asked, frame, receiveAt, wireBudget, wrote>> BY <1>14 DEF OcrReads, gatewayVars
  <2> QED BY <1>11, <2>1, <2>2
<1>15. ASSUME NEW d \in Ways, RelayReads(d)
       PROVE  /\ wireBudget'.bytes >= Arrived("ask")' + wrote'["answer"]
              /\ wireBudget'.requests >= asked' + InHand' /\ asked' + InHand' <= WireRequests
              /\ upTo(receiveAt', Arrived("ask")', CalledTo') + wrote'["answer"] <= WireBytes
  <2>1. Arrived("ask")' = Arrived("ask") BY <1>1, <1>15, RelayReadsEffect
  <2>2. UNCHANGED <<calls, asked, frame, receiveAt, wireBudget, wrote>> BY <1>15 DEF RelayReads, gatewayVars
  <2> QED BY <1>11, <2>1, <2>2
<1>16. ASSUME NEW d \in Ways, RelayWrites(d)
       PROVE  /\ wireBudget'.bytes >= Arrived("ask")' + wrote'["answer"]
              /\ wireBudget'.requests >= asked' + InHand' /\ asked' + InHand' <= WireRequests
              /\ upTo(receiveAt', Arrived("ask")', CalledTo') + wrote'["answer"] <= WireBytes
  <2>1. Arrived("ask")' = Arrived("ask") BY <1>1, <1>16, RelayWritesEffect
  <2>2. UNCHANGED <<calls, asked, frame, receiveAt, wireBudget, wrote>> BY <1>16 DEF RelayWrites, gatewayVars
  <2> QED BY <1>11, <2>1, <2>2
<1>17. CASE GatewayReads
  <2> DEFINE z == Arrived("ask")'
  <2>1. /\ z \in Nat /\ a <= z /\ receiveAt = "reading"
        /\ wireBudget' \in [bytes : Nat, requests : Nat] /\ wireBudget'.bytes = wireBudget.bytes + (z - a)
        /\ wireBudget'.requests >= wireBudget.requests
    BY <1>1, <1>17, GatewayReadsEffect
  <2>2. \/ receiveAt' = "reading" \/ receiveAt' = "failing"
        \/ /\ receiveAt' = "sending" /\ wireBudget'.requests = wireBudget.requests + Cost(frame')
           /\ wireBudget'.requests <= WireRequests /\ wireBudget'.bytes <= WireBytes
    BY <1>1, <1>17, GatewayReadsEffect
  <2>3. calls' = calls /\ asked' = k /\ wrote' = wrote BY <1>17 DEF GatewayReads
  <2>4. CalledTo' = s /\ asked' = k /\ wrote'["answer"] = w BY <1>10, <2>3
  <2>5. wireBudget'.bytes \in Nat /\ wireBudget'.requests \in Nat BY <2>1
  <2> DEFINE bytes == wireBudget'.bytes
             requests == wireBudget'.requests
             hh == InHand'
  <2>6. /\ bytes = wireBudget.bytes + (z - a) /\ requests >= wireBudget.requests /\ bytes \in Nat /\ requests \in Nat
    BY <2>1, <2>5
  <2>7. CASE receiveAt' = "reading" \/ receiveAt' = "failing"
    <3>1. hh = 0 /\ upTo(receiveAt', z, CalledTo') = s /\ h = 0 /\ upTo(receiveAt, a, s) = s
      BY <1>25, <2>1, <2>4, <2>7
    <3> HIDE DEF h, hh, upTo
    <3>2. k <= wireBudget.requests /\ k <= WireRequests /\ s + w <= WireBytes BY <1>4, <1>6, <3>1
    <3> HIDE DEF a, w, k, s, z, bytes, requests
    <3>3. bytes >= z + w BY <1>4, <1>7, <1>8, <2>1, <2>6
    <3>4. requests >= k BY <1>6, <1>8, <2>6, <3>2
    <3> QED BY <1>6, <2>4, <3>1, <3>2, <3>3, <3>4 DEF z, bytes, requests, hh
  <2>8. CASE /\ receiveAt' = "sending" /\ wireBudget'.requests = wireBudget.requests + Cost(frame')
             /\ wireBudget'.requests <= WireRequests /\ wireBudget'.bytes <= WireBytes
    <3>1. hh = Cost(frame') /\ upTo(receiveAt', z, CalledTo') = z /\ h = 0 /\ hh \in Nat BY <1>25, <1>26, <2>1, <2>8
    <3>0. requests = wireBudget.requests + hh /\ requests <= WireRequests /\ bytes <= WireBytes BY <2>8, <3>1
    <3> HIDE DEF h, hh, upTo
    <3>2. k <= wireBudget.requests BY <1>4, <1>6, <3>1
    <3> HIDE DEF a, w, k, s, z, bytes, requests
    <3>3. bytes >= z + w BY <1>4, <1>7, <1>8, <2>1, <2>6
    <3>4. requests >= k + hh /\ k + hh <= WireRequests BY <1>2, <1>6, <1>8, <2>6, <3>0, <3>1, <3>2
    <3>5. z + w <= WireBytes BY <1>2, <1>8, <2>1, <2>6, <3>0, <3>3
    <3> QED BY <2>4, <3>1, <3>3, <3>4, <3>5 DEF z, bytes, requests, hh
  <2> QED BY <2>2, <2>7, <2>8
<1>18. CASE SessionReceives
  <2> DEFINE c == SplitTo
  <2>1. /\ UNCHANGED Streams /\ receiveAt = "sending" /\ asked' = k + Cost(frame) /\ CalledTo' = c /\ c \in Nat
        /\ c <= a
        /\ wireBudget' \in [bytes : Nat, requests : Nat] /\ wireBudget'.bytes = wireBudget.bytes
        /\ wireBudget'.requests >= wireBudget.requests
    BY <1>1, <1>18, SessionReceivesEffect
  <2>2. \/ receiveAt' = "reading" \/ receiveAt' = "failing"
        \/ /\ receiveAt' = "sending" /\ wireBudget'.requests = wireBudget.requests + Cost(frame')
           /\ wireBudget'.requests <= WireRequests /\ wireBudget'.bytes <= WireBytes
    BY <1>1, <1>18, SessionReceivesEffect
  <2>3. wrote' = wrote BY <1>18 DEF SessionReceives
  <2>4. Arrived("ask")' = a /\ wrote'["answer"] = w BY <1>1, <2>1, <2>3, StreamsRest
  <2> DEFINE bytes == wireBudget'.bytes
             requests == wireBudget'.requests
             hh == InHand'
  <2>5. bytes = wireBudget.bytes /\ requests >= wireBudget.requests /\ bytes \in Nat /\ requests \in Nat
    BY <2>1
  <2>6. k + h <= wireBudget.requests /\ k + h <= WireRequests /\ a + w <= WireBytes /\ asked' = k + h
    BY <1>4, <1>25, <2>1
  <2>9. h \in Nat /\ hh \in Nat BY <1>26
  <2>7. CASE receiveAt' = "reading" \/ receiveAt' = "failing"
    <3>1. hh = 0 /\ upTo(receiveAt', a, CalledTo') = c BY <1>25, <2>1, <2>7
    <3> HIDE DEF upTo, a, w, k, s, h, hh, c, bytes, requests
    <3>2. bytes >= a + w /\ requests >= k + h BY <1>4, <1>6, <1>8, <2>5, <2>6, <2>9
    <3>3. c + w <= WireBytes BY <1>2, <1>7, <1>8, <2>1, <2>6
    <3>4. k + h + 0 = k + h BY <1>6, <2>9
    <3> QED BY <2>1, <2>4, <2>6, <3>1, <3>2, <3>3, <3>4 DEF bytes, requests, hh
  <2>8. CASE /\ receiveAt' = "sending" /\ wireBudget'.requests = wireBudget.requests + Cost(frame')
             /\ wireBudget'.requests <= WireRequests /\ wireBudget'.bytes <= WireBytes
    <3>1. hh = Cost(frame') /\ upTo(receiveAt', a, CalledTo') = a BY <1>25, <2>8
    <3>0. requests = wireBudget.requests + hh /\ requests <= WireRequests BY <2>8, <3>1
    <3> HIDE DEF upTo, a, w, k, s, h, hh, c, bytes, requests
    <3>2. bytes >= a + w BY <1>4, <2>5
    <3>3. requests >= k + h + hh /\ k + h + hh <= WireRequests BY <1>2, <1>6, <1>8, <2>6, <2>9, <3>0
    <3> QED BY <2>1, <2>4, <2>6, <3>1, <3>2, <3>3 DEF bytes, requests, hh
  <2> QED BY <2>2, <2>7, <2>8
<1>19. CASE GatewayReadsEnd
  <2>1. UNCHANGED <<calls, asked, wireBudget, wrote>> /\ UNCHANGED Streams /\ receiveAt' # "sending"
    BY <1>19 DEF GatewayReadsEnd, relayVars, Streams
  <2>2. Arrived("ask")' = a BY <1>1, <2>1, StreamsRest
  <2> QED BY <1>11, <2>1, <2>2
<1>20. CASE ReceiveEnds
  <2>1. UNCHANGED <<calls, asked, wireBudget, wrote>> /\ UNCHANGED Streams /\ receiveAt' # "sending"
    BY <1>20 DEF ReceiveEnds, relayVars, Streams
  <2>2. Arrived("ask")' = a BY <1>1, <2>1, StreamsRest
  <2> QED BY <1>11, <2>1, <2>2
<1>21. CASE SessionAnswers
  <2> DEFINE v == wrote'["answer"]
  <2>1. /\ wireBudget' \in [bytes : Nat, requests : Nat] /\ wrote' \in [Ways -> Nat]
        /\ wireBudget'.requests = wireBudget.requests /\ wireBudget'.bytes >= wireBudget.bytes
        /\ \/ wrote' = wrote
           \/ /\ wireBudget'.bytes = wireBudget.bytes + (v - w) /\ wireBudget'.bytes <= WireBytes /\ w <= v
    BY <1>1, <1>21, SessionAnswersEffect
  <2>2. UNCHANGED <<calls, asked, frame, receiveAt>> /\ UNCHANGED Streams BY <1>21 DEF SessionAnswers, relayVars, Streams
  <2>3. Arrived("ask")' = a /\ CalledTo' = s /\ asked' = k /\ InHand' = h BY <1>1, <1>10, <1>25, <2>2, StreamsRest
  <2> DEFINE bytes == wireBudget'.bytes
             requests == wireBudget'.requests
  <2>4. bytes \in Nat /\ requests \in Nat /\ v \in Nat /\ requests = wireBudget.requests /\ bytes >= wireBudget.bytes
    BY <2>1 DEF Ways
  <2>5. CASE wrote' = wrote
    <3>1. v = w BY <2>5
    <3> HIDE DEF upTo, a, w, k, s, h, v, bytes, requests
    <3>2. bytes >= a + v BY <1>4, <1>7, <1>8, <2>4, <3>1
    <3> QED BY <1>4, <2>2, <2>3, <2>4, <3>1, <3>2 DEF v, bytes, requests
  <2>6. CASE wireBudget'.bytes = wireBudget.bytes + (v - w) /\ wireBudget'.bytes <= WireBytes /\ w <= v
    <3>1. bytes = wireBudget.bytes + (v - w) /\ bytes <= WireBytes BY <2>6
    <3>2. upTo(receiveAt, a, s) \in {a, s} OBVIOUS
    <3> HIDE DEF upTo, a, w, k, s, h, v, bytes, requests
    <3>3. bytes >= a + v BY <1>4, <1>7, <1>8, <2>4, <3>1
    <3>4. a + v <= WireBytes BY <1>2, <1>7, <2>4, <3>1, <3>3
    <3>5. s + v <= WireBytes BY <1>2, <1>5, <1>6, <1>7, <2>4, <3>4
    <3>6. upTo(receiveAt, a, s) + v <= WireBytes BY <3>2, <3>4, <3>5
    <3> QED BY <1>4, <2>2, <2>3, <2>4, <3>3, <3>6 DEF v, bytes, requests
  <2> QED BY <2>1, <2>5, <2>6
<1>22. CASE OthersCharge
  <2>1. wireBudget' = Charge(1, 1) /\ UNCHANGED <<calls, asked, frame, receiveAt, wrote>> /\ UNCHANGED Streams
    BY <1>22 DEF OthersCharge, relayVars, Streams
  <2>2. wireBudget'.bytes = wireBudget.bytes + 1 /\ wireBudget'.requests = wireBudget.requests + 1
    BY <2>1 DEF Charge
  <2>3. /\ Arrived("ask")' = a /\ CalledTo' = s /\ asked' = k /\ InHand' = h /\ wrote'["answer"] = w
        /\ receiveAt' = receiveAt
    BY <1>1, <1>10, <1>25, <2>1, StreamsRest
  <2>4. h \in Nat BY <1>26
  <2> DEFINE u == upTo(receiveAt, a, s)
  <2>5. upTo(receiveAt', Arrived("ask")', CalledTo') = u BY <2>3
  <2>6. wireBudget.bytes >= a + w /\ wireBudget.requests >= k + h /\ k + h <= WireRequests /\ u + w <= WireBytes BY <1>4
  <2> HIDE DEF upTo, a, w, k, s, h, u
  <2>7. wireBudget.bytes + 1 >= a + w /\ wireBudget.requests + 1 >= k + h BY <1>6, <1>7, <1>8, <2>4, <2>6
  <2> QED BY <2>2, <2>3, <2>5, <2>6, <2>7
<1>23. \/ OcrWrites \/ OcrReads \/ (\E d \in Ways : RelayReads(d) \/ RelayWrites(d)) \/ GatewayReads
       \/ SessionReceives \/ GatewayReadsEnd \/ ReceiveEnds \/ SessionAnswers \/ OthersCharge
       \/ UNCHANGED <<calls, asked, frame, receiveAt, wireBudget>> /\ wrote'["answer"] = w /\ UNCHANGED Streams
  BY DEF WireNext, wireVars, relayVars, gatewayVars, Streams, OcrCloses, RelayLooks,
     TransmitDrains, SessionEnds
<1> HIDE DEF upTo
<1> QED
  BY <1>12, <1>13, <1>14, <1>15, <1>16, <1>17, <1>18, <1>19, <1>20, <1>21, <1>22, <1>23

-----------------------------------------------------------------------------
LEMMA WireBegins == WireInit => WireInv
<1> SUFFICES ASSUME WireInit PROVE WireInv OBVIOUS
<1>1. /\ wire \in WireWorlds
      /\ ocrSide = "open" /\ wrote = [d \in Ways |-> 0] /\ ocrGot = <<>> /\ passed = [d \in Ways |-> <<>>]
      /\ relayAt = "copying" /\ relayTurn = [read |-> {}, write |-> {}] /\ taken = [d \in Ways |-> 0]
      /\ relayed = [d \in Ways |-> <<>>] /\ partial = [d \in Ways |-> 0] /\ ended = {}
      /\ receiveAt = "reading" /\ chunk = <<>> /\ frame = <<>> /\ transmitAt = "waiting"
      /\ wireBudget = [bytes |-> 0, requests |-> 0]
      /\ session = "running" /\ calls = <<>> /\ asked = 0 /\ answered = 0 /\ trouble = "none"
  BY DEF WireInit, ByWay
<1>2. "ask" \in Ways /\ "answer" \in Ways /\ Len(<<>>) = 0 BY EmptySeq DEF Ways
<1>3. WorldOk(wire) BY <1>1, WorldAssumption
<1>4. /\ RelayBuffer \in Nat /\ FrameLimit \in Nat /\ WireBytes \in Nat /\ WireRequests \in Nat BY WireAssumption
<1>5. WireTypes
  <2>1. <<>> \in Seq(Nat) /\ <<>> \in Seq(Seq(Nat)) OBVIOUS
  <2>2. /\ wrote \in [Ways -> Nat] /\ taken \in [Ways -> Nat] /\ partial \in [Ways -> Nat]
        /\ relayed \in [Ways -> Seq(Nat)] /\ passed \in [Ways -> Seq(Nat)]
    BY <1>1, <2>1
  <2>3. relayTurn \in [read : SUBSET Ways, write : SUBSET Ways] /\ ended \in SUBSET Ways
        /\ wireBudget \in [bytes : Nat, requests : Nat]
    BY <1>1
  <2> QED BY <1>1, <1>3, <2>1, <2>2, <2>3 DEF WireTypes
<1>6. /\ taken["ask"] = 0 /\ taken["answer"] = 0 /\ relayed["ask"] = <<>> /\ relayed["answer"] = <<>>
      /\ passed["ask"] = <<>> /\ passed["answer"] = <<>> /\ wrote["answer"] = 0
      /\ partial["ask"] = 0 /\ partial["answer"] = 0
  BY <1>1, <1>2
<1>7. /\ SentOn("ask") = 0 /\ SentOn("answer") = 0 /\ Arrived("ask") = 0 /\ Arrived("answer") = 0
      /\ SplitTo = 0 /\ CalledTo = 0
  <2>0. Len(relayed["ask"]) = 0 /\ Len(relayed["answer"]) = 0 /\ Len(passed["ask"]) = 0 /\ Len(passed["answer"]) = 0
    BY <1>2, <1>6
  <2>1. SentOn("ask") = 0 /\ SentOn("answer") = 0
    <3>1. taken["ask"] - Len(relayed["ask"]) = 0 /\ taken["answer"] - Len(relayed["answer"]) = 0
      <4>1. taken["ask"] = 0 /\ taken["answer"] = 0 BY <1>6
      <4> QED BY ONLY <2>0, <4>1
    <3> QED BY <3>1 DEF SentOn
  <2>2. Arrived("ask") = 0 /\ Arrived("answer") = 0 BY <2>0, <2>1 DEF Arrived
  <2>3. Len(chunk) = 0 BY <1>1, <1>2
  <2>4. SplitTo = 0 BY <2>2, <2>3 DEF SplitTo
  <2>5. CalledTo = 0 BY <1>1 DEF CalledTo
  <2> QED BY <2>1, <2>2, <2>4, <2>5
<1>8. Positions(0 + 1, 0) = <<>> /\ Positions(1, 0) = <<>>
  <2>1. Positions(0 + 1, 0) = <<>> BY BytesFacts
  <2> QED BY <2>1
<1>9. StreamOk("ask") /\ StreamOk("answer") BY <1>2, <1>4, <1>6, <1>7, <1>8 DEF StreamOk
<1>10. WireStreams BY <1>1, <1>7, <1>8, <1>9 DEF WireStreams
<1>11. WireFrames
  <2>1. CallsAreWhole BY <1>1 DEF CallsAreWhole
  <2>2. EndIsNoCut /\ LengthsAgree BY <1>1 DEF EndIsNoCut, LengthsAgree
  <2>3. \A e \in EndsOf("ask") : e \in Nat BY <1>3, WorldFacts DEF Ways
  <2>4. NoEndBetween(CalledTo, SplitTo) BY <1>7, <2>3 DEF NoEndBetween
  <2>5. Len(wire.ask) \in Nat BY <1>3, WorldFacts
  <2> QED BY <1>1, <1>2, <1>4, <1>7, <1>8, <2>1, <2>2, <2>4, <2>5 DEF WireFrames
<1>12. WireLengths
  <2>1. \A d \in Ways : 0 \in FrameBegins(d) /\ 0 <= taken[d] /\ partial[d] = taken[d] - 0
    BY <1>1 DEF FrameBegins
  <2> QED BY <1>6, <2>1 DEF WireLengths
<1>13. WireClosings
  <2>1. Len(wire.answer) \in Nat BY <1>3, WorldFacts
  <2> QED BY <1>1, <1>6, <2>1 DEF WireClosings
<1>14. WireMoney BY <1>1, <1>2, <1>4, <1>6, <1>7 DEF WireMoney, InHand
<1> QED BY <1>5, <1>10, <1>11, <1>12, <1>13, <1>14 DEF WireInv

LEMMA WireSafe == WireInv => FederationWireSafe
<1> SUFFICES ASSUME WireInv PROVE FederationWireSafe OBVIOUS
<1>1. WireTypes /\ WireStreams /\ WireFrames /\ WireClosings /\ WireMoney BY DEF WireInv
<1>2. StreamOk("ask") /\ StreamOk("answer") /\ ocrGot = Positions(1, Arrived("answer")) BY <1>1 DEF WireStreams
<1>3. CallsAreWhole /\ EndIsNoCut /\ LengthsAgree /\ Len(frame) <= FrameLimit /\ CalledTo <= Arrived("ask")
      /\ Len(calls) <= Len(wire.ask)
  BY <1>1 DEF WireFrames
<1>4. NothingMoves
  <2> DEFINE a == Arrived("answer")
             t == SentOn("answer")
  <2>1. "answer" \in Ways BY DEF Ways
  <2>2. StreamTyped("answer") BY <1>1, <2>1, WayFacts
  <2>3. a \in Nat /\ t \in Nat /\ a <= t BY <1>2, <2>2, StreamFacts
  <2>4. passed["answer"] = Positions(a + 1, t) /\ ocrGot = Positions(1, a) BY <1>2 DEF StreamOk
  <2>5. t = taken["answer"] - Len(relayed["answer"]) BY DEF SentOn
  <2> HIDE DEF a, t
  <2>6. Positions(0 + 1, a) \o Positions(a + 1, t) = Positions(0 + 1, t)
    <3>1. 0 <= a /\ 0 \in Nat BY <2>3
    <3> QED BY <2>3, <3>1, BytesJoined
  <2>7. ocrGot \o passed["answer"] = Positions(1, t) BY <2>4, <2>6
  <2>8. \A d \in Ways : relayed[d] = Positions(taken[d] - Len(relayed[d]) + 1, taken[d])
    BY <1>2 DEF StreamOk, SentOn, Ways
  <2> QED BY <2>5, <2>7, <2>8 DEF NothingMoves
<1>5. CleanExitDelivers
  <2>1. ended \subseteq Ways BY <1>1 DEF WireTypes
  <2> QED BY <1>1, <2>1 DEF CleanExitDelivers, WireClosings, Drained
<1>6. WireBounds
  <2>1. \A d \in Ways : Len(relayed[d]) <= RelayBuffer BY <1>2 DEF StreamOk, Ways
  <2>2. asked \in Nat /\ CalledTo \in Nat
    <3>1. asked \in Nat BY <1>1 DEF WireTypes
    <3> QED BY <1>1, <1>3, <3>1, CalledFacts
  <2>3. /\ asked + InHand <= WireRequests
        /\ (IF receiveAt = "sending" THEN Arrived("ask") ELSE CalledTo) + wrote["answer"] <= WireBytes
    BY <1>1 DEF WireMoney
  <2>4. WireRequests \in Nat /\ WireBytes \in Nat /\ wrote["answer"] \in Nat
    <3>1. "answer" \in Ways BY DEF Ways
    <3> QED BY <1>1, <3>1, WayFacts, WireAssumption
  <2>5. Arrived("ask") \in Nat
    <3>1. "ask" \in Ways BY DEF Ways
    <3>2. StreamTyped("ask") BY <1>1, <3>1, WayFacts
    <3> QED BY <1>2, <3>2, StreamFacts
  <2>6. asked <= WireRequests
    <3>1. InHand \in {0, 1} BY DEF InHand, Cost
    <3> QED BY <2>2, <2>3, <2>4, <3>1
  <2> DEFINE a == Arrived("ask")
             s == CalledTo
             w == wrote["answer"]
  <2>7. a \in Nat /\ s \in Nat /\ w \in Nat /\ s <= a /\ (s + w <= WireBytes \/ a + w <= WireBytes)
    BY <1>3, <2>2, <2>3, <2>4, <2>5
  <2> HIDE DEF a, s, w
  <2>8. s + w <= WireBytes BY <2>4, <2>7
  <2> QED BY <1>3, <2>1, <2>6, <2>8 DEF WireBounds, s, w, CalledTo
<1> QED BY <1>3, <1>4, <1>5, <1>6 DEF FederationWireSafe

LEMMA WireHolds == WireSpec => []FederationWireSafe
<1>1. WireInv /\ [WireNext]_wireVars => WireInv'
  BY WireTypesKept, WireStreamsKept, WireFramesKept, WireLengthsKept, WireClosingsKept,
     WireMoneyKept DEF WireInv
<1> QED BY WireBegins, WireSafe, <1>1, PTL DEF WireSpec

-----------------------------------------------------------------------------
(* The tool servers: whoever leaves knows whether something stays.            *)
LEMMA UpstreamBegins == UpstreamInit => UpstreamInv
<1> SUFFICES ASSUME UpstreamInit PROVE UpstreamInv OBVIOUS
<1>1. Peers \subseteq {"stdio", "https"} /\ NotificationLimit \in Nat BY UpstreamAssumption
<1>2. FrameLimit \in Nat /\ WireBytes \in Nat BY WireAssumption
<1>3. /\ exchange.at = "none" /\ exchange.bytes = 0
      /\ exchange \in [at : {"none", "asked", "body"}, method : {"GET", "POST", "DELETE"}, bytes : Nat, chunks : Nat,
                       sound : BOOLEAN]
  BY DEF UpstreamInit, NoExchange
<1>4. /\ toolServer \in {"stdio", "https"} /\ (toolServer = "https" => hostAt = "left")
      /\ hostAt = "left" => group = {} /\ reaped
  BY <1>1 DEF UpstreamInit
<1>5. heard = {} /\ swallowed = 0 /\ notified = 0 /\ ending = "none" /\ handed = 0 /\ spent = 0 /\ cleanupUnsure = FALSE
  BY DEF UpstreamInit
<1>6. NoSilentSurvivor BY <1>4 DEF NoSilentSurvivor
<1>7. NoSilentSession BY <1>5 DEF NoSilentSession
<1>8. HandedIsCharged
  <2>1. 0 <= 0 /\ 0 <= WireBytes /\ 0 <= FrameLimit BY <1>2
  <2> QED BY <1>3, <1>5, <2>1 DEF HandedIsCharged
<1>9. NoServerAuthority
  <2>1. heard \subseteq {"response", "transport_failed", "protocol_invalid"} BY <1>5
  <2>2. swallowed <= NotificationLimit BY <1>1, <1>5
  <2>3. ~(notified > NotificationLimit) BY <1>1, <1>5
  <2> QED BY <2>1, <2>2, <2>3 DEF NoServerAuthority
<1>10. {spent, handed, notified, swallowed} \subseteq Nat /\ cleanupUnsure \in BOOLEAN /\ swallowed <= notified
  <2>1. 0 \in Nat /\ 0 <= 0 OBVIOUS
  <2>2. {spent, handed, notified, swallowed} \subseteq Nat BY <1>5, <2>1
  <2>3. swallowed <= notified BY <1>5, <2>1
  <2> QED BY <1>5, <2>2, <2>3
<1>11. ~(exchange.at = "body" /\ ~exchange.sound) BY <1>3
<1> QED BY <1>3, <1>4, <1>6, <1>7, <1>8, <1>9, <1>10, <1>11 DEF UpstreamInv

LEMMA UpstreamKept ==
  ASSUME UpstreamInv, [UpstreamNext]_upstreamVars
  PROVE  UpstreamInv'
<1>1. NotificationLimit \in Nat /\ FrameLimit \in Nat /\ WireBytes \in Nat BY WireAssumption, UpstreamAssumption
<1> DEFINE
      Server(ho, gr, re, un, ts) ==
        /\ (ho = "left" => un \/ (gr = {} /\ re)) /\ ts \in {"stdio", "https"} /\ (ts = "https" => ho = "left")
        /\ un \in BOOLEAN
      Remote(ex, en, un, sp, ha) ==
        /\ (en = "unknown" => un) /\ (ex.at = "body" /\ ~ex.sound => un)
        /\ ha <= sp /\ ha <= WireBytes /\ ex.bytes <= FrameLimit /\ sp \in Nat /\ ha \in Nat
        /\ ex \in [at : {"none", "asked", "body"}, method : {"GET", "POST", "DELETE"}, bytes : Nat, chunks : Nat,
                   sound : BOOLEAN]
      Filter(no, sw, he) ==
        /\ he \subseteq {"response", "transport_failed", "protocol_invalid"} /\ sw <= NotificationLimit
        /\ (no > NotificationLimit => "protocol_invalid" \in he) /\ no \in Nat /\ sw \in Nat /\ sw <= no
<1>2. /\ Server(hostAt, group, reaped, cleanupUnsure, toolServer)
      /\ Remote(exchange, ending, cleanupUnsure, spent, handed)
      /\ Filter(notified, swallowed, heard)
  BY DEF UpstreamInv, NoSilentSurvivor, NoSilentSession, HandedIsCharged, NoServerAuthority
<1>3. SUFFICES /\ Server(hostAt', group', reaped', cleanupUnsure', toolServer')
               /\ Remote(exchange', ending', cleanupUnsure', spent', handed')
               /\ Filter(notified', swallowed', heard')
  BY DEF UpstreamInv, NoSilentSurvivor, NoSilentSession, HandedIsCharged, NoServerAuthority
<1>4. /\ NoExchange.at = "none" /\ NoExchange.bytes = 0
      /\ NoExchange \in [at : {"none", "asked", "body"}, method : {"GET", "POST", "DELETE"}, bytes : Nat, chunks : Nat,
                         sound : BOOLEAN]
  BY DEF NoExchange
<1>5. CASE Forks \/ (\E m \in Members : Dies(m)) \/ Reaped \/ TransportLeft
  BY <1>2, <1>5 DEF Forks, Dies, Reaped, TransportLeft, httpVars, filterVars
<1>6. CASE StopLooks
  <2>1. \/ Stopped /\ StopReturns(FALSE)
        \/ UNCHANGED <<hostAt, cleanupUnsure>>
        \/ StopReturns(TRUE)
    BY <1>6 DEF StopLooks
  <2>2. UNCHANGED <<toolServer, group, reaped, httpVars, filterVars>> /\ hostAt \in {"inner", "outer"}
    BY <1>6 DEF StopLooks
  <2> QED BY <1>2, <2>1, <2>2 DEF httpVars, filterVars, Stopped, GroupExists, StopReturns
<1>7. CASE StopAgain BY <1>2, <1>7 DEF StopAgain, GroupExists, httpVars, filterVars
<1>8. ASSUME NEW method \in {"POST", "DELETE"}, NEW n \in 1..2, Requested(method, n)
      PROVE  /\ Server(hostAt', group', reaped', cleanupUnsure', toolServer')
             /\ Remote(exchange', ending', cleanupUnsure', spent', handed')
             /\ Filter(notified', swallowed', heard')
  <2>1. spent' = spent + n /\ UNCHANGED <<toolServer, groupVars, handed, filterVars>> BY <1>8 DEF Requested
  <2>2. \/ /\ UNCHANGED exchange /\ ending' = (IF method = "DELETE" THEN "unknown" ELSE "none")
           /\ cleanupUnsure' = (cleanupUnsure \/ method = "DELETE")
        \/ /\ exchange' = [NoExchange EXCEPT !.at = "asked", !.method = method]
           /\ ending' = (IF method = "DELETE" THEN "sent" ELSE "none") /\ UNCHANGED cleanupUnsure
    BY <1>8 DEF Requested
  <2>3. spent' \in Nat /\ handed' <= spent' BY <1>2, <2>1
  <2>4. CASE /\ UNCHANGED exchange /\ ending' = (IF method = "DELETE" THEN "unknown" ELSE "none")
             /\ cleanupUnsure' = (cleanupUnsure \/ method = "DELETE")
    BY <1>2, <2>1, <2>3, <2>4 DEF groupVars, filterVars
  <2>5. CASE /\ exchange' = [NoExchange EXCEPT !.at = "asked", !.method = method]
             /\ ending' = (IF method = "DELETE" THEN "sent" ELSE "none") /\ UNCHANGED cleanupUnsure
    <3>1. /\ exchange'.at = "asked" /\ exchange'.bytes = 0
          /\ exchange' \in [at : {"none", "asked", "body"}, method : {"GET", "POST", "DELETE"}, bytes : Nat,
                            chunks : Nat, sound : BOOLEAN]
      BY <2>5 DEF NoExchange
    <3> QED BY <1>1, <1>2, <2>1, <2>3, <2>5, <3>1 DEF groupVars, filterVars
  <2> QED BY <2>2, <2>4, <2>5
<1>9. CASE AnswerRefused
  <2>1. /\ exchange' = NoExchange /\ ending' \in {ending, "confirmed", "unknown"} /\ (ending' = "unknown" => ending = "unknown" \/ Ending)
        /\ cleanupUnsure' = (cleanupUnsure \/ Ending)
        /\ UNCHANGED <<toolServer, groupVars, posts, spent, handed, filterVars>>
    BY <1>9 DEF AnswerRefused, Concluded
  <2>2. exchange'.at = "none" /\ exchange'.bytes <= FrameLimit BY <1>1, <1>4, <2>1
  <2>3. Ending \in BOOLEAN BY DEF Ending
  <2>4. Remote(exchange', ending', cleanupUnsure', spent', handed') BY <1>2, <1>4, <2>1, <2>2, <2>3
  <2>5. Server(hostAt', group', reaped', cleanupUnsure', toolServer') BY <1>2, <2>1, <2>3 DEF groupVars
  <2> QED BY <1>2, <2>1, <2>4, <2>5 DEF filterVars
<1>10. ASSUME NEW denied \in BOOLEAN, AnswerPassed(denied)
       PROVE  /\ Server(hostAt', group', reaped', cleanupUnsure', toolServer')
              /\ Remote(exchange', ending', cleanupUnsure', spent', handed')
              /\ Filter(notified', swallowed', heard')
  BY <1>2, <1>10 DEF AnswerPassed, groupVars, filterVars
<1>11. ASSUME NEW n \in 1..2, BodyChunk(n)
       PROVE  /\ Server(hostAt', group', reaped', cleanupUnsure', toolServer')
              /\ Remote(exchange', ending', cleanupUnsure', spent', handed')
              /\ Filter(notified', swallowed', heard')
  <2>1. spent' = spent + n /\ UNCHANGED <<toolServer, groupVars, posts, filterVars>> BY <1>11 DEF BodyChunk
  <2>2. \/ /\ exchange' = NoExchange /\ (ending' = "unknown" => ending = "unknown" \/ Ending)
           /\ cleanupUnsure' = (cleanupUnsure \/ Ending) /\ handed' = handed
        \/ /\ ~(spent' > WireBytes \/ exchange.bytes + n > FrameLimit)
           /\ exchange' = [exchange EXCEPT !.bytes = @ + n, !.chunks = @ + 1]
           /\ handed' = handed + n /\ UNCHANGED <<ending, cleanupUnsure>>
    BY <1>11 DEF BodyChunk, Concluded
  <2>3. Ending \in BOOLEAN BY DEF Ending
  <2>4. n \in Nat /\ spent \in Nat /\ handed \in Nat /\ handed <= spent /\ handed <= WireBytes /\ exchange.bytes \in Nat
    BY <1>2
  <2>5. CASE /\ exchange' = NoExchange /\ (ending' = "unknown" => ending = "unknown" \/ Ending)
             /\ cleanupUnsure' = (cleanupUnsure \/ Ending) /\ handed' = handed
    <3>1. exchange'.at = "none" /\ exchange'.bytes <= FrameLimit BY <1>1, <1>4, <2>5
    <3>2. spent' \in Nat /\ handed' <= spent' BY <2>1, <2>4, <2>5
    <3>3. Remote(exchange', ending', cleanupUnsure', spent', handed') BY <1>2, <1>4, <2>3, <2>5, <3>1, <3>2
    <3>4. Server(hostAt', group', reaped', cleanupUnsure', toolServer') BY <1>2, <2>1, <2>3, <2>5 DEF groupVars
    <3> QED BY <1>2, <2>1, <3>3, <3>4 DEF filterVars
  <2>6. CASE /\ ~(spent' > WireBytes \/ exchange.bytes + n > FrameLimit)
             /\ exchange' = [exchange EXCEPT !.bytes = @ + n, !.chunks = @ + 1]
             /\ handed' = handed + n /\ UNCHANGED <<ending, cleanupUnsure>>
    <3>1. spent' \in Nat /\ handed' \in Nat /\ handed' <= spent' /\ handed' <= WireBytes BY <1>1, <2>1, <2>4, <2>6
    <3>2. exchange'.bytes = exchange.bytes + n /\ exchange'.at = exchange.at /\ exchange'.sound = exchange.sound
          /\ exchange' \in [at : {"none", "asked", "body"}, method : {"GET", "POST", "DELETE"}, bytes : Nat,
                            chunks : Nat, sound : BOOLEAN]
      <4>1. exchange \in [at : {"none", "asked", "body"}, method : {"GET", "POST", "DELETE"}, bytes : Nat, chunks : Nat,
                          sound : BOOLEAN]
        BY <1>2
      <4>2. exchange.bytes + n \in Nat /\ exchange.chunks + 1 \in Nat BY <2>4, <4>1
      <4> HIDE DEF Server, Remote, Filter
      <4> QED BY <2>6, <4>1, <4>2
    <3>3. exchange'.bytes <= FrameLimit BY <1>1, <2>4, <2>6, <3>2
    <3> QED BY <1>2, <2>1, <2>6, <3>1, <3>2, <3>3 DEF groupVars, filterVars
  <2> QED BY <2>2, <2>5, <2>6
<1>12. CASE BodyEnds BY <1>1, <1>2, <1>4, <1>12 DEF BodyEnds, Concluded, groupVars, filterVars
<1>13. CASE BodyFails BY <1>1, <1>2, <1>4, <1>13 DEF BodyFails, Concluded, groupVars, filterVars
<1>14. ASSUME NEW kind \in {"response", "broken", "notification", "request"}, ServerSends(kind)
       PROVE  /\ Server(hostAt', group', reaped', cleanupUnsure', toolServer')
              /\ Remote(exchange', ending', cleanupUnsure', spent', handed')
              /\ Filter(notified', swallowed', heard')
  BY <1>1, <1>2, <1>14 DEF ServerSends, groupVars, httpVars
<1>15. CASE UNCHANGED upstreamVars BY <1>2, <1>15 DEF upstreamVars, groupVars, httpVars, filterVars
<1> HIDE DEF Server, Remote, Filter
<1> QED
  BY <1>5, <1>6, <1>7, <1>8, <1>9, <1>10, <1>11, <1>12, <1>13, <1>14, <1>15 DEF UpstreamNext

(* The transports keep the conversation between OCR and the gateway whole, in *)
(* order and within its limits, and nothing of a tool server stays unknown    *)
(* (src/ocr_toolkit/federation/relay.py, federation/transport.py).            *)
THEOREM TransportHolds == WireSpec /\ UpstreamSpec => []TransportSafe
<1>1. UpstreamInv /\ [UpstreamNext]_upstreamVars => UpstreamInv' BY UpstreamKept
<1>2. UpstreamSpec => []UpstreamInv BY UpstreamBegins, <1>1, PTL DEF UpstreamSpec
<1>3. FederationWireSafe /\ UpstreamInv => TransportSafe BY DEF TransportSafe, UpstreamInv
<1> QED BY WireHolds, <1>2, <1>3, PTL

-----------------------------------------------------------------------------
(* The result between the review and the post (ReceiptContract).              *)

(* A text that was not refused, once prepared, is plain.                      *)
LEMMA PreparedIsPlain ==
  \A t \in ProseText : ~RefusedRendered(t, TRUE) => Prepared(t) = "plain"
BY DEF ProseText, RefusedRendered, Refused, Prepared

LEMMA PlainIsPrepared == ~Unprepared("plain") /\ ~RefusedRendered("plain", TRUE) /\ ~Refused("plain", TRUE)
BY DEF Unprepared, RefusedRendered, Refused, Prepared

(* What the run refuses, the loader refuses or has no means to.               *)
LEMMA LoaderIsMilder == \A t \in ProseText : RefusedRendered(t, FALSE) => RefusedRendered(t, TRUE)
BY DEF ProseText, RefusedRendered, Refused

LEMMA SafeFindings ==
  ASSUME Reported
  PROVE  /\ DOMAIN SafeComments \subseteq DOMAIN prose.comments
         /\ \A i \in DOMAIN SafeComments : SafeComments[i].content = "plain" /\ ~UnsafeComment(SafeComments[i])
         /\ DOMAIN SafeWarnings \subseteq DOMAIN prose.warnings
         /\ \A i \in DOMAIN SafeWarnings : SafeWarnings[i] \in ProseText /\ ~RefusedRendered(SafeWarnings[i], TRUE)
<1>1. prose.comments \in Seq(ReportedFinding) /\ prose.warnings \in Seq(ProseText) BY DEF Reported, ReportedText
<1>2. ASSUME NEW c \in ReportedFinding, ~RefusedRendered(c.content, TRUE)
      PROVE  SafeComment(c).content = "plain" /\ ~UnsafeComment(SafeComment(c))
  <2>1. c = [content |-> c.content, code |-> c.code, low |-> c.low] /\ c.content \in ProseText /\ c.code \in ProseText
    BY DEF ReportedFinding
  <2>2. PreparedComment(c) = [content |-> Prepared(c.content), code |-> c.code, low |-> c.low]
    BY <2>1 DEF PreparedComment
  <2> DEFINE prepared == PreparedComment(c)
  <2> HIDE DEF prepared
  <2>3. prepared = [content |-> Prepared(c.content), code |-> c.code, low |-> c.low] BY <2>2 DEF prepared
  <2>4. SafeComment(c) = [prepared EXCEPT !.code = IF Refused(@, TRUE) THEN "plain" ELSE @]
    BY DEF SafeComment, prepared
  <2>5. SafeComment(c) = [content |-> Prepared(c.content), code |-> IF Refused(c.code, TRUE) THEN "plain" ELSE c.code,
                          low |-> c.low]
    BY <2>3, <2>4
  <2> QED BY <1>2, <2>1, <2>5, PreparedIsPlain, PlainIsPrepared DEF UnsafeComment,
     RefusedRendered, Refused
<1>3. \A i \in DOMAIN prose.comments : prose.comments[i] \in ReportedFinding BY <1>1
<1>4. \A i \in DOMAIN prose.warnings : prose.warnings[i] \in ProseText BY <1>1
<1>5. \A i \in DOMAIN SafeComments :
        i \in DOMAIN prose.comments /\ ~RefusedRendered(prose.comments[i].content, TRUE)
          /\ SafeComments[i] = SafeComment(prose.comments[i])
  BY DEF SafeComments
<1>6. \A i \in DOMAIN SafeWarnings :
        i \in DOMAIN prose.warnings /\ ~RefusedRendered(prose.warnings[i], TRUE)
          /\ SafeWarnings[i] = prose.warnings[i]
  BY DEF SafeWarnings
<1> QED BY <1>2, <1>3, <1>4, <1>5, <1>6

(* What is projected when nothing was refused.                                *)
LEMMA CleanProse ==
  ASSUME Reported, ~SinksUnsafe
  PROVE  /\ Prepared(prose.message) = "plain" /\ ~RefusedRendered(prose.message, TRUE)
         /\ \A i \in DOMAIN prose.comments :
              /\ PreparedComment(prose.comments[i]).content = "plain"
              /\ ~UnsafeComment(PreparedComment(prose.comments[i]))
              /\ ~UnsafeComment(prose.comments[i])
              /\ PreparedComment(prose.comments[i]).low = prose.comments[i].low
         /\ \A i \in DOMAIN prose.warnings : prose.warnings[i] \in ProseText /\ ~RefusedRendered(prose.warnings[i], TRUE)
<1>1. prose.comments \in Seq(ReportedFinding) /\ prose.warnings \in Seq(ProseText) /\ prose.message \in ProseText
  BY DEF Reported, ReportedText
<1>2. ASSUME NEW c \in ReportedFinding, ~UnsafeComment(c)
      PROVE  PreparedComment(c).content = "plain" /\ ~UnsafeComment(PreparedComment(c)) /\ PreparedComment(c).low = c.low
  <2>1. c = [content |-> c.content, code |-> c.code, low |-> c.low] /\ c.content \in ProseText /\ c.code \in ProseText
    BY DEF ReportedFinding
  <2>2. PreparedComment(c) = [content |-> Prepared(c.content), code |-> c.code, low |-> c.low]
    BY <2>1 DEF PreparedComment
  <2>3. ~RefusedRendered(c.content, TRUE) /\ ~Refused(c.code, TRUE) BY <1>2 DEF UnsafeComment
  <2> QED BY <2>1, <2>2, <2>3, PreparedIsPlain, PlainIsPrepared DEF UnsafeComment,
     RefusedRendered, Refused
<1>3. ~RefusedRendered(prose.message, TRUE) BY DEF SinksUnsafe
<1> DEFINE comments == prose.comments
           warnings == prose.warnings
<1>4. \A i \in DOMAIN comments : comments[i] \in ReportedFinding /\ ~UnsafeComment(comments[i])
  <2>1. \A i \in DOMAIN comments : ~UnsafeComment(comments[i]) BY DEF SinksUnsafe
  <2> HIDE DEF comments
  <2> QED BY <1>1, <2>1 DEF comments
<1>5. \A i \in DOMAIN warnings : warnings[i] \in ProseText /\ ~RefusedRendered(warnings[i], TRUE)
  <2>1. \A i \in DOMAIN warnings : ~RefusedRendered(warnings[i], TRUE) BY DEF SinksUnsafe
  <2>2. \A i \in DOMAIN warnings : warnings[i] \in ProseText BY <1>1
  <2> QED BY <2>1, <2>2
<1> QED BY <1>1, <1>2, <1>3, <1>4, <1>5, PreparedIsPlain

(* The three projections, by the state of the admission.                      *)
LEMMA ProjectionCases ==
  ASSUME Reported
  PROVE  /\ setup.dlp <=> AdmissionState # "disabled"
         /\ AdmissionState \in {"disabled", "publication-filtered", "private-sanitized", "passed"}
         /\ AdmissionState = "disabled" =>
              Projected = [outcome |-> native, message |-> prose.message, comments |-> prose.comments,
                           warnings |-> prose.warnings]
         /\ AdmissionState = "publication-filtered" =>
              Projected = [outcome |-> FilteredOutcome, message |-> "plain", comments |-> SafeComments,
                           warnings |-> SafeWarnings]
         /\ AdmissionState \in {"private-sanitized", "passed"} =>
              /\ ~SinksUnsafe /\ prose.privateText # "bound"
              /\ Projected = [outcome |-> native, message |-> Prepared(prose.message),
                              comments |-> [i \in DOMAIN prose.comments |-> PreparedComment(prose.comments[i])],
                              warnings |-> prose.warnings]
<1>1. setup.dlp \in BOOLEAN BY DEF Reported, RunSettings
<1>2. AdmissionState \in {"private-sanitized", "passed"} => ~SinksUnsafe /\ prose.privateText # "bound"
  BY DEF AdmissionState, PublicationChanged
<1> QED BY <1>1, <1>2 DEF AdmissionState, Projected

LEMMA ProjectionIsSafe ==
  ASSUME Reported, setup.dlp
  PROVE  /\ ProsePrepared(Projected)
         /\ ~RefusedRendered(Projected.message, TRUE)
         /\ \A i \in DOMAIN Projected.comments :
              ~UnsafeComment(Projected.comments[i]) /\ Projected.comments[i].content = "plain"
         /\ \A i \in DOMAIN Projected.warnings : ~Refused(Projected.warnings[i], TRUE)
<1>1. CASE AdmissionState = "publication-filtered"
  <2>1. Projected.message = "plain" /\ Projected.comments = SafeComments /\ Projected.warnings = SafeWarnings
    BY <1>1, ProjectionCases
  <2> QED BY <2>1, SafeFindings, PlainIsPrepared, LoaderIsMilder DEF ProsePrepared,
     RefusedRendered
<1>2. CASE AdmissionState \in {"private-sanitized", "passed"}
  <2> DEFINE comments == [i \in DOMAIN prose.comments |-> PreparedComment(prose.comments[i])]
  <2>1. /\ ~SinksUnsafe /\ Projected.message = Prepared(prose.message) /\ Projected.comments = comments
        /\ Projected.warnings = prose.warnings
    BY <1>2, ProjectionCases
  <2>2. \A i \in DOMAIN comments : comments[i].content = "plain" /\ ~UnsafeComment(comments[i]) BY <2>1, CleanProse
  <2> HIDE DEF comments
  <2>3. Projected.message = "plain" BY <2>1, CleanProse
  <2>4. \A i \in DOMAIN Projected.warnings :
          Projected.warnings[i] \in ProseText /\ ~RefusedRendered(Projected.warnings[i], TRUE)
    BY <2>1, CleanProse
  <2> QED BY <2>1, <2>2, <2>3, <2>4, PlainIsPrepared, LoaderIsMilder DEF ProsePrepared,
     RefusedRendered
<1> QED BY <1>1, <1>2, ProjectionCases

(* The outcome a file states, and what the summary makes of it.               *)
LEMMA OutcomeStated ==
  ASSUME Reported, Receipted, receipt = AdmittedReceipt
  PROVE  /\ RangeBound(Projected)
         /\ SummaryKind(Projected) = KindOf(native)
         /\ SummaryRefused(Projected) =>
              native.budget /\ KindOf(native) = "failed" /\ receipt.admission = "publication-filtered"
<1>1. /\ receipt.range = RangeState(native) /\ receipt.original.kind = KindOf(native)
      /\ receipt.admission = AdmissionState
  BY DEF AdmittedReceipt, RunReceipt, OriginalFacts
<1>2. native.budget \in BOOLEAN /\ native.manifest \in BOOLEAN BY DEF Reported, ReportedOutcome
<1>3. KindOf(native) # "invalid" BY DEF Receipted
<1>4. CASE AdmissionState = "publication-filtered"
  <2>1. Projected.outcome = FilteredOutcome BY <1>4, ProjectionCases
  <2>2. FilteredOutcome.budget = native.budget /\ KindOf(FilteredOutcome) = "partial"
    BY <1>2 DEF FilteredOutcome, KindOf, BudgetAgrees, LegacyKind
  <2>3. native.budget => KindOf(native) \in {"failed", "partial"}
    BY <1>2, <1>3 DEF KindOf, BudgetAgrees, LegacyKind, ManifestKind
  <2> QED BY <1>1, <1>4, <2>1, <2>2, <2>3 DEF RangeBound, SummaryKind, SummaryRefused,
     RestoresOutcome
<1>5. CASE AdmissionState # "publication-filtered"
  <2>1. Projected.outcome = native BY <1>5, ProjectionCases
  <2> QED BY <1>1, <1>3, <1>5, <2>1 DEF RangeBound, RangeState, SummaryKind, SummaryRefused,
     RestoresOutcome
<1> QED BY <1>4, <1>5

-----------------------------------------------------------------------------
(* The inductive invariant.                                                   *)
LEMMA ReceiptBegins == ReceiptInit => ReceiptInv
BY DEF ReceiptInit, ReceiptInv, FinalIsOfThisRun, WrittenIsAccepted, NoFile

LEMMA ReportingKeeps == ReceiptInv /\ OcrReports => ReceiptInv'
<1> SUFFICES ASSUME ReceiptInv, OcrReports PROVE ReceiptInv' OBVIOUS
<1>1. stage = "start" /\ stage' = "reported" /\ artifact' = [kind |-> "raw"] /\ approvable' = approvable
  BY DEF OcrReports
<1>2. Reported'
  <2>1. PICK g \in ReportGroups : \E s \in g.settings, o \in g.outcome, t \in g.tools, p \in g.prose :
          review' = [settings |-> s, outcome |-> o, tools |-> t, prose |-> p]
    BY DEF OcrReports
  <2>2. PICK s \in g.settings, o \in g.outcome, t \in g.tools, p \in g.prose :
          review' = [settings |-> s, outcome |-> o, tools |-> t, prose |-> p]
    BY <2>1
  <2>3. s \in RunSettings /\ o \in ReportedOutcome /\ t \in ToolCounts /\ p \in ReportedText BY ReceiptAssumption
  <2> QED BY <2>2, <2>3 DEF Reported, setup, native, tools, prose
<1>3. ~approvable BY <1>1 DEF ReceiptInv
<1> QED BY <1>1, <1>2, <1>3 DEF ReceiptInv, FinalIsOfThisRun, WrittenIsAccepted

(* What was reported does not change.                                         *)
LEMMA ReportStays ==
  ASSUME review' = review
  PROVE  /\ Reported' = Reported /\ Receipted' = Receipted /\ RunReceipt' = RunReceipt
         /\ Attached' = Attached
         /\ AdmittedReceipt' = AdmittedReceipt /\ Projected' = Projected
         /\ KindOf(native)' = KindOf(native) /\ native' = native /\ setup' = setup
<1>1. native' = native /\ setup' = setup /\ tools' = tools /\ prose' = prose BY DEF native, setup, tools, prose
<1>2. /\ KnownUsage' = KnownUsage /\ FailureState' = FailureState /\ Failed' = Failed
      /\ DiagramState' = DiagramState /\ DiagramCalls' = DiagramCalls /\ DiagramFailed' = DiagramFailed
  BY <1>1 DEF KnownUsage, Registered, FailureState, EvidenceFailed, Failed, DiagramState,
     DiagramCalls, DiagramFailed
<1>3. AdmissionState' = AdmissionState /\ CountedReasons' = CountedReasons
  <2>1. SinksUnsafe' = SinksUnsafe BY <1>1 DEF SinksUnsafe
  <2>2. AdmissionState' = AdmissionState BY <1>1, <2>1 DEF AdmissionState, PublicationChanged, PrivateReasons
  <2>3. CountedReasons' = CountedReasons BY <1>1, <2>1 DEF CountedReasons, PrivateReasons
  <2> QED BY <2>2, <2>3
<1>4. KindOf(native)' = KindOf(native) BY <1>1
<1>5. RunReceipt' = RunReceipt BY <1>1, <1>2, <1>4 DEF RunReceipt, OriginalFacts
<1>6. AdmittedReceipt' = AdmittedReceipt BY <1>3, <1>5 DEF AdmittedReceipt
<1>7. Receipted' = Receipted
  BY <1>1, <1>2, <1>4 DEF Receipted, SkippedAsExpected, CountsAgree, ActionsVerified
<1>8. Projected' = Projected
  <2>1. SafeComments' = SafeComments /\ SafeWarnings' = SafeWarnings BY <1>1 DEF SafeComments, SafeWarnings
  <2>2. FilteredOutcome' = FilteredOutcome BY <1>1 DEF FilteredOutcome
  <2> QED BY <1>1, <1>3, <2>1, <2>2 DEF Projected
<1>9. Attached' = Attached BY <1>1, <1>7 DEF Attached
<1> QED BY <1>1, <1>4, <1>5, <1>6, <1>7, <1>8, <1>9 DEF Reported

LEMMA DiscardKeeps ==
  ASSUME ReceiptInv, stage \in {"reported", "projected"}, Discard, UNCHANGED receipt
  PROVE  ReceiptInv'
<1>1. /\ stage' = "rejected" /\ artifact' \in {[kind |-> "diagnostic"], NoFile}
      /\ review' = review /\ approvable' = approvable
  BY DEF Discard
<1>2. artifact'.kind # "final" BY <1>1 DEF NoFile
<1>3. ~approvable /\ Reported BY DEF ReceiptInv
<1> QED BY <1>1, <1>2, <1>3, ReportStays DEF ReceiptInv, FinalIsOfThisRun, WrittenIsAccepted

LEMMA AttachKeeps == ReceiptInv /\ AttachReceipt => ReceiptInv'
<1> SUFFICES ASSUME ReceiptInv, AttachReceipt PROVE ReceiptInv' OBVIOUS
<1>1. CASE Discard /\ UNCHANGED receipt BY <1>1, DiscardKeeps DEF AttachReceipt
<1>2. CASE /\ Attached /\ stage' = "receipted" /\ receipt' = RunReceipt
           /\ UNCHANGED <<review, artifact, loaded, approvable>>
  <2>1. stage = "reported" BY DEF AttachReceipt
  <2>2. Reported /\ artifact.kind # "final" /\ ~approvable BY <2>1 DEF ReceiptInv
  <2> QED BY <1>2, <2>2, ReportStays DEF ReceiptInv, FinalIsOfThisRun, WrittenIsAccepted
<1> QED BY <1>1, <1>2 DEF AttachReceipt

LEMMA ProjectKeeps == ReceiptInv /\ ProjectPublication => ReceiptInv'
<1> SUFFICES ASSUME ReceiptInv, ProjectPublication PROVE ReceiptInv' OBVIOUS
<1>1. /\ stage = "receipted" /\ stage' = "projected" /\ UNCHANGED <<review, artifact, loaded, approvable>>
      /\ receipt' = [receipt EXCEPT !.admission = AdmissionState, !.reasons = CountedReasons]
  BY DEF ProjectPublication
<1>2. Attached /\ receipt = RunReceipt /\ Reported /\ artifact.kind # "final" /\ ~approvable BY <1>1 DEF ReceiptInv
<1>3. receipt' = AdmittedReceipt BY <1>1, <1>2 DEF AdmittedReceipt
<1> QED BY <1>1, <1>2, <1>3, ReportStays DEF ReceiptInv, FinalIsOfThisRun, WrittenIsAccepted

LEMMA WriteKeeps == ReceiptInv /\ WriteResult => ReceiptInv'
<1> SUFFICES ASSUME ReceiptInv, WriteResult PROVE ReceiptInv' OBVIOUS
<1>1. stage = "projected" BY DEF WriteResult
<1>2. Receipted /\ receipt = AdmittedReceipt /\ Reported /\ artifact.kind # "final" /\ ~approvable
  BY <1>1 DEF ReceiptInv, Attached
<1>3. CASE Discard /\ UNCHANGED receipt BY <1>1, <1>3, DiscardKeeps
<1>4. CASE /\ setup.target = "local" \/ ReceiptValid(receipt)
           /\ stage' = "finalized" /\ UNCHANGED <<review, receipt, loaded, approvable>>
           /\ artifact' = IF setup.private THEN [kind |-> "diagnostic"]
                          ELSE [kind |-> IF setup.target = "local" THEN "unbound" ELSE "final", body |-> Projected]
  <2>1. artifact'.kind = "final" => ReceiptValid(receipt) /\ artifact'.body = Projected BY <1>4
  <2>2. ReceiptValid(receipt)' = ReceiptValid(receipt) BY <1>4
  <2>3. FinalIsOfThisRun' BY <1>2, <1>4, <2>1, <2>2, ReportStays DEF FinalIsOfThisRun
  <2> QED BY <1>2, <1>4, <2>3, ReportStays DEF ReceiptInv, WrittenIsAccepted
<1> QED BY <1>3, <1>4 DEF WriteResult

LEMMA WriteFailureKeeps == ReceiptInv /\ WriteFails => ReceiptInv'
<1> SUFFICES ASSUME ReceiptInv, WriteFails PROVE ReceiptInv' OBVIOUS
<1>1. /\ stage = "projected" /\ stage' = "rejected" /\ artifact' \in {NoFile, artifact}
      /\ UNCHANGED <<review, receipt, loaded, approvable>>
  BY DEF WriteFails
<1>2. Reported /\ artifact.kind # "final" /\ ~approvable BY <1>1 DEF ReceiptInv
<1>3. artifact'.kind # "final" BY <1>1, <1>2 DEF NoFile
<1> QED BY <1>1, <1>2, <1>3, ReportStays DEF ReceiptInv, FinalIsOfThisRun, WrittenIsAccepted

(* The loader takes every final file.                                         *)
LEMMA LoadKeeps == ReceiptInv /\ LoadResult => ReceiptInv'
<1> SUFFICES ASSUME ReceiptInv, LoadResult PROVE ReceiptInv' OBVIOUS
<1> DEFINE takes == /\ artifact.kind = "final"
                    /\ receipt.dlp => ProsePrepared(artifact.body)
                    /\ ReceiptValid(receipt) /\ RangeBound(artifact.body)
<1>1. /\ stage \in {"finalized", "rejected"} /\ UNCHANGED <<review, receipt, artifact, approvable>>
      /\ stage' = IF takes THEN "loaded" ELSE "refused"
      /\ artifact.kind = "final" => loaded' = artifact.body.comments
  BY DEF LoadResult
<1>2. Reported /\ FinalIsOfThisRun /\ ~approvable BY <1>1 DEF ReceiptInv
<1>3. artifact.kind = "final" => takes
  <2> SUFFICES ASSUME artifact.kind = "final" PROVE takes OBVIOUS
  <2>1. /\ Receipted /\ receipt = AdmittedReceipt /\ ReceiptValid(receipt) /\ artifact.body = Projected
    BY <1>2 DEF FinalIsOfThisRun
  <2>2. receipt.dlp = setup.dlp BY <2>1 DEF AdmittedReceipt, RunReceipt
  <2> QED BY <1>2, <2>1, <2>2, ProjectionIsSafe, OutcomeStated
<1> HIDE DEF takes
<1>4. FinalIsOfThisRun'
  <2>1. ReceiptValid(receipt)' = ReceiptValid(receipt) BY <1>1
  <2> QED BY <1>1, <1>2, <2>1, ReportStays DEF FinalIsOfThisRun
<1> QED BY <1>1, <1>2, <1>3, <1>4, ReportStays DEF ReceiptInv, WrittenIsAccepted, takes

LEMMA PublishKeeps == ReceiptInv /\ Publish => ReceiptInv'
<1> SUFFICES ASSUME ReceiptInv, Publish PROVE ReceiptInv' OBVIOUS
<1> DEFINE b == artifact.body
<1>1. /\ stage = "loaded" /\ UNCHANGED <<review, receipt, artifact, loaded>>
      /\ stage' \in {"refused", "failed", "published"} /\ (SummaryRefused(b) <=> stage' = "refused")
      /\ approvable' = (stage' = "published" /\ Approvable(b))
  BY DEF Publish
<1>2. artifact.kind = "final" /\ loaded = b.comments /\ Reported /\ FinalIsOfThisRun BY <1>1 DEF ReceiptInv
<1>3. Receipted /\ receipt = AdmittedReceipt /\ b = Projected BY <1>2 DEF FinalIsOfThisRun
<1>4. stage' = "refused" => native.budget /\ KindOf(native) = "failed" /\ receipt.admission = "publication-filtered"
  BY <1>1, <1>2, <1>3, OutcomeStated
<1>5. FinalIsOfThisRun'
  <2>1. ReceiptValid(receipt)' = ReceiptValid(receipt) BY <1>1
  <2> QED BY <1>1, <1>2, <2>1, ReportStays DEF FinalIsOfThisRun
<1>6. WrittenIsAccepted' BY <1>1, <1>4, ReportStays DEF WrittenIsAccepted
<1>7. approvable' => stage' = "published" /\ Approvable(artifact.body)'
  <2>1. Approvable(artifact.body)' = Approvable(b) BY <1>1 DEF Approvable, ApprovalUnblocked
  <2> QED BY <1>1, <2>1
<1> QED BY <1>1, <1>2, <1>5, <1>6, <1>7, ReportStays DEF ReceiptInv

(* What the conjuncts of the contract need of the invariant.                  *)
LEMMA PublishedFile ==
  ASSUME ReceiptInv, stage = "published"
  PROVE  /\ Reported /\ Receipted /\ receipt = AdmittedReceipt /\ artifact.body = Projected
         /\ loaded = Projected.comments
BY DEF ReceiptInv, FinalIsOfThisRun

LEMMA AdmittedHolds == ReceiptInv => PublishedIsAdmitted
<1> SUFFICES ASSUME ReceiptInv, stage = "published", setup.dlp
             PROVE  /\ ~RefusedRendered(artifact.body.message, TRUE)
                    /\ \A i \in DOMAIN loaded : ~UnsafeComment(loaded[i]) /\ loaded[i].content = "plain"
                    /\ \A i \in DOMAIN artifact.body.warnings : ~Refused(artifact.body.warnings[i], TRUE)
  BY DEF PublishedIsAdmitted
<1> QED BY PublishedFile, ProjectionIsSafe

LEMMA LossHolds == ReceiptInv => LossIsDeclared
<1> SUFFICES ASSUME ReceiptInv, stage = "published"
             PROVE  /\ DOMAIN loaded # DOMAIN prose.comments => receipt.admission = "publication-filtered"
                    /\ SummaryKind(artifact.body) = KindOf(native)
  BY DEF LossIsDeclared
<1>1. receipt.admission = AdmissionState BY PublishedFile DEF AdmittedReceipt, RunReceipt
<1>2. AdmissionState # "publication-filtered" => DOMAIN Projected.comments = DOMAIN prose.comments
  BY PublishedFile, ProjectionCases
<1> QED BY <1>1, <1>2, PublishedFile, OutcomeStated

LEMMA ApprovalHolds == ReceiptInv => ApprovalIsEarned
<1> SUFFICES ASSUME ReceiptInv, approvable PROVE ApprovalIsEarned BY DEF ApprovalIsEarned
<1>1. stage = "published" /\ Approvable(Projected) BY PublishedFile DEF ReceiptInv
<1>2. Reported /\ Receipted /\ receipt = AdmittedReceipt /\ loaded = Projected.comments BY <1>1, PublishedFile
<1>3. ApprovalUnblocked(receipt) BY <1>1 DEF Approvable
<1>4. /\ receipt.target = setup.target /\ receipt.dlp = setup.dlp /\ receipt.admission = AdmissionState
      /\ receipt.failureState = FailureState /\ receipt.failed = Failed /\ receipt.diagramFailed = DiagramFailed
      /\ receipt.degraded = setup.degraded /\ receipt.partial = setup.partial
      /\ receipt.mandatory = RequiresEvidence(native)
  BY <1>2 DEF AdmittedReceipt, RunReceipt
<1>5. /\ setup.target = "protected" /\ setup.dlp /\ ~setup.partial /\ ~setup.degraded
      /\ AdmissionState # "publication-filtered" /\ FailureState \notin {"invalid", "conflicting"}
      /\ FailureState = "verified" => Failed <= DiagramFailed
  BY <1>3, <1>4 DEF ApprovalUnblocked
<1>6. AdmissionState \in {"private-sanitized", "passed"} BY <1>2, <1>5, ProjectionCases
<1> DEFINE comments == [i \in DOMAIN prose.comments |-> PreparedComment(prose.comments[i])]
<1>7. /\ ~SinksUnsafe /\ Projected.outcome = native /\ Projected.comments = comments
      /\ Projected.warnings = prose.warnings
  BY <1>2, <1>6, ProjectionCases
<1>8. KindOf(native) = "clean" /\ native.manifest /\ native.waived = 0 BY <1>1, <1>7 DEF Approvable
<1>9. DOMAIN loaded = DOMAIN prose.comments BY <1>2, <1>7
<1>10. prose.warnings = <<>>
  <2>1. DOMAIN prose.warnings = {} BY <1>1, <1>7 DEF Approvable
  <2>2. prose.warnings \in Seq(ProseText) BY <1>2 DEF Reported, ReportedText
  <2>3. Len(prose.warnings) \in Nat /\ DOMAIN prose.warnings = 1..Len(prose.warnings) BY <2>2
  <2>4. \A n \in Nat : 1..n = {} => n = 0
    <3> SUFFICES ASSUME NEW n \in Nat, n # 0 PROVE 1 \in 1..n OBVIOUS
    <3> QED OBVIOUS
  <2>5. Len(prose.warnings) = 0 BY <2>1, <2>3, <2>4
  <2> QED BY <2>2, <2>5
<1>11. \A i \in DOMAIN prose.comments : ~UnsafeComment(prose.comments[i]) BY <1>2, <1>7, CleanProse
<1>12. tools.summary >= 1
  <2>1. RequiresEvidence(native) BY <1>8 DEF RequiresEvidence
  <2> QED BY <1>2, <2>1 DEF Receipted, ActionsVerified
<1>13. tools.failures # "invalid" BY <1>2, <1>5 DEF FailureState, Reported, ToolCounts
<1>14. tools.failures = "valid" => tools.failedEvidence + tools.failedOther = 0
  <2> SUFFICES ASSUME tools.failures = "valid" PROVE tools.failedEvidence + tools.failedOther = 0 OBVIOUS
  <2>1. tools.failedEvidence \in Nat /\ tools.failedDiagram \in Nat /\ tools.failedOther \in Nat
    BY <1>2 DEF Reported, ToolCounts
  <2>2. FailureState = "verified" BY <1>5 DEF FailureState
  <2>3. Failed = tools.failedEvidence + tools.failedDiagram + tools.failedOther BY DEF Failed
  <2>4. DiagramFailed \in {0, tools.failedDiagram} BY DEF DiagramFailed
  <2> QED BY <1>5, <2>1, <2>2, <2>3, <2>4
<1> QED BY <1>5, <1>8, <1>9, <1>10, <1>11, <1>12, <1>13, <1>14 DEF ApprovalIsEarned

(* The receipt of this run against its own reader, clause by clause.          *)
LEMMA RefusalHolds == ReceiptInv => RefusalIsKnown
<1> SUFFICES ASSUME ReceiptInv, stage = "projected", ~FilteredUnstated, ~DiagramFailureUnverified
             PROVE  ReceiptValid(receipt)
  BY DEF RefusalIsKnown
<1>1. Attached /\ Receipted /\ receipt = AdmittedReceipt /\ Reported BY DEF ReceiptInv, Attached
<1>2. /\ receipt.dlp = setup.dlp /\ receipt.partial = setup.partial /\ receipt.range = RangeState(native)
      /\ receipt.mandatory = RequiresEvidence(native) /\ receipt.usage = KnownUsage
      /\ receipt.calls = tools.evidence /\ receipt.summary = tools.summary
      /\ receipt.failureState = FailureState /\ receipt.failed = Failed /\ receipt.diagram = DiagramState
      /\ receipt.diagramCalls = DiagramCalls /\ receipt.diagramFailed = DiagramFailed
      /\ receipt.original = OriginalFacts /\ receipt.admission = AdmissionState
      /\ receipt.reasons = CountedReasons
  BY <1>1 DEF AdmittedReceipt, RunReceipt
<1>3. /\ tools.evidence \in Nat /\ tools.diagram \in Nat /\ tools.failedDiagram \in Nat
      /\ tools.failedEvidence \in Nat /\ tools.failedOther \in Nat
      /\ tools.failures \in {"absent", "invalid", "valid"} /\ native.manifest \in BOOLEAN
      /\ setup.diagram \in {"off", "on", "broken"} /\ setup.partial \in BOOLEAN
  BY <1>1 DEF Reported, ToolCounts, ReportedOutcome, RunSettings
<1>4. UsageBound(receipt) BY <1>2, <1>3 DEF UsageBound, KnownUsage, DiagramCalls
<1>5. receipt.mandatory => receipt.summary >= 1 BY <1>1, <1>2 DEF Receipted, ActionsVerified
<1>6. receipt.partial => receipt.range = "verified" BY <1>1, <1>2 DEF Attached, RangeState
<1>7. receipt.diagramFailed > 0 => receipt.failureState = "verified" /\ receipt.diagramFailed <= receipt.failed
  <2>1. DiagramFailed > 0 => tools.failures = "valid" /\ DiagramFailed = tools.failedDiagram
    BY <1>3 DEF DiagramFailed
  <2>2. tools.failures = "valid" => FailureState \in {"conflicting", "verified"} BY DEF FailureState
  <2>3. tools.failures = "valid" => tools.failedDiagram <= Failed BY <1>3 DEF Failed
  <2> QED BY <1>2, <2>1, <2>2, <2>3 DEF DiagramFailureUnverified
<1>8. receipt.diagram = "generated" => receipt.range = "verified" /\ receipt.diagramCalls > 0
  BY <1>2, <1>3 DEF DiagramState, RangeState, DiagramCalls, Registered
<1>9. AdmissionValid(receipt)
  <2>1. receipt.reasons = [sink |-> SinksUnsafe, fields |-> prose.privateText # "none",
                           private |-> prose.privateText \in {"detached", "bound"}]
    BY <1>2 DEF CountedReasons, PrivateReasons
  <2>2. prose.privateText \in PrivateText BY <1>1 DEF Reported, ReportedText
  <2>3. receipt.dlp <=> receipt.admission # "disabled" BY <1>1, <1>2, ProjectionCases
  <2>4. AdmissionState = "private-sanitized" => prose.privateText \in {"detached", "bound"}
    BY DEF AdmissionState, PrivateReasons
  <2>5. AdmissionState = "publication-filtered" =>
          /\ SinksUnsafe /\ prose.privateText # "reservedKey"
          /\ KindOf(native) \in OriginalKinds(Counts(native))
    <3> SUFFICES ASSUME AdmissionState = "publication-filtered"
                 PROVE  /\ SinksUnsafe /\ prose.privateText # "reservedKey"
                        /\ KindOf(native) \in OriginalKinds(Counts(native))
      OBVIOUS
    <3>1. SinksUnsafe /\ prose.privateText # "reservedKey" /\ (native.manifest \/ KindOf(native) = "skipped")
      BY DEF FilteredUnstated
    <3>2. CASE ~native.manifest
      <4>1. Counts(native) = <<0, 0, 0>> BY <3>2 DEF Counts
      <4> QED BY <3>1, <3>2, <4>1 DEF OriginalKinds
    <3>3. CASE native.manifest
      <4>1. Counts(native) = <<native.completed, native.failed, native.waived>> BY <3>3 DEF Counts
      <4>2. native.completed \in Nat /\ native.failed \in Nat /\ native.waived \in Nat
        BY <1>1 DEF Reported, ReportedOutcome
      <4>3. KindOf(native) = ManifestKind(native) BY <1>1, <3>3 DEF Receipted, KindOf
      <4>4. /\ SelectedItems(native) = native.completed + native.failed + native.waived
            /\ ManifestKind(native) \in {"failed", "skipped", "clean", "partial"}
        BY DEF SelectedItems, ManifestKind
      <4>5. CASE SelectedItems(native) = 0
        <5>1. native.completed = 0 /\ native.failed = 0 /\ native.waived = 0 BY <4>2, <4>4, <4>5
        <5> QED BY <3>1, <4>1, <4>3, <4>5, <5>1 DEF OriginalKinds, ManifestKind
      <4>6. CASE SelectedItems(native) # 0
        <5>1. Counts(native) # <<0, 0, 0>> BY <4>1, <4>2, <4>4, <4>6
        <5>2. Counts(native)[1] = native.completed /\ Counts(native)[2] = native.failed
              /\ Counts(native)[3] = native.waived
          BY <4>1
        <5>3. native.failed # 0 /\ native.completed + native.waived = 0 => native.failed = SelectedItems(native)
          BY <4>2, <4>4
        <5> QED BY <3>1, <4>3, <4>6, <5>1, <5>2, <5>3 DEF OriginalKinds, ManifestKind
      <4> QED BY <4>5, <4>6
    <3> QED BY <1>3, <3>1, <3>2, <3>3
  <2>6. receipt.original.kind = KindOf(native) /\ receipt.original.counts = Counts(native)
    BY <1>2 DEF OriginalFacts
  <2>7. receipt.reasons.sink = SinksUnsafe /\ receipt.reasons.fields = (prose.privateText # "none")
        /\ receipt.reasons.private = (prose.privateText \in {"detached", "bound"})
    BY <2>1
  <2>8. AdmissionState \in {"private-sanitized", "publication-filtered"} =>
          ((prose.privateText # "none") <=> (prose.privateText \in {"detached", "bound"}))
    BY <2>2, <2>4, <2>5 DEF PrivateText
  <2>9. AdmissionState = "private-sanitized" => prose.privateText # "none" BY <2>4
  <2> QED BY <1>2, <2>3, <2>5, <2>6, <2>7, <2>8, <2>9, Zenon DEF AdmissionValid
<1> QED BY <1>4, <1>5, <1>6, <1>7, <1>8, <1>9 DEF ReceiptValid

(* One result on its way: whatever OCR reports, with any number of findings   *)
(* and any counts, the post takes every file the review finalized, publishes  *)
(* only what was admitted, declares what is missing, and approves only a      *)
(* whole clean review; and the review refuses its own receipt in the known    *)
(* cases only (review_runner.py against posting/workflow.py).                 *)
THEOREM ContractHolds == ReceiptSpec => []ReceiptContractSafe
<1>1. ReceiptInv /\ [ReceiptNext]_receiptVars => ReceiptInv'
  <2> SUFFICES ASSUME ReceiptInv, [ReceiptNext]_receiptVars PROVE ReceiptInv' OBVIOUS
  <2>1. CASE ReceiptNext
    BY <2>1, ReportingKeeps, AttachKeeps, ProjectKeeps, WriteKeeps, WriteFailureKeeps, LoadKeeps,
       PublishKeeps
    DEF ReceiptNext
  <2>2. CASE UNCHANGED receiptVars
    <3>1. UNCHANGED <<review, stage, receipt, artifact, loaded, approvable>> BY <2>2 DEF receiptVars
    <3>2. FinalIsOfThisRun' = FinalIsOfThisRun /\ Approvable(artifact.body)' = Approvable(artifact.body)
      <4>1. ReceiptValid(receipt)' = ReceiptValid(receipt) /\ Approvable(artifact.body)' = Approvable(artifact.body)
        BY <3>1 DEF Approvable, ApprovalUnblocked
      <4> QED BY <3>1, <4>1, ReportStays DEF FinalIsOfThisRun
    <3> QED BY <3>1, <3>2, ReportStays DEF ReceiptInv, WrittenIsAccepted
  <2> QED BY <2>1, <2>2
<1>2. ReceiptInv => ReceiptContractSafe
  BY AdmittedHolds, LossHolds, ApprovalHolds, RefusalHolds DEF ReceiptContractSafe, ReceiptInv
<1> QED BY <1>1, <1>2, ReceiptBegins, PTL DEF ReceiptSpec
=============================================================================
