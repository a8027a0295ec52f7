---------------------------- MODULE ContextStore ----------------------------
(***************************************************************************)
(* From the acquired snapshots to what the model is served                   *)
(* (review_runner._prepare_enrichment, context/broker.py, context/store.py,   *)
(* context/mcp.py): snapshots become private records, the policy's aggregate  *)
(* bounds cut them, the store is committed and read back under its own        *)
(* checks, and the model lists it page by page and reads single records.      *)
(* Along the way every loss must be declared: in the completeness of its      *)
(* source, in the degradation counts, and, for a required source, in the flag *)
(* that keeps the review from being approved automatically.                   *)
(***************************************************************************)
EXTENDS ForgeContext

CONSTANT ContextPage  \* records of one listed page

ASSUME ContextPageAssumption == ContextPage \in Nat \ {0}

VARIABLES
  storeStage,
  storeRecords,     \* the records of the store, in order; the index is the handle
  completeness,     \* source |-> state, "off" where the policy has no such source
  degradation,      \* degradation_counts
  requiredDegraded,
  listing           \* the model's traversal: query, next cursor, records so far

storeVars == <<storeStage, storeRecords, completeness, degradation, requiredDegraded, listing>>
contextVars == <<forgeVars, storeVars>>

Source == {"talk", "fix", "ci", "legacy"}
NoListing == [query |-> "none", next |-> 0, got |-> {}]

-----------------------------------------------------------------------------
(* prepare_discussion_records: a record whose published text would not pass   *)
(* the publication check is dropped altogether.                               *)
Publishable(x) == ~(contextPolicy.publishesText /\ x.note.kind = "private")
TalkRecord(x) == [source |-> "talk", object |-> <<x.thread, x.reply>>, notes |-> <<x.note>>, units |-> 1]
TalkRecords == LET kept == SelectSeq(discussions.records, Publishable)
               IN [i \in DOMAIN kept |-> TalkRecord(kept[i])]

(* prepare_remediation_records and the store's reader of the bundle           *)
InOrder(b) == \A i \in DOMAIN b.replies : b.replies[i].order = i - 1
FixPrepared(b) == InOrder(b) /\ b.replies # <<>> /\ Len(b.replies) <= contextPolicy.fix.replies
FixRecord(b) == [source |-> "fix", object |-> <<b.thread, 0>>, units |-> 1 + Len(b.replies),
                 notes |-> [i \in DOMAIN b.replies |-> b.replies[i].note]]
FixRecords == LET kept == SelectSeq(remediation.records, FixPrepared)
              IN [i \in DOMAIN kept |-> FixRecord(kept[i])]

(* prepare_ci_outcome_records: the name and the paths of a check are the      *)
(* policy's; one that check_text refuses against this run's values is dropped. *)
CIPrepared(o) == contextPolicy.ci.text = "good"
CIRecords == LET kept == SelectSeq(outcomes.records, CIPrepared)
             IN [i \in DOMAIN kept |->
                  [source |-> "ci", object |-> <<0, kept[i].id>>, notes |-> <<>>, units |-> 1]]
Pending == TalkRecords \o FixRecords \o CIRecords

(* _bounded_combined_records: a record that does not fit is skipped and its   *)
(* source is limited; a later, smaller one may still fit.                     *)
Units(records) == FoldLeft(LAMBDA n, r : n + r.units, 0, records)
Fits(records, r) == /\ Len(records) < contextPolicy.records
                    /\ Units(records) + r.units <= contextPolicy.units
ForgetsSource(got, r) == IF Fits(got.records, r) THEN [got EXCEPT !.records = Append(@, r)] ELSE got  \* slip: the cut is not declared
Combine(got, r) == IF Fits(got.records, r) THEN [got EXCEPT !.records = Append(@, r)]
                                           ELSE [got EXCEPT !.limited = @ \cup {r.source}]
Combined == FoldLeft(Combine, [records |-> <<>>, limited |-> {}], Pending)

-----------------------------------------------------------------------------
(* _prepare_enrichment: what is reported of each source.                      *)
Snapshot(s) == CASE s = "talk" -> discussions [] s = "fix" -> remediation [] OTHER -> outcomes
Selected(s) == CASE s = "talk" -> contextPolicy.talk.on [] s = "fix" -> contextPolicy.fix.on
                 [] s = "ci" -> contextPolicy.ci.on [] OTHER -> contextPolicy.legacy # "none"
Required(s) == CASE s = "talk" -> contextPolicy.talk.required [] s = "fix" -> contextPolicy.fix.required
                 [] s = "ci" -> contextPolicy.ci.required [] OTHER -> contextPolicy.legacy = "required"
Dropped(s) == CASE s = "talk" -> Len(discussions.records) - Len(TalkRecords)
                [] s = "fix" -> Len(remediation.records) - Len(FixRecords)
                [] s = "ci" -> Len(outcomes.records) - Len(CIRecords) [] OTHER -> 0
StateOf(s, limited) ==
  IF ~Selected(s) THEN "off"
  ELSE IF s = "legacy" THEN "unavailable"
  ELSE IF Dropped(s) > 0 \/ s \in limited THEN "partial"
  ELSE Snapshot(s).state
OnlyDeclaredRequired(limited) == \E s \in Source : StateOf(s, limited) # "off" /\ Required(s) /\ Snapshot(s).state # "complete"  \* slip: later losses are forgotten
RequiredLoss(limited) ==
  \/ \E s \in Source : StateOf(s, limited) \notin {"off", "complete"} /\ Required(s)
  \/ \E s \in {"talk", "fix"} : Snapshot(s).rejected > 0 \/ Dropped(s) > 0
InvalidCount(s) ==
  Dropped(s) + IF Snapshot(s).state = "mutated" THEN 1
               ELSE IF Snapshot(s).state # "partial" THEN 0
               ELSE IF s = "ci" /\ Snapshot(s).rejected < 1 THEN 1
               ELSE Snapshot(s).rejected
LimitCount(s) ==
  IF Snapshot(s).state # "partial" THEN 0
  ELSE IF s = "ci" THEN Snapshot(s).omitted
  ELSE IF Snapshot(s).omitted > Snapshot(s).rejected THEN 1 ELSE 0
Each(f(_)) == f("talk") + f("fix") + f("ci")
Gone(s) == IF Selected(s) /\ Snapshot(s).state = "unavailable" THEN 1 ELSE 0
(* a reference of an old policy is counted only when something required is lost *)
DegradationOf(limited) ==
  [invalid     |-> Each(InvalidCount),
   limit       |-> Each(LimitCount) + IF limited # {} THEN 1 ELSE 0,
   unavailable |-> Each(Gone) + IF Selected("legacy") /\ RequiredLoss({}) THEN 1 ELSE 0]

ContextStoreInit ==
  /\ storeStage = "none" /\ storeRecords = <<>>
  /\ completeness = [s \in Source |-> "off"] /\ degradation = [invalid |-> 0, limit |-> 0, unavailable |-> 0]
  /\ requiredDegraded = FALSE /\ listing = NoListing

Prepare ==
  /\ gathering = "acquired" /\ storeStage = "none"
  /\ storeStage' = "prepared"
  /\ storeRecords' = Combined.records
  /\ completeness' = [s \in Source |-> StateOf(s, Combined.limited)]
  /\ degradation' = DegradationOf(Combined.limited)
  /\ requiredDegraded' = RequiredLoss(Combined.limited)
  /\ UNCHANGED <<forgeVars, listing>>

(* ContextStore.commit writes the records and reads them back; _record holds  *)
(* every record, and commit their identities, to the same rules.              *)
FixValid(r) == r.notes # <<>> /\ r.units = 1 + Len(r.notes)
CIValid(r) == r.notes = <<>> /\ \E j \in JobsIn(jobsRead) : r.object = <<0, j.id>> /\ j.done > 0
TalkValid(r) == Len(r.notes) = 1 /\ r.notes[1].kind \notin {"unsafe", "long"}
RecordValid(r) == CASE r.source = "fix" -> FixValid(r) [] r.source = "ci" -> CIValid(r) [] OTHER -> TalkValid(r)
Collide(i, j) == /\ storeRecords[i].source = storeRecords[j].source
                 /\ storeRecords[i].object = storeRecords[j].object
CommitAccepts ==
  /\ \A i \in DOMAIN storeRecords : RecordValid(storeRecords[i])
  /\ \A i, j \in DOMAIN storeRecords : i # j => ~Collide(i, j)
ReadsBack == /\ \A s \in Source : completeness[s] \in {"off", "complete", "partial", "mutated", "unavailable"}
             /\ \A i \in DOMAIN storeRecords : RecordValid(storeRecords[i])
CommitStore == /\ storeStage = "prepared"
               /\ storeStage' = IF CommitAccepts /\ ReadsBack THEN "committed" ELSE "rejected"
               /\ UNCHANGED <<forgeVars, storeRecords, completeness, degradation, requiredDegraded, listing>>
CommitFails == /\ storeStage = "prepared" /\ storeStage' = "failed"
               /\ UNCHANGED <<forgeVars, storeRecords, completeness, degradation, requiredDegraded, listing>>

(* The records of one store expire together with it; then nothing is served.  *)
StoreExpires == /\ storeStage = "committed" /\ storeStage' = "expired"
                /\ UNCHANGED <<forgeVars, storeRecords, completeness, degradation, requiredDegraded, listing>>

-----------------------------------------------------------------------------
(* context_list: records in order from an offset.  A cursor carries the query  *)
(* it was given for; with another query, or after expiry, it is refused.       *)
Matching(q) == SelectSeq([i \in DOMAIN storeRecords |-> i], LAMBDA i : q = "any" \/ storeRecords[i].source = q)
ContextSlice(q, from) == SubSeq(Matching(q), from + 1,
                                IF from + ContextPage < Len(Matching(q)) THEN from + ContextPage ELSE Len(Matching(q)))
ListContext(q, from, got) ==
  LET slice == ContextSlice(q, from)
      n == from + Len(slice)
  IN listing' = [query |-> q, next |-> IF n < Len(Matching(q)) THEN n ELSE -1,
                 got   |-> got \cup {slice[i] : i \in DOMAIN slice}]
Query == {"any"} \cup {s \in Source : completeness[s] # "off"}
ListFirst == /\ storeStage = "committed"
             /\ \E q \in Query : ListContext(q, 0, {})
             /\ UNCHANGED <<forgeVars, storeStage, storeRecords, completeness, degradation, requiredDegraded>>
ListNext == /\ storeStage = "committed" /\ listing.query # "none" /\ listing.next > 0
            /\ ListContext(listing.query, listing.next, listing.got)
            /\ UNCHANGED <<forgeVars, storeStage, storeRecords, completeness, degradation, requiredDegraded>>

ForgeStep == ForgeChanges /\ UNCHANGED storeVars
ContextInit == ForgeContextInit /\ ContextStoreInit
GatherStep == Gather /\ UNCHANGED storeVars
ContextNext == GatherStep \/ ForgeStep \/ Prepare \/ CommitStore \/ CommitFails \/ StoreExpires \/ ListFirst \/ ListNext

-----------------------------------------------------------------------------
(* A source reported complete lost nothing: a traversal of the list returned   *)
(* every note that the discussions held at the snapshot's moment, every reply  *)
(* of the toolkit's threads that is not a command, and the decided check.      *)
Traversed(s) == listing.next = -1 /\ listing.query \in {"any", s}
Returned(s) == {storeRecords[i] : i \in {k \in listing.got : storeRecords[k].source = s}}
RepliesAt(t) == SelectSeq(Tail(boardThen[t].notes), LAMBDA n : n.kind # "command")
CompleteMeansWhole ==
  /\ completeness["talk"] = "complete" /\ Traversed("talk") =>
       \A t \in DOMAIN boardThen \ Excluded(boardThen) : \A n \in DOMAIN boardThen[t].notes :
         \E r \in Returned("talk") : r.object = <<t, n>> /\ r.notes = <<boardThen[t].notes[n]>>
  /\ completeness["fix"] = "complete" /\ Traversed("fix") =>
       \A t \in ToolkitThreads(boardThen) : RepliesAt(t) # <<>> =>
         \E r \in Returned("fix") : r.object = <<t, 0>> /\ r.notes = RepliesAt(t)
  /\ completeness["ci"] = "complete" /\ Traversed("ci") => Cardinality(Returned("ci")) = 1

(* A review that lost something of a required source, or refused a note for     *)
(* its content, is never eligible for automatic approval.                       *)
RequiredLossBlocksApproval ==
  storeStage # "none" =>
    /\ (\E s \in Source : completeness[s] \notin {"off", "complete"} /\ Required(s)) => requiredDegraded
    /\ (\E s \in {"talk", "fix"} : Snapshot(s).rejected > 0) => requiredDegraded

(* Incomplete sources and degradation counts tell the same story, except that   *)
(* an optional reference of an old policy is not counted.                       *)
LossIsCounted ==
  storeStage # "none" /\ contextPolicy.legacy # "optional" =>
    ((\E s \in Source : completeness[s] \notin {"off", "complete"})
     <=> degradation.invalid + degradation.limit + degradation.unavailable > 0)

(* What the broker prepares, the store accepts: a commit fails only on I/O.     *)
PreparedIsAccepted == storeStage # "rejected"

ForgeContextSafe ==
  /\ SnapshotIsAMoment /\ OutcomeIsNewest /\ OneHome
  /\ CompleteMeansWhole /\ RequiredLossBlocksApproval /\ LossIsCounted /\ PreparedIsAccepted
=============================================================================
