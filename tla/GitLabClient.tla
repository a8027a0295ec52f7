---------------------------- MODULE GitLabClient ----------------------------
(***************************************************************************)
(* The GitLab calls under the posting job (posting/gitlab.py and            *)
(* posting/reconciliation.py): reads are retried and lists are read page by *)
(* page while other people add and delete notes; a create is sent once, its *)
(* answer is classified, and an ambiguous create is looked up once by its   *)
(* write marker.  One client resolves its user, takes one snapshot of the   *)
(* notes and creates one inline note.                                       *)
(***************************************************************************)
EXTENDS Integers, Sequences, FiniteSets

CONSTANTS
  Others,        \* notes of other people and other jobs
  Newcomers,     \* those of them that may still be added
  Mine,          \* the inline note this client creates
  Shelves,       \* the lists of notes the client may start from, oldest first
  PageSize, MaxPages,
  MaxAttempts,   \* attempts of one read
  MaxBadAnswers  \* bound: provider answers that are not a plain success

ASSUME ClientAssumption ==
  /\ Mine \notin Others /\ Newcomers \subseteq Others
  /\ Shelves \subseteq Seq(Others)
  /\ PageSize \in Nat \ {0} /\ MaxPages \in Nat \ {0} /\ MaxAttempts \in Nat \ {0}
  /\ MaxBadAnswers \in Nat

VARIABLES
  shelf,        \* notes of the merge request, oldest first
  unborn,       \* notes other people may still add
  phase, attempt,
  page, items,  \* the page to read next and what earlier pages returned
  outcome,      \* GitLabWriteResult.status of the create
  recorded,     \* id the transaction recorded for the create
  badAnswers,
  (* history *)
  creates,      \* create requests sent
  lasting,      \* notes that were there whenever a page was read
  deleted       \* a note was deleted while pages were read

clientCall == <<phase, attempt, page, items>>
clientHistory == <<creates, lasting, deleted>>
clientVars == <<shelf, unborn, clientCall, outcome, recorded, badAnswers, clientHistory>>

On(s) == {s[i] : i \in DOMAIN s}
Listing == {"snapshot", "reconcile"}
ClientEnded == {"idle", "refused", "finished"}

-----------------------------------------------------------------------------
(* Answers.  A read is "ok", "again" (429, 5xx, network, timeout) or "bad"   *)
(* (another status, an oversized or malformed body, a foreign redirect).     *)
ReadAnswer == {"ok", "again", "bad"}
BadAnswer == badAnswers < MaxBadAnswers /\ badAnswers' = badAnswers + 1
Answered(a) == IF a = "ok" THEN UNCHANGED badAnswers ELSE BadAnswer

(* api_request_url: a read is retried, whatever else fails it is not         *)
GivesUp(a) == a = "bad" \/ (a = "again" /\ attempt = MaxAttempts)

(* A create answered by a redirect, 408, 5xx, a lost connection or a body    *)
(* without a usable identity may have been applied; a position error and     *)
(* any other 4xx were not.                                                   *)
Outcome == {"none", "posted", "invalid_position", "definite_failure", "ambiguous_create"}
CreateAnswer == {"created", "unusable", "position", "refused", "unsure"}
MayApply(a) == a \in {"created", "unusable", "unsure"}
OptimisticOutcome(a) ==                                  \* slip: unsure is a failure
  CASE a = "created" -> "posted" [] a = "position" -> "invalid_position"
    [] a = "unusable" -> "ambiguous_create" [] OTHER -> "definite_failure"
WriteOutcome(a) ==
  CASE a = "created"  -> "posted"
    [] a = "position" -> "invalid_position"
    [] a = "refused"  -> "definite_failure"
    [] OTHER          -> "ambiguous_create"

(* A create carries a fresh write marker; its answer identifies the new note *)
(* or nothing does.                                                          *)
SendCreate(applied) == IF applied THEN Append(shelf, Mine) ELSE shelf
IdentifiedBy(a) == IF a = "created" THEN {Mine} ELSE {}

-----------------------------------------------------------------------------
(* Other people.  A new note goes to the end of the list.                    *)
OthersAdd(n) ==
  /\ n \in unborn
  /\ unborn' = unborn \ {n}
  /\ shelf' = Append(shelf, n)
  /\ UNCHANGED <<clientCall, outcome, recorded, badAnswers, clientHistory>>

Without(s, i) == [k \in 1..Len(s) - 1 |-> IF k < i THEN s[k] ELSE s[k + 1]]
OthersDelete(i) ==
  /\ shelf[i] # Mine
  /\ shelf' = Without(shelf, i)
  /\ lasting' = lasting \ {shelf[i]}
  /\ deleted' = (deleted \/ (phase \in Listing /\ page > 1))
  /\ UNCHANGED <<unborn, clientCall, outcome, recorded, badAnswers, creates>>

-----------------------------------------------------------------------------
(* load_gitlab_config and fetch_posting_identity: without a user nothing is  *)
(* listed or written.                                                        *)
ResolveUser ==
  /\ phase = "user"
  /\ \E a \in ReadAnswer :
       /\ Answered(a)
       /\ IF a = "ok" THEN phase' = "snapshot" /\ attempt' = 1 /\ lasting' = On(shelf)
          ELSE /\ UNCHANGED lasting
               /\ IF GivesUp(a) THEN phase' = "refused" /\ UNCHANGED attempt
                                ELSE attempt' = attempt + 1 /\ UNCHANGED phase
  /\ UNCHANGED <<shelf, unborn, page, items, outcome, recorded, creates, deleted>>

(* Pages are addressed by offset: notes newest first for the snapshot,       *)
(* drafts and discussions oldest first for the reconciliation.               *)
Reversed(s) == [i \in DOMAIN s |-> s[Len(s) + 1 - i]]
PageOf(s, p) ==
  LET from == (p - 1) * PageSize
      size == IF Len(s) <= from THEN 0
              ELSE IF Len(s) - from < PageSize THEN Len(s) - from ELSE PageSize
  IN [i \in 1..size |-> s[from + i]]
Listed == IF phase = "snapshot" THEN Reversed(shelf) ELSE shelf

(* What a finished listing means for its caller: a snapshot is followed by   *)
(* the create, a reconciliation must find exactly one match of the marker.   *)
MatchesIn(found) == {i \in DOMAIN found : found[i] = Mine}
ListingDone(found) ==
  IF phase = "snapshot"
  THEN phase' = "create" /\ UNCHANGED <<outcome, recorded>>
  ELSE /\ phase' = "finished"
       /\ IF Cardinality(MatchesIn(found)) = 1
          THEN outcome' = "posted" /\ recorded' = {Mine}
          ELSE UNCHANGED <<outcome, recorded>>
ListingFails ==
  /\ phase' = IF phase = "snapshot" THEN "refused" ELSE "finished"
  /\ UNCHANGED <<outcome, recorded>>

(* api_get_paginated: a short page ends the list; after MaxPages full pages  *)
(* a sentinel page must be empty or the listing is refused as incomplete.    *)
TrustsFullPages(got) == Len(got) < PageSize \/ page > MaxPages  \* slip: no sentinel
PageEndsList(got) == IF page > MaxPages THEN got = <<>> ELSE Len(got) < PageSize

ReadPage ==
  LET got == PageOf(Listed, page) IN
  /\ phase \in Listing
  /\ \E a \in ReadAnswer :
       /\ Answered(a)
       /\ IF a = "ok"
          THEN /\ attempt' = 1
               /\ items' = IF page > MaxPages THEN items ELSE items \o got
               /\ IF PageEndsList(got) THEN page' = 1 /\ ListingDone(items')
                  ELSE IF page > MaxPages THEN UNCHANGED page /\ ListingFails
                  ELSE page' = page + 1 /\ UNCHANGED <<phase, outcome, recorded>>
          ELSE /\ UNCHANGED <<page, items>>
               /\ IF GivesUp(a) THEN UNCHANGED attempt /\ ListingFails
                  ELSE attempt' = attempt + 1 /\ UNCHANGED <<phase, outcome, recorded>>
  /\ UNCHANGED <<shelf, unborn, clientHistory>>

(* post_review_discussion: one create, one reconciliation when it is         *)
(* ambiguous, never a second create.                                         *)
CreateRetried(o) == o = "definite_failure"               \* slip: tries once more
CreateAgain(o) == FALSE
CreateInline ==
  /\ phase = "create"
  /\ creates' = creates + 1
  /\ \E a \in CreateAnswer, applied \in BOOLEAN :
       /\ applied => MayApply(a)
       /\ a \in {"created", "unusable"} => applied
       /\ IF a = "created" THEN UNCHANGED badAnswers ELSE BadAnswer
       /\ shelf' = SendCreate(applied)
       /\ outcome' = WriteOutcome(a)
       /\ recorded' = IdentifiedBy(a)
       /\ IF outcome' = "ambiguous_create"
          THEN /\ phase' = "reconcile" /\ items' = <<>> /\ page' = 1 /\ attempt' = 1
               /\ lasting' = On(shelf') /\ deleted' = FALSE
          ELSE /\ phase' = IF CreateAgain(outcome') THEN "create" ELSE "finished"
               /\ UNCHANGED <<items, page, attempt, lasting, deleted>>
  /\ UNCHANGED unborn

ClientStart ==
  /\ phase = "idle"
  /\ shelf' \in Shelves
  /\ unborn' = Newcomers \ On(shelf')
  /\ phase' = "user"
  /\ UNCHANGED <<attempt, page, items, outcome, recorded, badAnswers, clientHistory>>

-----------------------------------------------------------------------------
ClientInit ==
  /\ shelf = <<>> /\ unborn = {}
  /\ phase = "idle" /\ attempt = 1 /\ page = 1 /\ items = <<>>
  /\ outcome = "none" /\ recorded = {} /\ badAnswers = 0
  /\ creates = 0 /\ lasting = {} /\ deleted = FALSE

ClientStep == ResolveUser \/ ReadPage \/ CreateInline
ClientNext ==
  \/ ClientStart \/ ClientStep
  \/ phase \notin ClientEnded /\ \E n \in Others : OthersAdd(n)
  \/ phase \notin ClientEnded /\ \E i \in DOMAIN shelf : OthersDelete(i)

-----------------------------------------------------------------------------
(* Every variable holds a value of the type its Python counterpart has.      *)
ClientTypeOK ==
  /\ On(shelf) \subseteq Others \cup {Mine} /\ unborn \subseteq Newcomers
  /\ phase \in ClientEnded \cup Listing \cup {"user", "create"}
  /\ attempt \in 1..MaxAttempts /\ page \in 1..MaxPages + 1
  /\ On(items) \subseteq Others \cup {Mine} /\ Len(items) <= MaxPages * PageSize
  /\ outcome \in Outcome /\ recorded \subseteq {Mine}
  /\ badAnswers \in 0..MaxBadAnswers /\ creates \in Nat
  /\ lasting \subseteq Others \cup {Mine} /\ deleted \in BOOLEAN

(* What the posting job concludes from a create is true on GitLab: a posted  *)
(* note is recorded under its id, a failed or unplaceable one does not exist *)
(* (so it may be repeated in the fallback note), and it is sent once.        *)
CreateOutcomeIsTrue ==
  /\ outcome = "posted" => recorded = {Mine} /\ Mine \in On(shelf)
  /\ outcome \in {"invalid_position", "definite_failure"} => Mine \notin On(shelf)
  /\ creates <= 1

(* A listing that was returned misses no note that was there all along,      *)
(* unless one was deleted between two page reads; a list longer than the     *)
(* limit is never returned cut (api_get_paginated).                          *)
ListingMissesNothing ==
  (phase = "create" /\ ~deleted) => lasting \subseteq On(items)

(* The note an ambiguous create left behind is found when nothing was        *)
(* deleted and the provider answered (reconcile_ambiguous_inline_create).    *)
AmbiguousCreateIsFound ==
  phase = "finished" /\ outcome = "ambiguous_create" /\ ~deleted /\ badAnswers = 1
    /\ Mine \in On(shelf) => Len(shelf) > MaxPages * PageSize

GitLabClientSafe == CreateOutcomeIsTrue /\ ListingMissesNothing /\ AmbiguousCreateIsFound
=============================================================================
