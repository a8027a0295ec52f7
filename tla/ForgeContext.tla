---------------------------- MODULE ForgeContext ----------------------------
(***************************************************************************)
(* How a review acquires context from the forge (providers/                 *)
(* gitlab_discussions.py, gitlab_remediation.py, gitlab_ci.py).  The         *)
(* discussions of the merge request are read page by page, twice, while      *)
(* people write; only two equal readings are used.  The threads the toolkit  *)
(* itself opened become remediation bundles, the others discussion records.  *)
(* The CI jobs of the reviewed revision are read twice in the same way.      *)
(* Notes are abstracted to the reason they may be left out and a version:    *)
(* the forge stamps every edit, so a changed note never looks like before.   *)
(***************************************************************************)
EXTENDS Integers, Sequences, FiniteSets, SequencesExt

CONSTANTS
  Boards,          \* discussion boards a review may start from
  Pipelines,       \* lists of pipelines it may start from, last updated first
  ContextPolicies, \* protected context policies
  ThreadsPerPage, ThreadPages,  \* 100 and MAX_PAGES of the code
  ListedPipelines, \* MAX_PIPELINES
  MaxForgeChanges  \* bound: changes other people make while the forge is read

ASSUME ForgeContextAssumption ==
  /\ ThreadsPerPage \in Nat \ {0} /\ ThreadPages \in Nat \ {0}
  /\ ListedPipelines \in Nat \ {0} /\ MaxForgeChanges \in Nat

VARIABLES
  board, pipelines,     \* the forge
  contextPolicy, forgeChanges,
  gathering,            \* which request comes next
  gathered, threadPage, \* this reading's threads
  readings,             \* the completed readings of the discussions
  jobsRead, jobReadings,
  discussions, remediation, outcomes,  \* the snapshots
  (* history *)
  boardThen, pipelinesThen  \* the forge when the second reading began

forge == <<board, pipelines, forgeChanges>>
talkReads == <<gathered, threadPage, readings, boardThen>>
ciReads == <<jobsRead, jobReadings, pipelinesThen>>
forgeVars == <<forge, contextPolicy, gathering, talkReads, ciReads,
               discussions, remediation, outcomes>>

Unread == [state |-> "unread", records |-> <<>>, omitted |-> 0, rejected |-> 0]
Closed(s) == [Unread EXCEPT !.state = s]

-----------------------------------------------------------------------------
(* Why a note is left out: "stranger" - an author or type the policy does    *)
(* not admit; "unfit" - its stamp, age, anchor, resolved or outdated state;   *)
(* "unsafe", "long" - refused by check_text; "command" - a reviewer command.  *)
(* A "private" note is good for the model and refused for publication.        *)
NoteKind == {"good", "private", "unfit", "stranger", "unsafe", "long", "command"}
Note(k, v) == [kind |-> k, version |-> v]

(* _toolkit_root: the first note was written by this user with its marker    *)
ToolkitThreads(threads) == {t \in DOMAIN threads : threads[t].marked}
Excluded(threads) == IF contextPolicy.fix.on THEN ToolkitThreads(threads) ELSE {}

(* _project_discussions: the notes the policy looks at, thread by thread, and *)
(* what becomes of each.  The limits count what was admitted before.          *)
TalkThreads(threads) == SelectSeq([i \in DOMAIN threads |-> i], LAMBDA i : i \notin Excluded(threads))
LookedAt(s) == SubSeq(s, 1, IF Len(s) < contextPolicy.talk.threads THEN Len(s) ELSE contextPolicy.talk.threads)
NotesOf(threads, t) == [n \in DOMAIN threads[t].notes |-> [thread |-> t, reply |-> n, note |-> threads[t].notes[n]]]
TalkNotes(threads) == FlattenSeq([i \in DOMAIN LookedAt(TalkThreads(threads)) |->
                                    NotesOf(threads, TalkThreads(threads)[i])])

Omit(got, n, unsafe) == [got EXCEPT !.omitted = @ + n, !.rejected = @ + IF unsafe THEN 1 ELSE 0]
DropsQuietly(got, x) ==                                   \* slip: an over-long note is not counted
  IF x.reply > contextPolicy.talk.replies \/ Len(got.records) >= contextPolicy.talk.items THEN Omit(got, 1, FALSE)
  ELSE IF x.note.kind \in {"good", "private", "command"} THEN [got EXCEPT !.records = Append(@, x)]
  ELSE IF x.note.kind = "long" THEN got ELSE Omit(got, 1, x.note.kind = "unsafe")
TakeNote(got, x) ==
  IF x.reply > contextPolicy.talk.replies \/ Len(got.records) >= contextPolicy.talk.items THEN Omit(got, 1, FALSE)
  ELSE IF x.note.kind \notin {"good", "private", "command"} THEN Omit(got, 1, x.note.kind = "unsafe")
  ELSE IF Len(got.records) >= contextPolicy.talk.units THEN Omit(got, 1, FALSE)
  ELSE [got EXCEPT !.records = Append(@, x)]

Finished(got) == [got EXCEPT !.state = IF got.omitted > 0 THEN "partial" ELSE "complete"]
Talk(raw) ==
  LET skipped == Len(TalkThreads(raw.threads)) - Len(LookedAt(TalkThreads(raw.threads)))
  IN Finished(FoldLeft(TakeNote, [Unread EXCEPT !.omitted = skipped + raw.unfetched], TalkNotes(raw.threads)))

(* project_remediation_threads: a root and its admitted replies, in order; a  *)
(* thread with a missing reply is partial, one without replies is nothing.    *)
Items(records) == FoldLeft(LAMBDA n, r : n + 1 + Len(r.replies), 0, records)
TakeReply(used, got, x) ==
  IF x.reply - 1 > contextPolicy.fix.replies \/ used + 1 + Len(got.replies) >= contextPolicy.fix.items
  THEN [got EXCEPT !.omitted = @ + 1, !.whole = FALSE]
  ELSE CASE x.note.kind = "command" -> got
         [] x.note.kind \in {"good", "private"} -> [got EXCEPT !.replies = Append(@, [order |-> Len(@), note |-> x.note])]
         [] OTHER -> [got EXCEPT !.omitted = @ + 1, !.whole = FALSE,
                                 !.rejected = @ + IF x.note.kind \in {"unsafe", "long"} THEN 1 ELSE 0]
Bundle(threads, t, used) ==
  FoldLeft(LAMBDA got, x : TakeReply(used, got, x),
           [thread |-> t, replies |-> <<>>, whole |-> TRUE, omitted |-> 0, rejected |-> 0], Tail(NotesOf(threads, t)))
TakeThread(threads, got, t) ==
  LET root == threads[t].notes[1]
      b == Bundle(threads, t, Items(got.records))
      counted == [got EXCEPT !.omitted = @ + b.omitted, !.rejected = @ + b.rejected]
  IN IF root.kind \notin {"good", "private"} THEN Omit(got, 1, root.kind \in {"unsafe", "long"})
     ELSE IF b.replies = <<>> THEN counted
     ELSE IF Items(got.records) + 1 + Len(b.replies) > contextPolicy.fix.units THEN Omit(counted, 1 + Len(b.replies), FALSE)
     ELSE [counted EXCEPT !.records = Append(@, [thread |-> t, replies |-> b.replies, whole |-> b.whole])]
Fix(raw) ==
  LET marked == SelectSeq([i \in DOMAIN raw.threads |-> i], LAMBDA i : raw.threads[i].marked)
      n == IF Len(marked) < contextPolicy.fix.threads THEN Len(marked) ELSE contextPolicy.fix.threads
  IN Finished(FoldLeft(LAMBDA got, t : TakeThread(raw.threads, got, t),
                       [Unread EXCEPT !.omitted = Len(marked) - n + raw.unfetched], SubSeq(marked, 1, n)))

-----------------------------------------------------------------------------
(* People add, answer, edit and delete while the forge is read.              *)
Change == forgeChanges < MaxForgeChanges /\ forgeChanges' = forgeChanges + 1
EditBoard(b) == /\ gathering \in {"first", "second"} /\ Change /\ board' = b
                /\ UNCHANGED <<pipelines, contextPolicy, gathering, talkReads, ciReads, discussions, remediation, outcomes>>
EditNote == \E t \in DOMAIN board : \E n \in DOMAIN board[t].notes, k \in {"good", "unsafe"} :
              EditBoard([board EXCEPT ![t].notes[n] = Note(k, @.version + 1)])
AddNote == \E t \in DOMAIN board : Len(board[t].notes) < 2
             /\ EditBoard([board EXCEPT ![t].notes = Append(@, Note("good", 9))])
DeleteThread == \E t \in DOMAIN board : EditBoard(RemoveAt(board, t))

(* A job finishes or is retried; its pipeline is then the last updated one.   *)
ToTop(p) == <<p>> \o SelectSeq(pipelines, LAMBDA q : q.id # p.id)
NewestJob == Cardinality(UNION {pipelines[p].jobs : p \in DOMAIN pipelines})
EditPipelines(p) == /\ gathering \in {"list", "jobs"} /\ Change /\ pipelines' = ToTop(p)
                    /\ UNCHANGED <<board, contextPolicy, gathering, talkReads, ciReads, discussions, remediation, outcomes>>
FinishJob == \E p \in DOMAIN pipelines : \E j \in pipelines[p].jobs, now \in {2, 3} :
  /\ j.done = 0
  /\ EditPipelines([pipelines[p] EXCEPT !.jobs = (@ \ {j}) \cup {[j EXCEPT !.done = now + forgeChanges]}])
RetryJob == \E p \in DOMAIN pipelines :
  EditPipelines([pipelines[p] EXCEPT !.jobs = @ \cup {[id |-> NewestJob + 1, done |-> 0]}])
ForgeChanges == EditNote \/ AddNote \/ DeleteThread \/ FinishJob \/ RetryJob

-----------------------------------------------------------------------------
ForgeContextInit ==
  /\ board \in Boards /\ pipelines \in Pipelines /\ contextPolicy \in ContextPolicies
  /\ forgeChanges = 0 /\ gathering = "start"
  /\ gathered = <<>> /\ threadPage = 1 /\ readings = <<>>
  /\ jobsRead = <<>> /\ jobReadings = <<>>
  /\ discussions = Unread /\ remediation = Unread /\ outcomes = Unread
  /\ boardThen = <<>> /\ pipelinesThen = <<>>

(* parse_policy: closed bounds, sources introduced by schema versions, and no  *)
(* legacy references in the current one; a refused policy ends the review.     *)
TalkParses(c) == c.on => c.threads \in 1..100 /\ c.replies \in 1..100 /\ c.items \in 1..500
FixParses(c) == c.on => c.threads \in 1..100 /\ c.replies \in 1..100 /\ c.items \in 2..500
CIParses(c) == c.on => c.checks \in 1..32
PolicyParses(p) ==
  /\ TalkParses(p.talk) /\ FixParses(p.fix) /\ CIParses(p.ci) /\ p.records \in 1..128
  /\ p.fix.on => p.schema >= 2
  /\ p.ci.on => p.schema >= 3
  /\ p.legacy # "none" => p.schema < 4
  /\ p.schema < 4 => p.talk.on \/ p.fix.on \/ p.ci.on \/ p.legacy # "none"
Wanted == contextPolicy.talk.on \/ contextPolicy.fix.on
AfterTalk == IF contextPolicy.ci.on THEN "list" ELSE "acquired"
(* load_protected_policy, then the first request *)
StartGathering ==
  /\ gathering = "start"
  /\ gathering' = IF ~PolicyParses(contextPolicy) THEN "refused" ELSE IF Wanted THEN "first" ELSE AfterTalk
  /\ UNCHANGED <<forge, contextPolicy, talkReads, ciReads, discussions, remediation, outcomes>>

(* _read_raw_snapshot: one page; it stops at the last page, or when the       *)
(* policy has enough threads, or fails at the page limit.                     *)
OnPage(b, p) == SubSeq(b, (p - 1) * ThreadsPerPage + 1, IF p * ThreadsPerPage < Len(b) THEN p * ThreadsPerPage ELSE Len(b))
More(b, p) == p * ThreadsPerPage < Len(b)
EnoughThreads(s) == /\ contextPolicy.talk.on => Len(s) >= contextPolicy.talk.threads
                    /\ contextPolicy.fix.on => Len(s) >= contextPolicy.fix.threads
ClosedTalk(s) == /\ discussions' = IF contextPolicy.talk.on THEN Closed(s) ELSE discussions
                 /\ remediation' = IF contextPolicy.fix.on THEN Closed(s) ELSE remediation
ReadThreads ==
  LET all == gathered \o OnPage(board, threadPage)
      last == ~More(board, threadPage) \/ EnoughThreads(all)
  IN /\ gathering \in {"first", "second"}
     /\ last \/ threadPage < ThreadPages
     /\ gathered' = IF last THEN <<>> ELSE all
     /\ threadPage' = IF last THEN 1 ELSE threadPage + 1
     /\ readings' = IF last THEN Append(readings, [threads |-> all, unfetched |-> IF More(board, threadPage) THEN 1 ELSE 0])
                            ELSE readings
     /\ boardThen' = IF gathering = "second" /\ threadPage = 1 THEN board ELSE boardThen
     /\ gathering' = IF ~last THEN gathering ELSE IF gathering = "first" THEN "second" ELSE "compare"
     /\ UNCHANGED <<forge, contextPolicy, ciReads, discussions, remediation, outcomes>>
(* a refused, late, malformed or endless list: both sources are unavailable   *)
ReadThreadsFails ==
  /\ gathering \in {"first", "second"}
  /\ gathering' = AfterTalk
  /\ ClosedTalk("unavailable")
  /\ UNCHANGED <<forge, contextPolicy, talkReads, ciReads, outcomes>>

(* acquire_gitlab_context: two equal readings, or nothing is used.            *)
TrustsLastReading(r) == TRUE                                \* slip: the readings are not compared
Stable(r) == r[1] = r[2]
ProjectThreads ==
  /\ gathering = "compare" /\ gathering' = AfterTalk
  /\ IF Stable(readings)
     THEN /\ discussions' = IF contextPolicy.talk.on THEN Talk(readings[2]) ELSE discussions
          /\ remediation' = IF contextPolicy.fix.on THEN Fix(readings[2]) ELSE remediation
     ELSE ClosedTalk("mutated")
  /\ UNCHANGED <<forge, contextPolicy, talkReads, ciReads, outcomes>>

(* _raw_snapshot of the jobs: the pipelines, then the jobs of each of them.   *)
ListedRuns == SubSeq(pipelines, 1, IF Len(pipelines) < ListedPipelines THEN Len(pipelines) ELSE ListedPipelines)
ListPipelines ==
  /\ gathering = "list" /\ gathering' = "jobs"
  /\ jobsRead' = [i \in DOMAIN ListedRuns |-> [id |-> ListedRuns[i].id, jobs |-> {}, read |-> FALSE]]
  /\ pipelinesThen' = IF jobReadings = <<>> THEN pipelinesThen ELSE pipelines
  /\ UNCHANGED <<forge, contextPolicy, talkReads, jobReadings, discussions, remediation, outcomes>>
JobsOf(id) == UNION {pipelines[p].jobs : p \in {q \in DOMAIN pipelines : pipelines[q].id = id}}

(* The newest finished job of the check decides, unless one is unfinished,    *)
(* none is there, or it is too old.                                           *)
JobsIn(lists) == UNION {lists[i].jobs : i \in DOMAIN lists}
Newer(a, b) == a.done > b.done \/ (a.done = b.done /\ a.id > b.id)
IgnoresRunning(lists) ==                                    \* slip: a retry in flight does not count
  {j \in JobsIn(lists) : j.done > contextPolicy.ci.oldest /\ \A k \in JobsIn(lists) \ {j} : Newer(j, k)}
Decisive(lists) ==
  {j \in JobsIn(lists) : /\ j.done > contextPolicy.ci.oldest
                         /\ \A k \in JobsIn(lists) : k.done > 0 /\ (k # j => Newer(j, k))}
JobSnapshot(lists, more) ==
  [state    |-> IF Decisive(lists) # {} /\ ~more THEN "complete" ELSE "partial",
   records  |-> SetToSeq(Decisive(lists)), omitted |-> IF more THEN 1 ELSE 0,
   rejected |-> IF Decisive(lists) = {} THEN 1 ELSE 0]
JobDigest(lists) == <<{j \in JobsIn(lists) : j.done > 0}, Decisive(lists)>>
ReadJobs ==
  \E i \in DOMAIN jobsRead :
    /\ gathering = "jobs" /\ ~jobsRead[i].read /\ \A k \in 1..(i - 1) : jobsRead[k].read
    /\ jobsRead' = [jobsRead EXCEPT ![i].jobs = JobsOf(jobsRead[i].id), ![i].read = TRUE]
    /\ UNCHANGED <<forge, contextPolicy, gathering, talkReads, jobReadings, pipelinesThen,
                   discussions, remediation, outcomes>>
EndJobReading ==
  /\ gathering = "jobs" /\ \A i \in DOMAIN jobsRead : jobsRead[i].read
  /\ jobReadings' = Append(jobReadings, JobDigest(jobsRead))
  /\ gathering' = IF jobReadings = <<>> THEN "list" ELSE "acquired"
  /\ outcomes' = IF jobReadings = <<>> THEN outcomes
                 ELSE IF jobReadings[1] = JobDigest(jobsRead)
                      THEN JobSnapshot(jobsRead, Len(pipelines) > ListedPipelines)
                      ELSE [Closed("mutated") EXCEPT !.rejected = 1]
  /\ UNCHANGED <<forge, contextPolicy, talkReads, jobsRead, pipelinesThen, discussions, remediation>>
ReadJobsFails ==
  /\ gathering \in {"list", "jobs"} /\ gathering' = "acquired"
  /\ outcomes' = Closed("unavailable")
  /\ UNCHANGED <<forge, contextPolicy, talkReads, ciReads, discussions, remediation>>

Gather == \/ StartGathering \/ ReadThreads \/ ReadThreadsFails \/ ProjectThreads
          \/ ListPipelines \/ ReadJobs \/ EndJobReading \/ ReadJobsFails

-----------------------------------------------------------------------------
(* A snapshot that is used shows the discussions as they were at one moment,  *)
(* the beginning of the second reading, though the pages were read apart and  *)
(* people kept writing and deleting (acquire_gitlab_context).                 *)
SnapshotIsAMoment ==
  \A s \in {discussions, remediation} : s.state \in {"complete", "partial"} =>
    LET seen == readings[2].threads IN seen = SubSeq(boardThen, 1, Len(seen))
(* A CI outcome given to the model was the last word of its check when the    *)
(* second reading began: nothing newer had finished and no retry was running. *)
OutcomeIsNewest ==
  \A i \in DOMAIN outcomes.records : LET j == outcomes.records[i] IN
    \A p \in DOMAIN pipelinesThen : \A k \in pipelinesThen[p].jobs :
      k # j => k.done > 0 /\ Newer(j, k)
(* No note reaches the model both as a discussion and inside a bundle.        *)
OneHome ==
  \A i \in DOMAIN discussions.records, j \in DOMAIN remediation.records :
    discussions.records[i].thread # remediation.records[j].thread
=============================================================================
