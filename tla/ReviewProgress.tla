---------------------------- MODULE ReviewProgress ----------------------------
(* The optional progress lines of a review (review_progress.py): the main     *)
(* thread tells its phases, a heartbeat thread repeats the current one, and   *)
(* close stops both.  A line is written under a lock; the stop flag, the      *)
(* thread handle and close are outside of it.                                 *)
EXTENDS Integers, Sequences

CONSTANTS
  LastPhase,    \* bound: phases the review enters
  MaxMessages,  \* MAX_PROGRESS_MESSAGES
  Streams       \* what the lines are written to: "text", "terminal", "pipe"

ASSUME ProgressAssumption == LastPhase \in Nat \ {0} /\ MaxMessages \in Nat \ {0}

Threads == {"main", "beat"}

VARIABLES
  progressStream, stopFlag,
  phaseNow,     \* _stage
  lines,        \* the lines written: [phase, waiting]
  terminal,     \* _terminal_descriptor: "none", "open", "closed"
  lineLock,     \* "free" or its owner
  beat,         \* the heartbeat: "none", "asleep", "awake", "gone"
  handle,       \* _thread is set
  mainAt,       \* where the main thread is
  linesAtClose  \* ghost: how many lines there were when close returned

progressVars ==
  <<progressStream, stopFlag, phaseNow, lines, terminal, lineLock, beat, handle, mainAt, linesAtClose>>

-----------------------------------------------------------------------------
Emits(t) == IF t = "main" THEN mainAt \in {"tell", "tellFirst"} ELSE beat = "awake"

(* A thread that has emitted, or need not.                                   *)
EmitDone(t) ==
  IF t = "main" THEN mainAt' = (IF mainAt = "tellFirst" THEN "spawn" ELSE "run") /\ UNCHANGED beat
  ELSE beat' = "asleep" /\ UNCHANGED mainAt

(* _emit: the flag and the budget are read under the lock.                   *)
EmitBegins(t) ==
  /\ Emits(t) /\ lineLock = "free"
  /\ IF stopFlag \/ Len(lines) >= MaxMessages THEN EmitDone(t) /\ UNCHANGED lineLock
     ELSE lineLock' = t /\ UNCHANGED <<beat, mainAt>>
  /\ UNCHANGED <<progressStream, stopFlag, phaseNow, lines, terminal, handle, linesAtClose>>

(* The write: a blocking pipe is not written to, a terminal by a descriptor  *)
(* of its own; a write that fails or is short is the last one.               *)
EmitEnds(t) ==
  /\ lineLock = t /\ lineLock' = "free" /\ EmitDone(t)
  /\ \/ /\ progressStream # "pipe"
        /\ lines' = Append(lines, [phase |-> phaseNow, waiting |-> t = "beat"])
        /\ stopFlag' = (stopFlag \/ Len(lines') >= MaxMessages)
     \/ stopFlag' = TRUE /\ UNCHANGED lines
  /\ terminal' = IF progressStream = "terminal" THEN "open" ELSE terminal
  /\ UNCHANGED <<progressStream, phaseNow, handle, linesAtClose>>

-----------------------------------------------------------------------------
(* The main thread: start, one phase after the other, close.  An interrupt   *)
(* leads to close from wherever it strikes, between the thread's start and   *)
(* the assignment of its handle too.                                         *)

EnterPhase ==
  /\ mainAt \in {"new", "run"} /\ phaseNow < LastPhase /\ lineLock = "free"
  /\ phaseNow' = phaseNow + 1 /\ mainAt' = IF mainAt = "new" THEN "tellFirst" ELSE "tell"
  /\ UNCHANGED <<progressStream, stopFlag, lines, terminal, lineLock, beat, handle, linesAtClose>>

Spawn ==
  /\ mainAt = "spawn"
  /\ IF stopFlag THEN mainAt' = "run" /\ UNCHANGED <<beat, stopFlag>>
     ELSE \/ beat' = "asleep" /\ mainAt' = "assign" /\ UNCHANGED stopFlag
          \/ stopFlag' = TRUE /\ mainAt' = "run" /\ UNCHANGED beat
  /\ UNCHANGED <<progressStream, phaseNow, lines, terminal, lineLock, handle, linesAtClose>>

AssignHandle ==
  /\ mainAt = "assign" /\ handle' = TRUE /\ mainAt' = "run"
  /\ UNCHANGED <<progressStream, stopFlag, phaseNow, lines, terminal, lineLock, beat, linesAtClose>>

(* The end of the review, or an interrupt.                                   *)
CloseBegins ==
  /\ mainAt \in {"tell", "spawn", "assign", "run"} /\ lineLock # "main"
  /\ stopFlag' = TRUE /\ mainAt' = "join"
  /\ UNCHANGED <<progressStream, phaseNow, lines, terminal, lineLock, beat, handle, linesAtClose>>

NothingToJoin == TRUE  \* slip
Joined == handle => beat = "gone"
CloseEnds ==
  /\ mainAt = "join" /\ Joined
  /\ terminal' = (IF terminal = "open" THEN "closed" ELSE terminal)
  /\ mainAt' = "closed" /\ linesAtClose' = Len(lines)
  /\ UNCHANGED <<progressStream, stopFlag, phaseNow, lines, lineLock, beat, handle>>

(* The heartbeat thread: the flag ends the wait, or the interval does.       *)
HeartbeatWakes ==
  /\ beat = "asleep" /\ beat' = IF stopFlag THEN "gone" ELSE "awake"
  /\ UNCHANGED <<progressStream, stopFlag, phaseNow, lines, terminal, lineLock, handle, mainAt, linesAtClose>>

ProgressInit ==
  /\ progressStream \in Streams /\ stopFlag = FALSE /\ phaseNow = 0 /\ lines = <<>> /\ terminal = "none"
  /\ lineLock = "free" /\ beat = "none" /\ handle = FALSE /\ mainAt = "new" /\ linesAtClose = 0

ProgressNext ==
  \/ \E t \in Threads : EmitBegins(t) \/ EmitEnds(t)
  \/ EnterPhase \/ Spawn \/ AssignHandle \/ CloseBegins \/ CloseEnds \/ HeartbeatWakes

ProgressSpec == ProgressInit /\ [][ProgressNext]_progressVars

-----------------------------------------------------------------------------
(* After close nothing is written and no descriptor is open, although close  *)
(* does not take the lock; except when an interrupt struck before the handle *)
(* of the running thread was assigned.                                       *)
ClosedIsSilent ==
  mainAt = "closed" /\ (handle \/ beat = "none") =>
    beat \notin {"asleep", "awake"} /\ Len(lines) = linesAtClose /\ terminal # "open"

(* Close never waits for a thread that waits for the closing one: the heart-  *)
(* beat sleeps for an interval only, or has the lock, or can take it (the     *)
(* guards of HeartbeatWakes, EmitEnds and EmitBegins).                        *)
HeartbeatMoves == beat = "asleep" \/ lineLock = "beat" \/ (Emits("beat") /\ lineLock = "free")
JoinCannotHang == mainAt = "join" /\ beat \in {"asleep", "awake"} => HeartbeatMoves

PhaseTold(p) == \E i \in DOMAIN lines : lines[i].phase = p /\ ~lines[i].waiting

(* The lines tell the phases in the order they were entered, each once, and  *)
(* a heartbeat only repeats the phase told or entered last.                  *)
LinesTellPhases ==
  /\ \A i, j \in DOMAIN lines : i < j =>
       /\ lines[i].phase <= lines[j].phase
       /\ ~lines[i].waiting /\ ~lines[j].waiting => lines[i].phase < lines[j].phase
  /\ Len(lines) <= MaxMessages
  /\ mainAt = "run" /\ ~stopFlag =>
       \A p \in 1..phaseNow : PhaseTold(p)

ReviewProgressSafe == ClosedIsSilent /\ JoinCannotHang /\ LinesTellPhases

-----------------------------------------------------------------------------
(* The inductive invariant: who holds the lock is about to write and has room *)
(* for a line, and the phase that is being told has not been told yet.        *)
ProgressTypeOK ==
  /\ stopFlag \in BOOLEAN /\ phaseNow \in Nat /\ lines \in Seq([phase : Nat, waiting : BOOLEAN])
  /\ terminal \in {"none", "open", "closed"} /\ lineLock \in Threads \cup {"free"}
  /\ beat \in {"none", "asleep", "awake", "gone"} /\ handle \in BOOLEAN
  /\ mainAt \in {"new", "tellFirst", "spawn", "assign", "tell", "run", "join", "closed"}

Telling == mainAt \in {"tellFirst", "tell"}
LockInOrder ==
  /\ lineLock = "main" => Telling
  /\ lineLock = "beat" => beat = "awake"
  /\ lineLock # "free" => Len(lines) < MaxMessages
  /\ mainAt \in {"new", "tellFirst", "spawn"} => beat = "none"
PhasesInOrder ==
  /\ \A i \in DOMAIN lines : lines[i].phase <= phaseNow
  /\ Telling => \A i \in DOMAIN lines : ~lines[i].waiting => lines[i].phase < phaseNow
  /\ Len(lines) >= MaxMessages => stopFlag
  /\ ~stopFlag => \A p \in 1..phaseNow : PhaseTold(p) \/ (p = phaseNow /\ Telling)

ProgressInv == ProgressTypeOK /\ LockInOrder /\ PhasesInOrder /\ ReviewProgressSafe
=============================================================================
