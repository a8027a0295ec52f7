------------------------- MODULE FederationRuntime -------------------------
(***************************************************************************)
(* RunningGateway of federation/runtime.py: the review process owns a thread *)
(* that prepares the gateway, serves one OCR relay and tears the upstream    *)
(* sessions down.  The two share an event, a stop signal and a cancellation; *)
(* the receipt may leave the thread only after everything is settled.        *)
(***************************************************************************)
EXTENDS Gateway

VARIABLES
  parent,          \* the review process
  thread,          \* _serve in the gateway thread
  ready,           \* threading.Event
  stopRequested,   \* asyncio.Event set through call_soon_threadsafe
  cancelRequested, \* main task cancelled, not delivered yet
  sessions,        \* upstream clients in the AsyncExitStack
  error,           \* _error is set
  receipt,         \* _receipt is set
  forbidden,       \* forbidden_publication as the runner read it
  seen             \* results OCR may have used (history)

signals == <<stopRequested, cancelRequested>>
outcome == <<error, receipt>>
runner  == <<parent, forbidden, seen>>
runtime == <<runner, thread, ready, signals, sessions, outcome>>
vars == <<gateway, runtime>>

-----------------------------------------------------------------------------
(* _serve                                                                    *)
Prepared ==
  /\ thread = "preparing" /\ ~cancelRequested
  /\ thread' = "serving" /\ ready' = TRUE /\ sessions' = "open"
  /\ UNCHANGED <<gateway, runner, signals, outcome>>

(* No listener yet: straight to the stop of the gateway.                     *)
PrepareFails ==
  /\ thread = "preparing"
  /\ thread' = "stopping" /\ error' = TRUE
  /\ cancelRequested' = FALSE /\ sessions' = "open"
  /\ BeginStop
  /\ UNCHANGED <<runner, ready, stopRequested, receipt>>

(* wait_for(_stop.wait(), RUN_SECONDS)                                       *)
ServingEnds ==
  /\ thread = "serving"
  /\ \/ stopRequested /\ UNCHANGED <<error, cancelRequested>>
     \/ error' = TRUE /\ cancelRequested' = FALSE  \* deadline, or cancelled
  /\ thread' = "unlistening"
  /\ UNCHANGED <<gateway, runner, ready, stopRequested, sessions, receipt>>

(* Server.wait_closed returns once no accepted connection is left.           *)
ListenerClosed ==
  /\ thread = "unlistening" /\ ~cancelRequested
  /\ connection \in {"none", "ended"}
  /\ thread' = "stopping"
  /\ BeginStop
  /\ UNCHANGED <<runner, ready, signals, sessions, outcome>>

GatewayStopped ==
  /\ thread = "stopping" /\ ~cancelRequested /\ AllSettled
  /\ thread' = "tearing"
  /\ cache' = <<>> /\ cacheBytes' = 0
  /\ UNCHANGED <<calls, work, ledger, flags, runner, ready, signals, sessions, outcome>>

(* stack.aclose(), which may raise or leave a process group or an HTTP       *)
(* session behind, then the receipt unless an error is known.                *)
TornDown ==
  /\ thread = "tearing"
  /\ sessions' = "closed"
  /\ cleanupFailed' \in {cleanupFailed, TRUE}
  /\ \E raised \in {cancelRequested, TRUE} :
       /\ receipt' = (~error /\ ~raised /\ Reconciles /\ ~cleanupFailed')
       /\ error' = ~receipt'
  /\ cancelRequested' = FALSE
  /\ thread' = "done" /\ ready' = TRUE
  /\ UNCHANGED <<calls, work, store, ledger, connection, closing, exhausted, runner,
                 stopRequested>>

(* A cancellation delivered inside the finally block leaves it; asyncio.run  *)
(* then cancels every task and _run records the error.                       *)
Aborted ==
  /\ thread \in {"unlistening", "stopping"} /\ cancelRequested
  /\ thread' = "aborting" /\ cancelRequested' = FALSE
  /\ CancelTasks
  /\ UNCHANGED <<calls, size, store, ledger, closing, exhausted, cleanupFailed, runner,
                 ready, stopRequested, sessions, outcome>>

LoopClosed ==
  /\ thread = "aborting" /\ AllSettled
  /\ thread' = "done" /\ ready' = TRUE /\ error' = TRUE
  /\ sessions' \in {"open", "closed"}
  /\ UNCHANGED <<gateway, runner, signals, receipt>>

-----------------------------------------------------------------------------
(* __init__ and close, in the review process.  OCR runs while the parent is  *)
(* "running"; it can use what the gateway returned by then.                  *)
GatewayReady ==
  /\ parent = "starting" /\ ready
  /\ parent' = IF error THEN "raised" ELSE "running"
  /\ UNCHANGED <<gateway, thread, ready, signals, sessions, outcome, forbidden, seen>>

StartTimesOut ==
  /\ parent = "starting" /\ ~ready
  /\ parent' = "raised" /\ cancelRequested' = TRUE
  /\ UNCHANGED <<gateway, thread, ready, stopRequested, sessions, outcome, forbidden, seen>>

OcrExits ==
  /\ parent = "running"
  /\ parent' = "exited" /\ seen' = returned
  /\ UNCHANGED <<gateway, thread, ready, signals, sessions, outcome, forbidden>>

(* The runner reads forbidden_publication, then calls close.                 *)
BeginClose ==
  /\ parent = "exited"
  /\ parent' = "joining" /\ forbidden' = publication
  /\ stopRequested' = (stopRequested \/ thread # "done")
  /\ UNCHANGED <<gateway, thread, ready, cancelRequested, sessions, outcome, seen>>

(* join(35): longer than any call, and the stop signal is served at once.    *)
JoinWithoutCancel == UNCHANGED cancelRequested  \* slip
CancelServing == cancelRequested' = TRUE
JoinTimesOut ==
  /\ parent = "joining" /\ thread \notin {"serving", "done"}
  /\ parent' = "cancelling"
  /\ CancelServing
  /\ UNCHANGED <<gateway, thread, ready, stopRequested, sessions, outcome, forbidden, seen>>

CloseGivesUp ==
  /\ parent = "cancelling" /\ thread # "done"
  /\ parent' = "raised"
  /\ UNCHANGED <<gateway, thread, ready, signals, sessions, outcome, forbidden, seen>>

CloseReturns ==
  /\ parent \in {"joining", "cancelling"} /\ thread = "done"
  /\ parent' = IF error \/ ~receipt THEN "raised" ELSE "returned"
  /\ UNCHANGED <<gateway, thread, ready, signals, sessions, outcome, forbidden, seen>>

-----------------------------------------------------------------------------
Init ==
  /\ GatewayInit
  /\ parent = "starting" /\ thread = "preparing" /\ ready = FALSE
  /\ stopRequested = FALSE /\ cancelRequested = FALSE
  /\ sessions = "none" /\ error = FALSE /\ receipt = FALSE
  /\ forbidden = {} /\ seen = {}

Thread ==
  \/ Prepared \/ PrepareFails \/ ServingEnds \/ ListenerClosed \/ GatewayStopped
  \/ TornDown \/ Aborted \/ LoopClosed

Closing == JoinTimesOut \/ CloseGivesUp \/ CloseReturns

Parent == GatewayReady \/ StartTimesOut \/ OcrExits \/ BeginClose \/ Closing

(* OCR starts its relay only after the gateway is ready.                     *)
Loop ==
  \/ GatewayStep /\ thread # "done" /\ UNCHANGED runtime
  \/ RelayConnects /\ parent = "running" /\ thread \in {"serving", "unlistening"}
       /\ UNCHANGED runtime

Next == Loop \/ Thread \/ Parent
Spec == Init /\ [][Next]_vars

(* The event loop serves what is runnable and every request has a deadline;  *)
(* so have both joins.  Nothing is assumed of OCR or of the relay.           *)
Fairness ==
  /\ \A c \in Call :
       /\ WF_vars(TimesOut(c) /\ thread # "done" /\ UNCHANGED runtime)
       /\ WF_vars(WaiterResumes(c) /\ thread # "done" /\ UNCHANGED runtime)
  /\ WF_vars(ConnectionEnds /\ thread # "done" /\ UNCHANGED runtime)
  /\ WF_vars(Thread) /\ WF_vars(Closing)
FairSpec == Spec /\ Fairness

-----------------------------------------------------------------------------
(* Every variable keeps the type its Python counterpart has (cacheBytes: see *)
(* CacheExact).                                                              *)
RuntimeTypes ==
  /\ parent \in {"starting", "running", "exited", "joining", "cancelling", "returned", "raised"}
  /\ thread \in {"preparing", "serving", "unlistening", "stopping", "tearing", "aborting",
                 "done"}
  /\ ready \in BOOLEAN /\ stopRequested \in BOOLEAN /\ cancelRequested \in BOOLEAN
  /\ sessions \in {"none", "open", "closed"} /\ error \in BOOLEAN /\ receipt \in BOOLEAN
  /\ forbidden \subseteq Call /\ seen \subseteq Call
TypeOK == GatewayTypes /\ RuntimeTypes

(* Equal concurrent calls cost one upstream request: no two running          *)
(* dispatches have the same key (Gateway.dispatches, asyncio.shield).        *)
SingleFlight ==
  \A c, d \in Call : task[c] \in Live /\ task[d] \in Live /\ key[c] = key[d] => c = d

(* The byte account of the cache is exact and bounded, whatever was evicted, *)
(* replaced or refused: it relies on one dispatch per key, because replacing *)
(* an entry would not subtract its size.                                     *)
CacheExact ==
  /\ cacheBytes = Weight(cache) /\ cacheBytes <= CacheBytes /\ Len(cache) <= CacheEntries
  /\ \A i, j \in DOMAIN cache : cache[i].key = cache[j].key => i = j

(* What the model could read of external tools is known to the publication   *)
(* filter, cached results whose first caller was cancelled included          *)
(* (forbidden_publication is read before close).                             *)
ForbiddenCoversSeen ==
  parent \in {"joining", "cancelling", "returned"} => seen \subseteq forbidden

(* Cancelling one waiter leaves the shared request to the others: a dispatch *)
(* is cancelled only when the whole gateway stops.                           *)
SharedRequestSurvives ==
  [][\A c \in Call : task[c] \in Live /\ task'[c] = "cancelled" => thread' # thread]_vars

(* Every call that was admitted to the account has one outcome or is still   *)
(* waiting for it (call_tool, _terminal).                                    *)
AttemptsAccounted ==
  \A t \in Tool :
    counts[t]["attempted"] =
      Outcomes(t) + Cardinality({c \in Waiting : key[c][1] = t})

(* A receipt that close returns is whole and acceptable to the reader of     *)
(* receipts (reporting/federation.py): nothing is in flight, every session   *)
(* is closed, no call was left out and the diagnostics are consistent.       *)
ValidEntry(t) ==
  /\ counts[t]["attempted"] = Outcomes(t)
  /\ Denials(t) <= counts[t]["denied"]
  /\ counts[t]["cache_hits"] + counts[t]["single_flight"] <= counts[t]["attempted"]
  /\ counts[t]["gate_protected"] = counts[t]["dlp_rejected"]
  /\ counts[t]["gate_limit"] <= counts[t]["oversized"]
ReturnedReceiptIsWhole ==
  parent = "returned" =>
    /\ receipt /\ ~cleanupFailed /\ sessions = "closed" /\ AllSettled
    /\ totalCalls <= MaxCalls
    /\ \A t \in Tool : ValidEntry(t)
    /\ totalCalls = Cardinality({c \in Call : call[c] = "done"})

(* Every accounted call is answered: the deadline covers the wait for the    *)
(* semaphore, and a shared request settles all its waiters.                  *)
EveryCallAnswered == \A c \in Call : (call[c] = "waiting") ~> (call[c] = "done")

(* Once the runner closes the gateway its thread ends, even if the relay     *)
(* never hangs up: close cancels what join did not see finish.               *)
ThreadEnds == (parent \in {"joining", "cancelling"}) ~> (thread = "done")

=============================================================================
