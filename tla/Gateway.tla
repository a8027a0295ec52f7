------------------------------ MODULE Gateway ------------------------------
(***************************************************************************)
(* The federation gateway of federation/gateway.py: one event loop that      *)
(* answers the model's calls to external tools.  Equal concurrent calls      *)
(* share one upstream request, admitted results are cached, every call is    *)
(* accounted once, and closing settles all work before the receipt.  Each    *)
(* action runs from one await of the code to the next.                       *)
(***************************************************************************)
EXTENDS Integers, FiniteSets, Sequences

CONSTANTS
  Call,            \* invocations of call_tool
  Tool,            \* aliases of the frozen inventory
  Argument,        \* canonical admitted argument objects
  ArgumentErrors,  \* what admission.arguments may raise, a subset of Error
  ResultErrors,    \* what an upstream request may end with, a subset of Error
  Sizes,           \* byte sizes of admitted results
  KeyBytes,        \* len(key), charged to the cache with the result
  Concurrency, MaxCalls, CacheEntries, CacheBytes, DeliveryBytes,
  NoTask           \* no dispatch for a key, no task for a call

(* FederationError codes as _terminal counts them; "limit" is an oversized   *)
(* text reported by a DLP gate, "oversized" any other bound.                 *)
Error == {"arguments_invalid", "budget_exceeded", "dlp_rejected", "limit",
          "oversized", "timed_out", "tool_failed"}
Key == Tool \X Argument
Counter == {"attempted", "completed", "denied", "failed", "timed_out", "dlp_rejected",
            "oversized", "cache_hits", "single_flight", "gate_protected", "gate_limit"}

ASSUME GatewayAssumption ==
  /\ IsFiniteSet(Call)
  /\ ArgumentErrors \subseteq Error \ {"timed_out", "budget_exceeded"}
  /\ ResultErrors \subseteq Error \ {"timed_out", "budget_exceeded"}
  /\ Sizes \subseteq Nat /\ KeyBytes \in Nat
  /\ Concurrency \in Nat /\ MaxCalls \in Nat /\ CacheEntries \in Nat \ {0}
  /\ CacheBytes \in Nat /\ DeliveryBytes \in Nat
  /\ NoTask \notin Call

VARIABLES
  call,            \* "idle", "waiting" at the shield, "done"
  key,             \* key of a call that has one
  waitsFor,        \* the dispatch a call waits for, named by the call that created it
  task,            \* dispatch tasks: "none", "queued" at the semaphore, "sent", or how it ended
  size,            \* bytes of an admitted result
  dispatches,      \* Gateway.dispatches: key to running task
  cache,           \* Gateway.cache, least recently used first
  cacheBytes, deliveredBytes, totalCalls, counts,
  publication,     \* results whose strings are in Gateway.publication
  returned,        \* results call_tool has returned (history)
  connection,      \* the relay: "none", "open", "draining", "ended"
  closing,
  exhausted,       \* WireBudget: bytes, requests or run time are spent
  cleanupFailed    \* WireBudget.cleanup_failed

calls  == <<call, key, waitsFor>>
work   == <<task, size, dispatches>>
store  == <<cache, cacheBytes>>
ledger == <<deliveredBytes, totalCalls, counts, publication, returned>>
flags  == <<connection, closing, exhausted, cleanupFailed>>
gateway == <<calls, work, store, ledger, flags>>

Live == {"queued", "sent"}
Settled == {"admitted", "cancelled"} \cup Error
Waiting == {c \in Call : call[c] = "waiting"}

-----------------------------------------------------------------------------
(* _terminal: one outcome, and the diagnostic subset it belongs to           *)
Counted(e) ==
  CASE e = "dlp_rejected" -> {"denied", "dlp_rejected", "gate_protected"}
    [] e = "limit" -> {"denied", "oversized", "gate_limit"}
    [] e = "oversized" -> {"denied", "oversized"}
    [] e \in {"arguments_invalid", "budget_exceeded"} -> {"denied"}
    [] e = "timed_out" -> {"timed_out"}
    [] OTHER -> {"failed"}

Count(t, counters) ==
  counts' = [counts EXCEPT ![t] =
    [k \in Counter |-> counts[t][k] + IF k \in counters THEN 1 ELSE 0]]

(* Return result v to the relay if the delivery budget allows it.            *)
PublishNewOnly(v, hit) == IF hit THEN {} ELSE {v}  \* slip: cache hits not recorded
Publish(v, hit) == {v}
Deliver(t, v, hit, counters) ==
  IF deliveredBytes + size[v] > DeliveryBytes
  THEN /\ Count(t, counters \cup Counted("budget_exceeded"))
       /\ UNCHANGED <<deliveredBytes, publication, returned>>
  ELSE /\ Count(t, counters \cup {"completed"})
       /\ deliveredBytes' = deliveredBytes + size[v]
       /\ publication' = publication \cup Publish(v, hit)
       /\ returned' = returned \cup {v}

-----------------------------------------------------------------------------
(* The cache: an OrderedDict bounded by entries and bytes                    *)
Entry == [key : Key, value : Call, size : Nat]
Bytes(s) == UNION {{i} \X (1..s[i].size) : i \in DOMAIN s}
Weight(s) == Cardinality(Bytes(s))
From(s, n) == SubSeq(s, n + 1, Len(s))
Cached(k) == {i \in DOMAIN cache : cache[i].key = k}

(* The oldest entry goes as long as the new one does not fit.                *)
Fits(n, bytes) ==
  /\ Len(cache) - n < CacheEntries
  /\ cacheBytes - Weight(SubSeq(cache, 1, n)) + bytes <= CacheBytes
Evictions(bytes) ==
  Cardinality({n \in 0..(Len(cache) - 1) : \A m \in 0..n : ~Fits(m, bytes)})

Remember(k, v, s) ==
  LET entry == [key |-> k, value |-> v, size |-> s + KeyBytes]
      n == Evictions(entry.size)
      kept == From(cache, n)
  IN
  IF entry.size > CacheBytes \/ closing THEN UNCHANGED store
  ELSE /\ cacheBytes' = cacheBytes - Weight(SubSeq(cache, 1, n)) + entry.size
       /\ cache' = IF \E i \in DOMAIN kept : kept[i].key = k
                   THEN [i \in DOMAIN kept |-> IF kept[i].key = k THEN entry ELSE kept[i]]
                   ELSE Append(kept, entry)

-----------------------------------------------------------------------------
(* call_tool up to its first await.  A call to an unknown tool changes       *)
(* nothing and is left out.                                                  *)
Arrives(c) == connection = "open" /\ call[c] = "idle"

Admission(c) ==
  /\ Arrives(c) /\ totalCalls < MaxCalls
  /\ totalCalls' = totalCalls + 1
  /\ UNCHANGED flags

(* The call after the last one a receipt can hold: no receipt at all.        *)
OverflowForgiven(c) == UNCHANGED <<closing, cleanupFailed>>  \* slip
NoReceipt(c) == closing' = TRUE /\ cleanupFailed' = TRUE
Overflow(c) ==
  /\ Arrives(c) /\ totalCalls >= MaxCalls
  /\ call' = [call EXCEPT ![c] = "done"]
  /\ NoReceipt(c)
  /\ UNCHANGED <<key, waitsFor, work, store, ledger, connection, exhausted>>

RefuseCall(c, t) ==
  /\ Admission(c)
  /\ call' = [call EXCEPT ![c] = "done"]
  /\ \E e \in IF exhausted \/ closing THEN {"budget_exceeded"} ELSE ArgumentErrors :
       Count(t, {"attempted"} \cup Counted(e))
  /\ UNCHANGED <<key, waitsFor, work, store, deliveredBytes, publication, returned>>

Admitted(c, k) ==
  /\ Admission(c) /\ ~exhausted /\ ~closing
  /\ key' = [key EXCEPT ![c] = k]

ServeFromCache(c, k) ==
  /\ Admitted(c, k)
  /\ call' = [call EXCEPT ![c] = "done"]
  /\ \E i \in Cached(k) :
       /\ cache' = SubSeq(cache, 1, i - 1) \o From(cache, i) \o <<cache[i]>>
       /\ Deliver(k[1], cache[i].value, TRUE, {"attempted", "cache_hits"})
  /\ UNCHANGED <<waitsFor, work, cacheBytes>>

Waits(c, d) ==
  /\ call' = [call EXCEPT ![c] = "waiting"]
  /\ waitsFor' = [waitsFor EXCEPT ![c] = d]
  /\ UNCHANGED <<size, store, deliveredBytes, publication, returned>>

JoinDispatch(c, k) ==
  /\ Admitted(c, k) /\ Cached(k) = {} /\ dispatches[k] # NoTask
  /\ Waits(c, dispatches[k])
  /\ Count(k[1], {"attempted", "single_flight"})
  /\ UNCHANGED <<task, dispatches>>

StartDispatch(c, k) ==
  /\ Admitted(c, k) /\ Cached(k) = {} /\ dispatches[k] = NoTask
  /\ Waits(c, c)
  /\ Count(k[1], {"attempted"})
  /\ task' = [task EXCEPT ![c] = "queued"]
  /\ dispatches' = [dispatches EXCEPT ![k] = c]

-----------------------------------------------------------------------------
(* _dispatch: its key is taken until the request has settled.                *)
ReleasedWhenSent(k) == [dispatches EXCEPT ![k] = NoTask]  \* slip
HeldWhileSent(k) == dispatches

AcquireSemaphore(c) ==
  /\ task[c] = "queued"
  /\ Cardinality({d \in Call : task[d] = "sent"}) < Concurrency
  /\ task' = [task EXCEPT ![c] = "sent"]
  /\ dispatches' = HeldWhileSent(key[c])
  /\ UNCHANGED <<calls, size, store, ledger, flags>>

Settle(c, how) ==
  /\ task' = [task EXCEPT ![c] = how]
  /\ dispatches' = [dispatches EXCEPT ![key[c]] = NoTask]

UpstreamAdmitted(c) ==
  /\ task[c] = "sent"
  /\ \E s \in Sizes :
       /\ size' = [size EXCEPT ![c] = s]
       /\ Remember(key[c], c, s)
  /\ Settle(c, "admitted")
  /\ UNCHANGED <<calls, ledger, flags>>

UpstreamFails(c) ==
  /\ task[c] = "sent"
  /\ \E e \in ResultErrors : Settle(c, e)
  /\ UNCHANGED <<calls, size, store, ledger, flags>>

(* asyncio.timeout covers the wait for the semaphore and the request.        *)
DeadlineInQueue(c) == task[c] = "queued"   \* slip
UnderDeadline(c) == task[c] \in Live
DeadlineCode(c) == "timed_out"

TimesOut(c) ==
  /\ UnderDeadline(c)
  /\ Settle(c, DeadlineCode(c))
  /\ UNCHANGED <<calls, size, store, ledger, flags>>

-----------------------------------------------------------------------------
(* call_tool after its await: the shared result, its error, or cancellation  *)
WaiterResumes(c) ==
  LET d == waitsFor[c] IN
  /\ call[c] = "waiting" /\ task[d] \in Settled
  /\ call' = [call EXCEPT ![c] = "done"]
  /\ IF task[d] = "admitted" THEN Deliver(key[c][1], d, FALSE, {})
     ELSE /\ Count(key[c][1], IF task[d] = "cancelled" THEN {"failed"} ELSE Counted(task[d]))
          /\ UNCHANGED <<deliveredBytes, publication, returned>>
  /\ UNCHANGED <<key, waitsFor, work, store, totalCalls, flags>>

(* asyncio.shield: a waiter the model gave up on takes nothing along.        *)
TakesDispatch(c) == {waitsFor[c]}  \* slip: no shield
TakesAlong(c) == {}
CancelledUncounted(c) == {}        \* slip: the attempt has no outcome
CancelledCounters(c) == {"failed"}

CancelWaiter(c) ==
  /\ call[c] = "waiting"
  /\ call' = [call EXCEPT ![c] = "done"]
  /\ Count(key[c][1], CancelledCounters(c))
  /\ task' = [d \in Call |-> IF d \in TakesAlong(c) /\ task[d] \in Live
                             THEN "cancelled" ELSE task[d]]
  /\ UNCHANGED <<key, waitsFor, size, dispatches, store, deliveredBytes, totalCalls,
                 publication, returned, flags>>

-----------------------------------------------------------------------------
(* connect: one relay for the whole run, a second one is refused.  The SDK   *)
(* ends the connection only after its handlers.                              *)
RelayConnects ==
  /\ connection = "none" /\ ~closing
  /\ connection' = "open"
  /\ UNCHANGED <<calls, work, store, ledger, closing, exhausted, cleanupFailed>>

RelayLeaves ==
  /\ connection = "open"
  /\ connection' = "draining"
  /\ UNCHANGED <<calls, work, store, ledger, closing, exhausted, cleanupFailed>>

ConnectionEnds ==
  /\ connection = "draining" /\ Waiting = {}
  /\ connection' = "ended"
  /\ cleanupFailed' \in {cleanupFailed, TRUE}
  /\ UNCHANGED <<calls, work, store, ledger, closing, exhausted>>

(* WireBudget.charge starts to raise: bytes, requests or RUN_SECONDS.        *)
BudgetRunsOut ==
  /\ ~exhausted /\ exhausted' = TRUE
  /\ UNCHANGED <<calls, work, store, ledger, connection, closing, cleanupFailed>>

(* Every task of the loop is cancelled; the key table is not read again.     *)
CancelTasks ==
  /\ task' = [c \in Call |-> IF task[c] \in Live THEN "cancelled" ELSE task[c]]
  /\ dispatches' = [k \in Key |-> NoTask]
  /\ connection' = IF connection = "open" THEN "draining" ELSE connection

(* stop: refuse new work and cancel what is left ...                         *)
BeginStop ==
  /\ closing' = TRUE
  /\ CancelTasks
  /\ UNCHANGED <<calls, size, store, ledger, exhausted, cleanupFailed>>

(* ... and wait for it.                                                      *)
AllSettled ==
  /\ Waiting = {} /\ connection \in {"none", "ended"}
  /\ \A c \in Call : task[c] \notin Live

(* receipt: refused when the counters do not add up.                         *)
Outcomes(t) ==
  counts[t]["completed"] + counts[t]["denied"] + counts[t]["failed"] + counts[t]["timed_out"]
Denials(t) == counts[t]["dlp_rejected"] + counts[t]["oversized"]
Gates(t) == counts[t]["gate_protected"] + counts[t]["gate_limit"]
Reconciles ==
  ~cleanupFailed /\ \A t \in Tool : counts[t]["attempted"] = Outcomes(t) /\ Gates(t) <= Denials(t)

-----------------------------------------------------------------------------
GatewayInit ==
  /\ call = [c \in Call |-> "idle"]
  /\ key = [c \in Call |-> NoTask] /\ waitsFor = [c \in Call |-> NoTask]
  /\ task = [c \in Call |-> "none"] /\ size = [c \in Call |-> 0]
  /\ dispatches = [k \in Key |-> NoTask]
  /\ cache = <<>> /\ cacheBytes = 0
  /\ deliveredBytes = 0 /\ totalCalls = 0
  /\ counts = [t \in Tool |-> [k \in Counter |-> 0]]
  /\ publication = {} /\ returned = {}
  /\ connection = "none" /\ closing = FALSE
  /\ exhausted = FALSE /\ cleanupFailed = FALSE

CallTool(c) ==
  \/ Overflow(c)
  \/ \E t \in Tool : RefuseCall(c, t)
  \/ \E k \in Key : ServeFromCache(c, k) \/ JoinDispatch(c, k) \/ StartDispatch(c, k)

Dispatch(c) ==
  AcquireSemaphore(c) \/ UpstreamAdmitted(c) \/ UpstreamFails(c) \/ TimesOut(c)

GatewayStep ==
  \/ \E c \in Call : CallTool(c) \/ Dispatch(c) \/ WaiterResumes(c) \/ CancelWaiter(c)
  \/ RelayLeaves \/ ConnectionEnds \/ BudgetRunsOut

-----------------------------------------------------------------------------
GatewayTypes ==
  /\ call \in [Call -> {"idle", "waiting", "done"}]
  /\ key \in [Call -> Key \cup {NoTask}] /\ waitsFor \in [Call -> Call \cup {NoTask}]
  /\ task \in [Call -> {"none"} \cup Live \cup Settled]
  /\ size \in [Call -> Nat] /\ dispatches \in [Key -> Call \cup {NoTask}]
  /\ cache \in Seq(Entry)
  /\ deliveredBytes \in Nat /\ totalCalls \in Nat
  /\ counts \in [Tool -> [Counter -> Nat]]
  /\ publication \subseteq Call /\ returned \subseteq Call
  /\ connection \in {"none", "open", "draining", "ended"}
  /\ closing \in BOOLEAN /\ exhausted \in BOOLEAN /\ cleanupFailed \in BOOLEAN

=============================================================================
