--------------------------- MODULE UpstreamTransport ---------------------------
(* The other side of the gateway (federation/transport.py): one tool server, *)
(* a process group the gateway starts and must stop, or an HTTPS peer whose  *)
(* session it must end, and the filter between either and the SDK.           *)
EXTENDS FederationWire

CONSTANTS
  Peers,             \* "stdio", "https"
  NotificationLimit, \* 128
  MaxPosts,          \* bound: requests before the one that ends the session
  MaxChunks          \* bound: chunks of one body

ASSUME UpstreamAssumption ==
  Peers \subseteq {"stdio", "https"} /\ {NotificationLimit, MaxPosts, MaxChunks} \subseteq Nat

Members == {"leader", "child"}

VARIABLES
  toolServer,    \* what the server is
  group,         \* members of the process group that live
  born,          \* members there ever were
  reaped,        \* process.returncode is known
  hostAt,        \* stdio_transport: "open", "inner", "after", "outer", "left"
  round,         \* stop_process: 0 its stdin is closed, 1 SIGTERM, 2 SIGKILL
  exchange,      \* BoundedHTTP: [at : "none", "asked", "body", method, bytes, length, sound]
  posts,         \* requests so far
  ending,        \* the DELETE that ends the session: "none", "sent", "confirmed", "unknown"
  spent,         \* WireBudget.bytes
  handed,        \* bytes of bodies the SDK was given
  notified,      \* WireBudget.notifications
  swallowed,     \* unsolicited messages the SDK was not told of
  heard,         \* what the SDK was told: a set of kinds
  cleanupUnsure  \* WireBudget.cleanup_failed

groupVars == <<group, born, reaped, hostAt, round>>
httpVars == <<exchange, posts, ending, spent, handed>>
filterVars == <<notified, swallowed, heard>>
upstreamVars == <<toolServer, groupVars, httpVars, filterVars, cleanupUnsure>>

-----------------------------------------------------------------------------
(* The process group.  A member may fork while it lives and may end at any   *)
(* time, by itself or by a signal that reached it; a signal is a reason, not *)
(* a guarantee: a member may be of another user, or not interruptible.       *)
Forks ==
  /\ toolServer = "stdio" /\ group # {} /\ group' = Members /\ born = {"leader"} /\ born' = Members
  /\ UNCHANGED <<toolServer, reaped, hostAt, round, httpVars, filterVars, cleanupUnsure>>

Dies(m) ==
  /\ m \in group /\ group' = group \ {m}
  /\ UNCHANGED <<toolServer, born, reaped, hostAt, round, httpVars, filterVars, cleanupUnsure>>

Reaped ==
  /\ toolServer = "stdio" /\ "leader" \notin group /\ ~reaped /\ reaped' = TRUE
  /\ UNCHANGED <<toolServer, group, born, hostAt, round, httpVars, filterVars, cleanupUnsure>>

(* A leader that is dead and not reaped is a member still.                   *)
GroupExists == group # {} \/ ~reaped

\* slip: the leader's exit is taken for the group's
LeaderGone == reaped

(* What stop_process waits for.                                              *)
Stopped == reaped /\ ~GroupExists

(* The client leaves, its stderr was too much, or the streams failed: every  *)
(* way out of the transport stops the group, shielded.                       *)
TransportLeft ==
  /\ toolServer = "stdio" /\ hostAt = "open" /\ hostAt' = "inner" /\ round' = 0
  /\ UNCHANGED <<toolServer, group, born, reaped, httpVars, filterVars, cleanupUnsure>>

StopReturns(unsure) ==
  /\ hostAt' = IF hostAt = "inner" THEN "after" ELSE "left"
  /\ round' = 0 /\ cleanupUnsure' = (cleanupUnsure \/ unsure)

StopLooks ==
  /\ hostAt \in {"inner", "outer"}
  /\ \/ Stopped /\ StopReturns(FALSE)
     \/ round < 2 /\ round' = round + 1 /\ UNCHANGED <<hostAt, cleanupUnsure>>
     \/ round = 2 /\ StopReturns(TRUE)
  /\ UNCHANGED <<toolServer, group, born, reaped, httpVars, filterVars>>

(* The outer finally looks once more.                                        *)
StopAgain ==
  /\ hostAt = "after" /\ hostAt' = IF GroupExists THEN "outer" ELSE "left"
  /\ UNCHANGED <<toolServer, group, born, reaped, round, httpVars, filterVars, cleanupUnsure>>

-----------------------------------------------------------------------------
(* The HTTPS peer: any number of requests, and the DELETE that ends the      *)
(* session.  A refused one is answered transport_failed; for the DELETE that *)
(* is uncertain cleanup.                                                     *)
NoExchange == [at |-> "none", method |-> "GET", bytes |-> 0, chunks |-> 0, sound |-> TRUE]
Idle == toolServer = "https" /\ exchange.at = "none"
Ending == exchange.method = "DELETE"

Requested(method, n) ==
  /\ Idle /\ ending = "none"
  /\ method # "DELETE" => posts < MaxPosts
  /\ posts' = posts + 1 /\ spent' = spent + n
  /\ IF spent' > WireBytes \/ posts' > WireRequests
     THEN /\ UNCHANGED exchange
          /\ ending' = IF method = "DELETE" THEN "unknown" ELSE "none"
          /\ cleanupUnsure' = (cleanupUnsure \/ method = "DELETE")
     ELSE /\ exchange' = [NoExchange EXCEPT !.at = "asked", !.method = method]
          /\ ending' = IF method = "DELETE" THEN "sent" ELSE "none"
          /\ UNCHANGED cleanupUnsure
  /\ UNCHANGED <<toolServer, groupVars, handed, filterVars>>

(* The exchange is over; sure, when it was the DELETE, that it ended the     *)
(* session.                                                                  *)
Concluded(sure) ==
  /\ exchange' = NoExchange
  /\ ending' = IF ~Ending THEN ending ELSE IF sure THEN "confirmed" ELSE "unknown"

(* The connection failed, or the answer is a redirect, compressed, too long  *)
(* by its own account or with too many headers.                              *)
AnswerRefused ==
  /\ exchange.at = "asked" /\ Concluded(FALSE)
  /\ cleanupUnsure' = (cleanupUnsure \/ Ending)
  /\ UNCHANGED <<toolServer, groupVars, posts, spent, handed, filterVars>>

(* An answer is passed on with its body; a DELETE's status may deny the end. *)
AnswerPassed(denied) ==
  /\ exchange.at = "asked" /\ (denied => Ending)
  /\ exchange' = [exchange EXCEPT !.at = "body", !.sound = ~denied]
  /\ cleanupUnsure' = (cleanupUnsure \/ denied)
  /\ UNCHANGED <<toolServer, groupVars, posts, ending, spent, handed, filterVars>>

(* A chunk is charged before it is handed on.                                *)
BodyChunk(n) ==
  /\ exchange.at = "body" /\ exchange.chunks < MaxChunks /\ spent' = spent + n
  /\ IF spent' > WireBytes \/ exchange.bytes + n > FrameLimit
     THEN Concluded(FALSE) /\ cleanupUnsure' = (cleanupUnsure \/ Ending) /\ UNCHANGED handed
     ELSE /\ exchange' = [exchange EXCEPT !.bytes = @ + n, !.chunks = @ + 1]
          /\ handed' = handed + n /\ UNCHANGED <<ending, cleanupUnsure>>
  /\ UNCHANGED <<toolServer, groupVars, posts, filterVars>>

BodyEnds ==
  /\ exchange.at = "body" /\ Concluded(exchange.sound)
  /\ UNCHANGED <<toolServer, groupVars, posts, spent, handed, filterVars, cleanupUnsure>>

(* The body breaks off, its reader leaves, or closing it fails.              *)
BodyFails ==
  /\ exchange.at = "body" /\ Concluded(FALSE)
  /\ cleanupUnsure' = (cleanupUnsure \/ Ending)
  /\ UNCHANGED <<toolServer, groupVars, posts, spent, handed, filterVars>>

-----------------------------------------------------------------------------
(* FilteredRead.receive: what the server sends unasked is counted and dropped *)
(* up to a limit of the whole run; a request of the server is never passed.  *)
Connected == IF toolServer = "stdio" THEN hostAt = "open" ELSE ending = "none"

ServerSends(kind) ==
  /\ Connected
  /\ CASE kind = "response" -> heard' = heard \cup {"response"} /\ UNCHANGED <<notified, swallowed>>
       [] kind = "broken" -> heard' = heard \cup {"transport_failed"} /\ UNCHANGED <<notified, swallowed>>
       [] OTHER -> /\ notified <= NotificationLimit /\ notified' = notified + 1
                   /\ IF notified' > NotificationLimit \/ kind = "request"
                      THEN heard' = heard \cup {"protocol_invalid"} /\ UNCHANGED swallowed
                      ELSE swallowed' = swallowed + 1 /\ UNCHANGED heard
  /\ UNCHANGED <<toolServer, groupVars, httpVars, cleanupUnsure>>

UpstreamInit ==
  /\ toolServer \in Peers
  /\ group = (IF toolServer = "stdio" THEN {"leader"} ELSE {}) /\ born = group /\ reaped = (toolServer # "stdio")
  /\ hostAt = (IF toolServer = "stdio" THEN "open" ELSE "left") /\ round = 0
  /\ exchange = NoExchange /\ posts = 0 /\ ending = "none" /\ spent = 0 /\ handed = 0
  /\ notified = 0 /\ swallowed = 0 /\ heard = {} /\ cleanupUnsure = FALSE

UpstreamNext ==
  \/ Forks \/ Reaped \/ TransportLeft \/ StopLooks \/ StopAgain
  \/ \E m \in Members : Dies(m)
  \/ \E method \in {"POST", "DELETE"}, n \in 1..2 : Requested(method, n)
  \/ \E n \in 1..2 : BodyChunk(n)
  \/ AnswerRefused \/ AnswerPassed(TRUE) \/ AnswerPassed(FALSE) \/ BodyEnds \/ BodyFails
  \/ \E kind \in {"response", "broken", "notification", "request"} : ServerSends(kind)

-----------------------------------------------------------------------------
(* A server's process group is gone when its transport is left, or the run   *)
(* knows that it may not be: no receipt is issued then.  A leader that ends  *)
(* before its child, or a child born while the group is stopped, is no       *)
(* exception.                                                                *)
NoSilentSurvivor == hostAt = "left" => cleanupUnsure \/ (group = {} /\ reaped)

(* The same for the session of a remote server: an end that was asked for and *)
(* not confirmed is known to be uncertain, wherever the exchange broke off.  *)
NoSilentSession == ending = "unknown" => cleanupUnsure

(* A body is charged before anybody sees it, and no byte is handed on that   *)
(* the run's budget or the limit of a response refuses.                      *)
HandedIsCharged == handed <= spent /\ handed <= WireBytes /\ exchange.bytes <= FrameLimit

(* The SDK hears of a server's own requests only that the protocol is broken, *)
(* and of notifications nothing while they are within the limit.             *)
NoServerAuthority ==
  /\ heard \subseteq {"response", "transport_failed", "protocol_invalid"}
  /\ swallowed <= NotificationLimit
  /\ notified > NotificationLimit => "protocol_invalid" \in heard

(* The transports are safe: the conversation with OCR, and what remains of a *)
(* tool server.                                                              *)
TransportSafe ==
  FederationWireSafe /\ NoSilentSurvivor /\ NoSilentSession /\ HandedIsCharged /\ NoServerAuthority

-----------------------------------------------------------------------------
(* Why the conversation is safe.  Every buffer holds the bytes between two   *)
(* positions of its stream, so that what is where is told by how far each    *)
(* hand has come:                                                            *)
SentOn(d) == taken[d] - Len(relayed[d])     \* what the relay has written to its target
Arrived(d) == SentOn(d) - Len(passed[d])    \* what the target has read of it
SplitTo == Arrived("ask") - Len(chunk)      \* what the gateway has split of what it read
CalledTo == IF calls = <<>> THEN 0 ELSE wire.ask[Len(calls)]

WireSpec == WireInit /\ [][WireNext]_wireVars

WireTypes ==
  /\ WorldOk(wire)
  /\ ocrSide \in {"open", "closed", "gone"} /\ session \in {"running", "ended"}
  /\ relayAt \in {"copying", "zero", "one"} /\ relayTurn \in [read : SUBSET Ways, write : SUBSET Ways]
  /\ ended \in SUBSET Ways
  /\ wrote \in [Ways -> Nat] /\ taken \in [Ways -> Nat] /\ partial \in [Ways -> Nat]
  /\ relayed \in [Ways -> Seq(Nat)] /\ passed \in [Ways -> Seq(Nat)] /\ ocrGot \in Seq(Nat)
  /\ chunk \in Seq(Nat) /\ frame \in Seq(Nat) /\ calls \in Seq(Seq(Nat)) /\ {asked, answered} \subseteq Nat
  /\ receiveAt \in {"reading", "sending", "failing", "done"} /\ transmitAt \in {"waiting", "draining", "gone"}
  /\ wireBudget \in [bytes : Nat, requests : Nat]

StreamOk(d) == /\ 0 <= Arrived(d) /\ SentOn(d) <= taken[d]
               /\ relayed[d] = Positions(SentOn(d) + 1, taken[d])
               /\ passed[d] = Positions(Arrived(d) + 1, SentOn(d))
               /\ Len(relayed[d]) <= RelayBuffer
WireStreams == StreamOk("ask") /\ StreamOk("answer") /\ ocrGot = Positions(1, Arrived("answer"))

(* What the gateway has called, what it holds, and where the next frame is.  *)
NoEndBetween(from, to) == \A e \in EndsOf("ask") : ~(from < e /\ e <= to)
WireFrames ==
  /\ Len(calls) <= Len(wire.ask) /\ CallsAreWhole /\ Len(frame) <= FrameLimit
  /\ receiveAt \in {"reading", "sending"} =>
       /\ trouble = "none" /\ CalledTo <= SplitTo /\ SplitTo <= Arrived("ask")
       /\ frame = Positions(CalledTo + 1, SplitTo) /\ chunk = Positions(SplitTo + 1, Arrived("ask"))
  /\ receiveAt = "reading" => chunk = <<>> /\ NoEndBetween(CalledTo, SplitTo)
  /\ receiveAt = "sending" => Len(calls) < Len(wire.ask) /\ wire.ask[Len(calls) + 1] = SplitTo
  /\ CalledTo <= Arrived("ask")
  /\ receiveAt = "failing" => trouble # "none"
  /\ EndIsNoCut /\ LengthsAgree

(* The relay knows how long the unfinished frame is, and lets none be longer *)
(* than the gateway accepts.                                                 *)
FrameBegins(d) == EndsOf(d) \cup {0}
WireLengths ==
  /\ \A d \in Ways : \E e \in FrameBegins(d) : e <= taken[d] /\ partial[d] = taken[d] - e
  /\ \A k \in 1..taken["ask"] : \E e \in FrameBegins("ask") : e < k /\ k - e <= FrameLimit

(* A source the relay found at its end has ended, and has nothing more.      *)
WireClosings ==
  /\ relayTurn.read \cap ended = {}
  /\ \A d \in relayTurn.read : taken[d] < wrote[d] \/ SourceClosed(d)
  /\ \A d \in ended : SourceClosed(d) /\ taken[d] = wrote[d]
  /\ relayAt = "zero" => Drained
  /\ transmitAt # "gone" => wrote["answer"] = IF answered = 0 THEN 0 ELSE wire.answer[answered]
  /\ answered <= Len(wire.answer)

(* What was read and what is written was paid for.                           *)
InHand == IF receiveAt = "sending" THEN Cost(frame) ELSE 0
WireMoney ==
  /\ wireBudget.bytes >= Arrived("ask") + wrote["answer"]
  /\ wireBudget.requests >= asked + InHand /\ asked + InHand <= WireRequests
  /\ (IF receiveAt = "sending" THEN Arrived("ask") ELSE CalledTo) + wrote["answer"] <= WireBytes

WireInv == WireTypes /\ WireStreams /\ WireFrames /\ WireLengths /\ WireClosings /\ WireMoney

(* Why nothing of a tool server survives unknown: what is left was seen to be *)
(* gone or is known to be uncertain, and a denied end is known at once.      *)
UpstreamSpec == UpstreamInit /\ [][UpstreamNext]_upstreamVars

UpstreamInv ==
  /\ NoSilentSurvivor /\ NoSilentSession /\ HandedIsCharged /\ NoServerAuthority
  /\ toolServer \in {"stdio", "https"} /\ (toolServer = "https" => hostAt = "left")
  /\ exchange \in [at : {"none", "asked", "body"}, method : {"GET", "POST", "DELETE"}, bytes : Nat, chunks : Nat,
                   sound : BOOLEAN]
  /\ {spent, handed, notified, swallowed} \subseteq Nat /\ cleanupUnsure \in BOOLEAN
  /\ exchange.at = "body" /\ ~exchange.sound => cleanupUnsure
  /\ swallowed <= notified
=============================================================================
