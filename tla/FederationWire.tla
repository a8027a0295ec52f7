---------------------------- MODULE FederationWire ----------------------------
(* The bytes between OCR and the federation gateway: the relay process that  *)
(* copies both directions through two bounded buffers (federation/relay.py), *)
(* and the two tasks by which the gateway reads and writes frames            *)
(* (federation/transport.py), under the one byte budget of the run.          *)
(*                                                                           *)
(* A byte is its position in the stream of its direction; which of them end a *)
(* frame is the world's choice.  A carriage return alone ends a piece but no *)
(* frame, in the relay and in the gateway alike, and is not told apart.      *)
EXTENDS Integers, Sequences

CONSTANTS
  WireWorlds,   \* what OCR and the gateway have to say, and how often others spend the budget
  RelayBuffer,  \* 16 * 1024, the bytes the relay holds in one direction
  WriteChunk,   \* 4096, the most it writes at once
  PipeRoom,     \* bound: what a pipe or a socket holds
  ReadChunk,    \* 16 * 1024, the most the gateway reads at once
  FrameLimit,   \* RESPONSE_BYTES
  WireBytes,    \* WIRE_BYTES
  WireRequests  \* WIRE_REQUESTS

Ways == {"ask", "answer"}  \* from OCR to the gateway and back

(* Frames end one behind the other.                                          *)
WorldOk(w) ==
  /\ w \in [ask : Seq(Nat \ {0}), answer : Seq(Nat \ {0}), askBytes : Nat, invalid : SUBSET Nat, notices : SUBSET Nat,
            charges : Nat]
  /\ \A d \in Ways : \A i, j \in DOMAIN w[d] : i < j => w[d][i] < w[d][j]

ASSUME WireAssumption ==
  {RelayBuffer, WriteChunk, PipeRoom, ReadChunk, FrameLimit, WireBytes, WireRequests} \subseteq Nat \ {0}
ASSUME WorldAssumption == \A w \in WireWorlds : WorldOk(w)


VARIABLES
  wire,       \* the world: [ask, answer : ends of frames], askBytes, charges, and the ends of what is
              \* no message (invalid) or a message that asks nothing (notices)
  ocrSide,    \* "open", "closed" (the relay's stdin has ended), "gone" (its stdout too)
  wrote,      \* by way: bytes its source has written
  ocrGot,     \* what OCR read
  relayAt,    \* "copying", or the exit code "zero", "one"
  relayTurn,  \* what select returned and is not yet dealt with: [read, write]
  taken,      \* by way: bytes the relay has read
  relayed,    \* by way: the relay's pending buffer
  partial,    \* by way: bytes since the last end of a frame
  ended,      \* ways whose source has ended
  passed,     \* by way: written by the relay and not read by the target
  receiveAt,  \* the gateway's receive: "reading", "sending", "failing", "done"
  chunk,      \* what it read and has not split
  frame,      \* pending of read_frames
  transmitAt, \* the gateway's transmit: "waiting", "draining", "gone"
  wireBudget, \* WireBudget: [bytes, requests]
  session,    \* the SDK's session: "running", "ended"
  calls,      \* the messages it received
  asked,      \* how many of them are requests
  answered,   \* how many it answered
  trouble     \* ghost: why receive failed, "none" before

relayVars == <<relayAt, relayTurn, taken, relayed, partial, ended>>
gatewayVars == <<receiveAt, chunk, frame, transmitAt, wireBudget, session, calls, asked, answered, trouble>>
wireVars == <<wire, ocrSide, wrote, ocrGot, passed, relayVars, gatewayVars>>

Least(S) == CHOOSE n \in S : \A m \in S : n <= m
Smaller(m, n) == IF m < n THEN m ELSE n
Positions(from, to) == [i \in 1..(to - from + 1) |-> from + i - 1]
EndsOf(d) == {wire[d][i] : i \in DOMAIN wire[d]}
FrameStart(d, i) == IF i = 1 THEN 1 ELSE wire[d][i - 1] + 1
Tail2(s, n) == SubSeq(s, n + 1, Len(s))
Relaying == relayAt = "copying"

-----------------------------------------------------------------------------
(* OCR: it writes what fits, reads what there is, and may close either end of *)
(* the relay at any time, in the middle of a frame too.                      *)
OcrWrites ==
  /\ ocrSide = "open" /\ Relaying /\ wrote["ask"] < wire.askBytes
  /\ LET room == PipeRoom - (wrote["ask"] - taken["ask"]) IN
       /\ room > 0
       /\ wrote' = [wrote EXCEPT !["ask"] = Smaller(@ + room, wire.askBytes)]
  /\ UNCHANGED <<wire, ocrSide, ocrGot, passed, relayVars, gatewayVars>>

OcrReads ==
  /\ ocrSide # "gone" /\ passed["answer"] # <<>>
  /\ ocrGot' = ocrGot \o passed["answer"]
  /\ passed' = [passed EXCEPT !["answer"] = <<>>]
  /\ UNCHANGED <<wire, ocrSide, wrote, relayVars, gatewayVars>>

OcrCloses ==
  /\ \/ ocrSide = "open" /\ ocrSide' = "closed"
     \/ ocrSide = "closed" /\ ocrSide' = "gone"
  /\ UNCHANGED <<wire, wrote, ocrGot, passed, relayVars, gatewayVars>>

-----------------------------------------------------------------------------
(* The relay's loop.  A source has data or has ended; a target has room or   *)
(* is closed, in which case the write fails.                                 *)
SourceClosed(d) == IF d = "ask" THEN ocrSide # "open" ELSE session = "ended"
TargetClosed(d) == IF d = "ask" THEN session = "ended" ELSE ocrSide = "gone"
Sources == {d \in Ways : d \notin ended /\ Len(relayed[d]) < RelayBuffer
                          /\ (taken[d] < wrote[d] \/ SourceClosed(d))}
Targets == {d \in Ways : relayed[d] # <<>> /\ (Len(passed[d]) < PipeRoom \/ TargetClosed(d))}
Drained == \E d \in ended : relayed[d] = <<>>
NothingToDo == relayTurn = [read |-> {}, write |-> {}]

(* The deadline of the run is looked at before each select.                  *)
RelayLooks ==
  /\ Relaying /\ NothingToDo
  /\ \/ relayAt' = "one" /\ UNCHANGED relayTurn
     \/ Drained /\ relayAt' = "zero" /\ UNCHANGED relayTurn
     \/ /\ ~Drained /\ Sources \cup Targets # {}
        /\ relayTurn' = [read |-> Sources, write |-> Targets]
        /\ UNCHANGED relayAt
  /\ UNCHANGED <<wire, ocrSide, wrote, ocrGot, passed, taken, relayed, partial, ended, gatewayVars>>

(* How long the unfinished frame is after byte k, when the relay had read    *)
(* taken[d] bytes before this chunk.                                         *)
PartialAfter(d, k) ==
  LET before == {e \in EndsOf(d) : taken[d] < e /\ e < k} IN
  IF before = {} THEN partial[d] + k - taken[d]
  ELSE k - (CHOOSE e \in before : \A f \in before : f <= e)

TurnOf(kind, d) == relayTurn' = [relayTurn EXCEPT ![kind] = @ \ {d}]

(* One read: an empty one is the end, an error ends the relay; a connection  *)
(* closed with unread bytes is reset instead of ended.                       *)
RelayReads(d) ==
  /\ Relaying /\ d \in relayTurn.read /\ (d = "answer" => "ask" \notin relayTurn.read)
  /\ TurnOf("read", d)
  /\ \/ /\ taken[d] = wrote[d] /\ ended' = ended \cup {d}
        /\ UNCHANGED <<relayAt, taken, relayed, partial>>
     \/ /\ d = "answer" /\ taken[d] = wrote[d] /\ passed["ask"] # <<>> /\ relayAt' = "one"
        /\ UNCHANGED <<taken, relayed, partial, ended>>
     \/ \E n \in 1..Smaller(RelayBuffer - Len(relayed[d]), wrote[d] - taken[d]) :
          LET last == taken[d] + n IN
          /\ IF taken["ask"] + taken["answer"] + n > WireBytes
                \/ \E k \in taken[d] + 1..last : PartialAfter(d, k) > FrameLimit
             THEN relayAt' = "one" /\ UNCHANGED <<taken, relayed, partial>>
             ELSE /\ taken' = [taken EXCEPT ![d] = last]
                  /\ relayed' = [relayed EXCEPT ![d] = @ \o Positions(taken[d] + 1, last)]
                  /\ partial' = [partial EXCEPT ![d] = IF last \in EndsOf(d) THEN 0 ELSE PartialAfter(d, last)]
                  /\ UNCHANGED relayAt
          /\ UNCHANGED ended
  /\ UNCHANGED <<wire, ocrSide, wrote, ocrGot, passed, gatewayVars>>

(* What is left of the buffer when n bytes of it were written.               *)
AfterWrite(d, n) == Tail2(relayed[d], n)

RelayWrites(d) ==
  /\ Relaying /\ relayTurn.read = {} /\ d \in relayTurn.write /\ (d = "answer" => "ask" \notin relayTurn.write)
  /\ TurnOf("write", d)
  /\ IF TargetClosed(d) THEN relayAt' = "one" /\ UNCHANGED <<relayed, passed>>
     ELSE \E n \in 0..Smaller(Smaller(WriteChunk, Len(relayed[d])), PipeRoom - Len(passed[d])) :
            /\ passed' = [passed EXCEPT ![d] = @ \o SubSeq(relayed[d], 1, n)]
            /\ relayed' = [relayed EXCEPT ![d] = IF n = 0 THEN @ ELSE AfterWrite(d, n)]
            /\ UNCHANGED relayAt
  /\ UNCHANGED <<wire, ocrSide, wrote, ocrGot, taken, partial, ended, gatewayVars>>

-----------------------------------------------------------------------------
(* WireBudget.charge: what is charged stays charged, refused or not.         *)
Charge(n, requests) == [bytes |-> wireBudget.bytes + n, requests |-> wireBudget.requests + requests]
OverBudget(b) == b.bytes > WireBytes \/ b.requests > WireRequests

(* The rest of a chunk up to its next wait: a frame to hand to the session, a *)
(* failure, or nothing but the beginning of a frame.                         *)
Splitting(at, rest, part, why) == [at |-> at, chunk |-> rest, frame |-> part, why |-> why]
Split(c, f) ==
  LET stops == {i \in 1..Len(c) : c[i] \in EndsOf("ask")}
      n     == IF stops = {} THEN Len(c) ELSE Least(stops)
      whole == f \o SubSeq(c, 1, n)
  IN  IF c = <<>> THEN Splitting("reading", <<>>, f, "none")
      ELSE IF Len(whole) > FrameLimit THEN Splitting("failing", <<>>, f, "length")
      ELSE IF stops = {} THEN Splitting("reading", <<>>, whole, "none")
      ELSE IF c[n] \in wire.invalid THEN Splitting("failing", <<>>, whole, "json")
      ELSE Splitting("sending", Tail2(c, n), whole, "none")

(* A notification, or an answer to nothing, is no request.                   *)
Cost(f) == IF f[Len(f)] \in wire.notices THEN 0 ELSE 1

(* read_frames goes on with chunk c; b is the budget after what it cost.     *)
GoesOn(c, f, b) ==
  LET next == Split(c, f)
      paid == IF next.at = "sending" THEN [b EXCEPT !.requests = @ + Cost(next.frame)] ELSE b
      bad  == OverBudget(b) \/ OverBudget(paid)
  IN  /\ wireBudget' = IF OverBudget(b) THEN b ELSE paid
      /\ receiveAt' = IF bad THEN "failing" ELSE next.at
      /\ chunk' = IF bad THEN <<>> ELSE next.chunk
      /\ frame' = next.frame
      /\ trouble' = IF bad THEN "budget" ELSE next.why

GatewayReads ==
  /\ session = "running" /\ receiveAt = "reading" /\ passed["ask"] # <<>>
  /\ \E n \in 1..Smaller(ReadChunk, Len(passed["ask"])) :
       /\ GoesOn(SubSeq(passed["ask"], 1, n), frame, Charge(n, 0))
       /\ passed' = [passed EXCEPT !["ask"] = Tail2(@, n)]
  /\ UNCHANGED <<wire, ocrSide, wrote, ocrGot, relayVars, transmitAt, session, calls, asked, answered>>

(* The stream to the session holds nothing: a message is sent when it is     *)
(* received.                                                                 *)
SessionReceives ==
  /\ session = "running" /\ receiveAt = "sending" /\ transmitAt # "gone"
  /\ calls' = Append(calls, frame) /\ asked' = asked + Cost(frame)
  /\ GoesOn(chunk, <<>>, wireBudget)
  /\ UNCHANGED <<wire, ocrSide, wrote, ocrGot, passed, relayVars, transmitAt, session, answered>>

(* The relay has gone: a frame cut off is an error and no end.               *)
GatewayReadsEnd ==
  /\ session = "running" /\ receiveAt = "reading" /\ passed["ask"] = <<>> /\ ~Relaying
  /\ \/ frame = <<>> /\ receiveAt' = "done" /\ UNCHANGED trouble
     \/ frame # <<>> /\ receiveAt' = "failing" /\ trouble' = "torn"
     \/ taken["answer"] < wrote["answer"] /\ receiveAt' = "failing" /\ trouble' = "reset"
  /\ UNCHANGED <<wire, ocrSide, wrote, ocrGot, passed, relayVars, chunk, frame, transmitAt, wireBudget, session,
                 calls, asked, answered>>

(* receive hands its failure to the session, unless the stream is closed, and *)
(* closes the stream; a transmit that failed closes it too.                  *)
ReceiveEnds ==
  /\ session = "running"
  /\ receiveAt = "failing" \/ (receiveAt = "sending" /\ transmitAt = "gone")
  /\ receiveAt' = "done"
  /\ trouble' = IF trouble = "none" THEN "closed" ELSE trouble
  /\ UNCHANGED <<wire, ocrSide, wrote, ocrGot, passed, relayVars, chunk, frame, transmitAt, wireBudget, session,
                 calls, asked, answered>>

(* The session answers a request, one answer at a time through transmit.     *)
AnswerEnd == wire.answer[answered + 1]
SessionAnswers ==
  /\ session = "running" /\ transmitAt = "waiting" /\ answered < asked /\ answered < Len(wire.answer)
  /\ answered' = answered + 1
  /\ LET n == AnswerEnd - wrote["answer"] IN
       IF n > FrameLimit THEN transmitAt' = "gone" /\ UNCHANGED <<wrote, wireBudget>>
       ELSE /\ wireBudget' = Charge(n, 0)
            /\ IF OverBudget(wireBudget') THEN transmitAt' = "gone" /\ UNCHANGED wrote
               ELSE transmitAt' = "draining" /\ wrote' = [wrote EXCEPT !["answer"] = AnswerEnd]
  /\ UNCHANGED <<wire, ocrSide, ocrGot, passed, relayVars, receiveAt, chunk, frame, session, calls, asked, trouble>>

TransmitDrains ==
  /\ session = "running" /\ transmitAt = "draining"
  /\ \/ wrote["answer"] - taken["answer"] <= PipeRoom /\ transmitAt' = "waiting"
     \/ ~Relaying /\ transmitAt' = "gone"
  /\ UNCHANGED <<wire, ocrSide, wrote, ocrGot, passed, relayVars, receiveAt, chunk, frame, wireBudget, session,
                 calls, asked, answered, trouble>>

(* The session ends with its stream, or is cancelled by the gateway's stop;  *)
(* the connection is closed with it.                                         *)
SessionEnds ==
  /\ session = "running" /\ session' = "ended"
  /\ UNCHANGED <<wire, ocrSide, wrote, ocrGot, passed, relayVars, receiveAt, chunk, frame, transmitAt, wireBudget,
                 calls, asked, answered, trouble>>

(* The traffic with the tool servers is charged to the same budget.          *)
OthersCharge ==
  /\ wire.charges > 0 /\ session = "running"
  /\ wire' = [wire EXCEPT !.charges = @ - 1]
  /\ wireBudget' = Charge(1, 1)
  /\ UNCHANGED <<ocrSide, wrote, ocrGot, passed, relayVars, receiveAt, chunk, frame, transmitAt, session, calls,
                 asked, answered, trouble>>

-----------------------------------------------------------------------------
ByWay(x) == [d \in Ways |-> x]

WireInit ==
  /\ wire \in WireWorlds
  /\ ocrSide = "open" /\ wrote = ByWay(0) /\ ocrGot = <<>> /\ passed = ByWay(<<>>)
  /\ relayAt = "copying" /\ relayTurn = [read |-> {}, write |-> {}] /\ taken = ByWay(0)
  /\ relayed = ByWay(<<>>) /\ partial = ByWay(0) /\ ended = {}
  /\ receiveAt = "reading" /\ chunk = <<>> /\ frame = <<>> /\ transmitAt = "waiting"
  /\ wireBudget = [bytes |-> 0, requests |-> 0]
  /\ session = "running" /\ calls = <<>> /\ asked = 0 /\ answered = 0 /\ trouble = "none"

WireNext ==
  \/ OcrWrites \/ OcrReads \/ OcrCloses
  \/ RelayLooks \/ (\E d \in Ways : RelayReads(d) \/ RelayWrites(d))
  \/ GatewayReads \/ SessionReceives \/ GatewayReadsEnd \/ ReceiveEnds
  \/ SessionAnswers \/ TransmitDrains \/ SessionEnds \/ OthersCharge

-----------------------------------------------------------------------------
(* A call the session receives is one request of OCR, whole and in its turn, *)
(* however the relay and the gateway cut the bytes on their way.             *)
CallsAreWhole == \A i \in DOMAIN calls : calls[i] = Positions(FrameStart("ask", i), wire.ask[i])

(* Nothing is lost, repeated or moved between a source and its target; what  *)
(* a relay that gives up still holds is the last it has read.                *)
NothingMoves ==
  /\ ocrGot \o passed["answer"] = Positions(1, taken["answer"] - Len(relayed["answer"]))
  /\ \A d \in Ways : relayed[d] = Positions(taken[d] - Len(relayed[d]) + 1, taken[d])

(* A relay that exits with zero has delivered everything one side wrote      *)
(* before it closed.                                                         *)
CleanExitDelivers ==
  relayAt = "zero" =>
    \E d \in Ways : SourceClosed(d) /\ taken[d] = wrote[d] /\ relayed[d] = <<>>

(* A request that was cut off never looks like the end of the conversation:  *)
(* the stream ends without an error only behind a whole frame.               *)
EndIsNoCut ==
  receiveAt = "done" /\ trouble = "none" =>
    /\ ~Relaying /\ passed["ask"] = <<>> /\ frame = <<>> /\ chunk = <<>>
    /\ (IF calls = <<>> THEN 0 ELSE wire.ask[Len(calls)]) = taken["ask"] - Len(relayed["ask"])

(* The two ends agree about the length of a frame: what the relay lets pass, *)
(* the gateway does not refuse as too long.                                  *)
LengthsAgree == trouble # "length"

(* No buffer grows beyond its limit, and nothing beyond the budget is handed *)
(* to the session or written for OCR.                                        *)
WireBounds ==
  /\ \A d \in Ways : Len(relayed[d]) <= RelayBuffer
  /\ Len(frame) <= FrameLimit
  /\ asked <= WireRequests
  /\ (IF calls = <<>> THEN 0 ELSE wire.ask[Len(calls)]) + wrote["answer"] <= WireBytes

(* The conversation between OCR and the gateway is safe: calls are whole,    *)
(* bytes keep their order, exits and ends mean what they say, and both limits *)
(* agree.                                                                    *)
FederationWireSafe ==
  CallsAreWhole /\ NothingMoves /\ CleanExitDelivers /\ EndIsNoCut /\ LengthsAgree /\ WireBounds
=============================================================================
