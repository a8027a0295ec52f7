--------------------------- MODULE SourceExcerpts ---------------------------
(* The one session in which the text of the reviewed head is read: entries    *)
(* are looked up and their spans gathered before the first object is          *)
(* streamed, an object is charged and streamed once whatever paths share it,  *)
(* and of the stream only the requested spans are kept, within budgets.       *)
(* evidence/source_reader.py, text_excerpts.py, text_metadata.py.             *)
EXTENDS SourceText

CONSTANTS
    SourceWorlds,   \* [files, texts, plan, maxFile, maxTotal, syntax, syntaxChars]
    SyntaxFiles,    \* MAX_SYNTAX_CACHE_FILES
    MaxHitches,     \* bound: Git commands that fail
    MaxAnswers      \* bound: different answers

\* a session refuses malformed requests before it touches the repository
ValidRequests(w) ==
    /\ w.maxFile \in Nat /\ w.maxTotal \in Nat
    /\ \A i, j \in DOMAIN w.plan : w.plan[i].path = w.plan[j].path => i = j
    /\ \A i \in DOMAIN w.plan : \A s \in w.plan[i].spans : ValidSpan(s)
ASSUME RequestsAreValid == \A w \in SourceWorlds : ValidRequests(w)

VARIABLES
    reading,     \* the world: what the head holds and what was requested
    readStep,    \* where the session is
    wanted,      \* <<path, span>>: the question being answered
    planned,     \* requests whose entry has been looked up, -1 before the repository is opened
    broken,      \* why no read can succeed, "none"
    entryAt,     \* path -> blob or reason, for each path looked up
    spansOf,     \* blob -> spans gathered for it
    objectRead,  \* blob -> reason, for each object read or refused
    pieces,      \* blob -> span -> excerpt
    syntaxKept,  \* blobs whose whole text is kept, least recently used first
    charged, kept,   \* bytes of objects read, bytes of excerpts retained
    late,        \* the session's deadline has passed
    hitches, stream, answers

sourceVars == <<reading, readStep, wanted, planned, broken, entryAt, spansOf, objectRead, pieces, syntaxKept,
                charged, kept, late, hitches, stream, answers>>

-----------------------------------------------------------------------------
(* TextExcerptCapture. A capture is [text, limited]; c also holds the budget. *)
RanksBefore(s, t) == s[1] < t[1] \/ (s[1] = t[1] /\ s[2] < t[2])
Ranked(spans) ==
    [k \in 1..Cardinality(spans) |-> CHOOSE s \in spans : Cardinality({t \in spans : RanksBefore(t, s)}) = k - 1]
HighestRank(spans) == CHOOSE s \in spans : \A t \in spans \ {s} : RanksBefore(t, s)

NewCapture(spans, budget) ==
    [parts |-> [s \in spans |-> [text |-> <<>>, limited |-> FALSE]], used |-> 0, budget |-> budget]
TextIn(c, s) == c.parts[s].text

\* _discard: what the capture held is given back
DropCapture(c, s) ==
    [c EXCEPT !.parts[s] = [text |-> <<>>, limited |-> TRUE], !.used = @ - SizeOf(TextIn(c, s))]

\* _retain
Retain(c, s, text) == [c EXCEPT !.parts[s].text = @ \o text, !.used = @ + SizeOf(text)]

\* lower-priority active captures go first, the capture itself last
RECURSIVE MakeRoom(_, _, _, _)
MakeRoom(c, active, s, size) ==
    IF c.parts[s].limited \/ size <= c.budget - c.used THEN c
    ELSE LET victim == HighestRank({t \in active : ~c.parts[t].limited})
         IN  MakeRoom(DropCapture(c, victim), active, s, size)

\* one source character at a limit, every active capture in its rank
OneCharacter(c, active, character) ==
    LET size == WidthOf(character)
        Offer(d, s) ==
            IF d.parts[s].limited THEN d
            ELSE IF Len(TextIn(d, s)) = ExcerptSourceChars \/ size > ExcerptBytes - SizeOf(TextIn(d, s))
                 THEN DropCapture(d, s)
            ELSE LET roomy == MakeRoom(d, active, s, size)
                 IN  IF roomy.parts[s].limited THEN roomy ELSE Retain(roomy, s, <<character>>)
    IN  FoldLeft(Offer, c, Ranked(active))

\* the longest prefix that no capture's own limit and no share of the budget can refuse
SafePrefix(c, active, text) ==
    LET chars == LeastOf({ExcerptSourceChars - Len(TextIn(c, s)) : s \in active})
        room == LeastOf({(c.budget - c.used) \div Cardinality(active)}
                        \cup {ExcerptBytes - SizeOf(TextIn(c, s)) : s \in active})
    IN  CHOOSE n \in 0..Len(text) :
            /\ n <= chars /\ SizeOf(SubSeq(text, 1, n)) <= room
            /\ n < Len(text) => n + 1 > chars \/ SizeOf(SubSeq(text, 1, n + 1)) > room

\* _append: batches of safe prefixes, and single characters between them
RECURSIVE AppendText(_, _, _)
AppendText(c, active, text) ==
    IF active = {} \/ text = <<>> THEN c
    ELSE LET n == SafePrefix(c, active, text)
             batched == FoldLeft(LAMBDA d, s : Retain(d, s, SubSeq(text, 1, n)), c, Ranked(active))
             one == OneCharacter(batched, active, text[n + 1])
         IN  IF n = Len(text) THEN batched
             ELSE AppendText(one, {s \in active : ~one.parts[s].limited}, SubSeq(text, n + 2, Len(text)))

\* the half-open interval of a chunk that belongs to a span (feed)
IntervalOf(text, first, span) ==
    LET starts == <<0>> \o [k \in 1..Cardinality(Breaks(text)) |->
                      CHOOSE i \in Breaks(text) : Cardinality({j \in Breaks(text) : j < i}) = k - 1]
        last == first + Cardinality(Breaks(text))
        from == starts[(IF span[1] > first THEN span[1] - first ELSE 0) + 1]
        to == IF span[2] < last THEN starts[span[2] - first + 2] - 1 ELSE Len(text)
    IN  IF span[2] < first \/ span[1] > last THEN <<0, 0>> ELSE <<from, to>>

\* feed: the chunk is cut where a span opens or closes, each piece has its active captures
Feed(c, text, first) ==
    LET open == {s \in DOMAIN c.parts : ~c.parts[s].limited}
        live == {p \in {<<s, IntervalOf(text, first, s)>> : s \in open} : p[2][1] < p[2][2]}
        cuts == UNION {{p[2][1], p[2][2]} : p \in live}
        Segment(d, k) ==
            LET from == CHOOSE p \in cuts : Cardinality({q \in cuts : q < p}) = k - 1
                to == LeastOf({p \in cuts : p > from})
                active == {p[1] : p \in {q \in live : q[2][1] <= from /\ to <= q[2][2] /\ ~d.parts[q[1]].limited}}
            IN  AppendText(d, active, SubSeq(text, from + 1, to))
    IN  FoldLeft(Segment, c, [k \in 1..(Cardinality(cuts) - 1) |-> k])

\* finish: a span past the end is "range", one over a limit "limit"
Finish(c, lines) ==
    [s \in DOMAIN c.parts |->
        IF s[2] > lines THEN Excerpt(NoText, "range")
        ELSE IF c.parts[s].limited \/ Len(Normalized(TextIn(c, s))) > ExcerptChars THEN Excerpt(NoText, "limit")
        ELSE Excerpt(TextIn(c, s), "none")]

-----------------------------------------------------------------------------
(* consume_text_metadata: one object from one Git process, in any chunks.     *)
NoStream == [blob |-> "none"]
TextOf(blob) == reading.texts[blob]
Streaming(blob, peer) ==
    [blob |-> blob, peer |-> peer, received |-> 0, source |-> <<>>,
     sourceLimit |-> IF reading.syntax /\ blob \in DOMAIN spansOf THEN reading.syntaxChars ELSE 0,
     c |-> NewCapture(IF blob \in DOMAIN spansOf THEN spansOf[blob] ELSE {}, reading.maxTotal - kept)]

\* what a Git process may send: the object, less of it, or something else
PeerTexts(blob) ==
    {TextOf(blob)}
    \cup (IF hitches < MaxHitches /\ TextOf(blob) # <<>>
          THEN {Front(TextOf(blob)), Append(TextOf(blob), "a"),
                [TextOf(blob) EXCEPT ![1] = IF @ = "b" THEN "a" ELSE "b"]} ELSE {})

\* the incremental decoder: characters whose last byte has arrived
Decoded(text, received) ==
    Cardinality({n \in DOMAIN text : SizeOf(SubSeq(text, 1, n)) <= received})

\* the object's text is kept whole while it fits
GrowSource(source, limit, text) ==
    IF source = NoText \/ Len(source) + Len(text) > limit THEN NoText ELSE source \o text

ReadEnds(blob, reason) ==
    /\ objectRead' = (blob :> reason) @@ objectRead
    /\ stream' = NoStream
    /\ readStep' = "answer"

Receives ==
    /\ readStep = "stream" /\ ~late
    /\ \E n \in (stream.received + 1)..SizeOf(stream.peer) :
          LET before == Decoded(stream.peer, stream.received)
              text == SubSeq(stream.peer, before + 1, Decoded(stream.peer, n))
              first == 1 + Cardinality(Breaks(SubSeq(stream.peer, 1, before)))
          IN  IF n > SizeOf(TextOf(stream.blob)) THEN ReadEnds(stream.blob, "unavailable")
              ELSE IF \E i \in DOMAIN text : text[i] = "x" THEN ReadEnds(stream.blob, "invalid-source")
              ELSE /\ stream' = [stream EXCEPT !.received = n, !.c = Feed(@, text, first),
                                    !.source = GrowSource(@, stream.sourceLimit, text)]
                   /\ UNCHANGED <<readStep, objectRead>>
    /\ UNCHANGED <<reading, wanted, planned, broken, entryAt, spansOf, pieces, syntaxKept, charged, kept, late,
                   hitches, answers>>

\* the least recently used whole texts are dropped, excerpts never
KeepSyntax(blob, source) ==
    LET all == Append(syntaxKept, [blob |-> blob, text |-> source])
    IN  IF source = NoText THEN syntaxKept
        ELSE IF Len(all) > SyntaxFiles THEN Tail(all) ELSE all

\* the stream ends: only the complete object with the right identity counts
StreamEnds ==
    /\ readStep = "stream" /\ ~late /\ stream.received = SizeOf(stream.peer)
    /\ IF stream.peer # TextOf(stream.blob)
       THEN /\ ReadEnds(stream.blob, "unavailable")
            /\ UNCHANGED <<pieces, syntaxKept, kept>>
       ELSE LET found == Finish(stream.c, LineCount(stream.peer))
            IN  /\ ReadEnds(stream.blob, "none")
                /\ pieces' = (stream.blob :> found) @@ pieces
                /\ kept' = kept + FoldLeft(LAMBDA n, s : n + IF found[s].reason = "none" THEN SizeOf(found[s].text) ELSE 0,
                                           0, Ranked(DOMAIN found))
                /\ syntaxKept' = KeepSyntax(stream.blob, IF stream.sourceLimit = 0 THEN NoText ELSE stream.source)
    /\ UNCHANGED <<reading, wanted, planned, broken, entryAt, spansOf, charged, late, hitches, answers>>

StreamTimesOut ==
    /\ readStep = "stream" /\ late
    /\ ReadEnds(stream.blob, "budget")
    /\ UNCHANGED <<reading, wanted, planned, broken, entryAt, spansOf, pieces, syntaxKept, charged, kept, late,
                   hitches, answers>>

-----------------------------------------------------------------------------
(* SourceReadSession.                                                         *)
SourceReasons == {"missing-source", "source-limit", "budget", "invalid-source", "unavailable"}
HeadEntry(path) ==
    IF path \in DOMAIN reading.files /\ reading.files[path].regular THEN reading.files[path].blob
    ELSE "missing-source"

Asks ==
    /\ readStep = "idle" /\ Cardinality(answers) < MaxAnswers
    /\ \E i \in DOMAIN reading.plan : \E s \in (IF reading.plan[i].spans = {} THEN {<<1, 1>>} ELSE reading.plan[i].spans) :
          wanted' = <<reading.plan[i].path, s>>
    /\ readStep' = IF broken # "none" THEN "answer" ELSE IF planned = -1 THEN "open" ELSE "lookup"
    /\ UNCHANGED <<reading, planned, broken, entryAt, spansOf, objectRead, pieces, syntaxKept, charged, kept,
                   late, hitches, stream, answers>>

DeadlinePasses ==
    /\ ~late /\ (readStep # "idle" \/ planned # -1)
    /\ late' = TRUE
    /\ UNCHANGED <<reading, readStep, wanted, planned, broken, entryAt, spansOf, objectRead, pieces,
                   syntaxKept, charged, kept, hitches, stream, answers>>

\* a Git command ends at the session's deadline, whatever the command was still doing
GitFailure == IF late THEN "budget" ELSE "unavailable"

\* the first read opens the repository; when that fails, so does every later read
OpensReader ==
    /\ readStep = "open"
    /\ \/ /\ ~late
          /\ planned' = 0 /\ readStep' = "plan"
          /\ UNCHANGED <<broken, hitches>>
       \/ /\ late \/ hitches < MaxHitches
          /\ broken' = GitFailure
          /\ hitches' = IF late THEN hitches ELSE hitches + 1
          /\ readStep' = "answer"
          /\ UNCHANGED planned
    /\ UNCHANGED <<reading, wanted, entryAt, spansOf, objectRead, pieces, syntaxKept, charged, kept,
                   late, stream, answers>>

\* _lookup: the entry of a path is asked for once, whatever the answer
Looked(path, entry, fails) ==
    /\ IF path \in DOMAIN entryAt THEN entry = entryAt[path] /\ ~fails
       ELSE IF late THEN entry = "budget" /\ ~fails
       ELSE \/ entry = HeadEntry(path) /\ ~fails
            \/ hitches < MaxHitches /\ fails /\ entry \in {"missing-source", "unavailable"}
    /\ entryAt' = (path :> entry) @@ entryAt
    /\ hitches' = IF fails THEN hitches + 1 ELSE hitches

LookupOutcomes == DOMAIN reading.texts \cup SourceReasons

\* slip: the spans of a path are gathered only while its object has not been read
SpansWhenAsked(entry, path, spans) ==
    IF path # wanted[1] THEN spansOf
    ELSE (entry :> (spans \cup IF entry \in DOMAIN spansOf THEN spansOf[entry] ELSE {})) @@ spansOf

\* the spans of every path that shows the object are gathered before any is read
Gathered(entry, path, spans) ==
    (entry :> (spans \cup IF entry \in DOMAIN spansOf THEN spansOf[entry] ELSE {})) @@ spansOf

\* _prepare
Plans ==
    /\ readStep = "plan" /\ planned < Len(reading.plan)
    /\ LET request == reading.plan[planned + 1]
       IN  \E entry \in LookupOutcomes, fails \in BOOLEAN :
              /\ Looked(request.path, entry, fails)
              /\ spansOf' = IF entry \in SourceReasons \/ request.spans = {} THEN spansOf
                            ELSE Gathered(entry, request.path, request.spans)
    /\ planned' = planned + 1
    /\ UNCHANGED <<reading, readStep, wanted, broken, objectRead, pieces, syntaxKept, charged, kept, late,
                   stream, answers>>

Planned ==
    /\ readStep = "plan" /\ planned = Len(reading.plan)
    /\ readStep' = "lookup"
    /\ UNCHANGED <<reading, wanted, planned, broken, entryAt, spansOf, objectRead, pieces, syntaxKept,
                   charged, kept, late, hitches, stream, answers>>

LooksUp ==
    /\ readStep = "lookup"
    /\ \E entry \in LookupOutcomes, fails \in BOOLEAN :
          /\ Looked(wanted[1], entry, fails)
          /\ readStep' = IF entry \in SourceReasons \/ entry \in DOMAIN objectRead THEN "answer" ELSE "size"
    /\ UNCHANGED <<reading, wanted, planned, broken, spansOf, objectRead, pieces, syntaxKept, charged, kept,
                   late, stream, answers>>

\* _read: the object is measured and charged before any of it is read
Charges ==
    /\ readStep = "size"
    /\ LET blob == entryAt[wanted[1]]
           size == SizeOf(TextOf(blob))
       IN  \/ /\ late \/ hitches < MaxHitches
              /\ ReadEnds(blob, GitFailure)
              /\ hitches' = IF late THEN hitches ELSE hitches + 1
              /\ UNCHANGED charged
           \/ /\ ~late /\ (size > reading.maxFile \/ size > reading.maxTotal - charged)
              /\ ReadEnds(blob, IF size > reading.maxFile THEN "source-limit" ELSE "budget")
              /\ UNCHANGED <<charged, hitches>>
           \/ /\ ~late /\ size <= reading.maxFile /\ size <= reading.maxTotal - charged
              /\ charged' = charged + size
              /\ \E peer \in PeerTexts(blob) :
                    /\ stream' = Streaming(blob, peer)
                    /\ hitches' = IF peer = TextOf(blob) THEN hitches ELSE hitches + 1
              /\ readStep' = "stream"
              /\ UNCHANGED objectRead
    /\ UNCHANGED <<reading, wanted, planned, broken, entryAt, spansOf, pieces, syntaxKept, kept, late, answers>>

\* read_excerpt: the planned span of the object, and its whole text while that is kept
AnswerOf(path, span) ==
    LET entry == entryAt[path]
        reason == IF broken # "none" THEN broken ELSE IF entry \in SourceReasons THEN entry ELSE objectRead[entry]
        held == {i \in DOMAIN syntaxKept : syntaxKept[i].blob = entry}
    IN  [path |-> path, span |-> span, reason |-> reason,
         excerpt |-> IF reason = "none" /\ span \in DOMAIN pieces[entry] THEN pieces[entry][span]
                     ELSE Excerpt(NoText, "absent"),
         whole |-> IF reason = "none" /\ held # {} THEN syntaxKept[CHOOSE i \in held : TRUE].text ELSE NoText]

\* a whole text that is used becomes the most recent one
UsedLast(blob) ==
    SelectSeq(syntaxKept, LAMBDA k : k.blob # blob) \o SelectSeq(syntaxKept, LAMBDA k : k.blob = blob)

Answers ==
    /\ readStep = "answer"
    /\ answers' = answers \cup {AnswerOf(wanted[1], wanted[2])}
    /\ syntaxKept' = IF broken # "none" THEN syntaxKept ELSE UsedLast(entryAt[wanted[1]])
    /\ readStep' = "idle"
    /\ UNCHANGED <<reading, wanted, planned, broken, entryAt, spansOf, objectRead, pieces, charged, kept,
                   late, hitches, stream>>

SourceNext ==
    \/ Asks \/ DeadlinePasses \/ OpensReader \/ Plans \/ Planned \/ LooksUp \/ Charges
    \/ Receives \/ StreamEnds \/ StreamTimesOut \/ Answers

SourceInit ==
    /\ reading \in SourceWorlds
    /\ readStep = "idle" /\ wanted = <<>> /\ planned = -1 /\ broken = "none"
    /\ entryAt = <<>> /\ spansOf = <<>> /\ objectRead = <<>> /\ pieces = <<>> /\ syntaxKept = <<>>
    /\ charged = 0 /\ kept = 0 /\ late = FALSE /\ hitches = 0 /\ stream = NoStream /\ answers = {}

-----------------------------------------------------------------------------
(* What the session promises.                                                 *)

\* One character at a time, in the text's own order: no chunks and no batches.
CharByChar(blob, text, budget) ==
    LET spans == DOMAIN stream.c.parts
        Step(c, i) ==
            OneCharacter(c, {s \in spans : InSpan(text, i, s) /\ ~c.parts[s].limited}, text[i])
    IN  FoldLeft(Step, NewCapture(spans, budget), [i \in DOMAIN text |-> i])

\* What is kept of a stream depends on what has been decoded of it and not on how
\* the pipe cut it into chunks, nor on how much of it was allocated in one batch
\* (text_excerpts.py:134 "allocation cannot depend on OS pipe boundaries").
ChunksAreInvisible ==
    stream # NoStream =>
        LET text == SubSeq(stream.peer, 1, Decoded(stream.peer, stream.received))
        IN  /\ stream.c = CharByChar(stream.blob, text, reading.maxTotal - kept)
            /\ stream.c.used <= stream.c.budget

\* An excerpt is exactly the addressed lines of the object the path has at the head,
\* as a reader of the complete text would select them; "range" says the text is
\* shorter; whatever Git sent instead never becomes an excerpt or a whole text.
ExcerptsAreSource ==
    \A a \in answers :
        a.reason = "none" =>
            LET text == TextOf(reading.files[a.path].blob)
                alone == ExcerptFromLines(text, a.span)
            IN  /\ a.excerpt.reason \in {"none", "range"} => a.excerpt = alone
                /\ a.excerpt.reason = "limit" => alone.reason # "range"
                /\ a.whole \in {NoText, text}

\* A span refused by the shared budget did not fit beside the spans that were
\* gathered for the same object and outrank it or end before it. A span that was
\* too long by itself and ended before this one began holds nothing: what is
\* discarded gives its bytes back, and later spans never displace earlier ones.
LimitsAreEarned ==
    \A blob \in DOMAIN pieces : \A s \in DOMAIN pieces[blob] :
        LET text == TextOf(blob)
            Holds(t) == t[2] >= s[1] \/ (Len(LinesOf(text, t)) <= ExcerptSourceChars
                                         /\ SizeOf(LinesOf(text, t)) <= ExcerptBytes)
            rivals == {t \in DOMAIN pieces[blob] \ {s} : (RanksBefore(t, s) \/ t[2] < s[2]) /\ Holds(t)}
            wants == FoldLeft(LAMBDA n, t : n + SizeOf(LinesOf(text, t)), 0, Ranked(rivals \cup {s}))
            before == kept - FoldLeft(LAMBDA n, t : n + IF pieces[blob][t].reason = "none"
                                                         THEN SizeOf(pieces[blob][t].text) ELSE 0,
                                      0, Ranked(DOMAIN pieces[blob]))
        IN  pieces[blob][s].reason = "limit" /\ ExcerptFromLines(text, s).reason = "none" =>
                wants > reading.maxTotal - before

\* A span requested for a path is answered whichever alias of its object was read
\* first: once the object is read, no requested span of it is missing.
AliasesAreServed ==
    \A a \in answers :
        a.reason = "none"
            /\ (\E i \in DOMAIN reading.plan : reading.plan[i].path = a.path /\ a.span \in reading.plan[i].spans)
        => a.excerpt.reason # "absent"

\* No object is charged or streamed a second time, also after a failure, and
\* neither sum exceeds the session's total.
ChargedOnce ==
    LET started == DOMAIN objectRead \cup (IF stream = NoStream THEN {} ELSE {stream.blob})
        Bytes(blobs) == SizeOf(FoldLeft(LAMBDA t, b : t \o TextOf(b), <<>>, SetToSeq(blobs)))
    IN  /\ charged <= Bytes(started) /\ charged <= reading.maxTotal
        /\ kept <= reading.maxTotal

\* The same question has the same answer for the whole session, but for the whole
\* text, which only a bounded number of objects keep.
AnswersStand ==
    /\ \A a, b \in answers :
          a.path = b.path /\ a.span = b.span => a.reason = b.reason /\ a.excerpt = b.excerpt
    /\ Len(syntaxKept) <= SyntaxFiles

SourceExcerptsSafe ==
    /\ ChunksAreInvisible /\ ExcerptsAreSource /\ LimitsAreEarned /\ AliasesAreServed
    /\ ChargedOnce /\ AnswersStand
=============================================================================
