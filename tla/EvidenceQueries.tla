--------------------------- MODULE EvidenceQueries ---------------------------
(***************************************************************************)
(* One evidence server at work (evidence/mcp.py): it reads lines within a    *)
(* byte limit, answers summaries, pages of a listing, single records and     *)
(* searches of an immutable store within another, and counts what it was     *)
(* asked and what it gave.  The client may send lines before it reads the    *)
(* answers, follow a cursor with other page sizes or other filters, and      *)
(* close its end in the middle of a line.                                    *)
(***************************************************************************)
EXTENDS Integers, FiniteSets, FiniteSetsExt, SequencesExt, TLC

CONSTANTS
  Archives,        \* stores a server may hold, and who asks it, see below
  Questions,       \* by client: what it may ask
  PageMax,         \* MAX_PAGE_SIZE
  WordsMax,        \* MAX_SEARCH_QUERY_TOKENS
  RequestLimit,    \* MAX_REQUEST_BYTES
  ResponseLimit, ResponseReserve,  \* MAX_RESPONSE_BYTES and what _text_result keeps of it
  MaxMiscounts     \* bound: receipt writes that fail

ASSUME QueriesAssumption ==
  /\ {PageMax, WordsMax, RequestLimit} \subseteq Nat \ {0}
  /\ ResponseReserve \in Nat /\ ResponseLimit \in Nat /\ ResponseReserve < ResponseLimit
  /\ MaxMiscounts \in Nat

(* An archive: `records`, `coverage` and `deltas` in their public order;      *)
(* `summary` and `quotes`, the size of a summary; `diagram`, that of the       *)
(* diagram's status, 0 without one; `client`, who asks, and                    *)
(* two bounds: how many it asks, and how many before it reads an answer.       *)
(* An item:                                                                    *)
(*   id, kind, component, ref, place   a delta's kind is that of its fact      *)
(*   leaves         the scalars in it: [key, shape, word]                      *)
(*   size, quotes   its text, and what it grows by as a string within JSON     *)
(* A question: `what` is asked, with `filters`, a page or result `size`,       *)
(* `words` and a `target`; its `id` ("none", "plain", "wide"), and the shape   *)
(* of its line: characters, bytes, and whether it ends.                        *)
DeltaKind == "repository.evidence_delta"
CoverageKind == "repository.evidence_coverage"
Unset == "unset"
NoFilters == [kind |-> Unset, deltaKind |-> Unset, component |-> Unset, ref |-> Unset]
FirstPage == [offset |-> 0, key |-> NoFilters]
ToolAction == {"summary", "list", "get", "search", "coverage"}

VARIABLES
  archive,
  serverStep,    \* "unproven", "reading", "skipping" or "refused"
  inbox,         \* lines not yet read to their end: [number, left]
  sent,          \* the lines of the client, in order
  inputOpen,
  queryReplies,       \* what the client received, in order
  attempts, completions, miscounts,  \* the receipt, and its failed writes
  trail          \* the traversal the client follows: [filters, next, got]

queryVars == <<archive, serverStep, inbox, sent, inputOpen, queryReplies, attempts, completions, miscounts, trail>>

Deltas == ToSet(archive.deltas)
Ids(items) == [i \in DOMAIN items |-> items[i].id]
ItemWith(id) == {i \in ToSet(archive.records \o archive.coverage \o archive.deltas) : i.id = id}

-----------------------------------------------------------------------------
(* Filters, cursors and pages (_optional_filter, _Query, _list_records).     *)
FiltersFit(f) ==
  /\ "unsafe" \notin {f.kind, f.deltaKind, f.component}   \* too long, or with control characters
  /\ f.deltaKind # Unset => f.kind = DeltaKind
  /\ f.kind = DeltaKind => f.ref = Unset
  /\ f.ref \in {Unset, "base", "head", "policy", "target", "shared"}
Allows(wanted, value) == wanted \in {Unset, value}

(* Deltas are listed under a kind of their own only, coverage with the records. *)
ListMatch(f, i) ==
  /\ Allows(f.component, i.component)
  /\ IF f.kind = DeltaKind THEN Allows(f.deltaKind, i.kind) ELSE Allows(f.kind, i.kind) /\ Allows(f.ref, i.ref)
ListedItems(f) ==
  SelectSeq(IF f.kind = DeltaKind THEN archive.deltas ELSE archive.records \o archive.coverage,
            LAMBDA i : ListMatch(f, i))

(* A cursor is an offset and the fingerprint of the filters it was made for. *)
EncodeCursor(offset, f) == [offset |-> offset, key |-> f]
CursorOfAnyQuery(c, f) == TRUE                               \* slip
CursorStands(c, f) == c = FirstPage \/ c.key = f
Page(f, c, n) == SubSeq(ListedItems(f), c.offset + 1, Min({c.offset + n, Len(ListedItems(f))}))
NextCursor(f, c, n) ==
  LET next == c.offset + Len(Page(f, c, n))
  IN IF next < Len(ListedItems(f)) THEN EncodeCursor(next, f) ELSE FirstPage

-----------------------------------------------------------------------------
(* Searching (_search_query, _search_scalars, _search_records).  The style of *)
(* a word: "plain", "folded" (other case or width), "operator", "control", or *)
(* "foldedOperator", which is an operator only once it is normalized.         *)
SearchFits(words) ==
  /\ words # <<>> /\ Len(words) <= WordsMax
  /\ \A i \in DOMAIN words :
       words[i].style \in {"plain", "folded"} /\ words[i].text \notin {"and", "or", "not"}
(* What may be found of a value: what stands under an allowed key, alone or   *)
(* in a list, but not in a structure within a list, and no truth value.       *)
SearchKeys(kind) ==
  CASE kind = "dependency" -> {"name", "version"} [] kind = "ci" -> {"image"} [] OTHER -> {"identity"}
SearchFields(i) ==
  {i.kind, i.component, i.place}
  \cup {l.word : l \in {m \in i.leaves : m.key \in SearchKeys(i.kind) /\ m.shape \in {"scalar", "listed"}}}
SearchMatch(f, words, i) ==
  /\ IF i \in Deltas
     THEN f.kind \in {Unset, DeltaKind} /\ Allows(f.deltaKind, i.kind) /\ f.ref = Unset
     ELSE Allows(f.kind, i.kind) /\ Allows(f.ref, i.ref)
  /\ Allows(f.component, i.component)
  /\ \A w \in DOMAIN words : words[w].text \in SearchFields(i)
Found(f, words) == SelectSeq(archive.records \o archive.deltas, LAMBDA i : SearchMatch(f, words, i))

(* Summaries (evidence_summary): records by kind, deltas by that of their fact. *)
ByKind(items) == [k \in {items[i].kind : i \in DOMAIN items} |-> Cardinality({i \in DOMAIN items : items[i].kind = k})]
Summary == [kinds |-> ByKind(archive.records), deltaKinds |-> ByKind(archive.deltas), coverage |-> Len(archive.coverage)]

-----------------------------------------------------------------------------
(* The answer of a tool (call_tool, call_named_tool): its items or counts, a   *)
(* cursor, and its size; refused arguments and oversize texts are answers too. *)
Sizes(items) == FoldSeq(LAMBDA i, n : i.size + n, 0, items)
Quotes(items) == FoldSeq(LAMBDA i, n : i.quotes + n, 0, items)
Given(items, total, next) ==
  [fits |-> TRUE, items |-> items, total |-> total, next |-> next, size |-> Sizes(items), quotes |-> Quotes(items)]
RefusedAnswer == [fits |-> FALSE, items |-> <<>>, total |-> 0, next |-> FirstPage, size |-> 1, quotes |-> 0]
WithinText(answer) == answer.size <= ResponseLimit - ResponseReserve
(* _text_result *)
TextResult(answer) == IF WithinText(answer) THEN answer ELSE RefusedAnswer

SummaryAnswer ==
  [Given(<<>>, Len(archive.records), FirstPage) EXCEPT !.size = archive.summary, !.quotes = archive.quotes]
ListAnswer(f, c, n) ==
  IF FiltersFit(f) /\ n \in 1..PageMax /\ CursorStands(c, f)
  THEN Given(Page(f, c, n), Len(Page(f, c, n)), NextCursor(f, c, n)) ELSE RefusedAnswer
GetAnswer(id) == IF ItemWith(id) = {} THEN RefusedAnswer ELSE Given(SetToSeq(ItemWith(id)), 1, FirstPage)
SearchAnswer(f, words, n) ==
  IF SearchFits(words) /\ FiltersFit(f) /\ n \in 1..PageMax
  THEN LET all == Found(f, words)
           some == SubSeq(all, 1, Min({n, Len(all)}))
       IN [Given(some, Len(all), FirstPage) EXCEPT !.size = Len(some), !.quotes = Len(some)]
  ELSE RefusedAnswer

(* What a coverage query answers is EvidenceCollection's; here it is short.   *)
CoverageAnswer(f) ==
  IF f.kind \notin {Unset, "unsafe"} /\ f.ref \in {"base", "head"} /\ f.component # "unsafe"
  THEN [Given(<<>>, 0, FirstPage) EXCEPT !.size = 1] ELSE RefusedAnswer

ToolAnswer(q) ==
  TextResult(CASE q.what = "summary" -> SummaryAnswer
               [] q.what = "list" -> ListAnswer(q.filters, q.cursor, q.size)
               [] q.what = "get" -> GetAnswer(q.target)
               [] q.what = "search" -> SearchAnswer(q.filters, q.words, q.size)
               [] q.what = "coverage" -> CoverageAnswer(q.filters)
               [] OTHER -> RefusedAnswer)

-----------------------------------------------------------------------------
(* What is written back (handle_request, serve).  A summary carries the status *)
(* of the diagram where text and line have room for it; a line that does not   *)
(* fit becomes an error with the id of the request, or without it.             *)
IdSize(q) == IF q.id = "wide" THEN ResponseLimit ELSE 0
OnWire(answer, q) == answer.size + answer.quotes + IdSize(q)
WithDiagram(answer, q) ==
  LET more == [answer EXCEPT !.size = @ + archive.diagram, !.quotes = @ + archive.diagram]
  IN IF q.what = "summary" /\ answer.fits /\ WithinText(more) /\ OnWire(more, q) <= ResponseLimit
     THEN more ELSE answer
ReplyTo(k, status, answer) ==
  [line |-> k, status |-> status,
   id |-> IF status \in {"tooLong", "unparsed"} \/ (status = "overWire" /\ sent[k].id = "wide") THEN "null" ELSE sent[k].id,
   items |-> IF status = "result" THEN Ids(answer.items) ELSE <<>>,
   total |-> answer.total, next |-> IF status = "result" THEN answer.next ELSE FirstPage]

Status(q, answer) ==
  IF OnWire(answer, q) > ResponseLimit THEN "overWire"
  ELSE IF q.what \in {"ping", "initialize", "tools"} THEN "protocol"
  ELSE IF q.what \in {"badParams", "badMethod"} THEN "rpcError"
  ELSE IF answer.fits THEN "result" ELSE "refused"
Silent(q) == q.id = "none" /\ q.what # "garbage"
Reply(k) ==
  LET q == sent[k]
      answer == WithDiagram(ToolAnswer(q), q)
  IN IF q.what = "garbage" THEN <<ReplyTo(k, "unparsed", RefusedAnswer)>>
     ELSE IF Silent(q) THEN <<>>
     ELSE <<ReplyTo(k, Status(q, answer), answer)>>

-----------------------------------------------------------------------------
QueriesInit ==
  /\ archive \in Archives
  /\ serverStep = "unproven" /\ inbox = <<>> /\ sent = <<>> /\ inputOpen = TRUE /\ queryReplies = <<>>
  /\ attempts = [a \in ToolAction \cup {"unattributed"} |-> 0]
  /\ completions = [a \in ToolAction |-> 0] /\ miscounts = 0
  /\ trail = [filters |-> NoFilters, next |-> FirstPage, got |-> <<>>, under |-> FALSE]

(* Before OCR starts the runner asks for a summary, the first record of the   *)
(* head, and that record by its id (_verify_evidence_mcp).                    *)
HeadFirst == ListAnswer([NoFilters EXCEPT !.ref = "head"], FirstPage, 1)
SelfQuery ==
  /\ serverStep = "unproven"
  /\ serverStep' = IF /\ WithinText(SummaryAnswer) /\ WithinText(HeadFirst)
                      /\ \A i \in ToSet(HeadFirst.items) : TextResult(GetAnswer(i.id)).fits
                   THEN "reading" ELSE "refused"
  /\ UNCHANGED <<archive, inbox, sent, inputOpen, queryReplies, attempts, completions, miscounts, trail>>

(* The client: a question, a listing with any cursor it was given.            *)
Send(q, c) ==
  /\ serverStep \in {"reading", "skipping"} /\ inputOpen
  /\ Len(sent) < archive.questions /\ Len(inbox) < archive.ahead
  /\ c = FirstPage \/ (q.what = "list" /\ \E i \in DOMAIN queryReplies : queryReplies[i].next = c)
  /\ sent' = Append(sent, q @@ [cursor |-> c]) /\ inputOpen' = q.ends
  /\ inbox' = Append(inbox, [number |-> Len(sent) + 1, left |-> q.chars])
  /\ UNCHANGED <<archive, serverStep, queryReplies, attempts, completions, miscounts, trail>>

(* What the client has of the traversal it follows.                           *)
Followed(q, reply) ==
  IF q.what # "list" \/ reply.status # "result" THEN trail
  ELSE IF q.cursor = FirstPage
       THEN [filters |-> q.filters, next |-> reply.next, got |-> reply.items, under |-> TRUE]
  ELSE IF trail.under /\ q.cursor = trail.next
       THEN [trail EXCEPT !.next = reply.next, !.got = @ \o reply.items]
  ELSE trail
ClientReceives(k, new) ==
  /\ queryReplies' = queryReplies \o new
  /\ trail' = IF new = <<>> THEN trail ELSE Followed(sent[k], new[1])

(* The receipt: an attempt before the tool is called, under its action or as   *)
(* unattributed, and a completion after it gave a result; each write may fail, *)
(* and without the first there is no second.                                   *)
Bucket(q) == IF q.what \in ToolAction THEN q.what ELSE "unattributed"
CountsCall(q) ==
  \E tried, done \in BOOLEAN :
    LET completes == q.what \in ToolAction /\ tried /\ ToolAnswer(q).fits
        counted == q.what \in ToolAction \cup {"badAction"}
        failures == (IF counted /\ ~tried THEN 1 ELSE 0) + (IF completes /\ ~done THEN 1 ELSE 0)
    IN /\ (~counted => tried) /\ (~completes => done)
       /\ miscounts + failures <= MaxMiscounts /\ miscounts' = miscounts + failures
       /\ attempts' = IF counted /\ tried THEN [attempts EXCEPT ![Bucket(q)] = @ + 1] ELSE attempts
       /\ completions' = IF completes /\ done THEN [completions EXCEPT ![q.what] = @ + 1] ELSE completions

(* A line is read in pieces of at most RequestLimit + 2 characters            *)
(* (_bounded_lines): what does not end in the first or has too many bytes is  *)
(* answered as too long, and its other pieces are skipped.                    *)
Piece == RequestLimit + 2
Consumed(lines) ==
  IF lines[1].left > Piece THEN [lines EXCEPT ![1].left = @ - Piece] ELSE Tail(lines)
MoreToSkip(lines) == lines[1].left > Piece
EndsInPiece(line) == sent[line.number].ends /\ line.left <= Piece
ReadLine ==
  /\ serverStep = "reading" /\ inbox # <<>>
  /\ LET k == inbox[1].number
     IN IF EndsInPiece(inbox[1]) /\ sent[k].bytes <= RequestLimit
        THEN CountsCall(sent[k]) /\ ClientReceives(k, Reply(k)) /\ serverStep' = "reading"
        ELSE /\ ClientReceives(k, <<ReplyTo(k, "tooLong", RefusedAnswer)>>)
             /\ serverStep' = IF MoreToSkip(inbox) THEN "skipping" ELSE "reading"
             /\ UNCHANGED <<attempts, completions, miscounts>>
  /\ inbox' = Consumed(inbox)
  /\ UNCHANGED <<archive, sent, inputOpen>>
SkipPiece ==
  /\ serverStep = "skipping" /\ inbox # <<>>
  /\ serverStep' = IF MoreToSkip(inbox) THEN "skipping" ELSE "reading"
  /\ inbox' = Consumed(inbox)
  /\ UNCHANGED <<archive, sent, inputOpen, queryReplies, attempts, completions, miscounts, trail>>

QueriesNext ==
  \/ SelfQuery
  \/ (\E q \in Questions[archive.client], c \in {FirstPage} \cup {queryReplies[i].next : i \in DOMAIN queryReplies} : Send(q, c))
  \/ ReadLine \/ SkipPiece
QueriesSpec == QueriesInit /\ [][QueriesNext]_queryVars

-----------------------------------------------------------------------------
ReadLines == Len(sent) - Len(inbox) + (IF serverStep = "skipping" /\ inbox # <<>> THEN 1 ELSE 0)
Proper(q) == q.ends /\ q.chars <= Piece /\ q.bytes <= RequestLimit

(* Every line is answered once and in its order, under its own id: what is    *)
(* too long costs the client that line and no other (_bounded_lines, serve).  *)
RepliesMatchLines ==
  /\ [i \in DOMAIN queryReplies |-> queryReplies[i].line]
       = SelectSeq([k \in 1..ReadLines |-> k], LAMBDA k : ~Proper(sent[k]) \/ ~Silent(sent[k]))
  /\ \A i \in DOMAIN queryReplies :
       LET q == sent[queryReplies[i].line]
       IN IF Proper(q) /\ q.what # "garbage" THEN queryReplies[i].id \in {q.id} \cup (IF q.id = "wide" THEN {"null"} ELSE {})
          ELSE queryReplies[i].id = "null"

(* Who follows the cursor of a listing, with whatever page sizes, and offers   *)
(* it to whatever other listing in between, gets the listed items in order     *)
(* and each once; where there is no further cursor, all of them.               *)
ListingIsWhole ==
  trail.under =>
    /\ IsPrefix(trail.got, Ids(ListedItems(trail.filters)))
    /\ trail.next = FirstPage => trail.got = Ids(ListedItems(trail.filters))

(* The tools agree: a whole listing of a kind has as many items as the         *)
(* summary counts, and those of it that contain the words are what a search    *)
(* under the same filters finds, or counts where it does not name them.        *)
ToolsAgree ==
  trail.under /\ trail.next = FirstPage =>
    /\ \A k \in DOMAIN Summary.kinds : trail.filters = [NoFilters EXCEPT !.kind = k] => Len(trail.got) = Summary.kinds[k]
    /\ \A k \in DOMAIN Summary.deltaKinds :
         trail.filters = [NoFilters EXCEPT !.kind = DeltaKind, !.deltaKind = k] => Len(trail.got) = Summary.deltaKinds[k]
    /\ trail.filters = [NoFilters EXCEPT !.kind = CoverageKind] => Len(trail.got) = Summary.coverage
    /\ \A i \in DOMAIN queryReplies :
         LET q == sent[queryReplies[i].line]
             hits == SelectSeq(trail.got, LAMBDA id : \A j \in ItemWith(id), w \in DOMAIN q.words :
                                                         q.words[w].text \in SearchFields(j))
         IN /\ q.what = "search" /\ queryReplies[i].status = "result" /\ q.filters = trail.filters
            /\ trail.filters.kind \notin {Unset, CoverageKind}
            => queryReplies[i].total = Len(hits) /\ queryReplies[i].items = SubSeq(hits, 1, Min({q.size, Len(hits)}))

(* An item the client has been shown in a listing can be asked for; one that   *)
(* a search named can, unless its text alone is over the limit.                *)
ShownCanBeAsked ==
  \A i, j \in DOMAIN queryReplies :
    LET shown == sent[queryReplies[i].line]
        asked == sent[queryReplies[j].line]
    IN /\ asked.what = "get" /\ queryReplies[j].status \in {"refused", "overWire"} /\ asked.id # "wide"
       /\ \E n \in DOMAIN queryReplies[i].items : queryReplies[i].items[n] = asked.target
       => shown.what # "list" /\ \E item \in ItemWith(asked.target) : item.size + item.quotes > ResponseLimit - ResponseReserve

(* What is counted as completed was answered with a result, except that the    *)
(* line of the answer may not fit where its text did, and that a call without   *)
(* an id is carried out and not answered.                                      *)
CompletedWasSaid ==
  \A a \in ToolAction :
    completions[a] <= Cardinality({i \in DOMAIN queryReplies :
                          sent[queryReplies[i].line].what = a /\ queryReplies[i].status \in {"result", "overWire"}})
                      + Cardinality({k \in 1..ReadLines : sent[k].what = a /\ Silent(sent[k])})

(* A review starts only with a server that can answer the mandatory summary:   *)
(* the runner has asked for it.  Only the line may still be too long.          *)
SummaryIsServed ==
  \A i \in DOMAIN queryReplies :
    sent[queryReplies[i].line].what = "summary" => queryReplies[i].status \in {"result", "overWire", "tooLong"}

EvidenceQueriesSafe ==
  /\ RepliesMatchLines /\ ListingIsWhole /\ ToolsAgree /\ ShownCanBeAsked /\ CompletedWasSaid /\ SummaryIsServed
=============================================================================
