--------------------------- MODULE FindingPlacement ---------------------------
(* Where a finding of the review is shown: at the line it names, at the one    *)
(* changed line its quoted code is found on, or in a fallback note; and when a *)
(* replacement may be offered as an applicable suggestion.                     *)
(* posting/workflow.py, suggestions.py, source_suggestions.py, formatting.py,  *)
(* payloads.py.                                                                *)
EXTENDS SourceText

CONSTANTS
    Placements,      \* [findings, refs, paths, texts, changed]
    MaxRemapPaths,   \* MAX_CROSS_FILE_REMAP_PATHS
    MaxGitFaults,    \* bound: Git commands that fail
    InlineLimit,     \* MAX_INLINE_NOTE_CHARS, less the markers
    ChunkBudget,     \* FALLBACK_NOTE_CHUNK_BUDGET
    NoteLimit        \* MAX_NOTE_CHARS, less the markers and the title of a fallback note

VARIABLES
    job,        \* the findings, the head and the diff
    placing,    \* "locate", "place", "fallback", "done" or "stopped"
    turn,       \* the finding or chunk being handled
    gitReads,   \* <<what, path>> -> TRUE when the cached read succeeded
    located,    \* the findings, with the positions that were found for them
    requested,  \* <<path, span>> the one source session was planned for
    failed,     \* <<finding, decision>> for the fallback notes
    notes       \* what was posted, in order

placementVars == <<job, placing, turn, gitReads, located, requested, failed, notes>>

-----------------------------------------------------------------------------
(* Positions a finding names. A number that cannot be parsed is 0, an absent   *)
(* one Absent.                                                                 *)
Absent == -1
Positive(n) == IF n > 0 THEN n ELSE 0

\* comment_line: the first usable one of start_line, line, end_line
CommentLine(f) ==
    IF f.start > 0 THEN f.start ELSE IF f.line > 0 THEN f.line ELSE Positive(f.end)

\* bounded_source_range
SourceRange(f) ==
    LET from == Positive(IF f.start = Absent THEN f.line ELSE f.start)
        to == Positive(IF f.end = Absent THEN f.line ELSE f.end)
    IN  IF 1 <= from /\ from <= to THEN <<from, to>> ELSE <<0, 0>>

Printable(text) == \E i \in DOMAIN text : text[i] \notin {"n", "r", "f", "s"}

\* suggestion_source_request: a range is read for any replacement that could be offered
WantsSource(f) ==
    /\ Printable(f.suggestion) /\ f.path # "" /\ SourceRange(f) # <<0, 0>>
    /\ SourceRange(f)[2] - SourceRange(f)[1] <= ExcerptLines

-----------------------------------------------------------------------------
(* Remapping by quoted code. Python's splitlines also ends a line at CR and at *)
(* a form feed.                                                                *)
LineEnd(text, i) ==
    text[i] \in {"n", "f"} \/ (text[i] = "r" /\ ~(i < Len(text) /\ text[i + 1] = "n"))
RightStripped(line) ==
    LET kept == {i \in DOMAIN line : line[i] \notin {"n", "r", "f", "s"}}
    IN  IF kept = {} THEN <<>> ELSE SubSeq(line, 1, CHOOSE i \in kept : \A j \in kept : j <= i)
SplitLines(text) ==
    LET ends == {i \in DOMAIN text : LineEnd(text, i)}
        EndOf(k) == CHOOSE i \in ends \cup {Len(text) + 1} : Cardinality({j \in ends : j < i}) = k - 1
    IN  [k \in 1..(Cardinality(ends) + 1) |-> SubSeq(text, IF k = 1 THEN 1 ELSE EndOf(k - 1) + 1, EndOf(k) - 1)]
NonBlank(text) ==
    LET lines == SplitLines(text)
    IN  SelectSeq([n \in DOMAIN lines |-> [number |-> n, text |-> RightStripped(lines[n])]],
                  LAMBDA l : l.text # <<>>)
TextsOf(lines) == [i \in DOMAIN lines |-> lines[i].text]

\* A read of Git succeeds or not once: the caches also keep the failures.
Succeeds(known, fate, read) == IF read \in DOMAIN known THEN known[read] ELSE fate[read]
Cached(known, fate, read) == (read :> Succeeds(known, fate, read)) @@ known

\* changed_new_lines, head_file_lines
ChangedLines(known, fate, path) ==
    IF Succeeds(known, fate, <<"diff", path>>) /\ path \in DOMAIN job.changed THEN job.changed[path] ELSE {}
HeadLines(known, fate, path) ==
    IF Succeeds(known, fate, <<"file", path>>) /\ path \in DOMAIN job.texts THEN NonBlank(job.texts[path]) ELSE <<>>

\* the windows of a file that hold the quoted lines, each at its first changed line
Anchors(haystack, needle, changed) ==
    LET width == Len(needle)
        fits == {i \in 1..(Len(haystack) - width + 1) :
                    TextsOf(SubSeq(haystack, i, i + width - 1)) = needle}
        Touched(i) == {haystack[k].number : k \in i..(i + width - 1)} \cap changed
    IN  [window \in {i \in fits : Touched(i) # {}} |-> LeastOf(Touched(window))]

\* unique_existing_code_line: nothing is read that cannot matter
UniqueLine(path, f, known, fate) ==
    LET needle == TextsOf(NonBlank(f.existing))
        diffKnown == Cached(known, fate, <<"diff", path>>)
        changed == ChangedLines(known, fate, path)
        fileKnown == Cached(diffKnown, fate, <<"file", path>>)
        found == Anchors(HeadLines(diffKnown, fate, path), needle, changed)
    IN  IF needle = <<>> THEN [line |-> 0, known |-> known]
        ELSE IF changed = {} THEN [line |-> 0, known |-> diffKnown]
        ELSE [line |-> IF Cardinality(DOMAIN found) = 1 THEN found[CHOOSE i \in DOMAIN found : TRUE] ELSE 0,
              known |-> fileKnown]

\* changed_new_paths
ChangedPaths(known, fate) == IF Succeeds(known, fate, <<"paths", "">>) THEN job.paths ELSE <<>>

\* remap_existing_code_location: in the finding's own file, else in the one changed file that matches
Remap(f, known, fate) ==
    LET listing == Cached(known, fate, <<"paths", "">>)
        candidates == ChangedPaths(known, fate)
        own == UniqueLine(f.path, f, known, fate)
        Search(found, path) ==
            IF Len(found.matches) > 1 THEN found
            ELSE LET one == UniqueLine(path, f, found.known, fate)
                 IN  [matches |-> IF one.line > 0 THEN Append(found.matches, <<path, one.line>>) ELSE found.matches,
                      known |-> one.known]
        searched == FoldLeft(Search, [matches |-> <<>>, known |-> listing], candidates)
    IN  IF f.path # "" THEN [place |-> <<f.path, own.line>>, known |-> own.known]
        ELSE IF Len(candidates) > MaxRemapPaths THEN [place |-> <<"", 0>>, known |-> listing]
        ELSE [place |-> IF Len(searched.matches) = 1 THEN searched.matches[1] ELSE <<"", 0>>,
              known |-> searched.known]

-----------------------------------------------------------------------------
(* evaluate_suggestion.                                                        *)
Decision(state, omission, span) == [state |-> state, omission |-> omission, span |-> span]
Omitted(reason) == Decision("omitted", reason, 0)

\* the first reason that holds, and only when none does the replacement is offered
Evaluate(f, excerpt) ==
    LET range == SourceRange(f)
    IN  CASE f.suggestion = <<>> -> Decision("absent", "none", 0)
          [] f.suggestion # <<>> /\ ~Printable(f.suggestion) -> Omitted("malformed_replacement")
          [] Printable(f.suggestion) ->
             IF f.path = "" THEN Omitted("invalid_path")
             ELSE IF range = <<0, 0>> THEN Omitted("invalid_range")
             ELSE IF range[2] - range[1] > ExcerptLines THEN Omitted("range_too_large")
             ELSE IF excerpt.reason = "range" THEN Omitted("range_out_of_bounds")
             ELSE IF excerpt.reason # "none" THEN Omitted("source_unavailable")
             ELSE IF Normalized(f.suggestion) = Normalized(excerpt.text) THEN Decision("no_op", "none", 0)
             ELSE IF f.existing = <<>> THEN Omitted("missing_existing_code")
             ELSE IF Normalized(f.existing) # Normalized(excerpt.text) THEN Omitted("existing_code_mismatch")
             ELSE IF f.odd THEN Omitted("replacement_shape")
             ELSE Decision("actionable", "none", range[2] - range[1])

-----------------------------------------------------------------------------
(* What a note shows. A finding's text is so many characters of so many bytes. *)
SuggestionOf(f, decision) ==
    IF decision.state = "actionable" THEN [span |-> decision.span, text |-> Normalized(f.suggestion)]
    ELSE [span |-> -1, text |-> <<>>]

\* format_inline_comment and limit_inline_body: an applicable block is dropped before any text is cut
InlineNote(i, f, decision) ==
    LET block == SuggestionOf(f, decision)
        fits == f.chars * f.width + Len(block.text) <= InlineLimit
    IN  [kind |-> "inline", about |-> {i}, shown |-> {i}, wide |-> FALSE, path |-> f.path,
         line |-> CommentLine(f), block |-> IF fits THEN block ELSE [span |-> -1, text |-> <<>>],
         decision |-> decision]

\* format_fallback_comment: the details of a change, never an applicable block
FallbackItem(i, f, decision) ==
    LET details == IF Printable(f.existing) /\ Printable(f.suggestion) /\ decision.state # "no_op"
                   THEN Len(f.existing) + Len(f.suggestion) ELSE 0
        chars == f.chars + details
        bytes == f.chars * f.width + details
    IN  IF bytes <= ChunkBudget THEN [finding |-> i, chars |-> chars, bytes |-> bytes]
        ELSE [finding |-> i, chars |-> ChunkBudget \div f.width, bytes |-> ChunkBudget]

Sum(items, Measure(_)) == FoldLeft(LAMBDA n, item : n + Measure(item), 0, items)
Chars(items) == Sum(items, LAMBDA item : item.chars) + Len(items) - 1
Bytes(items) == Sum(items, LAMBDA item : item.bytes) + Len(items) - 1

\* format_fallback_comment_chunks: an item that would make the chunk too long begins the next
Chunks(entries) ==
    LET Join(chunks, entry) ==
            LET item == FallbackItem(entry[1], located[entry[1]], entry[2])
                longer == Append(Last(chunks), item)
            IN  IF Last(chunks) # <<>> /\ Chars(longer) > ChunkBudget THEN Append(chunks, <<item>>)
                ELSE Append(Front(chunks), longer)
    IN  FoldLeft(Join, <<<<>>>>, entries)

\* post_review_note_bounded: a chunk over the note's limit is cut at its end
FallbackNote(chunk) ==
    [kind |-> "fallback", about |-> {chunk[k].finding : k \in DOMAIN chunk},
     shown |-> {chunk[k].finding : k \in {n \in DOMAIN chunk : Bytes(SubSeq(chunk, 1, n)) <= NoteLimit}},
     wide |-> \E k \in DOMAIN chunk : chunk[k].bytes > chunk[k].chars,
     path |-> "", line |-> 0, block |-> [span |-> -1, text |-> <<>>], decision |-> Decision("absent", "none", 0)]

-----------------------------------------------------------------------------
(* post_results, from the located findings to the last fallback note.          *)
GitFaults == Cardinality({r \in DOMAIN gitReads : ~gitReads[r]})
GitReads == ({"diff", "file", "source"} \X DOMAIN job.texts) \cup {<<"paths", "">>}
Fates ==
    {[r \in GitReads |-> r \notin failing] :
        failing \in {{}} \cup {{r} : r \in IF GitFaults < MaxGitFaults THEN GitReads ELSE {}}}

Locates ==
    /\ placing = "locate" /\ turn <= Len(job.findings)
    /\ LET f == job.findings[turn]
       IN  IF ~job.refs \/ CommentLine(f) > 0
           THEN located' = Append(located, f) /\ UNCHANGED gitReads
           ELSE \E fate \in Fates :
                   LET found == Remap(f, gitReads, fate)
                   IN  /\ located' = Append(located, IF found.place[2] = 0 THEN f
                                                     ELSE [f EXCEPT !.path = found.place[1], !.line = found.place[2]])
                       /\ gitReads' = found.known
    /\ turn' = turn + 1
    /\ UNCHANGED <<job, placing, requested, failed, notes>>

\* slip: the ranges are planned from the findings as OCR wrote them
RequestsAsWritten ==
    {<<job.findings[i].path, SourceRange(job.findings[i])>> :
        i \in {k \in DOMAIN job.findings : WantsSource(job.findings[k])}}

\* SuggestionSourceReader: all ranges are planned once every position is final
Requests ==
    {<<located[i].path, SourceRange(located[i])>> : i \in {k \in DOMAIN located : WantsSource(located[k])}}

PlansSources ==
    /\ placing = "locate" /\ turn > Len(job.findings)
    /\ requested' = Requests
    /\ placing' = "place" /\ turn' = 1
    /\ UNCHANGED <<job, gitReads, located, failed, notes>>

\* one excerpt of the session, or nothing
SourceFor(f, known) ==
    IF ~job.refs \/ <<f.path, SourceRange(f)>> \notin requested \/ f.path \notin DOMAIN job.texts
       \/ ~known[<<"source", f.path>>]
    THEN Excerpt(NoText, "absent")
    ELSE ExcerptFromLines(job.texts[f.path], SourceRange(f))

Places ==
    /\ placing = "place" /\ turn <= Len(located)
    /\ LET f == located[turn]
           reads == job.refs /\ WantsSource(f) /\ f.path \in DOMAIN job.texts
       IN  \E fate \in IF reads THEN Fates ELSE {[r \in GitReads |-> TRUE]} :
              LET known == IF reads THEN Cached(gitReads, fate, <<"source", f.path>>) ELSE gitReads
                  decision == Evaluate(f, SourceFor(f, known))
              IN  /\ gitReads' = known
                  /\ \/ /\ ~job.refs \/ f.path = "" \/ CommentLine(f) <= 0
                        /\ failed' = Append(failed, <<turn, decision>>)
                        /\ UNCHANGED notes
                     \/ /\ job.refs /\ f.path # "" /\ CommentLine(f) > 0
                        /\ \/ notes' = Append(notes, InlineNote(turn, f, decision)) /\ UNCHANGED failed
                           \/ failed' = Append(failed, <<turn, decision>>) /\ UNCHANGED notes
    /\ turn' = turn + 1
    /\ UNCHANGED <<job, placing, located, requested>>

FallsBack ==
    /\ placing = "place" /\ turn > Len(located)
    /\ placing' = IF failed = <<>> THEN "done" ELSE "fallback"
    /\ turn' = 1
    /\ UNCHANGED <<job, gitReads, located, requested, failed, notes>>

PostsChunk ==
    /\ placing = "fallback"
    /\ notes' = Append(notes, FallbackNote(Chunks(failed)[turn]))
    /\ placing' = IF turn = Len(Chunks(failed)) THEN "done" ELSE "fallback"
    /\ turn' = turn + 1
    /\ UNCHANGED <<job, gitReads, located, requested, failed>>

\* any other answer than an invalid position, or a merge request that moved, ends the job
StopsPlacing ==
    /\ placing \in {"place", "fallback"}
    /\ placing' = "stopped"
    /\ UNCHANGED <<job, turn, gitReads, located, requested, failed, notes>>

PlacementNext == Locates \/ PlansSources \/ Places \/ FallsBack \/ PostsChunk \/ StopsPlacing

PlacementInit ==
    /\ job \in Placements
    /\ placing = "locate" /\ turn = 1 /\ gitReads = <<>> /\ located = <<>> /\ requested = {}
    /\ failed = <<>> /\ notes = <<>>

-----------------------------------------------------------------------------
(* What the reader of the merge request can rely on.                           *)
InlineNotes == {notes[k] : k \in {n \in DOMAIN notes : notes[n].kind = "inline"}}
SubjectOf(note) == CHOOSE i \in note.about : TRUE

\* An applicable suggestion replaces, in the reviewed head, exactly the lines the
\* finding quotes, and changes them; the lines it replaces begin at the position
\* the discussion has, however the finding came by it.
SuggestionsFit ==
    \A note \in InlineNotes :
        note.block.span >= 0 =>
            LET f == job.findings[SubjectOf(note)]
                replaced == LinesOf(job.texts[note.path], <<note.line, note.line + note.block.span>>)
            IN  /\ Normalized(replaced) = Normalized(f.existing)
                /\ note.block.text # Normalized(replaced)
                /\ note.line + note.block.span <= LineCount(job.texts[note.path])

\* Where the quoted code stands in a file, by Git's own line numbers.
Occurrences(f, path) ==
    LET text == job.texts[path]
        notBlank == {n \in 1..LineCount(text) : Printable(LinesOf(text, <<n, n>>))}
        quoted == TextsOf(NonBlank(f.existing))
    IN  {<<i, j>> \in notBlank \X notBlank :
            /\ (i..j) \cap job.changed[path] \cap notBlank # {}
            /\ TextsOf(NonBlank(LinesOf(text, <<i, j>>))) = quoted}
OtherLineEnds(text) ==
    \E i \in DOMAIN text : text[i] = "f" \/ (text[i] = "r" /\ ~(i < Len(text) /\ text[i + 1] = "n"))

\* A finding that names a line keeps it. One that does not is shown on a changed
\* line of the only place where its code stands, in its own file or, when it names
\* none, in all changed files that Git could show. Files with line ends other than
\* LF are numbered differently by head_file_lines and are not covered.
RemapIsTheOnlyPlace ==
    \A note \in InlineNotes :
        LET f == job.findings[SubjectOf(note)]
            shown == {p \in DOMAIN job.changed : <<"file", p>> \in DOMAIN gitReads /\ gitReads[<<"file", p>>]}
            searched == (IF f.path = "" THEN DOMAIN job.changed ELSE {f.path}) \cap shown
            places == UNION {{p} \X Occurrences(f, p) : p \in searched}
        IN  IF CommentLine(f) > 0 THEN note.line = CommentLine(f) /\ note.path = f.path
            ELSE (\A p \in shown : ~OtherLineEnds(job.texts[p])) =>
                    \E place \in places :
                        /\ places = {place} /\ place[1] = note.path
                        /\ note.line \in (place[2][1]..place[2][2]) \cap job.changed[note.path]

\* Two findings with the same quoted code and no line come to the same place, also
\* when a Git command fails for one of them and would succeed for the other.
AlikePlacedAlike ==
    \A i, j \in DOMAIN located :
        LET f == job.findings[i]
            g == job.findings[j]
        IN  f.path = g.path /\ f.existing = g.existing /\ CommentLine(f) = 0 /\ CommentLine(g) = 0 =>
                located[i].path = located[j].path /\ CommentLine(located[i]) = CommentLine(located[j])

\* A suggestion is withheld for want of source only when there was none to be had:
\* a failed read costs the suggestion and nothing else.
Decisions ==
    {<<SubjectOf(note), note.decision>> : note \in InlineNotes} \cup {failed[k] : k \in DOMAIN failed}
WithheldForCause ==
    \A d \in Decisions :
        d[2].omission = "source_unavailable" =>
            LET f == located[d[1]]
            IN  \/ ~job.refs \/ f.path \notin DOMAIN job.texts
                \/ ~gitReads[<<"source", f.path>>]
                \/ ExcerptFromLines(job.texts[f.path], SourceRange(f)).reason = "limit"

\* When the job has placed its findings each is in exactly one note, and no note is
\* cut through one. Chunks are measured in characters and notes in bytes: a chunk
\* with characters of several bytes may be cut, and is not covered.
EveryFindingShownOnce ==
    placing = "done" =>
        \A i \in DOMAIN job.findings :
            \E k \in DOMAIN notes :
                /\ \A n \in DOMAIN notes : i \in notes[n].about <=> n = k
                /\ i \in notes[k].shown \/ notes[k].wide

FindingPlacementSafe ==
    /\ SuggestionsFit /\ RemapIsTheOnlyPlace /\ AlikePlacedAlike /\ WithheldForCause /\ EveryFindingShownOnce
=============================================================================
