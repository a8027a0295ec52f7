----------------------------- MODULE SourceText -----------------------------
(* Source text as evidence and posting address it: a sequence of characters, *)
(* counted in characters and in bytes, in lines that end at LF only.         *)
(* evidence/text_contracts.py.                                               *)
EXTENDS Integers, Sequences, FiniteSets, SequencesExt, TLC

CONSTANTS
    ExcerptChars,   \* MAX_EXCERPT_CHARS
    ExcerptLines    \* MAX_EXCERPT_SPAN_LINES

ExcerptSourceChars == ExcerptChars + ExcerptLines + 1
ExcerptBytes == 4 * ExcerptChars + ExcerptLines + 1

LeastOf(S) == CHOOSE x \in S : \A y \in S : x <= y

\* characters are "n" (LF), "r" (CR), "f" (form feed), "s" (space), "x" (no UTF-8),
\* "w" (four bytes) and letters
WidthOf(c) == IF c = "w" THEN 4 ELSE 1
SizeOf(text) == Len(text) + (WidthOf("w") - 1) * Cardinality({i \in DOMAIN text : text[i] = "w"})
Breaks(text) == {i \in DOMAIN text : text[i] = "n"}
LineCount(text) == Cardinality(Breaks(text)) + (IF text # <<>> /\ Last(text) # "n" THEN 1 ELSE 0)
LineAt(text, i) == 1 + Cardinality({j \in Breaks(text) : j < i})
EndOfSpan(text, i, span) == text[i] = "n" /\ LineAt(text, i) = span[2]
InSpan(text, i, span) ==
    /\ LineAt(text, i) \in span[1]..span[2]
    /\ ~EndOfSpan(text, i, span)

\* source_lines and the selection of excerpt_from_lines
LinesOf(text, span) ==
    LET held == {i \in DOMAIN text : InSpan(text, i, span)}
    IN  IF held = {} THEN <<>> ELSE SubSeq(text, LeastOf(held), LeastOf(held) + Cardinality(held) - 1)

\* normalize_fragment: CRLF is one line end, and one final line end is dropped
Normalized(text) ==
    LET kept == SelectSeq([i \in DOMAIN text |-> i],
                          LAMBDA i : ~(text[i] = "r" /\ i < Len(text) /\ text[i + 1] = "n"))
        all == [k \in DOMAIN kept |-> IF text[kept[k]] = "r" THEN "n" ELSE text[kept[k]]]
    IN  IF all # <<>> /\ Last(all) = "n" THEN Front(all) ELSE all

Excerpt(text, reason) == [text |-> text, reason |-> reason]
NoText == <<"none">>

\* excerpt_from_lines: the same selection from a text already held
ExcerptFromLines(text, span) ==
    LET part == LinesOf(text, span)
    IN  IF span[2] > LineCount(text) THEN Excerpt(NoText, "range")
        ELSE IF \/ span[2] - span[1] > ExcerptLines
                \/ Len(part) > ExcerptSourceChars \/ Len(Normalized(part)) > ExcerptChars
                \/ SizeOf(part) > ExcerptBytes
             THEN Excerpt(NoText, "limit")
        ELSE Excerpt(part, "none")

\* validate_spans
ValidSpan(span) == 1 <= span[1] /\ span[1] <= span[2] /\ span[2] - span[1] <= ExcerptLines
=============================================================================
