------------------------------ MODULE Chunker ------------------------------
(***************************************************************************)
(* py-processor/chunker.py: split_markdown as operators on a document.     *)
(*                                                                         *)
(* A document is a sequence of lines; of a line only the level of the      *)
(* heading it is (0: none) and its length matter, and a blank line has     *)
(* length 0.  Pieces of text are sequences of line numbers, so that a      *)
(* chunk says which lines it holds.  Lines have no space at their ends.    *)
(***************************************************************************)
EXTENDS Integers, Sequences, SequencesExt, FiniteSetsExt

CONSTANTS
    Target, Overlap, MinChars,  \* parameters of split_markdown
    Lines,                      \* lines a document is made of: [level, len]
    MaxLines                    \* bound: lines of a document

VARIABLES
    doc,    \* the document
    split,  \* split_markdown has returned
    chunks  \* what it returned: [path, pieces, len]

chunkerVars == <<doc, split, chunks>>

Level(i) == doc[i].level
Blank(i) == doc[i].len = 0

\* The length of paragraphs or lines joined by a separator.
Joined(lens, separator) == FoldLeft(LAMBDA a, n : a + n + separator, 0 - separator, lens)
LineLens(ls) == [k \in 1 .. Len(ls) |-> doc[ls[k]].len]
TextLen(ls) == Joined(LineLens(ls), 1)

\* strip: without the blank lines at both ends.
Strip(ls) ==
    LET text == {k \in 1 .. Len(ls) : ~ Blank(ls[k])}
    IN  IF text = {} THEN <<>> ELSE SubSeq(ls, Min(text), Max(text))
-----------------------------------------------------------------------------
(***************************************************************************)
(* _parse_sections.                                                        *)
(***************************************************************************)
Closed(a) ==
    IF a.current = <<>> THEN a.sections
    ELSE Append(a.sections, [path |-> a.path, body |-> Strip(a.current)])

\* Mutant: the sibling of a heading stays on its path.
PathDeep(path, i) == Append(SubSeq(path, 1, Min({Level(i), Len(path)})), i)

\* The heading stack: path[: level - 1] + [heading].
Path(path, i) == Append(SubSeq(path, 1, Min({Level(i) - 1, Len(path)})), i)

ParseLine(a, i) ==
    IF Level(i) > 0
    THEN [path |-> Path(a.path, i), sections |-> Closed(a), current |-> <<i>>]
    ELSE [a EXCEPT !.current = Append(@, i)]

Sections ==
    LET end == FoldLeft(ParseLine, [path |-> <<>>, sections |-> <<>>, current |-> <<>>],
                        [i \in 1 .. Len(doc) |-> i])
    IN  SelectSeq(Closed(end), LAMBDA s : s.body # <<>>)
-----------------------------------------------------------------------------
(***************************************************************************)
(* _split_paragraphs.                                                      *)
(***************************************************************************)
\* re.split(r"\n\s*\n"): the runs of lines between blank ones.
Paragraphs(body) ==
    LET line(ps, i) ==
            IF Blank(i) THEN Append(ps, <<>>)
            ELSE Append(Front(ps), Append(Last(ps), i))
    IN  SelectSeq(FoldLeft(line, << <<>> >>, body), LAMBDA p : p # <<>>)

ParaLens(ps) == [k \in 1 .. Len(ps) |-> TextLen(ps[k])]
PieceLen(ps) == Joined(ParaLens(ps), 2)

\* Mutant: the separator of a carried paragraph is not counted.
CarryNoSeparator(ps) ==
    LET fits == {k \in 0 .. Len(ps) :
                   FoldLeft(LAMBDA a, n : a + n, 0,
                            ParaLens(SubSeq(ps, Len(ps) - k + 1, Len(ps)))) <= Overlap}
    IN  SubSeq(ps, Len(ps) - Max(fits) + 1, Len(ps))

\* The last paragraphs, with their separators, that fit the overlap.
Carry(ps) ==
    LET fits == {k \in 0 .. Len(ps) :
                   FoldLeft(LAMBDA a, n : a + n + 2, 0,
                            ParaLens(SubSeq(ps, Len(ps) - k + 1, Len(ps)))) <= Overlap}
    IN  SubSeq(ps, Len(ps) - Max(fits) + 1, Len(ps))

AddParagraph(a, p) ==
    IF a.buf # <<>> /\ PieceLen(a.buf) + TextLen(p) + 2 > Target
    THEN [out |-> Append(a.out, a.buf), buf |-> Append(Carry(a.buf), p)]
    ELSE [a EXCEPT !.buf = Append(@, p)]

\* Mutant: what is left in the buffer at the end is not a piece.
SplitParagraphsUnflushed(ps) ==
    FoldLeft(AddParagraph, [out |-> <<>>, buf |-> <<>>], ps).out

SplitParagraphs(ps) ==
    LET end == FoldLeft(AddParagraph, [out |-> <<>>, buf |-> <<>>], ps)
    IN  IF end.buf = <<>> THEN end.out ELSE Append(end.out, end.buf)
-----------------------------------------------------------------------------
(***************************************************************************)
(* split_markdown.                                                         *)
(***************************************************************************)
\* The number of leading paragraphs that are headings only.
HeadingOnly(ps) ==
    Max({n \in 0 .. Len(ps) : \A k \in 1 .. n : \A j \in 1 .. Len(ps[k]) : Level(ps[k][j]) > 0})

\* The chunks of an oversize section: its headings go with every piece.
Oversize(s) ==
    LET ps == Paragraphs(s.body)
        n == HeadingOnly(ps)
        prefix == SubSeq(ps, 1, n)
        pieces == SplitParagraphs(SubSeq(ps, n + 1, Len(ps)))
        full(k) == [path |-> s.path, prefix |-> prefix, pieces |-> pieces[k],
                    len |-> PieceLen(prefix \o pieces[k])]
    IN  SelectSeq([k \in 1 .. Len(pieces) |-> full(k)], LAMBDA c : c.len >= MinChars)

\* A section that fits is one chunk, its blank lines included.
Whole(s) ==
    IF TextLen(s.body) < MinChars THEN <<>>
    ELSE << [path |-> s.path, prefix |-> <<>>, pieces |-> <<s.body>>, len |-> TextLen(s.body)] >>

SplitMarkdown ==
    FoldLeft(LAMBDA out, s : out \o IF TextLen(s.body) <= Target THEN Whole(s) ELSE Oversize(s),
             <<>>, Sections)

Init ==
    /\ doc \in UNION {[1 .. n -> Lines] : n \in 0 .. MaxLines}
    /\ split = FALSE /\ chunks = <<>>

Split ==
    /\ ~ split
    /\ split' = TRUE
    /\ chunks' = SplitMarkdown
    /\ UNCHANGED doc

Next == Split

Spec == Init /\ [][Next]_chunkerVars
-----------------------------------------------------------------------------
(***************************************************************************)
(* Properties, against the document rather than the algorithm.             *)
(***************************************************************************)
Numbers == 1 .. Len(doc)
LinesOf(ps) == UNION {{ps[k][j] : j \in 1 .. Len(ps[k])} : k \in 1 .. Len(ps)}
Kept == UNION {LinesOf(chunks[c].pieces) : c \in 1 .. Len(chunks)}

\* The paragraph of line i: the lines around it up to a blank line.
ParagraphOf(i) ==
    {j \in Numbers : \A k \in Min({i, j}) .. Max({i, j}) : ~ Blank(k)}
\* The part of it that no heading separates from i.
BlockOf(i) ==
    {j \in ParagraphOf(i) : \A k \in (Min({i, j}) + 1) .. Max({i, j}) : Level(k) = 0}
BlockLen(i) == MapThenSumSet(LAMBDA j : doc[j].len + 1, BlockOf(i)) - 1

\* No text is dropped but what is too short: a block of lines of at least
\* min_chars is in a chunk, however the section is split.
ChunksCover ==
    split => \A i \in Numbers :
                ~ Blank(i) /\ Level(i) = 0 /\ BlockLen(i) >= MinChars => i \in Kept

\* "chunks of at most ~target chars": a chunk that is longer, its section's
\* headings aside, is one paragraph after carried ones of at most overlap.
ChunkBound ==
    split => \A c \in 1 .. Len(chunks) :
       LET ps == chunks[c].pieces
       IN  \/ PieceLen(ps) <= Target
           \/ PieceLen(ps) - TextLen(Last(ps)) <= Overlap

\* The heading that encloses heading h: the last one above it with a lower level.
Above(h) == {j \in 1 .. (h - 1) : Level(j) > 0 /\ Level(j) < Level(h)}
\* "Every chunk keeps its heading path": where no level of headings is skipped,
\* the path of a chunk is the chain of the headings that enclose its section.
HeadingBefore(i) == {j \in 1 .. i : Level(j) > 0}
NoLevelSkipped ==
    \A h \in Numbers : Level(h) > 0 =>
       Level(h) <= 1 + IF HeadingBefore(h - 1) = {} THEN 0 ELSE Level(Max(HeadingBefore(h - 1)))
PathsAreAncestors ==
    split /\ NoLevelSkipped =>
       \A c \in 1 .. Len(chunks) :
          LET path == chunks[c].path
              section == HeadingBefore(Min(LinesOf(chunks[c].pieces)))
          IN  /\ path = <<>> <=> section = {}
              /\ path # <<>> => Last(path) = Max(section) /\ Above(path[1]) = {}
              /\ \A k \in 2 .. Len(path) : Above(path[k]) # {} /\ path[k - 1] = Max(Above(path[k]))
=============================================================================
