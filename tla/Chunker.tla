------------------------------- MODULE Chunker -------------------------------
(***************************************************************************)
(* lib/rag/chunker.ts: a document is cut into overlapping chunks that fit  *)
(* the embedding model.                                                    *)
(*                                                                         *)
(* A document is its paragraphs, a paragraph its sentences (a line break   *)
(* ends a sentence too), a sentence its words, a word its length.  A text  *)
(* is a sequence of characters: letter k of word w is <<w, k>>, and white  *)
(* space is <<0, 0>> (a blank) or <<0, 1>> (a line break).                 *)
(***************************************************************************)
EXTENDS Naturals, Sequences, SequencesExt

CONSTANTS
    MaxChars,       \* chunkTokens * CHARS_PER_TOKEN
    OverlapChars,   \* overlapTokens * CHARS_PER_TOKEN
    MinChars        \* MIN_CHUNK_CHARS

Blank == <<0, 0>>
Break == <<0, 1>>
White == {Blank, Break}

Word(w, n) == [k \in 1..n |-> <<w, k>>]

\* The texts joined with a separator.
Joined(texts, sep) ==
    FoldLeft(LAMBDA acc, t : IF acc = <<>> THEN t ELSE acc \o <<sep>> \o t, <<>>, texts)

Trim(s) ==
    LET ink == {i \in 1..Len(s) : s[i] \notin White} IN
    IF ink = {} THEN <<>> ELSE SubSeq(s, Min(ink), Max(ink))

-----------------------------------------------------------------------------
\* A document with its words numbered in order.
Numbered(doc) ==
    LET Before(p, l, w) ==
            FoldFunction(+, 0, [q \in 1..(p - 1) |-> Len(FlattenSeq(doc[q]))])
            + FoldFunction(+, 0, [k \in 1..(l - 1) |-> Len(doc[p][k])]) + w
    IN [p \in DOMAIN doc |-> [l \in DOMAIN doc[p] |-> [w \in DOMAIN doc[p][l] |->
            Word(Before(p, l, w), doc[p][l][w])]]]

\* splitWords: words packed into segments; a word over the budget is cut hard.
SplitWords(words) ==
    LET Pieces(word) ==
            [i \in 1..((Len(word) + MaxChars - 1) \div MaxChars) |->
                SubSeq(word, (i - 1) * MaxChars + 1, Min({i * MaxChars, Len(word)}))]
        Flushed(acc) == IF acc.line = <<>> THEN acc.out ELSE Append(acc.out, acc.line)
        Pack(acc, word) ==
            IF Len(word) > MaxChars THEN [out |-> Flushed(acc) \o Pieces(word), line |-> <<>>]
            ELSE IF acc.line # <<>> /\ Len(acc.line) + Len(word) + 1 > MaxChars
                 THEN [out |-> Append(acc.out, acc.line), line |-> word]
                 ELSE [acc EXCEPT !.line = Joined(<<acc.line, word>>, Blank)]
        end == FoldLeft(Pack, [out |-> <<>>, line |-> <<>>], words)
    IN Flushed(end)

\* splitIntoSegments: paragraphs, or their sentences, or their words.
SplitIntoSegments(doc) ==
    LET Sentence(s) == Joined(s, Blank)
        Paragraph(p) == Joined([i \in DOMAIN p |-> Sentence(p[i])], Break)
        OfSentence(s) == IF Len(Sentence(s)) <= MaxChars THEN <<Sentence(s)>> ELSE SplitWords(s)
        OfParagraph(p) ==
            IF Len(Paragraph(p)) <= MaxChars THEN <<Paragraph(p)>>
            ELSE FlattenSeq([i \in DOMAIN p |-> OfSentence(p[i])])
    IN FlattenSeq([i \in DOMAIN doc |-> OfParagraph(doc[i])])

\* tail: the last n characters, from a word on if a blank comes early in them.
TailOf(s, n) ==
    LET slice == SubSeq(s, Len(s) - n + 1, Len(s))
        blanks == {i \in 1..n : slice[i] = Blank} IN
    IF Len(s) <= n THEN s
    ELSE IF blanks # {} /\ Min(blanks) > 1 /\ 2 * (Min(blanks) - 1) < n
         THEN SubSeq(slice, Min(blanks) + 1, n)
         ELSE slice

Overlap(s) == IF OverlapChars > 0 THEN TailOf(s, OverlapChars) ELSE <<>>

Kept(chunks, s) == IF Len(s) >= MinChars THEN Append(chunks, s) ELSE chunks

\* Mutant: the hard cut carries nothing over.
RECURSIVE HardSplitBare(_)
HardSplitBare(acc) ==
    IF Len(acc.current) <= MaxChars THEN acc
    ELSE HardSplitBare([chunks |-> Kept(acc.chunks, Trim(SubSeq(acc.current, 1, MaxChars))),
                        current |-> SubSeq(acc.current, MaxChars + 1, Len(acc.current))])

\* The chunk in hand overruns the budget: it is cut, and the rest goes on
\* behind the overlap.
RECURSIVE HardSplit(_)
HardSplit(acc) ==
    IF Len(acc.current) <= MaxChars THEN acc
    ELSE LET head == Trim(SubSeq(acc.current, 1, MaxChars)) IN
         HardSplit([chunks |-> Kept(acc.chunks, head),
                    current |-> Overlap(head) \o SubSeq(acc.current, MaxChars + 1, Len(acc.current))])

\* chunkText: does the segment not fit behind what is in hand?
Overruns(current, seg) == Len(current) + Len(seg) + 1 > MaxChars

ChunkText(doc) ==
    LET Flush(acc) ==
            LET trimmed == Trim(acc.current) IN
            [chunks |-> Kept(acc.chunks, trimmed), current |-> Overlap(trimmed)]
        Add(acc, seg) ==
            LET a == IF acc.current # <<>> /\ Overruns(acc.current, seg) THEN Flush(acc) ELSE acc
            IN HardSplit([a EXCEPT !.current = Joined(<<@, seg>>, Break)])
        end == FoldLeft(Add, [chunks |-> <<>>, current |-> <<>>], SplitIntoSegments(Numbered(doc)))
    IN Kept(end.chunks, Trim(end.current))

-----------------------------------------------------------------------------
\* Does the text hold the whole word w of length n, unbroken?
Holds(s, w, n) == \E i \in 1..Len(s) : i + n - 1 <= Len(s) /\ SubSeq(s, i, i + n - 1) = Word(w, n)
=============================================================================
