---------------------------- MODULE DocumentText ----------------------------
(***************************************************************************)
(* What the document pipeline computes from an extracted text: the         *)
(* sections and overlapping chunks of services/document/chunker.py and the *)
(* findings and status of services/document/integrity.py.                  *)
(*                                                                         *)
(* A text is a sequence of tokens; a token is reduced to its kind: a plain *)
(* word, blank space, a heading line, the end of a sentence, a command     *)
(* ("you must"), an override ("ignore previous instructions"), a hidden    *)
(* run, a line that mimics a block of the context or a zero-width          *)
(* character.  A chunk is the interval of tokens it holds, so that one can *)
(* say where a chunk came from.  The text is written token by token, and   *)
(* every text up to a bound is reached.  The checks of the file's name and *)
(* of its size are left out.                                               *)
(***************************************************************************)
EXTENDS Integers, FiniteSets, Sequences, FiniteSetsExt

CONSTANTS
    Kinds,             \* the kinds of token a text is made of
    Sizes,             \* chunk sizes tried; 512 in core/config.py
    Overlaps,          \* overlaps tried; 50 in core/config.py
    MaxText,           \* bound: the number of tokens of a text
    MinSentences,      \* density is looked at from here on; 5 in the code
    DensityPercent,    \* integrity_imperative_density_threshold; 15
    WarningThreshold   \* integrity_warning_threshold; 5

AllKinds == {"word", "blank", "heading", "stop", "command", "override", "hidden", "mimic", "zero"}

ASSUME TextAssumption ==
    /\ Kinds \subseteq AllKinds
    /\ Sizes \subseteq Nat \ {0} /\ Overlaps \subseteq Nat
    /\ MaxText \in Nat /\ MinSentences \in Nat
    /\ DensityPercent \in 0..100 /\ WarningThreshold \in Nat

VARIABLES text, size, overlap

textVars == <<text, size, overlap>>

Statuses == <<"clean", "warning", "review_required">>

Rank(status) == CHOOSE i \in DOMAIN Statuses : Statuses[i] = status

-----------------------------------------------------------------------------
(* Chunks. *)

Positions(part) == part.from..part.to

\* What str.strip leaves: the tokens from the first to the last that is not
\* blank; nothing when all is blank.
Solid(t, from, to) == {i \in from..to : t[i] # "blank"}

Strip(t, from, to) ==
    LET solid == Solid(t, from, to)
    IN  IF solid = {} THEN {} ELSE {[from |-> Min(solid), to |-> Max(solid)]}

\* One section up to the first heading and one from each heading on.  Without
\* a heading the paragraphs are joined again: one section.
SplitSections(t) ==
    LET heads == {Min(Solid(t, 1, Len(t)))} \union {i \in DOMAIN t : t[i] = "heading"}
        ends(h) == {k \in heads : h < k}
    IN  UNION {Strip(t, h, Min({k - 1 : k \in ends(h)} \union {Len(t)})) : h \in heads}

Stride(n, o) == Max({n - o, 1})

\* Mutation: only whole windows are cut, the rest of the section is dropped.
Starts_WholeOnly(len, n, o) ==
    {s \in 0..(len - 1) : s % Stride(n, o) = 0 /\ s + n <= len}

\* Where the windows of a section of len tokens begin: every stride, until a
\* window reaches the end.
Starts(len, n, o) ==
    {s \in 0..(len - 1) : /\ s % Stride(n, o) = 0
                          /\ s = 0 \/ s - Stride(n, o) + n < len}

\* A section that fits is one chunk, a longer one is cut into windows.  A
\* chunk is what its window holds, stripped, with the place of the window.
ChunkSection(t, section, n, o) ==
    UNION {{[at |-> section.from + s, part |-> p] :
              p \in Strip(t, section.from + s,
                             Min({section.from + s + n - 1, section.to}))} :
           s \in Starts(section.to - section.from + 1, n, o)}

\* chunk(): nothing for a blank text, else the chunks of every section.
Chunks(t, n, o) ==
    IF Solid(t, 1, Len(t)) = {} THEN {}
    ELSE UNION {ChunkSection(t, section, n, o) : section \in SplitSections(t)}

-----------------------------------------------------------------------------
(* The integrity scan. *)

Count(t, kind) == Cardinality({i \in DOMAIN t : t[i] = kind})

\* A zero-width character is counted by the list and again by its category.
UnicodeAnomalies(t) == 2 * Count(t, "zero")

\* Sentences are split at a full stop that blank space follows, so not at the
\* last token.
SentenceOf(t, i) == Cardinality({j \in 1..(i - 1) : t[j] = "stop"})

Sentences(t) == 1 + Cardinality({j \in 1..(Len(t) - 1) : t[j] = "stop"})

\* Commanding sentences, when there are enough sentences and enough of them
\* are commands.
InstructionDensity(t) ==
    LET imperative == Cardinality({SentenceOf(t, i) : i \in {j \in DOMAIN t : t[j] = "command"}})
    IN  IF /\ Sentences(t) >= MinSentences
           /\ 100 * imperative >= DensityPercent * Sentences(t)
        THEN imperative ELSE 0

Directive(t, part) == \E i \in Positions(part) : t[i] \in {"command", "override"}

\* The number of chunks with a directive, when it is two at least.
RagBait(t, chunks) ==
    LET hits == Cardinality({c \in chunks : Directive(t, c.part)})
    IN  IF hits >= 2 THEN hits ELSE 0

\* Every check with its count; a count of zero is no finding.  A full text
\* document is scanned without chunks.
Findings(t, chunks) ==
    [prompt_injection_pattern |-> Count(t, "override"),
     hidden_formatting        |-> Count(t, "hidden"),
     structural_mimicry       |-> Count(t, "mimic"),
     unicode_anomaly          |-> UnicodeAnomalies(t),
     instruction_density      |-> InstructionDensity(t),
     rag_bait                 |-> RagBait(t, chunks)]

Total(found) ==
    found.prompt_injection_pattern + found.hidden_formatting + found.structural_mimicry
    + found.unicode_anomaly + found.instruction_density + found.rag_bait

Critical == {"prompt_injection_pattern", "hidden_formatting", "structural_mimicry"}

\* Mutation: the findings must all be critical.
AggregateStatus_AllCritical(found) ==
    IF \A f \in DOMAIN found : found[f] = 0 THEN "clean"
    ELSE IF \/ \A f \in DOMAIN found : found[f] > 0 => f \in Critical
            \/ Total(found) >= WarningThreshold
    THEN "review_required" ELSE "warning"

\* _aggregate_status
AggregateStatus(found) ==
    IF \A f \in DOMAIN found : found[f] = 0 THEN "clean"
    ELSE IF \/ \E f \in Critical : found[f] > 0
            \/ Total(found) >= WarningThreshold
    THEN "review_required" ELSE "warning"

IndexedStatus(t, n, o) == AggregateStatus(Findings(t, Chunks(t, n, o)))

-----------------------------------------------------------------------------
(* Every text up to the bound. *)

TextInit ==
    /\ text = <<>>
    /\ size \in Sizes
    /\ overlap \in Overlaps

Extend(kind) ==
    /\ Len(text) < MaxText
    /\ text' = Append(text, kind)
    /\ UNCHANGED <<size, overlap>>

TextNext == \E kind \in Kinds : Extend(kind)

-----------------------------------------------------------------------------
(* Properties. *)

\* Every token that is not blank is in some chunk: what the index loses no
\* question can find again.  (chunk, _chunk_section)
NothingIsLost ==
    LET cut == Chunks(text, size, overlap)
    IN  \A i \in Solid(text, 1, Len(text)) : \E c \in cut : i \in Positions(c.part)

\* A chunk is no longer than the chunk size, holds a heading only as its first
\* token, and the chunks follow one another in the order of the text.
\* (_split_sections, _chunk_section)
ChunksFit ==
    LET cut == Chunks(text, size, overlap)
    IN  /\ \A c \in cut :
              /\ c.part.to - c.part.from < size
              /\ \A i \in Positions(c.part) : text[i] = "heading" => i = c.part.from
        /\ \A c, d \in cut : c.at < d.at => /\ c.part.from <= d.part.from
                                            /\ c.part.to <= d.part.to

\* What the overlap is for: a phrase of one token more than the overlap, or of
\* a chunk when the overlap is larger than that, is never torn apart, unless a
\* heading begins inside it.  (_chunk_section)
ShortPhrasesStayWhole ==
    LET cut == Chunks(text, size, overlap)
    IN  \A i, j \in Solid(text, 1, Len(text)) :
            ( /\ i <= j
              /\ j - i <= overlap /\ j - i < size
              /\ \A h \in (i + 1)..j : text[h] # "heading" )
            => \E c \in cut : {i, j} \subseteq Positions(c.part)

\* What is indexed is the text: all of it, in chunks of the right size, with
\* no phrase as long as the overlap torn apart.
ChunksHoldTheText == NothingIsLost /\ ChunksFit /\ ShortPhrasesStayWhole

\* A warning of repeated directives has two of them when chunks share nothing.
\* (_scan_rag_bait)
BaitIsRepeatedWithoutOverlap ==
    overlap = 0 /\ RagBait(text, Chunks(text, size, overlap)) > 0
        => Count(text, "command") + Count(text, "override") >= 2

\* The same whatever the overlap, as the text of the finding has it: "Repeated
\* directive language across document chunks".  The code does not keep this: a
\* directive in the part two chunks share is found twice.
BaitIsRepeated ==
    RagBait(text, Chunks(text, size, overlap)) > 0
        => Count(text, "command") + Count(text, "override") >= 2

\* A text that grows never looks cleaner than before, unless sentences were
\* added that thin out its commands: what was found is not lost for the chunks
\* falling differently.  (scan, _aggregate_status)
FallsOnlyByDilution ==
    \/ Rank(IndexedStatus(text', size', overlap')) >= Rank(IndexedStatus(text, size, overlap))
    \/ InstructionDensity(text) > InstructionDensity(text')

StatusFallsOnlyByDilution == [][FallsOnlyByDilution]_textVars

=============================================================================
