---------------------------------- MODULE Text ----------------------------------
(***************************************************************************)
(* The text helpers of common/text.cpp and common/path_templates.cpp.      *)
(*                                                                         *)
(* A text is a sequence of symbols: the characters these functions and     *)
(* their callers look at, one symbol each, and words, the runs of other    *)
(* characters between them, which nobody takes apart.                      *)
(***************************************************************************)
EXTENDS Integers, FiniteSets, SequencesExt

CONSTANTS
    Blanks      \* the symbols std::isspace accepts

\* A text is one of the symbols that are in it.
OfSymbols(text) == text \in Seq(ToSet(text))

TrimCopy(text) ==
    LET kept == {i \in DOMAIN text : text[i] \notin Blanks}
    IN  IF kept = {} THEN <<>> ELSE SubSeq(text, Min(kept), Max(kept))

\* The delimiter always ends a part: n delimiters make n + 1 parts.
Split(text, delimiter) ==
    FoldLeft(LAMBDA parts, c :
                 IF c = delimiter THEN Append(parts, <<>>)
                 ELSE ReplaceAt(parts, Len(parts), Append(Last(parts), c)),
             << <<>> >>, text)

Join(parts, start, delimiter) ==
    FlattenSeq([i \in 1..(Len(parts) - start + 1) |->
        IF i = 1 THEN parts[start] ELSE <<delimiter>> \o parts[start + i - 1]])

SplitNonEmptyLines(text) ==
    SelectSeq([i \in DOMAIN Split(text, "\n") |-> TrimCopy(Split(text, "\n")[i])],
              LAMBDA line : line # <<>>)

OccursAt(text, needle, i) ==
    /\ i + Len(needle) - 1 <= Len(text)
    /\ SubSeq(text, i, i + Len(needle) - 1) = needle

\* ReplaceAll: what is put in is not searched again.
Substitute(text, needle, replacement) ==
    LET from[i \in 1..(Len(text) + 1)] ==
            IF i > Len(text) THEN <<>>
            ELSE IF OccursAt(text, needle, i) THEN replacement \o from[i + Len(needle)]
            ELSE <<text[i]>> \o from[i + 1]
    IN  from[1]

Placeholder(name) == <<"{", name, "}">>

HasToken(template, name) ==
    \E i \in DOMAIN template : OccursAt(template, Placeholder(name), i)

\* args: the repoRoot, appId and jobId to put in, one after the other.
RenderTemplate(template, args) ==
    Substitute(
        Substitute(
            Substitute(template, Placeholder("repoRoot"), args.repoRoot),
            Placeholder("appId"), args.appId),
        Placeholder("jobId"), args.jobId)
================================================================================
