------------------------------ MODULE Alignment ------------------------------
(***************************************************************************)
(* From recorded audio to a transcript version: what a run hears           *)
(* (adapters/, transcribe.py, diarize.py), how speakers are given to the   *)
(* words (align.py), and what is checked before a version is minted        *)
(* (job_runner.py).  A text is the sequence of its words.                  *)
(***************************************************************************)
EXTENDS Integers, FiniteSets, Sequences, SequencesExt

CONSTANTS
    Recordings,     \* what the speech engine may hear: sequences of segments
    Turns,          \* what the diarization engine may hear: sequences of turns
    StubText,       \* the segments of the placeholder transcript
    Vocabulary      \* the words there are

VARIABLES
    substage,       \* where the run is
    strict,         \* ASHBY_ASR_STRICT
    diarizes,       \* a meeting, with diarization not turned off
    asr,            \* transcript.json
    diar,           \* diarization.json
    alignment,      \* aligned_transcript.json
    report,         \* the errors in transcript_integrity_report.json
    version         \* the segments of the transcript version

alignVars == <<substage, strict, diarizes, asr, diar, alignment, report, version>>

\* Segments are numbered from 0 (transcribe_faster_whisper.py:67), and the engine gives
\* them in the order in which they begin.
Origins == {"asr", "transcript", "diarization"}
Speech == [id : Nat, from : Int, to : Int, who : STRING, words : Seq(Vocabulary), by : Origins]
RecordingAssumption ==
    /\ Turns \subseteq Seq([who : STRING, from : Int, to : Int])
    /\ \A segs \in Recordings \cup {StubText} :
          /\ segs \in Seq(Speech)
          /\ \A i \in DOMAIN segs :
                segs[i].id = i - 1 /\ \A j \in 1..i : segs[j].from <= segs[i].from

NoFile == [there |-> FALSE, engine |-> "none", segs |-> <<>>]
File(engine, segs) == [there |-> TRUE, engine |-> engine, segs |-> segs]

SplitMinWords == 6
DominancePercent == 82
MergeGap == 700

Later(x, y) == IF x > y THEN x ELSE y
Sooner(x, y) == IF x < y THEN x ELSE y
\* The sums of the first 0, 1, 2, ... of ns, and of all.
Sums(ns) == LET s[n \in 0..Len(ns)] == IF n = 0 THEN 0 ELSE s[n - 1] + ns[n] IN s
Total(ns) == Sums(ns)[Len(ns)]

(***************************************************************************)
(* How many of n words each of the weights gets (_split_text_by_weights):  *)
(* the whole part of its share, one more for the largest remainders, the   *)
(* first of equals first; then a share of none takes a word of the largest.*)
(* The code's floating point shares are taken as exact.                    *)
(***************************************************************************)
Whole(n, w) == [i \in DOMAIN w |-> (w[i] * n) \div Total(w)]
Remainder(n, w, i) == (w[i] * n) % Total(w)
Before(n, w, i) ==
    {j \in DOMAIN w : \/ Remainder(n, w, j) > Remainder(n, w, i)
                      \/ Remainder(n, w, j) = Remainder(n, w, i) /\ j < i}
Left(n, w) == n - Total(Whole(n, w))
Rounded(n, w) ==
    [i \in DOMAIN w |->
        Whole(n, w)[i] + IF Cardinality(Before(n, w, i)) < Left(n, w) THEN 1 ELSE 0]
Largest(c) == CHOOSE j \in DOMAIN c : \A i \in DOMAIN c :
                  c[i] < c[j] \/ (c[i] = c[j] /\ j <= i)
Donated(n, c, i) ==
    IF n >= Len(c) /\ c[i] = 0 /\ c[Largest(c)] > 1
    THEN [c EXCEPT ![Largest(c)] = @ - 1, ![i] = @ + 1]
    ELSE c
SplitCounts(n, w) ==
    LET c[i \in 0..Len(w)] == IF i = 0 THEN Rounded(n, w) ELSE Donated(n, c[i - 1], i)
    IN  c[Len(w)]
Pieces(words, w) ==
    LET s == Sums(SplitCounts(Len(words), w))
    IN  [i \in DOMAIN w |-> SubSeq(words, s[i - 1] + 1, s[i])]

(***************************************************************************)
(* The speakers of one segment of speech (_align_one_segment).             *)
(***************************************************************************)
Span(o) == Later(0, o.to - o.from)
Overlap(seg, turn) ==
    LET o == [from |-> Later(seg.from, turn.from), to |-> Sooner(seg.to, turn.to)]
    IN  [who |-> turn.who, from |-> o.from, to |-> o.to, heard |-> Span(o)]
Overlaps(seg, turns) ==
    FlattenSeq([i \in DOMAIN turns |->
        IF Overlap(seg, turns[i]).heard > 0 THEN <<Overlap(seg, turns[i])>> ELSE <<>>])
HeardFor(os, who) == Total([i \in DOMAIN os |-> IF os[i].who = who THEN os[i].heard ELSE 0])
Speakers(os) == {os[i].who : i \in DOMAIN os}
\* max() over a dict takes the first of equals, in the order they were first heard.
BestSpeaker(os) == os[CHOOSE i \in DOMAIN os :
    /\ \A j \in DOMAIN os : HeardFor(os, os[j].who) <= HeardFor(os, os[i].who)
    /\ \A j \in 1..(i - 1) : HeardFor(os, os[j].who) < HeardFor(os, os[i].who)].who
Dominates(os) ==
    HeardFor(os, BestSpeaker(os)) * 100
        >= DominancePercent * Total([i \in DOMAIN os |-> os[i].heard])

\* In the order of time, and of equals as they were.
Precedes(o, p) == o.from < p.from \/ (o.from = p.from /\ o.to < p.to)
Ahead(os, i) ==
    {j \in DOMAIN os : Precedes(os[j], os[i]) \/ (~Precedes(os[i], os[j]) /\ j < i)}
InTimeOrder(os) ==
    [k \in DOMAIN os |-> os[CHOOSE i \in DOMAIN os : Cardinality(Ahead(os, i)) = k - 1]]

\* Spans of one speaker with little between them are one, as heavy as both.
Continues(out, s) == out # <<>> /\ Last(out).who = s.who /\ s.from - Last(out).to <= MergeGap
Spanning(o, p) == [o EXCEPT !.to = Later(@, p.to), !.heard = @ + p.heard]
Compacted(out, o) ==
    IF Continues(out, o) THEN Append(Front(out), Spanning(Last(out), o)) ELSE Append(out, o)
Compact(os) ==
    LET out[n \in 0..Len(os)] == IF n = 0 THEN <<>> ELSE Compacted(out[n - 1], os[n])
    IN  out[Len(os)]

As(seg, who, by) == [seg EXCEPT !.who = who, !.by = by]
Part(seg, span, piece) ==
    IF piece = <<>> THEN <<>>
    ELSE <<[seg EXCEPT !.who = span.who, !.by = "diarization", !.from = span.from,
                       !.to = span.to, !.words = piece]>>
Split(seg, spans) ==
    LET pieces == Pieces(seg.words, [i \in DOMAIN spans |-> spans[i].heard])
    IN  FlattenSeq([i \in DOMAIN spans |-> Part(seg, spans[i], pieces[i])])
AlignOne(seg, turns) ==
    LET os == Overlaps(seg, turns)
    IN  IF seg.to <= seg.from \/ os = <<>> THEN <<As(seg, seg.who, "transcript")>>
        ELSE IF \/ \E s \in Speakers(os) : Speakers(os) = {s}
                \/ Len(seg.words) < SplitMinWords
                \/ Dominates(os)
             THEN <<As(seg, BestSpeaker(os), "diarization")>>
             ELSE Split(seg, Compact(InTimeOrder(os)))

\* Neighbours of one speaker become one segment, and the ids are counted again.
Joined(a, b) == [a EXCEPT !.words = @ \o b.words, !.to = Later(@, b.to),
                          !.by = IF "diarization" \in {@, b.by} THEN "diarization" ELSE @]
MergedWith(out, s) ==
    IF Continues(out, s) THEN Append(Front(out), Joined(Last(out), s)) ELSE Append(out, s)
Merged(segs) ==
    LET out[n \in 0..Len(segs)] == IF n = 0 THEN <<>> ELSE MergedWith(out[n - 1], segs[n])
    IN  out[Len(segs)]
Shared(segs, turns) == FlattenSeq([i \in DOMAIN segs |-> AlignOne(segs[i], turns)])
Renumbered(segs) == [i \in DOMAIN segs |-> [segs[i] EXCEPT !.id = i - 1]]
MergedKeepingIds(segs, turns) == Merged(Shared(segs, turns))    \* mutant: ids not counted again
Aligned(segs, turns) == Renumbered(Merged(Shared(segs, turns)))

(***************************************************************************)
(* What stops a version from being minted                                  *)
(* (_normalize_segments_and_integrity_report; warnings are left out).      *)
(***************************************************************************)
IntegrityErrors(segs) ==
    {e \in {"duplicate_segment_id", "negative_start_ms", "end_before_start",
            "strict_requires_positive_duration"} :
        \/ /\ e = "duplicate_segment_id"
           /\ \E i, j \in DOMAIN segs : i # j /\ segs[i].id = segs[j].id
        \/ /\ e = "negative_start_ms"
           /\ \E i \in DOMAIN segs : segs[i].from < 0
        \/ /\ e = "end_before_start"
           /\ \E i \in DOMAIN segs : segs[i].to < segs[i].from
        \/ /\ e = "strict_requires_positive_duration"
           /\ strict /\ \A i \in DOMAIN segs : segs[i].to <= segs[i].from}

-----------------------------------------------------------------------------
AlignInit ==
    /\ substage = "transcribe"
    /\ strict \in BOOLEAN
    /\ diarizes \in BOOLEAN
    /\ asr = NoFile /\ diar = NoFile /\ alignment = NoFile
    /\ report = [there |-> FALSE, errors |-> {}]
    /\ version = [there |-> FALSE, segs |-> <<>>]

After == IF diarizes THEN "diarize" ELSE "emit"
\* A transcript of the stub engine ends a strict run, after its files were written.
Rails(engine) == IF strict /\ engine = "stub" THEN "failed" ELSE After
HasHeard(engine, segs) ==
    /\ asr' = File(engine, segs)
    /\ substage' = Rails(engine)
    /\ UNCHANGED <<strict, diarizes, diar, alignment, report, version>>

\* transcribe_faster_whisper_or_stub: the engine hears; it is off, absent or fails;
\* or it fails after it wrote transcript.txt, of whose lines the stub reads none.
Transcribe ==
    /\ substage = "transcribe"
    /\ \/ \E segs \in Recordings : HasHeard("faster-whisper", segs)
       \/ HasHeard("stub", StubText)
       \/ HasHeard("stub", <<>>)

\* diarize_pyannote: turns, or none when the engine is not there or fails.
Diarize ==
    /\ substage = "diarize"
    /\ \/ \E turns \in Turns : diar' = File("pyannote", turns)
       \/ diar' = File("stub", <<>>)
    /\ substage' = "align"
    /\ UNCHANGED <<strict, diarizes, asr, alignment, report, version>>

AlignTranscript ==
    /\ substage = "align"
    /\ alignment' = File("time_overlap_v1", Aligned(asr.segs, diar.segs))
    /\ substage' = "emit"
    /\ UNCHANGED <<strict, diarizes, asr, diar, report, version>>

\* _load_transcript_segments_with_source: the aligned transcript when there is one.
Substrate == IF alignment.there THEN alignment.segs ELSE asr.segs
Nobody == "none"
Minted(segs) == IF diarizes THEN segs ELSE [i \in DOMAIN segs |-> [segs[i] EXCEPT !.who = Nobody]]
Emit ==
    /\ substage = "emit"
    /\ report' = [there |-> TRUE, errors |-> IntegrityErrors(Substrate)]
    /\ \/ /\ IntegrityErrors(Substrate) = {}
          /\ version' = [there |-> TRUE, segs |-> Minted(Substrate)]
          /\ substage' = "emitted"
       \/ /\ IntegrityErrors(Substrate) # {}
          /\ substage' = "failed"
          /\ UNCHANGED version
    /\ UNCHANGED <<strict, diarizes, asr, diar, alignment>>

AlignNext == Transcribe \/ Diarize \/ AlignTranscript \/ Emit
AlignSpec == AlignInit /\ [][AlignNext]_alignVars

-----------------------------------------------------------------------------
WordsOf(segs) == FlattenSeq([i \in DOMAIN segs |-> segs[i].words])

Stages == {"transcribe", "diarize", "align", "emit", "emitted", "failed"}
AlignTypeOK ==
    /\ substage \in Stages /\ strict \in BOOLEAN /\ diarizes \in BOOLEAN
    /\ \A f \in {asr, diar, alignment} : f.there \in BOOLEAN

\* Whatever the engines heard, cutting, giving out and merging segments loses no
\* word, doubles none and keeps their order (align.py:28, 71, 103).
WordsKept == version.there => WordsOf(version.segs) = WordsOf(asr.segs)

\* Citations are by segment id: those of a version are 0, 1, 2, ... in their order,
\* so that no id is missing or stands for two segments (align.py:102).
IdsCanonical ==
    version.there => \A i \in DOMAIN version.segs : version.segs[i].id = i - 1

\* A speaker said to come from diarization was heard while the segment lasted, also
\* after segments were split, compacted and merged (align.py:103-205).
SpeakersHeard ==
    version.there /\ diarizes =>
        \A i \in DOMAIN version.segs : version.segs[i].by = "diarization" =>
            \E j \in DOMAIN diar.segs :
                /\ diar.segs[j].who = version.segs[i].who
                /\ Overlap(version.segs[i], diar.segs[j]).heard > 0

\* A strict run ends without a version rather than mint one of placeholder text or
\* of silence (job_runner.py:329, 358).
StrictNeverPlaceholder ==
    version.there /\ strict =>
        /\ asr.engine # "stub"
        /\ \E i \in DOMAIN version.segs : version.segs[i].to > version.segs[i].from

\* What citations rest on: the version holds every word once and in order, its ids
\* count its segments, its speakers were heard, and none of it is made up.
AlignmentFaithful ==
    WordsKept /\ IdsCanonical /\ SpeakersHeard /\ StrictNeverPlaceholder
=============================================================================
