------------------------------ MODULE Grounding ------------------------------
(***************************************************************************)
(* How what a run publishes is tied to what was said: the draft            *)
(* (formalize/), the truth gate (truth/), the page with its citations and  *)
(* the evidence map (render/).  Every stage opens the transcript and the   *)
(* names of the speakers for itself, by rules of its own, while the        *)
(* session's speakers may be renamed.                                      *)
(***************************************************************************)
EXTENDS Integers, FiniteSets, Sequences, Functions

CONSTANTS
    Sources,        \* for each mode, the pairs of transcript files a run may have
    Drafts,         \* for each mode, what a language model may answer
    Overlays        \* the speaker maps a user may make active; NoOverlay is one

VARIABLES
    mode,           \* run.json: meeting or journal
    plain, aligned, \* transcript.json and aligned_transcript.json
    active,         \* the session's active speaker map
    noted,          \* the one recorded in run.json when the run began
    seen,           \* observer: all that were active during the run
    stage,
    draft,          \* minutes.json or journal.json
    page,           \* the markdown page: its citation tokens and its names
    emap            \* evidence_map.json: its anchors

groundingVars == <<mode, plain, aligned, active, noted, seen, stage, draft, page, emap>>

Unnamed == ""
NoOverlay == [l \in {} |-> Unnamed]
CitedAtMost == 50
Unknown == [id |-> -1]

Ids(segs) == {segs[i].id : i \in DOMAIN segs}
ById(segs, n) == IF n \in Ids(segs)
                 THEN segs[CHOOSE i \in DOMAIN segs : segs[i].id = n]
                 ELSE Unknown
SpeakerLabels == {"SPEAKER_00", "SPEAKER_01", "SPEAKER_02"}
Label(seg) == IF seg.who = "none" THEN "SPEAKER_00" ELSE seg.who
Below(x, y) == IF x < y THEN x ELSE y

NoDraft == [mode |-> "none", shape |-> "none", items |-> {}, people |-> {}, assignees |-> {}]
Cites(d) == UNION {it.cites : it \in d.items}

Segment == [id : Nat, from : Nat, to : Nat, who : STRING, words : Seq(Nat), by : STRING]
SourcesAssumption ==
    /\ DOMAIN Sources = {"meeting", "journal"} /\ DOMAIN Drafts = DOMAIN Sources
    /\ \A m \in DOMAIN Sources : \A s \in Sources[m] :
          s.plain.segs \in Seq(Segment) /\ s.aligned.segs \in Seq(Segment)
    /\ \A d \in Drafts["journal"] : d.people = {}     \* a journal has no participants
    /\ NoOverlay \in Overlays

GroundingInit ==
    /\ mode \in {"meeting", "journal"}
    /\ \E s \in Sources[mode] : plain = s.plain /\ aligned = s.aligned
    /\ active \in Overlays
    /\ noted = active
    /\ seen = {active}
    /\ stage = "formalize"
    /\ draft = NoDraft
    /\ page = [there |-> FALSE, tokens |-> {}, names |-> {}, assigned |-> {}]
    /\ emap = [there |-> FALSE, anchors |-> {}]

(***************************************************************************)
(* Which transcript each stage reads.                                      *)
(***************************************************************************)
StubKept == aligned.there /\ plain.engine # "stub"
FormalizeReads ==
    IF mode = "meeting" THEN IF StubKept THEN aligned.segs ELSE plain.segs
    ELSE IF aligned.there THEN aligned.segs ELSE plain.segs
GateReads == IF StubKept THEN aligned.segs ELSE plain.segs
RenderReadsAligned ==                       \* mutant: a stub's aligned transcript is preferred
    IF draft.mode = "meeting" /\ aligned.there THEN aligned.segs ELSE plain.segs
RenderReads == IF draft.mode = "meeting" /\ StubKept THEN aligned.segs ELSE plain.segs
\* The map looks for the mode where run.json has none, and takes every run for a meeting.
MapReads == IF aligned.there THEN aligned.segs ELSE plain.segs

(***************************************************************************)
(* The draft.  An item is a topic, decision, note, key point and so on,    *)
(* which must cite, or a section or feeling, which may.                    *)
(***************************************************************************)
Spoken(segs) == SelectSeq(segs, LAMBDA s : s.words # <<>>)
First(segs) == {segs[i].id : i \in 1..Below(Len(segs), CitedAtMost)}
OrZero(ids) == IF ids = {} THEN {0} ELSE ids
Item(cites) == [must |-> TRUE, cites |-> cites]
Section(cites) == [must |-> FALSE, cites |-> cites]

Minutes(segs) ==
    [mode |-> "meeting", shape |-> "meeting",
     items |-> {Item(OrZero(First(segs)))}
               \cup {Item({s.id}) : s \in Range(Spoken(segs))},
     people |-> {[label |-> l, name |-> Unnamed] :
                   l \in IF segs = <<>> THEN {"SPEAKER_00"} ELSE {Label(s) : s \in Range(segs)}},
     assignees |-> {}]
Journal(segs) ==
    [mode |-> "journal", shape |-> "journal",
     items |-> {Section(OrZero(First(Spoken(segs))))}, people |-> {}, assignees |-> {}]
Deterministic(segs) == IF mode = "meeting" THEN Minutes(segs) ELSE Journal(segs)

\* What becomes of a model's answer that is no JSON: one note that cites segment 0.
FreeText ==
    [mode |-> mode, shape |-> mode,
     items |-> IF mode = "meeting" THEN {Item({0})} ELSE {Section({})},
     people |-> {}, assignees |-> {}]

\* validate_minutes_v1, validate_journal_v1.
Valid(d, m) ==
    /\ d.shape = m
    /\ \A it \in d.items : (it.must => it.cites # {}) /\ \A n \in it.cites : n >= 0

\* The truth guard, by the ids the draft was made from.
Guarded(d) == Cites(d) \subseteq Ids(FormalizeReads)

Drafted(d) == draft' = d /\ stage' = "gate"
Fails == stage' = "failed" /\ UNCHANGED draft

\* No model, or none that answers: minutes go without the guard, a journal does not.
FormalizeAlone ==
    /\ stage = "formalize"
    /\ LET d == Deterministic(FormalizeReads)
       IN  IF mode = "meeting" \/ Guarded(d) THEN Drafted(d) ELSE Fails
    /\ UNCHANGED <<mode, plain, aligned, active, noted, seen, page, emap>>

\* The answer has passed the gateway's schema; an answer that cites what is not there
\* fails the run.
FormalizeRemote ==
    /\ stage = "formalize"
    /\ \E d \in Drafts[mode] \cup {FreeText} :
          /\ Valid(d, mode)
          /\ IF Guarded(d) THEN Drafted(d) ELSE Fails
    /\ UNCHANGED <<mode, plain, aligned, active, noted, seen, page, emap>>

(***************************************************************************)
(* The gate (meetings_truth_policy.py).  Names need the map that is active *)
(* now; one of a speaker the map leaves out is let through.                *)
(***************************************************************************)
Ungrounded(d) == ~(Cites(d) \subseteq Ids(GateReads))
NameRefused(p) ==
    /\ p.name # Unnamed
    /\ \/ active = NoOverlay
       \/ p.label \in DOMAIN active /\ active[p.label] # p.name
AssigneeRefused(a) == a \notin SpeakerLabels \cup Range(active)
Blocks(d) ==
    \/ ~Valid(d, d.mode)
    \/ Ids(GateReads) = {}
    \/ Ungrounded(d)
    \/ d.mode = "meeting" /\ \E p \in d.people : NameRefused(p)
    \/ \E a \in d.assignees : AssigneeRefused(a)

Gate ==
    /\ stage = "gate"
    /\ stage' = IF Blocks(draft) THEN "failed" ELSE "render"
    /\ UNCHANGED <<mode, plain, aligned, active, noted, seen, draft, page, emap>>

(***************************************************************************)
(* What is published.  Names come from the draft, else from the map noted  *)
(* in run.json; a journal's page applies none.                             *)
(***************************************************************************)
Shown(p) == IF p.name = Unnamed /\ p.label \in DOMAIN noted THEN noted[p.label] ELSE p.name
ShownAssignee(a) == IF mode = "meeting" /\ a \in DOMAIN noted THEN noted[a] ELSE a
Render ==
    /\ stage = "render"
    /\ page' = [there |-> TRUE,
                tokens |-> {[id |-> n, seg |-> ById(RenderReads, n)] : n \in Cites(draft)},
                names |-> {[label |-> p.label, name |-> Shown(p)] : p \in draft.people},
                assigned |-> {ShownAssignee(a) : a \in draft.assignees}]
    /\ stage' = "map"
    /\ UNCHANGED <<mode, plain, aligned, active, noted, seen, draft, emap>>

\* An id that is not found still gets an anchor: the first speaker, at time zero.
Anchor(segs, n) ==
    LET s == ById(segs, n)
    IN  IF s = Unknown THEN [id |-> n, from |-> 0, to |-> 0, who |-> "SPEAKER_00"]
        ELSE [id |-> n, from |-> s.from, to |-> s.to, who |-> Label(s)]
Ends(segs) == IF segs = <<>> THEN {} ELSE {segs[1].id, segs[Len(segs)].id}
\* Claims are made of minutes.json; where there is none, or nothing in it, one is made of
\* the first and the last segment.
Claimed == IF mode = "meeting" /\ draft.items # {} THEN Cites(draft) ELSE Ends(MapReads)
BuildEvidenceMap ==
    /\ stage = "map"
    /\ emap' = [there |-> TRUE, anchors |-> {Anchor(MapReads, n) : n \in Claimed}]
    /\ stage' = "done"
    /\ UNCHANGED <<mode, plain, aligned, active, noted, seen, draft, page>>

\* A handler makes another speaker map the active one.
Rename ==
    /\ stage \notin {"done", "failed"}
    /\ \E o \in Overlays \ {active} :
          /\ active' = o
          /\ seen' = seen \cup {o}
    /\ UNCHANGED <<mode, plain, aligned, noted, stage, draft, page, emap>>

GroundingNext ==
    FormalizeAlone \/ FormalizeRemote \/ Gate \/ Render \/ BuildEvidenceMap \/ Rename
GroundingSpec == GroundingInit /\ [][GroundingNext]_groundingVars

-----------------------------------------------------------------------------
GroundingTypeOK ==
    /\ stage \in {"formalize", "gate", "render", "map", "done", "failed"}
    /\ active \in Overlays /\ noted \in seen /\ seen \subseteq Overlays
    /\ draft = NoDraft \/ draft.shape = mode

Cited(n) == ById(FormalizeReads, n)

\* The tokens of a published page stand for the very segments the draft was made from,
\* although three stages chose their transcript for themselves (minutes_json.py:45,
\* evidence_bundle.py:60, citations.py:121).  A journal of a run with an aligned
\* transcript is left out: it is made from that one and shown by the other.
CitationsTraced ==
    page.there /\ (mode = "meeting" \/ ~aligned.there) =>
        \A t \in page.tokens : t.seg = Cited(t.id) /\ t.seg # Unknown

\* So do the anchors of the evidence map, where it reads what the draft was made from: not
\* where a meeting of the stub was aligned.  For a meeting they cover what its page cites.
\* A journal's map is of the first and last segment, whatever the journal cites: the map
\* takes it for a meeting without minutes (evidence_map.py:308-313, 342).
AnchorsTraced ==
    emap.there /\ (mode = "journal" \/ ~aligned.there \/ StubKept) =>
        /\ \A a \in emap.anchors : a = Anchor(FormalizeReads, a.id) /\ Cited(a.id) # Unknown
        /\ {a.id : a \in emap.anchors} =
              IF mode = "meeting" /\ draft.items # {} THEN {t.id : t \in page.tokens}
              ELSE Ends(FormalizeReads)

\* A name on the page was given by a map that was active during the run and was not
\* contradicted by it, though the map was looked up three times and may have changed
\* in between (minutes_json.py:83, evidence_bundle.py:147, minutes_md.py:31).
NamesBacked ==
    /\ \A n \in page.names : n.name # Unnamed =>
          \E o \in seen : /\ o # NoOverlay
                          /\ n.label \in DOMAIN o => o[n.label] = n.name
    /\ \A a \in page.assigned :
          a \in SpeakerLabels \/ \E o \in seen : a \in Range(o)

PublishedGrounded == CitationsTraced /\ AnchorsTraced /\ NamesBacked
=============================================================================
