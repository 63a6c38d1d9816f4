---------------------------- MODULE ServicesProofs ----------------------------
(***************************************************************************)
(* For any transcripts, any answers of a model and any speaker maps: what  *)
(* a run publishes goes back to what was said, and the names on it to maps *)
(* that were active, however often speakers are renamed meanwhile.  For any*)
(* number of runs, chats and ends of either process: the files of a run say*)
(* of its draft where it came from, at every moment.  For any members,     *)
(* chats and names, and any number of uploads and presses: a recording is  *)
(* run once at the most, as its sender confirmed.  For any residents,      *)
(* lamps, messages and silences: what Ash believes of a lamp is so, or is  *)
(* explained, and no lamp is touched that nobody meant.  For any library,  *)
(* questions, answers of a model and deletions: what a reply cites was     *)
(* found for its asker, and its jumps land on what was found.              *)
(***************************************************************************)
EXTENDS Grounding, LLMGateway, StuartDoor, AshCore, Chat, FiniteSetTheorems, TLAPS

-----------------------------------------------------------------------------
(* Grounding: what is published follows from what was formalized.           *)

Past == {"render", "map", "done"}           \* the stages behind the gate

\* What the gate let pass stays true, although the map it looked at may change.
Backed(p) == p.name # Unnamed =>
    \E o \in seen : o # NoOverlay /\ (p.label \in DOMAIN o => o[p.label] = p.name)
GateInv ==
    /\ stage # "formalize" /\ stage # "failed" =>
          draft.shape = mode /\ (mode = "journal" => draft.people = {})
    /\ stage \in Past =>
          /\ draft.mode = mode
          /\ \A n \in Cites(draft) : n \in Ids(GateReads) /\ n # -1
          /\ Ids(GateReads) # {}
          /\ \A p \in draft.people : Backed(p)
          /\ \A a \in draft.assignees : a \in SpeakerLabels \/ \E o \in seen : a \in Range(o)

PagesInv ==
    /\ mode \in {"meeting", "journal"}
    /\ plain.segs \in Seq(Segment) /\ aligned.segs \in Seq(Segment)
    /\ active \in seen /\ noted \in seen /\ active \in Overlays /\ seen \subseteq Overlays
    /\ page.there => stage \in {"map", "done"}
    /\ stage \in {"map", "done"} => {t.id : t \in page.tokens} = Cites(draft)
    /\ emap.there => stage = "done"

GroundInv == PagesInv /\ GateInv /\ PublishedGrounded

\* A segment that is looked up by an id of the transcript is found.
LEMMA LookedUp ==
    ASSUME NEW segs \in Seq(Segment), NEW n \in Ids(segs)
    PROVE  ById(segs, n) # Unknown /\ ById(segs, n).id = n /\ n \in Nat
<1>1. PICK i \in DOMAIN segs : segs[i].id = n
  BY DEF Ids
<1>2. \A j \in DOMAIN segs : segs[j] \in Segment
  OBVIOUS
<1>3. n \in Nat
  BY <1>1, <1>2 DEF Segment
<1>4. /\ ById(segs, n) = segs[CHOOSE j \in DOMAIN segs : segs[j].id = n]
      /\ (CHOOSE j \in DOMAIN segs : segs[j].id = n) \in DOMAIN segs
      /\ segs[CHOOSE j \in DOMAIN segs : segs[j].id = n].id = n
  BY <1>1, Zenon DEF ById
<1>5. ById(segs, n).id = n
  BY <1>4
<1>6. Unknown.id = -1
  BY DEF Unknown
<1> QED BY <1>3, <1>5, <1>6

\* Behind the gate a meeting, or a run without an aligned transcript, is read alike by
\* the draft, the gate and the page.
LEMMA ReadAlike ==
    ASSUME PagesInv, draft.mode = mode, mode = "meeting" \/ ~aligned.there
    PROVE  GateReads = FormalizeReads /\ RenderReads = FormalizeReads
BY DEF PagesInv, GateReads, FormalizeReads, RenderReads, StubKept

LEMMA ReadTyped ==
    ASSUME PagesInv
    PROVE  /\ FormalizeReads \in Seq(Segment) /\ GateReads \in Seq(Segment)
           /\ MapReads \in Seq(Segment)
BY DEF PagesInv, FormalizeReads, GateReads, MapReads, StubKept

LEMMA GroundInvInit == ASSUME SourcesAssumption, GroundingInit PROVE GroundInv
<1>1. plain.segs \in Seq(Segment) /\ aligned.segs \in Seq(Segment)
  BY DEF GroundingInit, SourcesAssumption
<1>2. PagesInv
  BY <1>1 DEF GroundingInit, PagesInv
<1>3. GateInv
  BY DEF GroundingInit, GateInv, Past
<1>4. PublishedGrounded
  BY DEF GroundingInit, PublishedGrounded, CitationsTraced, AnchorsTraced, NamesBacked
<1> QED BY <1>2, <1>3, <1>4 DEF GroundInv

\* As long as nothing is published, or what was stays, what it rests on stays too.
LEMMA PublishedStays ==
    ASSUME GroundInv, UNCHANGED <<mode, plain, aligned, page, emap>>, seen \subseteq seen',
           draft' = draft \/ ~emap.there
    PROVE  PublishedGrounded'
<1>1. FormalizeReads' = FormalizeReads /\ StubKept' = StubKept
  BY DEF FormalizeReads, StubKept
<1>2. CitationsTraced'
  BY <1>1 DEF GroundInv, PublishedGrounded, CitationsTraced, Cited
<1>3. AnchorsTraced'
  BY <1>1 DEF GroundInv, PublishedGrounded, AnchorsTraced, Cited
<1>4. NamesBacked'
  BY DEF GroundInv, PublishedGrounded, NamesBacked
<1> QED BY <1>2, <1>3, <1>4 DEF PublishedGrounded

-----------------------------------------------------------------------------
\* A draft is made, or the run fails: nothing is published yet.
LEMMA FormalizeStep ==
    ASSUME SourcesAssumption, GroundInv, FormalizeAlone \/ FormalizeRemote
    PROVE  GroundInv'
<1>0. UNCHANGED <<mode, plain, aligned, active, noted, seen, page, emap>> /\ stage = "formalize"
  BY DEF FormalizeAlone, FormalizeRemote
<1>1. PagesInv'
  BY <1>0 DEF GroundInv, PagesInv, FormalizeAlone, FormalizeRemote, Drafted, Fails
<1>2. PublishedGrounded'
  <2>1. ~emap.there
    BY <1>0 DEF GroundInv, PagesInv
  <2> QED BY <1>0, <2>1, PublishedStays
<1>3. \/ stage' = "failed"
      \/ stage' = "gate" /\ draft'.shape = mode /\ (mode = "journal" => draft'.people = {})
  <2>0. mode \in {"meeting", "journal"}
    BY DEF GroundInv, PagesInv
  <2>1. CASE FormalizeAlone
    BY <2>0, <2>1 DEF FormalizeAlone, Deterministic, Minutes, Journal, Drafted, Fails
  <2>2. CASE FormalizeRemote
    <3>1. PICK d \in Drafts[mode] \cup {FreeText} :
             Valid(d, mode) /\ IF Guarded(d) THEN Drafted(d) ELSE Fails
      BY <2>2 DEF FormalizeRemote
    <3>2. d.shape = mode
      BY <3>1 DEF Valid
    <3>3. mode = "journal" => d.people = {}
      <4>1. FreeText.people = {}
        BY DEF FreeText
      <4>2. \A x \in Drafts["journal"] : x.people = {}
        BY DEF SourcesAssumption
      <4> QED BY <2>0, <3>1, <4>1, <4>2
    <3> QED BY <3>1, <3>2, <3>3 DEF Drafted, Fails
  <2> QED BY <2>1, <2>2
<1>4. GateInv'
  BY <1>0, <1>3 DEF GateInv, Past
<1> QED BY <1>1, <1>2, <1>4 DEF GroundInv

\* The gate lets a draft pass that its transcript and the map of the moment bear out.
LEMMA GateStep ==
    ASSUME GroundInv, Gate
    PROVE  GroundInv'
<1>0. /\ UNCHANGED <<mode, plain, aligned, active, noted, seen, draft, page, emap>>
      /\ stage = "gate"
  BY DEF Gate
<1>1. PagesInv'
  BY <1>0 DEF GroundInv, PagesInv, Gate
<1>2. PublishedGrounded'
  BY <1>0, PublishedStays
<1>3. stage' = "failed" \/ (stage' = "render" /\ ~Blocks(draft))
  BY DEF Gate
<1>4. CASE stage' = "failed"
  BY <1>1, <1>2, <1>4 DEF GroundInv, GateInv, Past
<1>5. CASE stage' = "render" /\ ~Blocks(draft)
  <2>1. /\ draft.shape = mode /\ (mode = "journal" => draft.people = {})
        /\ mode \in {"meeting", "journal"} /\ active \in seen
    BY <1>0 DEF GroundInv, GateInv, PagesInv
  <2>2. draft.mode = mode
    BY <1>5, <2>1 DEF Blocks, Valid
  <2>3. \A n \in Cites(draft) : n \in Ids(GateReads) /\ n # -1
    <3>1. \A n \in Cites(draft) : n \in Ids(GateReads)
      BY <1>5 DEF Blocks, Ungrounded
    <3>2. GateReads \in Seq(Segment)
      BY ReadTyped DEF GroundInv
    <3>3. \A n \in Ids(GateReads) : n \in Nat
      BY <3>2, LookedUp
    <3> QED BY <3>1, <3>3
  <2>4. Ids(GateReads) # {}
    BY <1>5 DEF Blocks
  <2>5. ASSUME NEW p \in draft.people PROVE Backed(p)
    <3>1. mode = "meeting"
      BY <2>1, <2>5
    <3>2. ~NameRefused(p)
      BY <1>5, <2>2, <3>1, <2>5 DEF Blocks
    <3> QED BY <2>1, <3>2 DEF NameRefused, Backed
  <2>6. \A a \in draft.assignees : a \in SpeakerLabels \/ \E o \in seen : a \in Range(o)
    BY <1>5, <2>1 DEF Blocks, AssigneeRefused
  <2>7. Ids(GateReads)' = Ids(GateReads)
    BY <1>0 DEF GateReads, StubKept, Ids
  <2>8. GateInv'
    BY <1>0, <1>5, <2>1, <2>2, <2>3, <2>4, <2>5, <2>6, <2>7 DEF GateInv, Backed, Cites
  <2> QED BY <1>1, <1>2, <2>8 DEF GroundInv
<1> QED BY <1>3, <1>4, <1>5

\* What the page shows of a draft that passed.
LEMMA RenderStep ==
    ASSUME GroundInv, Render
    PROVE  GroundInv'
<1>0. /\ UNCHANGED <<mode, plain, aligned, active, noted, seen, draft, emap>>
      /\ stage = "render" /\ stage' = "map" /\ page'.there
      /\ page'.tokens = {[id |-> n, seg |-> ById(RenderReads, n)] : n \in Cites(draft)}
      /\ page'.names = {[label |-> p.label, name |-> Shown(p)] : p \in draft.people}
      /\ page'.assigned = {ShownAssignee(a) : a \in draft.assignees}
  BY DEF Render
<1>1. /\ draft.shape = mode /\ draft.mode = mode /\ noted \in seen
      /\ \A n \in Cites(draft) : n \in Ids(GateReads) /\ n # -1
      /\ \A p \in draft.people : Backed(p)
      /\ \A a \in draft.assignees : a \in SpeakerLabels \/ \E o \in seen : a \in Range(o)
  BY <1>0 DEF GroundInv, GateInv, PagesInv, Past
<1>2. PagesInv'
  <2>1. {t.id : t \in page'.tokens} = Cites(draft)
    <3>1. \A t \in page'.tokens : \E n \in Cites(draft) : t.id = n
      BY <1>0
    <3>2. \A n \in Cites(draft) : \E t \in page'.tokens : t.id = n
      <4> DEFINE token(n) == [id |-> n, seg |-> ById(RenderReads, n)]
      <4>1. \A n \in Cites(draft) : token(n) \in page'.tokens
        BY <1>0
      <4>2. \A n : token(n).id = n
        OBVIOUS
      <4> QED BY <4>1, <4>2, Zenon
    <3> QED BY <3>1, <3>2
  <2>2. Cites(draft)' = Cites(draft)
    BY <1>0 DEF Cites
  <2> QED BY <1>0, <2>1, <2>2 DEF GroundInv, PagesInv
<1>3. GateInv'
  <2>1. Ids(GateReads)' = Ids(GateReads) /\ Cites(draft)' = Cites(draft)
    BY <1>0 DEF GateReads, StubKept, Ids, Cites
  <2>2. \A p \in draft.people : Backed(p)'
    BY <1>0, <1>1 DEF Backed
  <2> QED BY <1>0, <1>1, <2>1, <2>2 DEF GroundInv, GateInv, Past
<1>4. CitationsTraced'
  <2> SUFFICES ASSUME mode = "meeting" \/ ~aligned.there, NEW n \in Cites(draft)
               PROVE  /\ ById(RenderReads, n) = ById(FormalizeReads, n)
                      /\ ById(RenderReads, n) # Unknown
    BY <1>0 DEF CitationsTraced, Cited, FormalizeReads, StubKept
  <2>1. GateReads = FormalizeReads /\ RenderReads = FormalizeReads
    BY <1>1, ReadAlike DEF GroundInv
  <2>2. FormalizeReads \in Seq(Segment)
    BY ReadTyped DEF GroundInv
  <2> QED BY <1>1, <2>1, <2>2, LookedUp
<1>5. AnchorsTraced'
  BY <1>0 DEF GroundInv, PagesInv, PublishedGrounded, AnchorsTraced
<1>6. NamesBacked'
  <2>1. ASSUME NEW p \in draft.people, Shown(p) # Unnamed
        PROVE  \E o \in seen : o # NoOverlay /\ (p.label \in DOMAIN o => o[p.label] = Shown(p))
    <3>1. CASE p.name = Unnamed /\ p.label \in DOMAIN noted
      <4>1. noted # NoOverlay
        BY <3>1 DEF NoOverlay
      <4> QED BY <1>1, <3>1, <4>1 DEF Shown
    <3>2. CASE p.name # Unnamed
      BY <1>1, <3>2 DEF Shown, Backed
    <3> QED BY <2>1, <3>1, <3>2 DEF Shown
  <2>2. ASSUME NEW a \in draft.assignees
        PROVE  ShownAssignee(a) \in SpeakerLabels \/ \E o \in seen : ShownAssignee(a) \in Range(o)
    BY <1>1 DEF ShownAssignee, Range
  <2> QED BY <1>0, <2>1, <2>2 DEF NamesBacked
<1> QED BY <1>2, <1>3, <1>4, <1>5, <1>6 DEF GroundInv, PublishedGrounded

\* The anchors of the evidence map.
LEMMA MapStep ==
    ASSUME GroundInv, BuildEvidenceMap
    PROVE  GroundInv'
<1>0. /\ UNCHANGED <<mode, plain, aligned, active, noted, seen, draft, page>>
      /\ stage = "map" /\ stage' = "done" /\ emap'.there
      /\ emap'.anchors = {Anchor(MapReads, n) : n \in Claimed}
  BY DEF BuildEvidenceMap
<1>1. draft.mode = mode /\ \A n \in Cites(draft) : n \in Ids(GateReads) /\ n # -1
  BY <1>0 DEF GroundInv, GateInv, Past
<1>2. PagesInv'
  BY <1>0 DEF GroundInv, PagesInv, Cites
<1>3. GateInv'
  <2>1. Ids(GateReads)' = Ids(GateReads) /\ Cites(draft)' = Cites(draft)
    BY <1>0 DEF GateReads, StubKept, Ids, Cites
  <2>2. \A p \in draft.people : Backed(p) => Backed(p)'
    BY <1>0 DEF Backed
  <2> QED BY <1>0, <2>1, <2>2 DEF GroundInv, GateInv, Past
<1>4. CitationsTraced' /\ NamesBacked'
  <2>1. FormalizeReads' = FormalizeReads
    BY <1>0 DEF FormalizeReads, StubKept
  <2> QED BY <1>0, <2>1 DEF GroundInv, PublishedGrounded, CitationsTraced, Cited, NamesBacked
<1>5. AnchorsTraced'
  <2>0. FormalizeReads' = FormalizeReads /\ StubKept' = StubKept
    BY <1>0 DEF FormalizeReads, StubKept
  <2> SUFFICES ASSUME mode = "journal" \/ ~aligned.there \/ StubKept
               PROVE  /\ \A n \in Claimed : LET a == Anchor(MapReads, n)
                           IN  a = Anchor(FormalizeReads, a.id) /\ Cited(a.id) # Unknown
                      /\ {Anchor(MapReads, n).id : n \in Claimed} =
                            IF mode = "meeting" /\ draft.items # {} THEN {t.id : t \in page.tokens}
                            ELSE Ends(FormalizeReads)
    BY <1>0, <2>0 DEF AnchorsTraced, Cited
  <2>1. MapReads = FormalizeReads /\ FormalizeReads \in Seq(Segment)
    <3>1. mode \in {"meeting", "journal"}
      BY DEF GroundInv, PagesInv
    <3> QED BY <3>1, ReadTyped DEF GroundInv, MapReads, FormalizeReads, StubKept
  <2>2. \A n : Anchor(MapReads, n).id = n
    BY DEF Anchor
  <2>3. ASSUME NEW n \in Claimed PROVE n \in Ids(FormalizeReads)
    <3>1. CASE mode = "meeting" /\ draft.items # {}
      <4>1. GateReads = FormalizeReads
        BY <3>1 DEF GateReads, FormalizeReads, StubKept
      <4> QED BY <1>1, <2>3, <3>1, <4>1 DEF Claimed
    <3>2. CASE ~(mode = "meeting" /\ draft.items # {})
      <4>1. n \in Ends(FormalizeReads)
        BY <2>1, <2>3, <3>2 DEF Claimed
      <4>2. FormalizeReads # <<>> /\ (n = FormalizeReads[1].id
                                       \/ n = FormalizeReads[Len(FormalizeReads)].id)
        BY <4>1 DEF Ends
      <4>3. 1 \in DOMAIN FormalizeReads /\ Len(FormalizeReads) \in DOMAIN FormalizeReads
        BY <2>1, <4>2
      <4> QED BY <4>2, <4>3 DEF Ids
    <3> QED BY <3>1, <3>2
  <2>4. \A n \in Claimed : Cited(n) # Unknown
    BY <2>1, <2>3, LookedUp DEF Cited
  <2>5. {Anchor(MapReads, n).id : n \in Claimed} = Claimed
    BY <2>2
  <2>6. {t.id : t \in page.tokens} = Cites(draft)
    BY <1>0 DEF GroundInv, PagesInv
  <2>7. Claimed = IF mode = "meeting" /\ draft.items # {} THEN Cites(draft) ELSE Ends(FormalizeReads)
    BY <2>1 DEF Claimed
  <2> QED BY <2>1, <2>2, <2>4, <2>5, <2>6, <2>7
<1> QED BY <1>2, <1>3, <1>4, <1>5 DEF GroundInv, PublishedGrounded

\* Renaming while the run goes on: one more map that was active.
LEMMA RenameStep ==
    ASSUME GroundInv, Rename
    PROVE  GroundInv'
<1>0. /\ UNCHANGED <<mode, plain, aligned, noted, stage, draft, page, emap>>
      /\ active' \in Overlays /\ seen' = seen \cup {active'}
  BY DEF Rename
<1>1. PagesInv'
  BY <1>0 DEF GroundInv, PagesInv, Cites
<1>2. GateInv'
  <2>1. Ids(GateReads)' = Ids(GateReads) /\ Cites(draft)' = Cites(draft)
    BY <1>0 DEF GateReads, StubKept, Ids, Cites
  <2>2. \A p \in draft.people : Backed(p) => Backed(p)'
    BY <1>0 DEF Backed
  <2> QED BY <1>0, <2>1, <2>2 DEF GroundInv, GateInv, Past
<1>3. PublishedGrounded'
  BY <1>0, PublishedStays
<1> QED BY <1>1, <1>2, <1>3 DEF GroundInv

LEMMA GroundInvStep ==
    ASSUME SourcesAssumption, GroundInv, [GroundingNext]_groundingVars
    PROVE  GroundInv'
<1>1. CASE UNCHANGED groundingVars
  <2>1. UNCHANGED <<mode, plain, aligned, active, noted, seen, stage, draft, page, emap>>
    BY <1>1 DEF groundingVars
  <2>2. PagesInv'
    BY <2>1 DEF GroundInv, PagesInv, Cites
  <2>3. GateInv'
    <3>1. Ids(GateReads)' = Ids(GateReads) /\ Cites(draft)' = Cites(draft)
      BY <2>1 DEF GateReads, StubKept, Ids, Cites
    <3>2. \A p \in draft.people : Backed(p) => Backed(p)'
      BY <2>1 DEF Backed
    <3> QED BY <2>1, <3>1, <3>2 DEF GroundInv, GateInv, Past
  <2> QED BY <2>1, <2>2, <2>3, PublishedStays DEF GroundInv
<1> QED BY <1>1, FormalizeStep, GateStep, RenderStep, MapStep, RenameStep DEF GroundingNext

\* Citations, anchors and names of what is published are borne out by the transcript the
\* draft was made from and by maps that were active, for any transcripts, answers and maps
\* (meetings_truth_policy.py, citations.py, minutes_md.py, evidence_map.py).
THEOREM PublicationGrounded ==
    ASSUME SourcesAssumption PROVE GroundingSpec => []PublishedGrounded
<1>1. GroundingInit => GroundInv
  BY GroundInvInit
<1>2. GroundInv /\ [GroundingNext]_groundingVars => GroundInv'
  BY GroundInvStep
<1>3. GroundInv => PublishedGrounded
  BY DEF GroundInv
<1> QED BY <1>1, <1>2, <1>3, PTL DEF GroundingSpec

\* A run goes from stage to stage, its maps are among the session's, and a draft has the
\* shape of its mode.
THEOREM GroundingTyped ==
    ASSUME SourcesAssumption PROVE GroundingSpec => []GroundingTypeOK
<1>1. GroundingInit => GroundInv /\ GroundingTypeOK
  BY GroundInvInit DEF GroundingInit, GroundingTypeOK
<1>2. GroundInv /\ [GroundingNext]_groundingVars => GroundInv'
  BY GroundInvStep
<1>3. GroundInv /\ GroundingTypeOK /\ [GroundingNext]_groundingVars => GroundingTypeOK'
  <2> SUFFICES ASSUME GroundInv, GroundingTypeOK, [GroundingNext]_groundingVars
               PROVE  GroundingTypeOK'
    OBVIOUS
  <2>1. CASE FormalizeAlone
    <3>1. mode \in {"meeting", "journal"}
      BY DEF GroundInv, PagesInv
    <3>2. Deterministic(FormalizeReads).shape = mode
      BY <3>1 DEF Deterministic, Minutes, Journal
    <3> QED BY <2>1, <3>2 DEF FormalizeAlone, Drafted, Fails, GroundingTypeOK
  <2>2. CASE FormalizeRemote
    BY <2>2 DEF FormalizeRemote, Drafted, Fails, Valid, GroundingTypeOK
  <2>3. CASE Rename
    BY <2>3 DEF Rename, GroundingTypeOK
  <2>4. CASE Gate \/ Render \/ BuildEvidenceMap \/ UNCHANGED groundingVars
    BY <2>4 DEF Gate, Render, BuildEvidenceMap, groundingVars, GroundingTypeOK
  <2> QED BY <2>1, <2>2, <2>3, <2>4 DEF GroundingNext
<1> QED BY <1>1, <1>2, <1>3, PTL DEF GroundingSpec

-----------------------------------------------------------------------------
(* The gateway: every outcome of a call is accounted for.                   *)

Labels == {"start", "wait", "fall", "fall2", "fall3", "raw", "map", "phantom", "refuse",
           "output", "usage", "done", "failed", "dead"}

GatewayTypes ==
    /\ pc \in [Clients -> Labels]
    /\ files \in [Runs -> SUBSET Files]
    /\ output \in [Runs -> {"none", "deterministic", "model"}]
    /\ reply \in [Clients -> {"none"} \cup WithDraft \cup Errors]
    /\ serving \in Clients \cup {Free}
    /\ serving # Free => provider
    /\ queue \in Seq(Clients)

\* What a run has written when it is at a label; no draft is written before "usage".
WrittenAt(l, fs, what) ==
    /\ l \in {"start", "wait", "raw"} => fs = {}
    /\ l \in {"fall", "fall2"} => fs \subseteq {"llm_gateway_failure"}
    /\ l = "fall3" => "llm_failure" \in fs
    /\ l = "map" => fs = {"llm_raw_txt"} /\ what = "mapped"
    /\ l = "output" => /\ "llm_raw_txt" \in fs
                       /\ fs \subseteq {"llm_raw_txt", "evidence_map_llm"}
                       /\ what = "mapped" => "evidence_map_llm" \in fs

Asked == Labels \ {"start", "done", "failed", "dead"}
Undrafted == Labels \ {"usage", "done", "dead"}

Sound(r) ==
    /\ output[r] = "deterministic" => (allowed <=> "llm_failure" \in files[r])
    /\ output[r] = "model" =>
          /\ "llm_raw_txt" \in files[r]
          /\ files[r] \cap {"llm_failure", "llm_gateway_failure"} = {}
          /\ reply[r] = "mapped" => "evidence_map_llm" \in files[r]
    /\ pc[r] = "failed" =>
          output[r] = "none" /\ ("llm_failure" \in files[r] \/ (~allowed /\ r \in Bare))

RunInv(r) ==
    /\ WrittenAt(pc[r], files[r], reply[r])
    /\ pc[r] \in Asked => allowed
    /\ pc[r] \in Undrafted => output[r] = "none"
    /\ pc[r] = "usage" => output[r] = "model"
    /\ Sound(r)

GatewayInv == GatewayTypes /\ \A r \in Runs : RunInv(r)

LEMMA GatewayInvInit == ASSUME GatewayAssumption, GatewayInit PROVE GatewayInv
<1>1. GatewayTypes
  BY DEF GatewayInit, GatewayTypes, Labels, Clients, Files, GatewayAssumption
<1>2. ASSUME NEW r \in Runs PROVE RunInv(r)
  BY DEF GatewayInit, RunInv, WrittenAt, Sound, Asked, Undrafted, Labels, Clients
<1> QED BY <1>1, <1>2 DEF GatewayInv

\* A step changes at most one client; the others keep what holds of them.
LEMMA OthersKeep ==
    ASSUME GatewayInv, NEW r \in Runs, allowed' = allowed,
           pc'[r] = pc[r], files'[r] = files[r], output'[r] = output[r], reply'[r] = reply[r]
    PROVE  RunInv(r)'
BY DEF GatewayInv, RunInv, WrittenAt, Sound

-----------------------------------------------------------------------------
\* A client gets an answer, or none that it can use.
LEMMA ReceivesStep ==
    ASSUME GatewayAssumption, GatewayInv, NEW c \in Clients, Waits(c),
           NEW what \in WithDraft \cup Errors, Receives(c, what),
           UNCHANGED <<allowed, files, output>>
    PROVE  /\ pc' \in [Clients -> Labels]
           /\ reply' \in [Clients -> {"none"} \cup WithDraft \cup Errors]
           /\ \A r \in Runs : RunInv(r)'
<1>1. /\ pc \in [Clients -> Labels] /\ reply \in [Clients -> {"none"} \cup WithDraft \cup Errors]
      /\ pc' = [pc EXCEPT ![c] =
                  IF c \in ChatCalls THEN "done" ELSE IF what \in WithDraft THEN "raw" ELSE "fall"]
      /\ reply' = [reply EXCEPT ![c] = what]
  BY DEF GatewayInv, GatewayTypes, Receives, Goto
<1>2. pc' \in [Clients -> Labels]
  BY <1>1 DEF Labels
<1>3. reply' \in [Clients -> {"none"} \cup WithDraft \cup Errors]
  BY <1>1
<1>4. ASSUME NEW r \in Runs PROVE RunInv(r)'
  <2>0. r \in Clients
    BY DEF Clients
  <2>1. CASE r # c
    BY <1>1, <2>0, <2>1, OthersKeep
  <2>2. CASE r = c
    <3>1. pc'[r] \in {"raw", "fall"}
      BY <1>1, <2>0, <2>2 DEF GatewayAssumption
    <3>2. pc[r] = "wait" /\ RunInv(r)
      BY <2>2 DEF Waits, GatewayInv
    <3>3. files'[r] = {} /\ output'[r] = "none" /\ allowed'
      BY <3>2 DEF RunInv, WrittenAt, Asked, Undrafted, Labels
    <3> QED BY <3>1, <3>3 DEF RunInv, WrittenAt, Sound
  <2> QED BY <2>1, <2>2
<1> QED BY <1>2, <1>3, <1>4

\* What the client's own steps are: it goes on, and may write.
LEMMA RunMoves ==
    ASSUME GatewayAssumption, GatewayInv, NEW r \in Runs, NEW l \in Labels, NEW fs \in SUBSET Files,
           NEW o \in {"none", "deterministic", "model"},
           pc' = [pc EXCEPT ![r] = l], files' = [files EXCEPT ![r] = fs],
           output' = [output EXCEPT ![r] = o],
           UNCHANGED <<allowed, reply, serving, provider>>, queue' \in Seq(Clients),
           pc'[r] = l /\ files'[r] = fs /\ output'[r] = o => RunInv(r)'
    PROVE  GatewayInv'
<1>0. r \in Clients
  BY DEF Clients
<1>1. /\ pc' \in [Clients -> Labels] /\ files' \in [Runs -> SUBSET Files]
      /\ output' \in [Runs -> {"none", "deterministic", "model"}]
      /\ pc'[r] = l /\ files'[r] = fs /\ output'[r] = o
  BY <1>0 DEF GatewayInv, GatewayTypes
<1>2. GatewayTypes'
  BY <1>1 DEF GatewayInv, GatewayTypes
<1>3. ASSUME NEW x \in Runs, x # r PROVE RunInv(x)'
  <2>1. pc'[x] = pc[x] /\ files'[x] = files[x] /\ output'[x] = output[x] /\ reply'[x] = reply[x]
    BY <1>3 DEF GatewayInv, GatewayTypes, Clients
  <2> QED BY <2>1, OthersKeep
<1> QED BY <1>1, <1>2, <1>3 DEF GatewayInv

\* A thread's step, whichever it is.
LEMMA RunSteps ==
    ASSUME GatewayAssumption, GatewayInv, NEW r \in Runs, RunStep(r)
    PROVE  GatewayInv'
<1>0. /\ r \in Clients /\ pc[r] \in Labels /\ files[r] \in SUBSET Files
      /\ output[r] \in {"none", "deterministic", "model"} /\ RunInv(r)
      /\ pc \in [Clients -> Labels] /\ files \in [Runs -> SUBSET Files]
      /\ output \in [Runs -> {"none", "deterministic", "model"}]
      /\ queue \in Seq(Clients)
  BY DEF GatewayInv, GatewayTypes, Clients
<1>1. /\ files = [files EXCEPT ![r] = files[r]]
      /\ output = [output EXCEPT ![r] = output[r]]
  BY <1>0
<1>2. ASSUME NEW from \in Labels, NEW to \in Labels, NEW f \in Files, Write(r, from, f, to),
             pc'[r] = to /\ files'[r] = files[r] \cup {f} /\ output'[r] = output[r] => RunInv(r)'
      PROVE  GatewayInv'
  <2>1. files[r] \cup {f} \in SUBSET Files
    BY <1>0
  <2>2. /\ pc' = [pc EXCEPT ![r] = to] /\ files' = [files EXCEPT ![r] = files[r] \cup {f}]
        /\ output' = [output EXCEPT ![r] = output[r]]
        /\ UNCHANGED <<allowed, reply, serving, provider>> /\ queue' \in Seq(Clients)
    BY <1>0, <1>1, <1>2 DEF Write, Goto, ClientOnly
  <2> QED BY <1>0, <1>2, <2>1, <2>2, RunMoves
<1>14. ASSUME DraftAlone(r), output[r] = "none", allowed <=> "llm_failure" \in files[r]
       PROVE  GatewayInv'
  <2>1. /\ files' = [files EXCEPT ![r] = files[r]] /\ queue' \in Seq(Clients)
        /\ UNCHANGED <<allowed, reply, serving, provider>>
    BY <1>0, <1>1, <1>14 DEF DraftAlone, ClientOnly
  <2>2. CASE r \in Bare
    <3>1. /\ pc' = [pc EXCEPT ![r] = "failed"]
          /\ output' = [output EXCEPT ![r] = output[r]]
      BY <1>1, <1>14, <2>2 DEF DraftAlone, Goto
    <3>2. pc'[r] = "failed" /\ files'[r] = files[r] /\ output'[r] = output[r] => RunInv(r)'
      BY <1>14, <2>1, <2>2 DEF RunInv, WrittenAt, Sound, Asked, Undrafted
    <3> QED BY <1>0, <2>1, <3>1, <3>2, RunMoves DEF Labels
  <2>3. CASE r \notin Bare
    <3>1. /\ pc' = [pc EXCEPT ![r] = "done"]
          /\ output' = [output EXCEPT ![r] = "deterministic"]
      BY <1>14, <2>3 DEF DraftAlone, Goto
    <3>2. pc'[r] = "done" /\ files'[r] = files[r] /\ output'[r] = "deterministic" => RunInv(r)'
      BY <1>14, <2>1 DEF RunInv, WrittenAt, Sound, Asked, Undrafted
    <3> QED BY <1>0, <2>1, <3>1, <3>2, RunMoves DEF Labels
  <2> QED BY <2>2, <2>3
<1>3. CASE Start(r)
  <2>1. CASE allowed /\ Post(r)
    <3>1. /\ pc' = [pc EXCEPT ![r] = "wait"] /\ files' = [files EXCEPT ![r] = files[r]]
          /\ output' = [output EXCEPT ![r] = output[r]]
          /\ UNCHANGED <<allowed, reply, serving, provider>>
      BY <1>1, <2>1 DEF Post, Goto
    <3>2. queue' \in Seq(Clients)
      BY <1>0, <2>1 DEF Post
    <3>3. pc'[r] = "wait" /\ files'[r] = files[r] /\ output'[r] = output[r] => RunInv(r)'
      <4>1. files[r] = {} /\ output[r] = "none"
        BY <1>0, <1>3 DEF Start, RunInv, WrittenAt, Undrafted, Labels
      <4> QED BY <4>1, <2>1, <3>1 DEF RunInv, WrittenAt, Sound, Asked, Undrafted
    <3> QED BY <1>0, <3>1, <3>2, <3>3, RunMoves DEF Labels
  <2>2. CASE ~allowed /\ DraftAlone(r)
    <3>1. files[r] = {} /\ output[r] = "none"
      BY <1>0, <1>3 DEF Start, RunInv, WrittenAt, Undrafted, Labels
    <3> QED BY <1>14, <2>2, <3>1
  <2> QED BY <1>3, <2>1, <2>2 DEF Start
<1>4. CASE GatewayReceipt(r)
  <2>1. Write(r, "fall", "llm_gateway_failure", "fall2") /\ allowed' = allowed
    BY <1>4 DEF GatewayReceipt, Write, ClientOnly
  <2>2. files[r] \subseteq {"llm_gateway_failure"} /\ output[r] = "none" /\ allowed
    BY <1>0, <2>1 DEF Write, RunInv, WrittenAt, Asked, Undrafted, Labels
  <2> QED BY <1>2, <2>1, <2>2 DEF Labels, Files, RunInv, WrittenAt, Sound, Undrafted
<1>5. CASE NoReceipt(r)
  <2>1. /\ pc' = [pc EXCEPT ![r] = "fall2"] /\ files' = [files EXCEPT ![r] = files[r]]
        /\ output' = [output EXCEPT ![r] = output[r]]
        /\ UNCHANGED <<allowed, reply, serving, provider>> /\ queue' \in Seq(Clients)
    BY <1>0, <1>1, <1>5 DEF NoReceipt, Goto, ClientOnly
  <2>2. pc[r] = "fall"
    BY <1>5 DEF NoReceipt
  <2>3. files[r] \subseteq {"llm_gateway_failure"} /\ output[r] = "none" /\ allowed
    BY <1>0, <2>2 DEF RunInv, WrittenAt, Asked, Undrafted, Labels
  <2>4. pc'[r] = "fall2" /\ files'[r] = files[r] /\ output'[r] = output[r] => RunInv(r)'
    BY <2>1, <2>3 DEF RunInv, WrittenAt, Sound, Undrafted
  <2> QED BY <1>0, <2>1, <2>4, RunMoves DEF Labels
<1>6. CASE ModeReceipt(r)
  <2>1. Write(r, "fall2", "llm_failure", "fall3") /\ allowed' = allowed
    BY <1>6 DEF ModeReceipt, Write, ClientOnly
  <2>2. output[r] = "none" /\ allowed
    BY <1>0, <2>1 DEF Write, RunInv, Asked, Undrafted, Labels
  <2> QED BY <1>2, <2>1, <2>2 DEF Labels, Files, RunInv, WrittenAt, Sound, Undrafted
<1>7. CASE FallBack(r)
  <2>1. pc[r] = "fall3" /\ DraftAlone(r)
    BY <1>7 DEF FallBack
  <2>2. "llm_failure" \in files[r] /\ allowed /\ output[r] = "none"
    BY <1>0, <2>1 DEF RunInv, WrittenAt, Asked, Undrafted, Labels
  <2> QED BY <1>14, <2>1, <2>2
<1>8. CASE KeepRaw(r)
  <2> DEFINE to == CASE reply[r] = "badtext" -> "refuse"
                     [] reply[r] = "badmap"  -> "refuse"
                     [] reply[r] = "mapped"  -> "map"
                     [] reply[r] = "phantom" -> "phantom"
                     [] OTHER                -> "output"
  <2>1. Write(r, "raw", "llm_raw_txt", to) /\ allowed' = allowed /\ reply' = reply
    BY <1>8 DEF KeepRaw, Write, ClientOnly
  <2>2. files[r] = {} /\ output[r] = "none" /\ allowed
    BY <1>0, <2>1 DEF Write, RunInv, WrittenAt, Asked, Undrafted, Labels
  <2>3. /\ to \in {"refuse", "map", "phantom", "output"}
        /\ to = "map" => reply[r] = "mapped"
        /\ to = "output" => reply[r] # "mapped"
    OBVIOUS
  <2> HIDE DEF to
  <2>4. pc'[r] = to /\ files'[r] = files[r] \cup {"llm_raw_txt"} /\ output'[r] = output[r]
           => RunInv(r)'
    BY <2>1, <2>2, <2>3 DEF RunInv, WrittenAt, Sound
  <2> QED BY <1>2, <2>1, <2>3, <2>4 DEF Labels, Files
<1>9. CASE KeepMap(r)
  <2>1. Write(r, "map", "evidence_map_llm", "output") /\ allowed' = allowed
    BY <1>9 DEF KeepMap, Write, ClientOnly
  <2>2. files[r] = {"llm_raw_txt"} /\ output[r] = "none" /\ allowed
    BY <1>0, <2>1 DEF Write, RunInv, WrittenAt, Asked, Undrafted, Labels
  <2> QED BY <1>2, <2>1, <2>2 DEF Labels, Files, RunInv, WrittenAt, Sound, Undrafted
<1>10. CASE KeepPhantom(r)
  <2>1. Write(r, "phantom", "llm_raw_json", "refuse") /\ allowed' = allowed
    BY <1>10 DEF KeepPhantom, Write, ClientOnly
  <2>2. output[r] = "none" /\ allowed
    BY <1>0, <2>1 DEF Write, RunInv, Asked, Undrafted, Labels
  <2> QED BY <1>2, <2>1, <2>2 DEF Labels, Files, RunInv, WrittenAt, Sound, Undrafted
<1>11. CASE Refuse(r)
  <2>1. Write(r, "refuse", "llm_failure", "failed") /\ allowed' = allowed
    BY <1>11 DEF Refuse, Write, ClientOnly
  <2>2. output[r] = "none" /\ allowed
    BY <1>0, <2>1 DEF Write, RunInv, Asked, Undrafted, Labels
  <2> QED BY <1>2, <2>1, <2>2 DEF Labels, Files, RunInv, WrittenAt, Sound, Asked, Undrafted
<1>12. CASE Accept(r)
  <2>1. /\ pc' = [pc EXCEPT ![r] = "usage"] /\ files' = [files EXCEPT ![r] = files[r]]
        /\ output' = [output EXCEPT ![r] = "model"]
        /\ UNCHANGED <<allowed, reply, serving, provider>> /\ queue' \in Seq(Clients)
    BY <1>0, <1>1, <1>12 DEF Accept, Goto, ClientOnly
  <2>2. pc[r] = "output"
    BY <1>12 DEF Accept
  <2>3. /\ "llm_raw_txt" \in files[r] /\ files[r] \subseteq {"llm_raw_txt", "evidence_map_llm"}
        /\ reply[r] = "mapped" => "evidence_map_llm" \in files[r]
        /\ allowed
    BY <1>0, <2>2 DEF RunInv, WrittenAt, Asked, Labels
  <2>4. pc'[r] = "usage" /\ files'[r] = files[r] /\ output'[r] = "model" => RunInv(r)'
    BY <2>1, <2>3 DEF RunInv, WrittenAt, Sound, Asked, Undrafted
  <2> QED BY <1>0, <2>1, <2>4, RunMoves DEF Labels
<1>13. CASE KeepUsage(r)
  <2>1. Write(r, "usage", "llm_usage", "done") /\ UNCHANGED <<allowed, reply>>
    BY <1>13 DEF KeepUsage, Write, ClientOnly
  <2>2. output[r] = "model" /\ Sound(r) /\ allowed
    BY <1>0, <2>1 DEF Write, RunInv, Asked, Labels
  <2> QED BY <1>2, <2>1, <2>2 DEF Labels, Files, RunInv, WrittenAt, Sound, Asked, Undrafted
<1> QED BY <1>3, <1>4, <1>5, <1>6, <1>7, <1>8, <1>9, <1>10, <1>11, <1>12, <1>13 DEF RunStep

\* The gateway takes, refuses or answers a request.
LEMMA GatewaySteps ==
    ASSUME GatewayAssumption, GatewayInv, GatewayStep
    PROVE  GatewayInv'
<1>0. GatewayTypes /\ UNCHANGED <<allowed, files, output>>
  BY DEF GatewayInv, GatewayStep, Reject, NoProvider, Turn, Call, Answer
<1>1. ASSUME NEW c \in Clients, NEW what \in WithDraft \cup Errors, Says(c, what)
      PROVE  /\ pc' \in [Clients -> Labels]
             /\ reply' \in [Clients -> {"none"} \cup WithDraft \cup Errors]
             /\ \A r \in Runs : RunInv(r)'
  <2>1. CASE Waits(c)
    BY <1>0, <1>1, <2>1, ReceivesStep DEF Says
  <2>2. CASE ~Waits(c)
    <3>1. UNCHANGED <<pc, reply>>
      BY <1>1, <2>2 DEF Says
    <3> QED BY <1>0, <3>1, OthersKeep DEF GatewayTypes
  <2> QED BY <2>1, <2>2
<1>2. queue # <<>> => Head(queue) \in Clients /\ Tail(queue) \in Seq(Clients)
  BY <1>0 DEF GatewayTypes
<1>3. ASSUME NEW what \in {"422", "502"}, queue # <<>>, Turn(what) PROVE GatewayInv'
  <2>1. UNCHANGED <<serving, provider>> /\ queue' \in Seq(Clients) /\ Says(Head(queue), what)
    BY <1>2, <1>3 DEF Turn
  <2>2. what \in WithDraft \cup Errors
    BY <1>3 DEF Errors
  <2>3. /\ pc' \in [Clients -> Labels]
        /\ reply' \in [Clients -> {"none"} \cup WithDraft \cup Errors]
        /\ \A r \in Runs : RunInv(r)'
    BY <1>1, <1>2, <1>3, <2>1, <2>2
  <2> QED BY <1>0, <2>1, <2>3 DEF GatewayInv, GatewayTypes
<1>4. CASE Call
  <2>1. /\ UNCHANGED <<pc, reply>> /\ serving' \in Clients /\ provider' = TRUE
        /\ queue' \in Seq(Clients)
    BY <1>2, <1>4 DEF Call
  <2>2. \A r \in Runs : RunInv(r)'
    BY <1>0, <2>1, OthersKeep
  <2> QED BY <1>0, <2>1, <2>2 DEF GatewayInv, GatewayTypes
<1>5. CASE Answer
  <2>1. PICK what \in WithDraft \cup {"422", "502"} : Says(serving, what)
    BY <1>5 DEF Answer
  <2>2. serving \in Clients /\ serving' = Free /\ UNCHANGED <<queue, provider>>
    BY <1>0, <1>5 DEF Answer, GatewayTypes
  <2>3. /\ pc' \in [Clients -> Labels]
        /\ reply' \in [Clients -> {"none"} \cup WithDraft \cup Errors]
        /\ \A r \in Runs : RunInv(r)'
    BY <1>1, <2>1, <2>2 DEF Errors
  <2> QED BY <1>0, <2>2, <2>3 DEF GatewayInv, GatewayTypes
<1> QED BY <1>3, <1>4, <1>5 DEF GatewayStep, Reject, NoProvider

\* Either process ends.
LEMMA StopSteps ==
    ASSUME GatewayAssumption, GatewayInv, GatewayStops \/ WebStops
    PROVE  GatewayInv'
<1>0. GatewayTypes /\ UNCHANGED <<allowed, files, output>>
  BY DEF GatewayInv, GatewayStops, WebStops
<1>1. CASE GatewayStops
  <2>1. /\ pc' = [c \in Clients |-> IF ~Waits(c) THEN pc[c]
                                   ELSE IF c \in ChatCalls THEN "done" ELSE "fall"]
        /\ reply' = [c \in Clients |-> IF Waits(c) THEN "lost" ELSE reply[c]]
        /\ queue' = <<>> /\ serving' = Free
    BY <1>1 DEF GatewayStops
  <2>2. GatewayTypes'
    <3>1. pc' \in [Clients -> Labels]
      BY <1>0, <2>1 DEF GatewayTypes, Labels
    <3>2. reply' \in [Clients -> {"none"} \cup WithDraft \cup Errors]
      BY <1>0, <2>1 DEF GatewayTypes, Errors
    <3> QED BY <1>0, <2>1, <3>1, <3>2 DEF GatewayTypes
  <2>3. ASSUME NEW r \in Runs PROVE RunInv(r)'
    <3>0. r \in Clients /\ r \notin ChatCalls
      BY DEF Clients, GatewayAssumption
    <3>1. CASE ~Waits(r)
      BY <1>0, <2>1, <3>0, <3>1, OthersKeep
    <3>2. CASE Waits(r)
      <4>1. pc'[r] = "fall"
        BY <2>1, <3>0, <3>2
      <4>2. files'[r] = {} /\ output'[r] = "none" /\ allowed'
        BY <1>0, <3>2 DEF GatewayInv, Waits, RunInv, WrittenAt, Asked, Undrafted, Labels
      <4> QED BY <4>1, <4>2 DEF RunInv, WrittenAt, Sound
    <3> QED BY <3>1, <3>2
  <2> QED BY <2>2, <2>3 DEF GatewayInv
<1>2. CASE WebStops
  <2>1. /\ pc' = [c \in Clients |->
                    IF pc[c] \in {"start", "done", "failed"} THEN pc[c] ELSE "dead"]
        /\ UNCHANGED <<reply, queue, serving, provider>>
    BY <1>2 DEF WebStops
  <2>2. GatewayTypes'
    BY <1>0, <2>1 DEF GatewayTypes, Labels
  <2>3. ASSUME NEW r \in Runs PROVE RunInv(r)'
    <3>0. r \in Clients /\ RunInv(r)
      BY DEF Clients, GatewayInv
    <3>1. CASE pc[r] \in {"start", "done", "failed"}
      BY <1>0, <2>1, <3>0, <3>1, OthersKeep
    <3>2. CASE pc[r] \notin {"start", "done", "failed"}
      <4>1. pc'[r] = "dead"
        BY <2>1, <3>0, <3>2
      <4> QED BY <1>0, <2>1, <3>0, <4>1 DEF RunInv, WrittenAt, Sound, Asked, Undrafted
    <3> QED BY <3>1, <3>2
  <2> QED BY <2>2, <2>3 DEF GatewayInv
<1> QED BY <1>1, <1>2

LEMMA GatewayInvStep ==
    ASSUME GatewayAssumption, GatewayInv, [GatewayNext]_gatewayVars
    PROVE  GatewayInv'
<1>0. GatewayTypes
  BY DEF GatewayInv
<1>1. ASSUME NEW c \in ChatCalls, Ask(c) PROVE GatewayInv'
  <2>1. /\ pc' = [pc EXCEPT ![c] = "wait"] /\ queue' = Append(queue, c)
        /\ UNCHANGED <<allowed, reply, files, output, serving, provider>>
    BY <1>1 DEF Ask, Post, Goto
  <2>2. c \in Clients /\ queue' \in Seq(Clients)
    BY <1>0, <2>1 DEF Clients, GatewayTypes
  <2>3. pc' \in [Clients -> Labels]
    BY <1>0, <2>1, <2>2 DEF GatewayTypes, Labels
  <2>4. \A r \in Runs : r \in Clients /\ r # c
    BY DEF Clients, GatewayAssumption
  <2>5. \A r \in Runs : RunInv(r)'
    BY <1>0, <2>1, <2>4, OthersKeep DEF GatewayTypes
  <2> QED BY <1>0, <2>1, <2>2, <2>3, <2>5 DEF GatewayInv, GatewayTypes
<1>2. ASSUME NEW c \in Clients, Timeout(c) \/ Misanswered(c) PROVE GatewayInv'
  <2>1. /\ Waits(c) /\ UNCHANGED <<allowed, files, output, queue, serving, provider>>
        /\ \E what \in WithDraft \cup Errors : Receives(c, what)
    BY <1>2 DEF Timeout, Misanswered, ClientOnly, Errors
  <2>2. /\ pc' \in [Clients -> Labels]
        /\ reply' \in [Clients -> {"none"} \cup WithDraft \cup Errors]
        /\ \A r \in Runs : RunInv(r)'
    BY <2>1, ReceivesStep
  <2> QED BY <1>0, <2>1, <2>2 DEF GatewayInv, GatewayTypes
<1>3. CASE UNCHANGED gatewayVars
  <2>1. UNCHANGED <<allowed, pc, reply, files, output, queue, serving, provider>>
    BY <1>3 DEF gatewayVars
  <2>2. \A r \in Runs : RunInv(r)'
    BY <2>1, OthersKeep
  <2> QED BY <1>0, <2>1, <2>2 DEF GatewayInv, GatewayTypes
<1> QED BY <1>1, <1>2, <1>3, RunSteps, GatewaySteps, StopSteps DEF GatewayNext

\* The files of a run explain its draft at every moment: a fallback has its receipt, a
\* model's draft its answer, a failure its reason (minutes_json.py, journal_json.py).
THEOREM FallbacksAlwaysExplained ==
    ASSUME GatewayAssumption PROVE GatewaySpec => []FallbacksExplained
<1>1. GatewayInit => GatewayInv
  BY GatewayInvInit
<1>2. GatewayInv /\ [GatewayNext]_gatewayVars => GatewayInv'
  BY GatewayInvStep
<1>3. GatewayInv => FallbacksExplained
  BY DEF GatewayInv, RunInv, Sound, FallbacksExplained
<1> QED BY <1>1, <1>2, <1>3, PTL DEF GatewaySpec

\* The gateway has a provider whenever it is at a request (llm_gateway/app.py).
THEOREM GatewayTyped == ASSUME GatewayAssumption PROVE GatewaySpec => []GatewayTypeOK
<1>1. GatewayInit => GatewayInv
  BY GatewayInvInit
<1>2. GatewayInv /\ [GatewayNext]_gatewayVars => GatewayInv'
  BY GatewayInvStep
<1>3. GatewayInv => GatewayTypeOK
  BY DEF GatewayInv, GatewayTypes, GatewayTypeOK
<1> QED BY <1>1, <1>2, <1>3, PTL DEF GatewaySpec

-----------------------------------------------------------------------------
(* The Telegram door: a run is what its user confirmed.                     *)

Prompt == [kind : {None, "mode", "spk", "go"}, up : Nat, mode : Modes \cup {None},
           speakers : Counts \cup {None}, lost : BOOLEAN]
RunRecord == [user : Users, flow : Nat, cid : Nat, mode : Modes, speakers : Counts \cup {None},
              shown : Prompt]

DoorTypes ==
    /\ DoorTypeOK
    /\ shown \in [Users -> Prompt]
    /\ contributions \in Seq([up : Nat, mode : Modes])
    /\ runs \in Seq(RunRecord)

\* A flow is of one upload, which is not of another user's, and its file is still there
\* or was replaced by a later one.
FlowsInv ==
    /\ \A at \in Chats \X Names : inbox[at] <= uploads
    /\ \A u \in Users :
          /\ flow[u].up <= uploads
          /\ flow[u].up # 0 =>
                /\ <<flow[u].chat, flow[u].name>> \in Chats \X Names
                /\ inbox[<<flow[u].chat, flow[u].name>>] >= flow[u].up
                /\ \A w \in Users : flow[w].up = flow[u].up => w = u

\* Prompts are never newer than the uploads; a confirm prompt of the flow at hand shows it.
PromptsInv ==
    \A u \in Users :
        /\ shown[u].up <= uploads
        /\ (shown[u].kind = "go" /\ shown[u].up = flow[u].up /\ ~shown[u].lost
              /\ flow[u].up # 0) =>
               shown[u].mode = OrMeeting(flow[u].mode) /\ shown[u].speakers = flow[u].speakers

\* A run is of an upload whose flow is over, and has its contribution.
RunsInv ==
    \A i \in 1..Len(runs) :
        /\ runs[i].flow \in 1..uploads
        /\ \A u \in Users : flow[u].up # runs[i].flow
        /\ runs[i].cid \in 1..Len(contributions)

DoorInv == DoorTypes /\ FlowsInv /\ PromptsInv /\ RunsInv /\ RunsAsConfirmed

USE DEF NoFlow, NoPrompt, Empty, None

LEMMA DoorInvInit == ASSUME DoorAssumption, DoorInit PROVE DoorInv
<1>1. DoorTypes
  <2>1. NoFlow \in Flow
    BY DEF DoorAssumption, Flow
  <2>2. NoPrompt \in Prompt
    BY DEF Prompt
  <2>3. DoorTypeOK
    BY <2>1 DEF DoorTypeOK, DoorInit, DoorAssumption, Flow
  <2>4. shown \in [Users -> Prompt]
    BY <2>2, Zenon DEF DoorInit
  <2> QED BY <2>3, <2>4 DEF DoorTypes, DoorInit
<1>2. FlowsInv /\ PromptsInv /\ RunsInv /\ RunsAsConfirmed
  BY DEF FlowsInv, PromptsInv, RunsInv, RunsAsConfirmed, DoorInit
<1> QED BY <1>1, <1>2 DEF DoorInv

\* What prompting leaves behind: the prompt of a flow, or a note that it was lost.
LEMMA PromptedFacts ==
    ASSUME DoorAssumption, DoorTypes, NEW u \in Users,
           NEW f \in Flow, NEW kind \in {"mode", "spk", "go"}, Prompted(u, f, kind)
    PROVE  /\ onscreen' \subseteq {"mode", "spk", "go"}
           /\ shown' \in [Users -> Prompt]
           /\ \A w \in Users : w # u => shown'[w] = shown[w]
           /\ \/ shown'[u] = [kind |-> kind, up |-> f.up, mode |-> OrMeeting(f.mode),
                              speakers |-> f.speakers, lost |-> FALSE]
              \/ shown'[u].lost /\ shown'[u].up = shown[u].up
<1> DEFINE p == [kind |-> kind, up |-> f.up, mode |-> OrMeeting(f.mode),
                 speakers |-> f.speakers, lost |-> FALSE]
<1>1. p \in Prompt
  BY DEF Prompt, OrMeeting, DoorAssumption, Flow
<1>2. [shown[u] EXCEPT !.lost = TRUE] \in Prompt
  <2>1. shown[u] \in Prompt
    BY DEF DoorTypes
  <2> QED BY <2>1, Zenon DEF Prompt
<1>3. CASE shown' = [shown EXCEPT ![u] = p] /\ onscreen' = onscreen \cup {kind}
  BY <1>1, <1>3 DEF DoorTypes, DoorTypeOK
<1>4. CASE shown' = [shown EXCEPT ![u].lost = TRUE] /\ UNCHANGED onscreen
  <2>1. shown' \in [Users -> Prompt]
    BY <1>2, <1>4, Zenon DEF DoorTypes
  <2>2. shown[u] \in Prompt
    BY DEF DoorTypes
  <2> QED BY <1>4, <2>1, <2>2 DEF DoorTypes, DoorTypeOK, Prompt
<1> QED BY <1>3, <1>4 DEF Prompted

-----------------------------------------------------------------------------
\* A file is sent: the new flow is of the newest upload.
LEMMA MediaStep ==
    ASSUME DoorAssumption, DoorInv, NEW u \in Users, NEW chat \in Chats, NEW name \in Names,
           handle_media(u, chat, name)
    PROVE  DoorInv'
<1> DEFINE f == [NoFlow EXCEPT !.up = uploads', !.chat = chat, !.name = name]
<1>1. /\ uploads \in Nat /\ uploads' = uploads + 1 /\ uploads' \in 0..MaxUploads
      /\ f \in Flow /\ f.up = uploads' /\ f.chat = chat /\ f.name = name
  <2>1. uploads \in Nat /\ uploads' = uploads + 1 /\ uploads' \in 0..MaxUploads
    BY DEF DoorInv, DoorTypes, DoorTypeOK, handle_media, DoorAssumption
  <2> QED BY <2>1 DEF Flow
<1>2. flow \in [Users -> Flow] /\ flow' = [flow EXCEPT ![u] = f] /\ flow'[u] = f
  BY DEF DoorInv, DoorTypes, DoorTypeOK, handle_media, Flow
<1>3. /\ onscreen' \subseteq {"mode", "spk", "go"}
      /\ shown' \in [Users -> Prompt]
      /\ \A w \in Users : w # u => shown'[w] = shown[w]
      /\ \/ shown'[u] = [kind |-> "mode", up |-> f.up, mode |-> OrMeeting(f.mode),
                         speakers |-> f.speakers, lost |-> FALSE]
         \/ shown'[u].lost /\ shown'[u].up = shown[u].up
  <2>1. Prompted(u, f, "mode")
    BY <1>2 DEF handle_media
  <2> QED BY <2>1, <1>1, PromptedFacts DEF DoorInv
<1>4. DoorTypes'
  <2>1. flow' \in [Users -> Flow] /\ inbox' \in [Chats \X Names -> 0..MaxUploads]
    BY <1>1, <1>2 DEF DoorInv, DoorTypes, DoorTypeOK, handle_media
  <2> QED BY <2>1, <1>1, <1>3 DEF DoorInv, DoorTypes, DoorTypeOK, handle_media, Flow
<1>5. FlowsInv'
  <2>1. \A at \in Chats \X Names : inbox'[at] = IF at = <<chat, name>> THEN uploads'
                                              ELSE inbox[at]
    BY <1>1 DEF DoorInv, DoorTypes, DoorTypeOK, handle_media
  <2> HIDE DEF f
  <2>2. \A w \in Users : flow'[w] = IF w = u THEN f ELSE flow[w]
    BY <1>2
  <2>3. \A at \in Chats \X Names : inbox'[at] <= uploads' /\ inbox'[at] >= inbox[at]
                                  /\ inbox[at] \in Nat
    <3>1. \A at \in Chats \X Names : inbox[at] \in Nat /\ inbox[at] <= uploads
      BY DEF DoorInv, DoorTypes, DoorTypeOK, FlowsInv
    <3>2. uploads \in Nat /\ uploads' = uploads + 1
      BY <1>1 DEF DoorInv, DoorTypes, DoorTypeOK, handle_media
    <3> QED BY <2>1, <3>1, <3>2
  <2>4. \A w \in Users : flow[w].up \in Nat /\ flow[w].up < uploads'
    <3>1. \A w \in Users : flow[w].up \in Nat
      BY <1>2 DEF Flow
    <3>2. \A w \in Users : flow[w].up <= uploads
      BY DEF DoorInv, FlowsInv
    <3> QED BY <1>1, <3>1, <3>2
  <2>5. \A w \in Users : flow'[w].up # 0 =>
                            <<flow'[w].chat, flow'[w].name>> \in Chats \X Names
    BY <1>1, <2>2 DEF DoorInv, FlowsInv
  <2>6. inbox'[<<f.chat, f.name>>] = uploads'
    BY <1>1, <2>1
  <2>7. \A w \in Users : flow'[w].up # 0 =>
                            inbox'[<<flow'[w].chat, flow'[w].name>>] >= flow'[w].up
    <3> SUFFICES ASSUME NEW w \in Users, flow'[w].up # 0
                 PROVE  inbox'[<<flow'[w].chat, flow'[w].name>>] >= flow'[w].up
      OBVIOUS
    <3>1. CASE w = u
      BY <3>1, <2>2, <2>6, <1>1
    <3>2. CASE w # u
      <4>1. flow'[w] = flow[w] /\ <<flow[w].chat, flow[w].name>> \in Chats \X Names
        BY <3>2, <2>2, <2>5
      <4>2. inbox[<<flow[w].chat, flow[w].name>>] >= flow[w].up
        BY <4>1 DEF DoorInv, FlowsInv
      <4>3. /\ inbox'[<<flow[w].chat, flow[w].name>>] >= inbox[<<flow[w].chat, flow[w].name>>]
            /\ inbox[<<flow[w].chat, flow[w].name>>] \in Nat
            /\ inbox'[<<flow[w].chat, flow[w].name>>] \in Nat
        BY <4>1, <2>3, <1>1, <2>1
      <4> QED BY <4>1, <4>2, <4>3, <2>4
    <3> QED BY <3>1, <3>2
  <2>8. \A w, x \in Users : flow'[w].up # 0 /\ flow'[x].up = flow'[w].up => x = w
    <3>1. \A w \in Users : flow'[w].up = IF w = u THEN uploads' ELSE flow[w].up
      BY <1>1, <2>2
    <3>2. \A w, x \in Users : flow[w].up # 0 /\ flow[x].up = flow[w].up => x = w
      BY DEF DoorInv, FlowsInv
    <3> QED BY <1>1, <2>4, <3>1, <3>2
  <2> QED BY <2>2, <2>3, <2>4, <2>5, <2>7, <2>8, <1>1 DEF FlowsInv
<1>6. PromptsInv'
  <2>1. \A w \in Users : w # u => shown'[w] = shown[w] /\ flow'[w] = flow[w]
    BY <1>2, <1>3
  <2>2. shown[u].up \in Nat /\ shown[u].up <= uploads /\ flow'[u].up = uploads'
    BY <1>1, <1>2 DEF DoorInv, DoorTypes, PromptsInv, Prompt
  <2>3. /\ shown'[u].up <= uploads'
        /\ ~(shown'[u].kind = "go" /\ shown'[u].up = flow'[u].up /\ ~shown'[u].lost)
    BY <1>1, <1>3, <2>2
  <2>4. \A w \in Users : shown[w].up \in Nat
    BY DEF DoorInv, DoorTypes, Prompt
  <2> QED BY <1>1, <2>1, <2>3, <2>4 DEF DoorInv, PromptsInv
<1>7. RunsInv' /\ RunsAsConfirmed'
  <2>1. runs' = runs /\ contributions' = contributions
    BY DEF handle_media
  <2>2. \A w \in Users : flow'[w].up = IF w = u THEN uploads' ELSE flow[w].up
    BY <1>1, <1>2
  <2> QED BY <1>1, <2>1, <2>2 DEF DoorInv, RunsInv, RunsAsConfirmed
<1> QED BY <1>4, <1>5, <1>6, <1>7 DEF DoorInv

\* A choice is made: only the choice of one's own flow changes.
LEMMA ChoiceStep ==
    ASSUME DoorAssumption, DoorInv, NEW u \in Users, flow[u].up # 0,
           NEW f \in Flow, f.up = flow[u].up, f.chat = flow[u].chat, f.name = flow[u].name,
           flow' = [flow EXCEPT ![u] = f],
           NEW k \in {"mode", "spk", "go"}, Pressed(u, k),
           NEW kind \in {"spk", "go"}, Prompted(u, f, kind), Fixed
    PROVE  DoorInv'
<1>1. flow \in [Users -> Flow] /\ \A w \in Users : flow'[w] = IF w = u THEN f ELSE flow[w]
  BY DEF DoorInv, DoorTypes, DoorTypeOK, Flow
<1>2. /\ onscreen' \subseteq {"mode", "spk", "go"}
      /\ shown' \in [Users -> Prompt]
      /\ \A w \in Users : w # u => shown'[w] = shown[w]
      /\ \/ shown'[u] = [kind |-> kind, up |-> f.up, mode |-> OrMeeting(f.mode),
                         speakers |-> f.speakers, lost |-> FALSE]
         \/ shown'[u].lost /\ shown'[u].up = shown[u].up
  BY PromptedFacts DEF DoorInv
<1>3. DoorTypes'
  <2>1. flow' \in [Users -> Flow]
    BY <1>1
  <2>2. presses' \in 0..MaxPresses /\ Len(contributions) <= presses'
    BY DEF DoorInv, DoorTypes, DoorTypeOK, Pressed, DoorAssumption
  <2>3. DoorTypeOK'
    BY <2>1, <2>2, <1>2 DEF DoorInv, DoorTypes, DoorTypeOK, Pressed, Fixed
  <2> QED BY <2>3, <1>2 DEF DoorInv, DoorTypes, Fixed
<1>4. \A w \in Users : /\ flow'[w].up = flow[w].up
                       /\ flow'[w].chat = flow[w].chat /\ flow'[w].name = flow[w].name
  BY <1>1
<1>5. FlowsInv'
  BY <1>4 DEF DoorInv, FlowsInv, Pressed
<1>6. PromptsInv'
  <2>1. uploads' = uploads /\ \A w \in Users : shown[w].up <= uploads
    BY DEF DoorInv, PromptsInv, Pressed
  <2>2. \A w \in Users : shown'[w].up <= uploads'
    <3>1. f.up <= uploads
      BY DEF DoorInv, FlowsInv
    <3>2. shown'[u].up = f.up \/ shown'[u].up = shown[u].up
      BY <1>2
    <3> QED BY <1>2, <2>1, <3>1, <3>2
  <2>3. ASSUME NEW w \in Users, shown'[w].kind = "go", shown'[w].up = flow'[w].up,
               ~shown'[w].lost, flow'[w].up # 0
        PROVE  /\ shown'[w].mode = OrMeeting(flow'[w].mode)
               /\ shown'[w].speakers = flow'[w].speakers
    <3>1. CASE w = u
      BY <3>1, <2>3, <1>1, <1>2
    <3>2. CASE w # u
      BY <3>2, <2>3, <1>1, <1>2 DEF DoorInv, PromptsInv
    <3> QED BY <3>1, <3>2
  <2> QED BY <2>2, <2>3 DEF PromptsInv
<1>7. RunsInv' /\ RunsAsConfirmed'
  BY <1>4, SMTT(30) DEF DoorInv, RunsInv, RunsAsConfirmed, Pressed, Fixed
<1> QED BY <1>3, <1>5, <1>6, <1>7 DEF DoorInv

\* Flows end, one or all of them, and nothing is run.
LEMMA EndStep ==
    ASSUME DoorAssumption, DoorInv,
           flow' \in [Users -> Flow], \A u \in Users : flow'[u] = NoFlow \/ flow'[u] = flow[u],
           UNCHANGED <<inbox, onscreen, shown, uploads, contributions, runs>>,
           presses' \in 0..MaxPresses, presses' >= presses
    PROVE  DoorInv'
<1>1. DoorTypes'
  BY DEF DoorInv, DoorTypes, DoorTypeOK, Flow
<1>2. FlowsInv'
  <2>1. \A w \in Users : flow'[w].up # 0 => flow'[w] = flow[w]
    OBVIOUS
  <2>2. \A w \in Users : flow'[w].up <= uploads
    <3>1. \A w \in Users : flow[w].up <= uploads
      BY DEF DoorInv, FlowsInv
    <3>2. uploads \in Nat
      BY DEF DoorInv, DoorTypes, DoorTypeOK, DoorAssumption
    <3>3. \A w \in Users : flow'[w].up = 0 \/ flow'[w].up = flow[w].up
      OBVIOUS
    <3> QED BY <3>1, <3>2, <3>3
  <2> QED BY <2>1, <2>2 DEF DoorInv, FlowsInv
<1>3. PromptsInv'
  <2>1. \A w \in Users : flow'[w].up # 0 => flow'[w] = flow[w]
    OBVIOUS
  <2> QED BY <2>1 DEF DoorInv, PromptsInv
<1>4. RunsInv' /\ RunsAsConfirmed'
  BY DEF DoorInv, RunsInv, RunsAsConfirmed
<1> QED BY <1>1, <1>2, <1>3, <1>4 DEF DoorInv

\* The confirm button: the flow is over, its file is contributed, and a run may be made of it.
LEMMA DoorRunStep ==
    ASSUME DoorAssumption, DoorInv, NEW u \in Users, RunButton(u)
    PROVE  DoorInv'
<1> DEFINE f == flow[u]
<1> DEFINE c == Contribution(f)
<1> DEFINE r == RunOf(u, f)
<1>1. /\ f \in Flow /\ f.up \in Nat /\ f.up # 0 /\ shown[u] \in Prompt
      /\ uploads \in Nat /\ uploads \in 0..MaxUploads /\ f.up <= uploads
      /\ presses \in Nat /\ presses' = presses + 1 /\ presses' \in 0..MaxPresses
      /\ UNCHANGED <<inbox, uploads, onscreen, shown>>
  <2>1. f \in Flow /\ shown[u] \in Prompt
    BY DEF DoorInv, DoorTypes, DoorTypeOK
  <2>2. f.up \in Nat
    BY <2>1 DEF Flow, DoorAssumption
  <2>3. f.up # 0 /\ f.up <= uploads
    BY DEF RunButton, DoorState, DoorInv, FlowsInv
  <2>4. /\ uploads \in Nat /\ uploads \in 0..MaxUploads
        /\ presses \in Nat /\ presses' = presses + 1 /\ presses' \in 0..MaxPresses
        /\ UNCHANGED <<inbox, uploads, onscreen, shown>>
    BY DEF RunButton, Pressed, DoorInv, DoorTypes, DoorTypeOK, DoorAssumption
  <2> QED BY <2>1, <2>2, <2>3, <2>4
<1>2. /\ c.up \in Nat /\ c.up >= f.up /\ c.mode = OrMeeting(f.mode) /\ c.mode \in Modes
      /\ c \in [up : Nat, mode : Modes]
  <2>1. /\ <<f.chat, f.name>> \in Chats \X Names
        /\ inbox[<<f.chat, f.name>>] >= f.up
    BY <1>1 DEF DoorInv, FlowsInv
  <2>2. inbox[<<f.chat, f.name>>] \in Nat
    BY <2>1 DEF DoorInv, DoorTypes, DoorTypeOK, DoorAssumption
  <2>3. OrMeeting(f.mode) \in Modes
    BY <1>1 DEF OrMeeting, Flow, DoorAssumption
  <2> QED BY <2>1, <2>2, <2>3 DEF Contribution
<1>3. /\ Len(contributions) \in Nat /\ Len(runs) \in Nat
      /\ Len(runs) <= Len(contributions) /\ Len(contributions) <= presses
      /\ contributions \in Seq([up : Nat, mode : Modes]) /\ runs \in Seq(RunRecord)
  BY DEF DoorInv, DoorTypes, DoorTypeOK
<1>4. /\ r.flow = f.up /\ r.cid = Len(contributions) + 1 /\ r.mode = c.mode
      /\ r.speakers = f.speakers /\ r.shown = shown[u]
      /\ r \in RunRecord
  <2>1. f.speakers \in Counts \cup {None}
    BY <1>1 DEF Flow
  <2>2. OrMeeting(f.mode) \in Modes
    BY <1>2
  <2> QED BY <1>1, <1>2, <1>3, <2>1, <2>2 DEF RunOf, RunRecord
<1> HIDE DEF c, r
<1>5. /\ flow' \in [Users -> Flow]
      /\ \A w \in Users : flow'[w] = IF w = u THEN NoFlow ELSE flow[w]
  <2>1. flow \in [Users -> Flow] /\ NoFlow \in Flow
    BY DEF DoorInv, DoorTypes, DoorTypeOK, Flow, DoorAssumption
  <2>2. flow' = [flow EXCEPT ![u] = NoFlow]
    BY DEF RunButton
  <2> QED BY <2>1, <2>2
<1>6. \/ contributions' = contributions /\ runs' = runs
      \/ contributions' = Append(contributions, c) /\ runs' = runs
      \/ contributions' = Append(contributions, c) /\ runs' = Append(runs, r)
  BY DEF RunButton, run_default_pipeline, Fixed, c, r
<1>7. /\ Len(contributions') \in Nat /\ Len(contributions') >= Len(contributions)
      /\ Len(contributions') <= Len(contributions) + 1
      /\ \A k \in 1..Len(contributions) : contributions'[k] = contributions[k]
      /\ contributions' \in Seq([up : Nat, mode : Modes])
  <2> DEFINE S == [up : Nat, mode : Modes]
  <2>1. c \in S /\ contributions \in Seq(S)
    BY <1>2, <1>3
  <2>2. contributions' = contributions \/ contributions' = Append(contributions, c)
    BY <1>6
  <2> HIDE DEF S
  <2>3. /\ Len(contributions') \in Nat /\ Len(contributions') >= Len(contributions)
        /\ Len(contributions') <= Len(contributions) + 1
        /\ \A k \in 1..Len(contributions) : contributions'[k] = contributions[k]
        /\ contributions' \in Seq(S)
    <3>1. CASE contributions' = contributions
      BY <2>1, <3>1, <1>3
    <3>2. CASE contributions' = Append(contributions, c)
      BY <2>1, <3>2
    <3> QED BY <2>2, <3>1, <3>2
  <2> QED BY <2>3 DEF S
<1>8. DoorTypes'
  <2>1. runs' \in Seq(RunRecord) /\ Len(runs') <= Len(contributions')
    <3>1. CASE runs' = runs
      BY <3>1, <1>3, <1>7
    <3>2. CASE contributions' = Append(contributions, c) /\ runs' = Append(runs, r)
      <4>1. Len(contributions') = Len(contributions) + 1
        BY <3>2, <1>3
      <4>2. runs' \in Seq(RunRecord) /\ Len(runs') = Len(runs) + 1
        BY <3>2, <1>3, <1>4
      <4> QED BY <4>1, <4>2, <1>3
    <3> QED BY <1>6, <3>1, <3>2
  <2>2. DoorTypeOK'
    BY <1>1, <1>3, <1>5, <1>7, <2>1 DEF DoorInv, DoorTypes, DoorTypeOK
  <2> QED BY <2>1, <2>2, <1>1, <1>7 DEF DoorInv, DoorTypes
<1>9. FlowsInv'
  <2>1. \A w \in Users : flow'[w].up # 0 => flow'[w] = flow[w]
    BY <1>5
  <2>2. \A w \in Users : flow'[w].up <= uploads
    <3>1. \A w \in Users : flow[w].up <= uploads
      BY DEF DoorInv, FlowsInv
    <3>2. \A w \in Users : flow'[w].up = 0 \/ flow'[w].up = flow[w].up
      BY <1>5
    <3> QED BY <1>1, <3>1, <3>2
  <2> QED BY <1>1, <2>1, <2>2 DEF DoorInv, FlowsInv
<1>10. PromptsInv'
  <2>1. \A w \in Users : flow'[w].up # 0 => flow'[w] = flow[w]
    BY <1>5
  <2> QED BY <1>1, <2>1 DEF DoorInv, PromptsInv
<1>11. \A w \in Users : flow'[w].up # f.up
  <2>1. \A w \in Users : flow[w].up = f.up => w = u
    BY <1>1 DEF DoorInv, FlowsInv
  <2> QED BY <1>1, <1>5, <2>1
<1>12. \A i \in 1..Len(runs) : \A w \in Users : flow'[w].up # runs[i].flow
  BY <1>1, <1>5, SMTT(30) DEF DoorInv, RunsInv
<1>13. \A i \in 1..Len(runs) : runs[i].flow # f.up
  BY DEF DoorInv, RunsInv
<1>14. CASE runs' = runs
  <2>1. RunsInv'
    <3>1. \A i \in 1..Len(runs) : /\ runs[i].flow \in 1..uploads
                                 /\ runs[i].cid \in 1..Len(contributions)
      BY DEF DoorInv, RunsInv
    <3>2. \A i \in 1..Len(runs) : runs[i].cid \in 1..Len(contributions')
      BY <3>1, <1>3, <1>7, SMTT(30)
    <3> QED BY <1>1, <1>12, <1>14, <3>1, <3>2 DEF RunsInv
  <2>2. \A i \in 1..Len(runs) : contributions'[runs[i].cid] = contributions[runs[i].cid]
    BY <1>7 DEF DoorInv, RunsInv
  <2>3. RunsAsConfirmed'
    BY <1>14, <2>2 DEF DoorInv, RunsAsConfirmed
  <2> QED BY <1>8, <1>9, <1>10, <2>1, <2>3 DEF DoorInv
<1>15. CASE contributions' = Append(contributions, c) /\ runs' = Append(runs, r)
  <2>1. /\ Len(runs') = Len(runs) + 1 /\ runs'[Len(runs) + 1] = r
        /\ \A i \in 1..Len(runs) : runs'[i] = runs[i]
        /\ Len(contributions') = Len(contributions) + 1
        /\ contributions'[Len(contributions) + 1] = c
    BY <1>2, <1>3, <1>4, <1>15
  <2>2. \A i \in 1..Len(runs') : i \in 1..Len(runs) \/ i = Len(runs) + 1
    BY <1>3, <2>1
  <2>3. RunsInv'
    <3>1. ASSUME NEW i \in 1..Len(runs)
          PROVE  /\ runs[i].flow \in 1..uploads'
                 /\ \A w \in Users : flow'[w].up # runs[i].flow
                 /\ runs[i].cid \in 1..Len(contributions')
      <4>1. runs[i].flow \in 1..uploads /\ runs[i].cid \in 1..Len(contributions)
        BY DEF DoorInv, RunsInv
      <4> QED BY <1>1, <1>3, <1>12, <2>1, <4>1, SMTT(30)
    <3>2. /\ r.flow \in 1..uploads' /\ \A w \in Users : flow'[w].up # r.flow
          /\ r.cid \in 1..Len(contributions')
      BY <1>1, <1>3, <1>4, <1>11, <2>1
    <3> QED BY <2>1, <2>2, <3>1, <3>2 DEF RunsInv
  <2>4. \A i, j \in 1..Len(runs') : runs'[i].flow = runs'[j].flow => i = j
    <3>1. \A i, j \in 1..Len(runs) : runs[i].flow = runs[j].flow => i = j
      BY DEF DoorInv, RunsAsConfirmed
    <3> QED BY <1>4, <1>13, <2>1, <2>2, <3>1
  <2>5. ASSUME NEW i \in 1..Len(runs')
        PROVE  /\ contributions'[runs'[i].cid].mode = runs'[i].mode
               /\ contributions'[runs'[i].cid].up >= runs'[i].flow
               /\ (runs'[i].shown.kind = "go" /\ runs'[i].shown.up = runs'[i].flow
                     /\ ~runs'[i].shown.lost) =>
                     /\ runs'[i].mode = runs'[i].shown.mode
                     /\ runs'[i].speakers = runs'[i].shown.speakers
    <3>1. CASE i \in 1..Len(runs)
      <4>1. runs'[i] = runs[i] /\ runs[i].cid \in 1..Len(contributions)
        BY <3>1, <2>1 DEF DoorInv, RunsInv
      <4>2. contributions'[runs[i].cid] = contributions[runs[i].cid]
        BY <4>1, <1>7
      <4> QED BY <3>1, <4>1, <4>2 DEF DoorInv, RunsAsConfirmed
    <3>2. CASE i = Len(runs) + 1
      <4>1. runs'[i] = r /\ contributions'[r.cid] = c
        BY <3>2, <1>4, <2>1
      <4>2. (shown[u].kind = "go" /\ shown[u].up = f.up /\ ~shown[u].lost) =>
               shown[u].mode = OrMeeting(f.mode) /\ shown[u].speakers = f.speakers
        BY <1>1 DEF DoorInv, PromptsInv
      <4> QED BY <1>2, <1>4, <4>1, <4>2
    <3> QED BY <2>2, <3>1, <3>2
  <2>6. RunsAsConfirmed'
    BY <2>4, <2>5 DEF RunsAsConfirmed
  <2> QED BY <1>8, <1>9, <1>10, <2>3, <2>6 DEF DoorInv
<1> QED BY <1>6, <1>14, <1>15

-----------------------------------------------------------------------------
LEMMA DoorInvStep == ASSUME DoorAssumption, DoorInv, [DoorNext]_doorVars PROVE DoorInv'
<1>0. /\ flow \in [Users -> Flow] /\ NoFlow \in Flow
      /\ presses \in Nat /\ presses \in 0..MaxPresses
  BY DEF DoorInv, DoorTypes, DoorTypeOK, Flow, DoorAssumption
<1>1. ASSUME NEW u \in Users, NEW chat \in Chats, NEW name \in Names,
             handle_media(u, chat, name)
      PROVE  DoorInv'
  BY <1>1, MediaStep
<1>2. ASSUME NEW u \in Users, NEW m \in Modes, ModeButton(u, m)
      PROVE  DoorInv'
  <2> DEFINE f == [flow[u] EXCEPT !.mode = m]
  <2>1. flow[u] \in Flow
    BY <1>0
  <2>2. f \in Flow
    BY <2>1, Zenon DEF Flow
  <2>3. f.up = flow[u].up /\ f.chat = flow[u].chat /\ f.name = flow[u].name
    BY <2>1 DEF Flow
  <2>4. flow' = [flow EXCEPT ![u] = f] /\ flow'[u] = f
    BY <1>0, <1>2 DEF ModeButton
  <2>5. Pressed(u, "mode") /\ flow[u].up # 0 /\ Prompted(u, f, "spk") /\ Fixed
    BY <1>2, <2>4 DEF ModeButton, DoorState
  <2> HIDE DEF f
  <2> QED BY <2>2, <2>3, <2>4, <2>5, ChoiceStep
<1>3. ASSUME NEW u \in Users, NEW count \in Counts, SpeakersButton(u, count)
      PROVE  DoorInv'
  <2> DEFINE f == [flow[u] EXCEPT !.speakers = count]
  <2>1. flow[u] \in Flow
    BY <1>0
  <2>2. f \in Flow
    BY <2>1, Zenon DEF Flow
  <2>3. f.up = flow[u].up /\ f.chat = flow[u].chat /\ f.name = flow[u].name
    BY <2>1 DEF Flow
  <2>4. flow' = [flow EXCEPT ![u] = f] /\ flow'[u] = f
    BY <1>0, <1>3 DEF SpeakersButton
  <2>5. Pressed(u, "spk") /\ flow[u].up # 0 /\ Prompted(u, f, "go") /\ Fixed
    BY <1>3, <2>4 DEF SpeakersButton, DoorState
  <2> HIDE DEF f
  <2> QED BY <2>2, <2>3, <2>4, <2>5, ChoiceStep
<1>4. ASSUME NEW u \in Users, CancelButton(u)
      PROVE  DoorInv'
  <2>1. presses' \in 0..MaxPresses /\ presses' >= presses
    BY <1>0, <1>4 DEF CancelButton, Pressed, DoorAssumption
  <2>2. /\ flow' \in [Users -> Flow]
        /\ \A w \in Users : flow'[w] = NoFlow \/ flow'[w] = flow[w]
    BY <1>0, <1>4 DEF CancelButton
  <2> QED BY <1>4, <2>1, <2>2, EndStep DEF CancelButton, Pressed, Fixed
<1>5. ASSUME NEW u \in Users, RunButton(u)
      PROVE  DoorInv'
  BY <1>5, DoorRunStep
<1>6. ASSUME NEW u \in Users, NEW kind \in {"mode", "spk", "go"}, NoActiveFlow(u, kind)
      PROVE  DoorInv'
  <2>1. presses' \in 0..MaxPresses /\ presses' >= presses
    BY <1>0, <1>6 DEF NoActiveFlow, Pressed, DoorAssumption
  <2> QED BY <1>0, <1>6, <2>1, EndStep DEF NoActiveFlow, Pressed, Fixed
<1>7. CASE Restart
  <2>1. /\ flow' \in [Users -> Flow]
        /\ \A w \in Users : flow'[w] = NoFlow \/ flow'[w] = flow[w]
    BY <1>0, <1>7 DEF Restart
  <2> QED BY <1>0, <1>7, <2>1, EndStep DEF Restart
<1>8. CASE UNCHANGED doorVars
  BY <1>0, <1>8, EndStep DEF doorVars
<1> QED BY <1>1, <1>2, <1>3, <1>4, <1>5, <1>6, <1>7, <1>8 DEF DoorNext

\* The state of the bot keeps its shape (stuart_door_core.DoorState).
THEOREM DoorTyped == ASSUME DoorAssumption PROVE DoorSpec => []DoorTypeOK
<1>1. DoorInit => DoorInv
  BY DoorInvInit
<1>2. DoorInv /\ [DoorNext]_doorVars => DoorInv'
  BY DoorInvStep
<1>3. DoorInv => DoorTypeOK
  BY DEF DoorInv, DoorTypes
<1> QED BY <1>1, <1>2, <1>3, PTL DEF DoorSpec

\* Whatever buttons of whichever prompts are pressed, by whomever and after any restart, a
\* recording is run once at the most and as confirmed (handle_callback, run_default_pipeline).
THEOREM RunsConfirmed == ASSUME DoorAssumption PROVE DoorSpec => []RunsAsConfirmed
<1>1. DoorInit => DoorInv
  BY DoorInvInit
<1>2. DoorInv /\ [DoorNext]_doorVars => DoorInv'
  BY DoorInvStep
<1>3. DoorInv => RunsAsConfirmed
  BY DEF DoorInv
<1> QED BY <1>1, <1>2, <1>3, PTL DEF DoorSpec

-----------------------------------------------------------------------------
(* AshCore: what is believed of the lamps, and whose command they obey.     *)

\* What lamps may be called, and what messages and actions may be.
Groups == {m.group : m \in Messages} \cup {m.guess : m \in Messages} \cup {"none"}
Kinds == {m.type : m \in Messages} \cup {"lights.on", "lights.off", "lights.adjust"}
Phrases == {m.says : m \in Messages}

Levels == 0..1000
SessionRec == [on : BOOLEAN, group : Groups, level : Levels, delta : Int, updated : Int]
HeatRec == [on : BOOLEAN, current : Int, proposed : Int, updated : Int]
PendingRec == [type : {"none", "lights.on", "lights.adjust"}, brightness : Int]
ActionRec == [type : {"none", "heat", "lighting"}, group : Groups, level : Levels, at : Int]
LampRec == [on : BOOLEAN, level : Levels]
LastRec == [user : Residents \cup {"none"}, ok : BOOLEAN, by : {"none", "group", "text"}]
MessageRec == [type : Kinds, group : Groups, brightness : Int, delta : Int,
               says : Phrases, guess : Groups, times : 1..4]

HouseTypes ==
    /\ now \in Nat
    /\ session \in [Residents -> SessionRec]
    /\ pending \in [Residents -> PendingRec]
    /\ heat \in [Residents -> HeatRec]
    /\ recent \in [Residents -> ActionRec]
    /\ preferred \in [Residents -> Int]
    /\ lamp \in [Lamps -> LampRec]
    /\ last \in [Lamps -> LastRec]

HouseInv == HouseTypes /\ BeliefsExplained

\* No lamp and no light are among what is typed below.
LEMMA SomeGroups ==
    "none" \in Groups /\ {"lights.on", "lights.off", "lights.adjust"} \subseteq Kinds
BY DEF Groups, Kinds

\* So are the lamp that is off and the usual level.
LEMMA SomeLevels == 0 \in Levels /\ 600 \in Levels /\ \A l \in Levels : l \in Int
BY DEF Levels

\* Where nothing is remembered, that has its type as well.
LEMMA NothingTyped ==
    /\ NoSession \in SessionRec /\ NoPending \in PendingRec
    /\ NoHeat \in HeatRec /\ NoAction \in ActionRec
BY SomeGroups, SomeLevels
   DEF NoSession, SessionRec, NoPending, PendingRec, NoHeat, HeatRec, NoAction, ActionRec, Unsaid

\* A lamp is given a level, and no number, however large, makes it another.
LEMMA ClampRange == ASSUME NEW x \in Int PROVE Clamp(x) \in Levels
BY DEF Clamp, Levels

\* What a message is taken for is a message.
LEMMA MeantTyped ==
    ASSUME AshAssumption, HouseTypes, NEW u \in Residents, NEW m \in Messages
    PROVE  /\ m \in MessageRec /\ InSession(u, m) \in MessageRec
           /\ Meant(u, m) \in MessageRec
<1>1. m \in MessageRec
  <2>1. m \in [type : STRING, group : STRING, brightness : Int, delta : Int,
               says : STRING, guess : STRING, times : 1..4]
    BY DEF AshAssumption
  <2>2. m.type \in Kinds /\ m.group \in Groups /\ m.guess \in Groups /\ m.says \in Phrases
    BY DEF Kinds, Groups, Phrases
  <2> QED BY <2>1, <2>2 DEF MessageRec
<1>2. Active(u) \in Groups
  BY SomeGroups DEF HouseTypes, SessionRec, Active
<1>3. InSession(u, m) \in MessageRec
  <2> DEFINE g == Or(m.group, Active(u))
             d == IF m.delta = Unsaid /\ m.brightness = Unsaid THEN -Step ELSE m.delta
  <2>1. g \in Groups
    BY <1>1, <1>2 DEF Or, MessageRec
  <2>2. d \in Int
    BY <1>1 DEF Step, MessageRec
  <2> HIDE DEF g, d
  <2>3. /\ [m EXCEPT !.type = "lights.off", !.group = g] \in MessageRec
        /\ [m EXCEPT !.type = "lights.adjust", !.group = g, !.delta = d] \in MessageRec
    BY <1>1, <2>1, <2>2, SomeGroups DEF MessageRec
  <2> QED BY <1>1, <2>3 DEF InSession, g, d
<1>4. Answered(u, InSession(u, m)) \in MessageRec
  <2> DEFINE e == InSession(u, m)
  <2> HIDE DEF e
  <2>1. e \in MessageRec
    BY <1>3 DEF e
  <2>2. pending[u].brightness \in Int
    BY DEF HouseTypes, PendingRec
  <2>3. Answered(u, e) \in MessageRec
    BY <2>1, <2>2, SomeGroups DEF Answered, MessageRec, Or
  <2> QED BY <2>3 DEF e
<1> QED BY <1>1, <1>3, <1>4 DEF Meant

\* The lamp a message is about is the one it names, the one in session, or the one that
\* answers the question its sender was asked.
About(u, m, g) ==
    \/ m.group = g
    \/ Lighting(u) /\ session[u].group = g
    \/ pending[u].type = "lights.on" /\ m.group = "none" /\ m.guess = g

\* What a message is taken for names such a lamp, or none.
LEMMA MeantAbout ==
    ASSUME AshAssumption, HouseTypes, NEW u \in Residents, NEW m \in Messages
    PROVE  /\ Meant(u, m).group # "none" => About(u, m, Meant(u, m).group)
           /\ Target(u, m) # "none" => About(u, m, Target(u, m))
<1>1. m \in MessageRec /\ InSession(u, m) \in MessageRec
  BY MeantTyped
<1>2. InSession(u, m).group # "none" =>
          \/ m.group = InSession(u, m).group
          \/ Lighting(u) /\ session[u].group = InSession(u, m).group
  BY <1>1 DEF InSession, MessageRec, Or, Active
<1>3. InSession(u, m).group = "none" => m.group = "none"
  BY <1>1 DEF InSession, MessageRec, Or
<1>4. InSession(u, m).guess = m.guess
  BY <1>1 DEF InSession, MessageRec
<1>5. Meant(u, m).group # "none" => About(u, m, Meant(u, m).group)
  <2> DEFINE e == InSession(u, m)
  <2> HIDE DEF e
  <2>1. e \in MessageRec
    BY <1>1 DEF e
  <2>2. Answered(u, e).group = IF pending[u].type # "lights.on" THEN e.group
                               ELSE Or(e.group, e.guess)
    BY <2>1 DEF Answered, MessageRec
  <2> QED BY <1>2, <1>3, <1>4, <2>2 DEF Meant, e, About, Or
<1>6. Active(u) # "none" => Lighting(u) /\ session[u].group = Active(u)
  BY DEF Active
<1> QED BY <1>5, <1>6 DEF Target, Or, About

-----------------------------------------------------------------------------
\* What any command for a lamp does: it changes no other lamp and nobody else's session;
\* who gave it is noted; if it went through, the lamp, the session and the memory of what
\* was done last agree; and whatever session it leaves is about its lamp, or untouched.
Commands(u, m, g, level) ==
    /\ HouseTypes' /\ ~Heating(u) /\ preferred' = preferred
    /\ \A w \in Residents \ {u} : session'[w] = session[w] /\ recent'[w] = recent[w]
    /\ \A h \in Lamps \ {g} : lamp'[h] = lamp[h] /\ last'[h] = last[h]
    /\ g \in Lamps => last'[g].user = u /\ last'[g].by = Naming(m, g) /\ About(u, m, g)
    /\ g \in Lamps /\ last'[g].ok =>
          /\ lamp'[g].on => lamp'[g].level = level
          /\ ~lamp'[g].on => level = 0
          /\ recent'[u].group = g /\ recent'[u].level = level
          /\ session'[u].on => session'[u].group = g /\ session'[u].level = level
    /\ session'[u].on /\ session'[u].group # g =>
          session'[u] = session[u] /\ recent'[u] = recent[u]

\* A command that went through, or did not.
Obeyed(u, m, g) == Ordered(u, m, g, TRUE)
Failed(u, m, g) == Ordered(u, m, g, FALSE)

\* Either is noted, for its lamp only.
LEMMA OrderedFacts ==
    ASSUME HouseTypes, NEW u \in Residents, NEW m, NEW g,
           Obeyed(u, m, g) \/ Failed(u, m, g)
    PROVE  /\ last' \in [Lamps -> LastRec]
           /\ \A h \in Lamps \ {g} : last'[h] = last[h]
           /\ g \in Lamps => last'[g].user = u /\ last'[g].by = Naming(m, g)
           /\ g \in Lamps /\ Failed(u, m, g) => ~last'[g].ok
<1> DEFINE note(ok) == [user |-> u, ok |-> ok, by |-> Naming(m, g)]
<1>1. Naming(m, g) \in {"none", "group", "text"}
  BY DEF Naming
<1>2. ASSUME NEW ok \in BOOLEAN, last' = [h \in Lamps |-> IF h = g THEN note(ok) ELSE last[h]]
      PROVE  /\ last' \in [Lamps -> LastRec]
             /\ \A h \in Lamps \ {g} : last'[h] = last[h]
             /\ g \in Lamps => last'[g].user = u /\ last'[g].by = Naming(m, g)
  <2>1. note(ok) \in LastRec /\ note(ok).user = u /\ note(ok).by = Naming(m, g)
    BY <1>1 DEF LastRec
  <2>2. last \in [Lamps -> LastRec]
    BY DEF HouseTypes
  <2> HIDE DEF note
  <2> QED BY <1>2, <2>1, <2>2
<1>3. \E ok \in BOOLEAN : last' = [h \in Lamps |-> IF h = g THEN note(ok) ELSE last[h]]
  BY DEF Obeyed, Failed, Ordered
<1>4. g \in Lamps /\ Failed(u, m, g) => ~last'[g].ok
  BY DEF Failed, Ordered
<1> HIDE DEF note
<1> QED BY <1>2, <1>3, <1>4

\* A lamp does what it is told, or part of it, or nothing.
LEMMA DoneFacts ==
    ASSUME HouseTypes, NEW g \in Lamps, NEW level \in Levels, Done(g, level)
    PROVE  /\ lamp' \in [Lamps -> LampRec]
           /\ \A h \in Lamps \ {g} : lamp'[h] = lamp[h]
           /\ lamp'[g].on => lamp'[g].level = level
           /\ ~lamp'[g].on => level = 0
<1> DEFINE l == IF level = 0 THEN [lamp[g] EXCEPT !.on = FALSE]
                ELSE [on |-> TRUE, level |-> level]
<1>1. lamp \in [Lamps -> LampRec] /\ lamp[g] \in LampRec
  BY DEF HouseTypes
<1>2. l \in LampRec
  BY <1>1 DEF LampRec
<1>3. (l.on => l.level = level) /\ (~l.on => level = 0)
  BY <1>1 DEF LampRec
<1>4. lamp' = [lamp EXCEPT ![g] = l]
  BY DEF Done
<1> HIDE DEF l
<1>5. lamp' \in [Lamps -> LampRec] /\ lamp'[g] = l /\ \A h \in Lamps \ {g} : lamp'[h] = lamp[h]
  BY <1>1, <1>2, <1>4
<1> QED BY <1>3, <1>5

\* A command that fails touches no other lamp either.
LEMMA PartlyFacts ==
    ASSUME HouseTypes, NEW g, NEW level \in Levels, Partly(g, level)
    PROVE  lamp' \in [Lamps -> LampRec] /\ \A h \in Lamps \ {g} : lamp'[h] = lamp[h]
<1>1. lamp \in [Lamps -> LampRec]
  BY DEF HouseTypes
<1>2. CASE UNCHANGED lamp
  BY <1>1, <1>2
<1>3. CASE g \in Lamps /\ level > 0 /\ lamp' = [lamp EXCEPT ![g].on = TRUE]
  <2> DEFINE l == [lamp[g] EXCEPT !.on = TRUE]
  <2>1. l \in LampRec
    BY <1>1, <1>3 DEF LampRec
  <2>2. lamp' = [lamp EXCEPT ![g] = l]
    BY <1>3
  <2> HIDE DEF l
  <2> QED BY <1>1, <2>1, <2>2
<1>4. CASE g \in Lamps /\ Done(g, level)
  BY <1>4, DoneFacts
<1> QED BY <1>2, <1>3, <1>4 DEF Partly

\* A command and its note.
LEMMA CommandEffect ==
    ASSUME HouseTypes, NEW u \in Residents, NEW m, NEW g, NEW level \in Levels,
           Command(u, m, g, level)
    PROVE  /\ lamp' \in [Lamps -> LampRec] /\ last' \in [Lamps -> LastRec]
           /\ \A h \in Lamps \ {g} : lamp'[h] = lamp[h] /\ last'[h] = last[h]
           /\ g \in Lamps => last'[g].user = u /\ last'[g].by = Naming(m, g)
           /\ g \in Lamps /\ last'[g].ok =>
                 /\ lamp'[g].on => lamp'[g].level = level
                 /\ ~lamp'[g].on => level = 0
<1>1. CASE g \in Lamps /\ Done(g, level) /\ Obeyed(u, m, g)
  <2>1. /\ lamp' \in [Lamps -> LampRec] /\ \A h \in Lamps \ {g} : lamp'[h] = lamp[h]
        /\ lamp'[g].on => lamp'[g].level = level
        /\ ~lamp'[g].on => level = 0
    BY <1>1, DoneFacts
  <2>2. /\ last' \in [Lamps -> LastRec] /\ \A h \in Lamps \ {g} : last'[h] = last[h]
        /\ g \in Lamps => last'[g].user = u /\ last'[g].by = Naming(m, g)
    BY <1>1, OrderedFacts
  <2> QED BY <2>1, <2>2
<1>2. CASE Partly(g, level) /\ Failed(u, m, g)
  <2>1. lamp' \in [Lamps -> LampRec] /\ \A h \in Lamps \ {g} : lamp'[h] = lamp[h]
    BY <1>2, PartlyFacts
  <2>2. /\ last' \in [Lamps -> LastRec] /\ \A h \in Lamps \ {g} : last'[h] = last[h]
        /\ g \in Lamps => last'[g].user = u /\ last'[g].by = Naming(m, g) /\ ~last'[g].ok
    BY <1>2, OrderedFacts
  <2> QED BY <2>1, <2>2
<1> QED BY <1>1, <1>2 DEF Command, Obeyed, Failed

\* An exception of a device that exists, and its note.
LEMMA RaisesEffect ==
    ASSUME HouseTypes, NEW u \in Residents, NEW m, NEW g, NEW level \in Levels,
           Raises(u, m, g, level)
    PROVE  /\ lamp' \in [Lamps -> LampRec] /\ last' \in [Lamps -> LastRec]
           /\ \A h \in Lamps \ {g} : lamp'[h] = lamp[h] /\ last'[h] = last[h]
           /\ g \in Lamps /\ last'[g].user = u /\ last'[g].by = Naming(m, g) /\ ~last'[g].ok
<1>1. g \in Lamps /\ Partly(g, level) /\ Failed(u, m, g)
  BY DEF Raises, Failed
<1>2. /\ last' \in [Lamps -> LastRec] /\ \A h \in Lamps \ {g} : last'[h] = last[h]
      /\ last'[g].user = u /\ last'[g].by = Naming(m, g) /\ ~last'[g].ok
  BY <1>1, OrderedFacts
<1> QED BY <1>1, <1>2, PartlyFacts

\* The rest of what a message changes when it gets to the lamps.
LEMMA LightsRest ==
    ASSUME HouseTypes, NEW u \in Residents, NEW m, ForLights(u, m), Forget(u),
           NEW s \in SessionRec, session' = [session EXCEPT ![u] = s]
    PROVE  /\ now' = now /\ heat' = heat /\ preferred' = preferred /\ ~Heating(u)
           /\ pending' \in [Residents -> PendingRec] /\ session' \in [Residents -> SessionRec]
           /\ session'[u] = s /\ \A w \in Residents \ {u} : session'[w] = session[w]
<1>1. now' = now /\ heat' = heat /\ preferred' = preferred /\ ~Heating(u)
  BY DEF ForLights, Said
<1>2. pending \in [Residents -> PendingRec] /\ NoPending \in PendingRec
  BY DEF HouseTypes, PendingRec, NoPending, Unsaid
<1>3. pending' \in [Residents -> PendingRec]
  BY <1>2 DEF Forget
<1>4. session \in [Residents -> SessionRec]
  BY DEF HouseTypes
<1>5. /\ session' \in [Residents -> SessionRec] /\ session'[u] = s
      /\ \A w \in Residents \ {u} : session'[w] = session[w]
  BY <1>4
<1> QED BY <1>1, <1>3, <1>5

\* A message whose command is carried out, or answered with a failure.
LEMMA CarriedOut ==
    ASSUME HouseTypes, NEW u \in Residents, NEW m, NEW g \in Groups, NEW level \in Levels,
           About(u, m, g), ForLights(u, m), Forget(u),
           NEW s \in SessionRec, session' = [session EXCEPT ![u] = s],
           s.on => s.group = g /\ s.level = level,
           Command(u, m, g, level), Acted(u, g, level)
    PROVE  Commands(u, m, g, level)
<1> DEFINE a == [type |-> "lighting", group |-> g, level |-> level, at |-> now]
<1>1. a \in ActionRec /\ a.group = g /\ a.level = level
  BY DEF ActionRec, HouseTypes
<1>2. recent' = [recent EXCEPT ![u] = a] /\ recent \in [Residents -> ActionRec]
  BY DEF Acted, HouseTypes
<1> HIDE DEF a
<1>3. /\ recent' \in [Residents -> ActionRec] /\ recent'[u] = a
      /\ \A w \in Residents \ {u} : recent'[w] = recent[w]
  BY <1>1, <1>2
<1>4. HouseTypes'
  BY <1>3, CommandEffect, LightsRest DEF HouseTypes
<1>5. /\ \A h \in Lamps \ {g} : lamp'[h] = lamp[h] /\ last'[h] = last[h]
      /\ g \in Lamps => last'[g].user = u /\ last'[g].by = Naming(m, g)
      /\ g \in Lamps /\ last'[g].ok =>
            /\ lamp'[g].on => lamp'[g].level = level
            /\ ~lamp'[g].on => level = 0
  BY CommandEffect
<1>6. /\ ~Heating(u) /\ preferred' = preferred
      /\ session'[u] = s /\ \A w \in Residents \ {u} : session'[w] = session[w]
  BY LightsRest
<1> QED BY <1>1, <1>3, <1>4, <1>5, <1>6 DEF Commands

\* A message whose command raises an exception.
LEMMA NotCarriedOut ==
    ASSUME HouseTypes, NEW u \in Residents, NEW m, NEW g \in Groups, NEW level \in Levels,
           About(u, m, g), ForLights(u, m), Forget(u),
           NEW s \in SessionRec, session' = [session EXCEPT ![u] = s],
           s.on /\ s.group # g => s = session[u],
           Raises(u, m, g, level), recent' = recent
    PROVE  Commands(u, m, g, level)
<1>1. HouseTypes'
  BY RaisesEffect, LightsRest DEF HouseTypes
<1>2. /\ \A h \in Lamps \ {g} : lamp'[h] = lamp[h] /\ last'[h] = last[h]
      /\ last'[g].user = u /\ last'[g].by = Naming(m, g) /\ ~last'[g].ok
  BY RaisesEffect
<1>3. /\ ~Heating(u) /\ preferred' = preferred
      /\ session'[u] = s /\ \A w \in Residents \ {u} : session'[w] = session[w]
  BY LightsRest
<1> QED BY <1>1, <1>2, <1>3 DEF Commands

\* The levels that are asked for are levels.
LEMMA AdjustedLevel ==
    ASSUME AshAssumption, HouseTypes, NEW u \in Residents, NEW m \in Messages, NEW g,
           NEW d, d = Delta(u, g, Meant(u, m)), d # Unsaid
    PROVE  /\ Scaled(d, m.times) \in Int
           /\ Clamp(LevelNow(u, g) + Scaled(d, m.times)) \in Levels
<1>1. m \in MessageRec /\ Meant(u, m) \in MessageRec
  BY MeantTyped
<1>0. session[u] \in SessionRec
  BY DEF HouseTypes
<1>2. d \in Int
  <2> DEFINE e == Meant(u, m)
  <2> HIDE DEF e
  <2>1. LastDelta(u, g) \in Int
    BY <1>0 DEF LastDelta, SessionRec
  <2>2. e.delta \in Int /\ Step \in Int /\ -Step \in Int /\ Unsaid \in Int
    BY <1>1 DEF e, MessageRec, Step, Unsaid
  <2>3. Delta(u, g, e) \in Int
    BY <2>1, <2>2 DEF Delta
  <2> QED BY <2>3 DEF e
<1>3. Scaled(d, m.times) \in Int
  <2>1. m.times \in {1, 2, 3, 4}
    BY <1>1 DEF MessageRec
  <2> QED BY <1>2, <2>1 DEF Scaled, Step
<1>4. LevelNow(u, g) \in Int
  <2>1. session[u].level \in Int
    BY <1>0, SomeLevels DEF SessionRec
  <2> QED BY <2>1 DEF LevelNow
<1>5. LevelNow(u, g) + Scaled(d, m.times) \in Int
  BY <1>3, <1>4
<1> QED BY <1>3, <1>5, ClampRange

\* A session that is started has its type.
LEMMA SessionTyped ==
    ASSUME HouseTypes, NEW g \in Groups, NEW level \in Levels, NEW delta \in Int
    PROVE  Started(g, level, delta) \in SessionRec /\ NoSession \in SessionRec
BY SomeGroups, SomeLevels DEF Started, SessionRec, NoSession, HouseTypes

\* Whatever sets a lamp to a level is such a command.
LEMMA SetsCommands ==
    ASSUME HouseTypes, NEW u \in Residents, NEW m, NEW g \in Groups, About(u, m, g),
           NEW level \in Levels, NEW delta \in Int,
           ForLights(u, m), Forget(u), Sets(u, m, g, level, delta)
    PROVE  Commands(u, m, g, level)
<1> DEFINE s == Started(g, level, delta)
<1>1. s \in SessionRec /\ s.group = g /\ s.level = level
  BY SessionTyped DEF Started
<1>2. session[u] \in SessionRec /\ session = [session EXCEPT ![u] = session[u]]
  BY DEF HouseTypes
<1>3. \/ Command(u, m, g, level) /\ session' = [session EXCEPT ![u] = s] /\ Acted(u, g, level)
      \/ Raises(u, m, g, level) /\ session' = session /\ recent' = recent
  BY DEF Sets
<1> HIDE DEF s
<1>4. CASE Command(u, m, g, level) /\ session' = [session EXCEPT ![u] = s] /\ Acted(u, g, level)
  BY <1>1, <1>4, CarriedOut
<1>5. CASE Raises(u, m, g, level) /\ session' = session /\ recent' = recent
  <2>1. session' = [session EXCEPT ![u] = session[u]]
    BY <1>2, <1>5
  <2> QED BY <1>2, <1>5, <2>1, NotCarriedOut
<1> QED BY <1>3, <1>4, <1>5

\* A phrase of a session changes it within its types.
LEMMA WordTyped ==
    ASSUME HouseTypes, NEW u \in Residents, NEW m
    PROVE  /\ Word(u, m.says) \in SessionRec
           /\ Word(u, m.says).on => Word(u, m.says).group = session[u].group
<1> DEFINE s == session[u]
           more == [s EXCEPT !.level = Clamp(s.level + Step), !.delta = Step, !.updated = now]
           back == [s EXCEPT !.level = Clamp(s.level - s.delta), !.delta = -(s.delta),
                             !.updated = now]
<1>1. s \in SessionRec /\ now \in Int
  BY DEF HouseTypes
<1>2. s.level \in Int /\ s.delta \in Int /\ Step \in Int
  BY <1>1, SomeLevels DEF SessionRec, Step
<1>3. s.level + Step \in Int /\ s.level - s.delta \in Int /\ -(s.delta) \in Int
  BY <1>2
<1>4. Clamp(s.level + Step) \in Levels /\ Clamp(s.level - s.delta) \in Levels
  BY <1>3, ClampRange
<1>5. more \in SessionRec /\ more.group = s.group
  BY <1>1, <1>2, <1>4 DEF SessionRec
<1>6. back \in SessionRec /\ back.group = s.group
  BY <1>1, <1>3, <1>4 DEF SessionRec
<1>7. NoSession \in SessionRec /\ ~NoSession.on
  BY SomeGroups, SomeLevels DEF NoSession, SessionRec
<1>8. Word(u, m.says) \in {NoSession, more, back}
  BY DEF Word
<1> HIDE DEF s, more, back
<1> QED BY <1>5, <1>6, <1>7, <1>8 DEF s

\* Every message that gets to the lamps is such a command.
LEMMA LampMessages ==
    ASSUME AshAssumption, HouseTypes, NEW u \in Residents, NEW m \in Messages,
           On(u, m) \/ Off(u, m) \/ Adjust(u, m) \/ AdjustByWord(u, m)
    PROVE  \E g \in Groups, level \in Levels : Commands(u, m, g, level)
<1> DEFINE e == Meant(u, m)
<1>0. /\ e \in MessageRec /\ m \in MessageRec
      /\ e.group \in Groups /\ e.brightness \in Int /\ Target(u, m) \in Groups
      /\ session[u] \in SessionRec /\ session = [session EXCEPT ![u] = session[u]]
  BY MeantTyped, SomeGroups DEF MessageRec, Target, Or, Active, HouseTypes, SessionRec
<1>1. CASE On(u, m)
  <2> DEFINE level == IF e.brightness = Unsaid THEN 600 ELSE Clamp(e.brightness)
  <2>1. level \in Levels
    BY <1>0, ClampRange, SomeLevels
  <2>2. e.group # "none" /\ ForLights(u, m) /\ Forget(u) /\ Sets(u, m, e.group, level, 0)
    BY <1>1 DEF On, Sets
  <2>3. About(u, m, e.group)
    BY <2>2, MeantAbout
  <2>4. e.group \in Groups
    BY <1>0
  <2> HIDE DEF level, e
  <2>5. Commands(u, m, e.group, level)
    BY <2>1, <2>2, <2>3, <2>4, SetsCommands
  <2> QED BY <2>1, <2>4, <2>5
<1>2. CASE Off(u, m)
  <2> DEFINE g == Target(u, m)
             off == 0
  <2>1. /\ g # "none" /\ ForLights(u, m) /\ Forget(u)
        /\ \/ /\ Command(u, m, g, off) /\ Acted(u, g, off)
              /\ session' = [session EXCEPT ![u] = NoSession]
           \/ Raises(u, m, g, off) /\ session' = session /\ recent' = recent
    BY <1>2 DEF Off, Target
  <2>2. g \in Groups /\ About(u, m, g) /\ off \in Levels
    BY <1>0, <2>1, MeantAbout, SomeLevels
  <2> HIDE DEF g, off
  <2> SUFFICES Commands(u, m, g, off)
    BY <2>2
  <2>3. CASE /\ Command(u, m, g, off) /\ Acted(u, g, off)
             /\ session' = [session EXCEPT ![u] = NoSession]
    <3>1. /\ NoSession \in SessionRec
          /\ NoSession.on => NoSession.group = g /\ NoSession.level = off
      BY SomeGroups, SomeLevels DEF NoSession, SessionRec
    <3> QED BY <2>1, <2>2, <2>3, <3>1, CarriedOut
  <2>4. CASE Raises(u, m, g, off) /\ session' = session /\ recent' = recent
    <3>1. session' = [session EXCEPT ![u] = session[u]] /\ session[u] \in SessionRec
      BY <1>0, <2>4
    <3>2. session[u].on /\ session[u].group # g => session[u] = session[u]
      OBVIOUS
    <3> QED BY <2>1, <2>2, <2>4, <3>1, <3>2, NotCarriedOut
  <2> QED BY <2>1, <2>3, <2>4
<1>3. CASE Adjust(u, m)
  <2> DEFINE g == Target(u, m)
             d == Delta(u, g, e)
             level == Clamp(LevelNow(u, g) + Scaled(d, m.times))
  <2>1. /\ g # "none" /\ ForLights(u, m) /\ Forget(u)
        /\ \/ Sets(u, m, g, Clamp(e.brightness), 0)
           \/ d # Unsaid /\ Sets(u, m, g, level, Scaled(d, m.times))
    BY <1>3 DEF Adjust, ForAdjust
  <2>2. g \in Groups /\ About(u, m, g) /\ e.brightness \in Int
    BY <1>0, <2>1, MeantAbout
  <2>3. d # Unsaid => level \in Levels /\ Scaled(d, m.times) \in Int
    BY AdjustedLevel
  <2> HIDE DEF g, d, level, e
  <2>4. CASE Sets(u, m, g, Clamp(e.brightness), 0)
    <3>1. Clamp(e.brightness) \in Levels
      BY <2>2, ClampRange
    <3>2. Commands(u, m, g, Clamp(e.brightness))
      BY <2>1, <2>2, <2>4, <3>1, SetsCommands
    <3> QED BY <2>2, <3>1, <3>2
  <2>5. CASE d # Unsaid /\ Sets(u, m, g, level, Scaled(d, m.times))
    <3>1. Commands(u, m, g, level)
      BY <2>1, <2>2, <2>3, <2>5, SetsCommands
    <3> QED BY <2>2, <2>3, <2>5, <3>1
  <2> QED BY <2>1, <2>4, <2>5
<1>4. CASE AdjustByWord(u, m)
  <2> DEFINE g == session[u].group
             s == Word(u, m.says)
  <2>1. /\ Lighting(u) /\ ForLights(u, m) /\ Forget(u)
        /\ \/ /\ Command(u, m, g, s.level) /\ Acted(u, g, s.level)
              /\ session' = [session EXCEPT ![u] = Started(g, s.level, 0)]
           \/ /\ Raises(u, m, g, s.level) /\ recent' = recent
              /\ session' = [session EXCEPT ![u] = s]
    BY <1>4 DEF AdjustByWord, Wordless, ForAdjust
  <2>2. About(u, m, g)
    BY <2>1 DEF About
  <2>3. s.on => s.group = g
    BY WordTyped
  <2>4. s \in SessionRec
    BY WordTyped
  <2>5. g \in Groups
    BY <1>0 DEF SessionRec
  <2> HIDE DEF g, s
  <2>6. s.level \in Levels
    BY <2>4 DEF SessionRec
  <2> SUFFICES Commands(u, m, g, s.level)
    BY <2>5, <2>6
  <2>7. CASE /\ Command(u, m, g, s.level) /\ Acted(u, g, s.level)
             /\ session' = [session EXCEPT ![u] = Started(g, s.level, 0)]
    <3>1. /\ Started(g, s.level, 0) \in SessionRec /\ Started(g, s.level, 0).group = g
          /\ Started(g, s.level, 0).level = s.level
      BY <2>5, <2>6, SessionTyped DEF Started
    <3> QED BY <2>1, <2>2, <2>5, <2>6, <2>7, <3>1, CarriedOut
  <2>8. CASE /\ Raises(u, m, g, s.level) /\ recent' = recent
             /\ session' = [session EXCEPT ![u] = s]
    BY <2>1, <2>2, <2>3, <2>4, <2>5, <2>6, <2>8, NotCarriedOut
  <2> QED BY <2>1, <2>7, <2>8
<1> QED BY <1>1, <1>2, <1>3, <1>4

-----------------------------------------------------------------------------
\* A lamp that obeyed is as its user's session has it; one that did not is not believed.
LEMMA CommandBelieved ==
    ASSUME HouseInv, NEW u \in Residents, NEW m, NEW g \in Groups, NEW level \in Levels,
           Commands(u, m, g, level)
    PROVE  BeliefsExplained'
<1> SUFFICES ASSUME NEW w \in Residents,
                    session'[w].on, session'[w].group \in Lamps,
                    last'[session'[w].group].user = w, last'[session'[w].group].ok
             PROVE  /\ session'[w].level = IF lamp'[session'[w].group].on
                                             THEN lamp'[session'[w].group].level ELSE 0
                    /\ recent'[w].type = "lighting" =>
                          /\ recent'[w].group = session'[w].group
                          /\ recent'[w].level = session'[w].level
  BY DEF BeliefsExplained, Shines
<1> DEFINE h == session'[w].group
<1>1. CASE h = g
  <2>1. w = u
    BY <1>1 DEF Commands
  <2> QED BY <1>1, <2>1 DEF Commands
<1>2. CASE h # g
  <2>1. lamp'[h] = lamp[h] /\ last'[h] = last[h]
    BY <1>2 DEF Commands
  <2>2. session'[w] = session[w] /\ recent'[w] = recent[w]
    <3>1. CASE w # u
      BY <3>1 DEF Commands
    <3>2. CASE w = u
      BY <1>2, <3>2 DEF Commands
    <3> QED BY <3>1, <3>2
  <2> QED BY <2>1, <2>2 DEF HouseInv, BeliefsExplained, Shines
<1> QED BY <1>1, <1>2

\* The lamp that changed is one the message is about, in a session or an answer or by name.
CommandMeant ==
    /\ \A g \in Lamps : lamp'[g] # lamp[g] =>
          LET u == last'[g].user IN
          /\ ~Live(heat[u], HeatTimeout)
          /\ \/ last'[g].by = "group"
             \/ Live(session[u], SessionTimeout) /\ session[u].group = g
             \/ pending[u].type = "lights.on" /\ last'[g].by = "text"
    /\ \A u \in Residents : preferred'[u] # preferred[u] => Live(heat[u], HeatTimeout)

\* A command for a lamp obeys whom it should.
LEMMA CommandObeyed ==
    ASSUME AshAssumption, NEW u \in Residents, NEW m, NEW g \in Groups, NEW level \in Levels,
           Commands(u, m, g, level)
    PROVE  CommandMeant
<1>1. preferred' = preferred /\ ~Heating(u)
  BY DEF Commands
<1>2. ASSUME NEW h \in Lamps, lamp'[h] # lamp[h]
      PROVE  /\ last'[h].user = u
             /\ \/ last'[h].by = "group"
                \/ Lighting(u) /\ session[u].group = h
                \/ pending[u].type = "lights.on" /\ last'[h].by = "text"
  <2>1. h = g
    BY <1>2 DEF Commands
  <2>2. last'[h].user = u /\ last'[h].by = Naming(m, h) /\ About(u, m, h)
    BY <2>1 DEF Commands
  <2>3. h # "none"
    BY DEF AshAssumption
  <2> QED BY <2>2, <2>3 DEF About, Naming
<1> QED BY <1>1, <1>2 DEF CommandMeant, Heating, Lighting

-----------------------------------------------------------------------------
\* The other messages touch no lamp and no session.
LEMMA TalkKeeps ==
    ASSUME HouseInv, UNCHANGED <<session, lamp, last, now>>,
           pending' \in [Residents -> PendingRec], heat' \in [Residents -> HeatRec],
           preferred' \in [Residents -> Int], recent' \in [Residents -> ActionRec],
           \A u \in Residents : recent'[u] = recent[u] \/ recent'[u].type # "lighting"
    PROVE  HouseInv'
<1>1. HouseTypes'
  BY DEF HouseInv, HouseTypes
<1>2. BeliefsExplained'
  BY DEF HouseInv, BeliefsExplained, Shines
<1> QED BY <1>1, <1>2 DEF HouseInv

\* What is said of the heat leaves lamps and beliefs alone; only there a liking is learned.
LEMMA HeatTalk ==
    ASSUME AshAssumption, HouseInv, NEW u \in Residents, NEW m \in Messages,
           HeatReply(u, m) \/ Cold(u, m)
    PROVE  HouseInv' /\ CommandMeant
<1>0. /\ heat[u] \in HeatRec /\ preferred[u] \in Int /\ now \in Nat
      /\ heat \in [Residents -> HeatRec] /\ preferred \in [Residents -> Int]
      /\ recent \in [Residents -> ActionRec] /\ pending \in [Residents -> PendingRec]
  BY DEF HouseInv, HouseTypes
<1>1. CASE HeatReply(u, m)
  <2> DEFINE talk == [heat[u] EXCEPT !.proposed = Proposed(u, m), !.updated = now]
             note == [NoAction EXCEPT !.type = "heat", !.at = now]
  <2>1. Proposed(u, m) \in Int
    <3>1. Proposed(u, m) \in {heat[u].current + 1, heat[u].proposed + 1, heat[u].proposed}
      BY Zenon DEF Proposed
    <3>2. heat[u].current \in Int /\ heat[u].proposed \in Int
      BY <1>0 DEF HeatRec
    <3> QED BY <3>1, <3>2
  <2>2. heat' \in [Residents -> HeatRec]
    <3>1. now \in Int
      BY <1>0
    <3>2. talk \in HeatRec
      BY <1>0, <2>1, <3>1 DEF HeatRec
    <3>3. heat' = [heat EXCEPT ![u] = NoHeat] \/ heat' = [heat EXCEPT ![u] = talk]
      BY <1>1, Zenon DEF HeatReply
    <3> HIDE DEF talk
    <3> QED BY <1>0, <3>2, <3>3, NothingTyped
  <2>3. /\ preferred' \in [Residents -> Int]
        /\ \A w \in Residents : preferred'[w] # preferred[w] => w = u
    <3>1. preferred' = preferred \/ preferred' = [preferred EXCEPT ![u] = Proposed(u, m)]
      BY <1>1, Zenon DEF HeatReply
    <3> QED BY <1>0, <2>1, <3>1
  <2>4. /\ recent' \in [Residents -> ActionRec]
        /\ \A w \in Residents : recent'[w] = recent[w] \/ recent'[w].type # "lighting"
    <3>1. note \in ActionRec /\ note.type = "heat"
      <4>1. now \in Int
        BY <1>0
      <4> QED BY <4>1, NothingTyped DEF ActionRec
    <3>2. recent' = recent \/ recent' = [recent EXCEPT ![u] = note]
      BY <1>1, Zenon DEF HeatReply
    <3> HIDE DEF note
    <3> QED BY <1>0, <3>1, <3>2
  <2>5. Heating(u) /\ UNCHANGED <<session, lamp, last, now, pending>>
    BY <1>1 DEF HeatReply, Unlit, Said
  <2>6. HouseInv'
    BY <1>0, <2>2, <2>3, <2>4, <2>5, TalkKeeps
  <2>7. CommandMeant
    BY <2>3, <2>5 DEF CommandMeant, Heating
  <2> QED BY <2>6, <2>7
<1>2. CASE Cold(u, m)
  <2>1. heat' \in [Residents -> HeatRec]
    BY <1>0, <1>2 DEF Cold, HeatRec, LastKnown
  <2>2. UNCHANGED <<session, lamp, last, now, pending, recent, preferred>>
    BY <1>2 DEF Cold, Unlit, Said
  <2>3. HouseInv'
    BY <1>0, <2>1, <2>2, TalkKeeps
  <2> QED BY <2>2, <2>3 DEF CommandMeant
<1> QED BY <1>1, <1>2

\* So do questions and talk.
LEMMA OtherTalk ==
    ASSUME AshAssumption, HouseInv, NEW u \in Residents, NEW m \in Messages,
           Clarify(u, m) \/ WhichLights(u, m) \/ Chat(u, m)
    PROVE  HouseInv' /\ CommandMeant
<1>1. UNCHANGED <<session, lamp, last, now, recent, heat, preferred>>
  BY DEF Clarify, WhichLights, Chat, Wordless, ForAdjust, ForLights, Unlit, Said
<1>2. pending' \in [Residents -> PendingRec]
  <2>1. pending \in [Residents -> PendingRec] /\ NoPending \in PendingRec
    BY DEF HouseInv, HouseTypes, NoPending, PendingRec, Unsaid
  <2>2. Meant(u, m).brightness \in Int
    BY MeantTyped DEF HouseInv, MessageRec
  <2>3. CASE Clarify(u, m)
    BY <2>1, <2>3 DEF Clarify, PendingRec, NoPending
  <2>4. CASE WhichLights(u, m)
    BY <2>1, <2>2, <2>4 DEF WhichLights, PendingRec
  <2>5. CASE Chat(u, m)
    BY <2>1, <2>5 DEF Chat, Wordless, ForAdjust, Forget
  <2> QED BY <2>3, <2>4, <2>5
<1>3. HouseInv'
  BY <1>1, <1>2, TalkKeeps DEF HouseInv, HouseTypes
<1> QED BY <1>1, <1>3 DEF CommandMeant

\* Nobody speaks, or the bot is started again.
LEMMA Unspoken ==
    ASSUME AshAssumption, HouseInv, Silence \/ HouseRestart \/ UNCHANGED ashVars
    PROVE  HouseInv' /\ CommandMeant
<1>1. CASE Silence
  <2>1. now' \in Nat /\ UNCHANGED <<session, pending, heat, recent, preferred, lamp, last>>
    BY <1>1 DEF Silence, AshAssumption, HouseInv, HouseTypes
  <2> QED BY <2>1 DEF HouseInv, HouseTypes, BeliefsExplained, Shines, CommandMeant
<1>2. CASE HouseRestart
  <2>1. HouseTypes'
    BY <1>2, NothingTyped DEF HouseRestart, HouseInv, HouseTypes
  <2>2. BeliefsExplained'
    BY <1>2 DEF HouseRestart, NoSession, BeliefsExplained
  <2> QED BY <1>2, <2>1, <2>2 DEF HouseInv, HouseRestart, CommandMeant
<1>3. CASE UNCHANGED ashVars
  BY <1>3 DEF ashVars, HouseInv, HouseTypes, BeliefsExplained, Shines, CommandMeant
<1> QED BY <1>1, <1>2, <1>3

\* Every step keeps what is believed, and obeys whom it should.
LEMMA HouseStep ==
    ASSUME AshAssumption, HouseInv, [AshNext]_ashVars
    PROVE  HouseInv' /\ CommandMeant
<1>1. ASSUME NEW u \in Residents, NEW m \in Messages,
             On(u, m) \/ Off(u, m) \/ Adjust(u, m) \/ AdjustByWord(u, m)
      PROVE  HouseInv' /\ CommandMeant
  <2>1. HouseTypes /\ m \in MessageRec
    BY MeantTyped DEF HouseInv
  <2>2. PICK g \in Groups, level \in Levels : Commands(u, m, g, level)
    BY <1>1, <2>1, LampMessages
  <2>3. HouseTypes'
    BY <2>2 DEF Commands
  <2>4. BeliefsExplained'
    BY <2>2, CommandBelieved
  <2>5. CommandMeant
    BY <2>2, CommandObeyed
  <2> QED BY <2>3, <2>4, <2>5 DEF HouseInv
<1> QED BY <1>1, HeatTalk, OtherTalk, Unspoken DEF AshNext, Message

\* The house begins so: nobody has said anything, and no lamp is on.
LEMMA HouseInit == ASSUME AshAssumption, AshInit PROVE HouseInv
<1>1. /\ [on |-> FALSE, level |-> 500] \in LampRec
      /\ [user |-> "none", ok |-> FALSE, by |-> "none"] \in LastRec
  BY DEF LampRec, LastRec, Levels
<1>2. HouseTypes
  BY <1>1, NothingTyped DEF AshInit, HouseTypes
<1>3. BeliefsExplained
  BY DEF AshInit, NoSession, BeliefsExplained
<1> QED BY <1>2, <1>3 DEF HouseInv

\* The house keeps its shape, for any residents, lamps, silences and messages: a lamp's
\* level is one it can have, whatever is asked of it.
THEOREM HouseTyped == ASSUME AshAssumption PROVE AshSpec => []AshTypeOK
<1>1. HouseInv => AshTypeOK
  <2>1. ASSUME HouseInv, NEW g \in Lamps PROVE lamp[g].on \in BOOLEAN /\ lamp[g].level \in Levels
    BY <2>1 DEF HouseInv, HouseTypes, LampRec
  <2>2. ASSUME HouseInv, NEW u \in Residents
        PROVE  /\ session[u].on \in BOOLEAN /\ session[u].level \in Levels
               /\ pending[u].type \in {"none", "lights.on", "lights.adjust"}
    BY <2>2 DEF HouseInv, HouseTypes, SessionRec, PendingRec
  <2>3. HouseInv => /\ \A g \in Lamps : lamp[g].on \in BOOLEAN /\ lamp[g].level \in Levels
                    /\ \A u \in Residents :
                          session[u].on \in BOOLEAN /\ session[u].level \in Levels
                    /\ \A u \in Residents :
                          pending[u].type \in {"none", "lights.on", "lights.adjust"}
    BY <2>1, <2>2
  <2> QED BY <2>3, Zenon DEF AshTypeOK, Levels
<1>2. HouseInv /\ [AshNext]_ashVars => HouseInv'
  BY HouseStep
<1> QED BY <1>1, <1>2, HouseInit, PTL DEF AshSpec

\* For any residents, lamps, silences and messages: what Ash believes of a lamp in session
\* is so, as long as its last command was that user's and went through.
THEOREM BeliefsAlwaysExplained == ASSUME AshAssumption PROVE AshSpec => []BeliefsExplained
<1>1. HouseInv => BeliefsExplained
  BY DEF HouseInv
<1>2. HouseInv /\ [AshNext]_ashVars => HouseInv'
  BY HouseStep
<1> QED BY <1>1, <1>2, HouseInit, PTL DEF AshSpec

\* For any residents, lamps, silences and messages: no lamp is touched that nobody meant.
THEOREM CommandsAlwaysMeant == ASSUME AshAssumption PROVE AshSpec => CommandsMeant
<1>1. HouseInv /\ [AshNext]_ashVars => HouseInv'
  BY HouseStep
<1>2. HouseInv /\ [AshNext]_ashVars => [CommandMeant]_ashVars
  BY HouseStep
<1> QED BY <1>1, <1>2, HouseInit, PTL DEF AshSpec, CommandsMeant, CommandMeant

-----------------------------------------------------------------------------
(* Chat: what is cited was found, and jumps lead to what was found.         *)

Phases == {"search", "widen", "hydrate", "ask", "augment", "done"}
Evidence == [key : Segments, whole : BOOLEAN]
ShapeInv ==
    /\ phase \in Phases /\ index \subseteq Segments /\ versions \subseteq Made
    /\ question \in Questions
    /\ hits \in Seq(Segments) /\ evidence \in Seq(Evidence)
    /\ answer = [kind |-> answer.kind, cites |-> answer.cites, jumps |-> answer.jumps,
                 added |-> answer.added, opens |-> answer.opens]
    /\ answer.kind \in {"none", "evidence", "model"}
    /\ phase # "done" => answer.added = {}

\* What was found is of the asker's session, and the evidence is what was found.
FoundInv ==
    /\ phase = "widen" => question.scope = "global"
    /\ phase \in {"hydrate", "ask", "augment", "done"} /\ question.scope = "session" =>
          \A i \in DOMAIN hits : hits[i].session = question.focus
    /\ phase \in {"ask", "augment", "done"} =>
          Len(evidence) = Len(hits) /\ \A i \in DOMAIN hits : evidence[i].key = hits[i]

ChatInv == ShapeInv /\ FoundInv /\ ChatGrounded

\* A finite set can be put in order, and nothing else comes into it.
LEMMA InOrder ==
    ASSUME NEW S, IsFiniteSet(S)
    PROVE  SetToSeq(S) \in Seq(S)
<1> DEFINE n == Cardinality(S)
<1>1. n \in Nat /\ ExistsBijection(1..n, S)
  BY FS_CardinalityType
<1>2. PICK f : f \in Bijection(1..n, S)
  BY <1>1 DEF ExistsBijection
<1>3. f \in [1..n -> S] /\ IsInjective(f)
  BY <1>2 DEF Bijection, Injection, IsInjective
<1>4. SetToSeq(S) \in [1..n -> S]
  BY <1>3 DEF SetToSeq
<1> QED BY <1>1, <1>4

\* What a search finds is in the index, and of its session.
LEMMA FoundFacts ==
    ASSUME ChatAssumption, ShapeInv, NEW where, Found(Matches(where))
    PROVE  /\ hits' \in Seq(Segments)
           /\ where # Everywhere => \A i \in DOMAIN hits' : hits'[i].session = where
<1> DEFINE S == Matches(where)
<1>1. S \subseteq Segments /\ IsFiniteSet(S)
  <2>1. S \subseteq Segments
    BY DEF Matches, ShapeInv
  <2> QED BY <2>1, FS_Subset DEF ChatAssumption
<1>2. hits' \in Seq(S)
  BY <1>1, InOrder DEF Found
<1>3. \A s \in S : s \in Segments /\ (where # Everywhere => s.session = where)
  BY <1>1 DEF Matches
<1> HIDE DEF S
<1>4. \A i \in DOMAIN hits' : hits'[i] \in S
  BY <1>2
<1>5. hits' \in Seq(Segments)
  BY <1>1, <1>2
<1> QED BY <1>3, <1>4, <1>5

\* A search of a session finds what is of it; only a global question is widened.
LEMMA SearchKeeps ==
    ASSUME ChatAssumption, ChatInv, Search \/ SearchEverywhere
    PROVE  ChatInv'
<1>1. UNCHANGED <<index, versions, question, evidence, answer>> /\ phase \in {"search", "widen"}
  BY DEF Search, SearchEverywhere, Outside
<1>2. CASE Search
  <2>1. /\ hits' \in Seq(Segments)
        /\ question.focus # Everywhere => \A i \in DOMAIN hits' : hits'[i].session = question.focus
    BY <1>2, FoundFacts DEF Search, ChatInv
  <2>2. /\ phase' \in {"widen", "hydrate"}
        /\ phase' = "widen" => question.scope = "global"
    BY <1>2 DEF Search
  <2>3. question.scope = "session" => question.focus # Everywhere
    BY DEF ChatInv, ShapeInv, ChatAssumption
  <2>4. ShapeInv'
    BY <1>1, <2>1, <2>2 DEF ChatInv, ShapeInv, Phases
  <2>5. FoundInv'
    BY <1>1, <2>1, <2>2, <2>3 DEF FoundInv
  <2>6. ChatGrounded'
    BY <1>1, <2>2 DEF ChatInv, ShapeInv, ChatGrounded, CitationsRetrieved, JumpsLand
  <2> QED BY <2>4, <2>5, <2>6 DEF ChatInv
<1>3. CASE SearchEverywhere
  <2>1. hits' \in Seq(Segments) /\ phase' = "hydrate" /\ question.scope = "global"
    BY <1>3, FoundFacts DEF SearchEverywhere, ChatInv, FoundInv
  <2>2. ShapeInv'
    BY <1>1, <2>1 DEF ChatInv, ShapeInv, Phases
  <2>3. FoundInv'
    BY <1>1, <2>1 DEF FoundInv
  <2>4. ChatGrounded'
    BY <1>1, <2>1 DEF ChatInv, ShapeInv, ChatGrounded, CitationsRetrieved, JumpsLand
  <2> QED BY <2>2, <2>3, <2>4 DEF ChatInv
<1> QED BY <1>2, <1>3

\* The second look keeps what was found, and its order.
LEMMA HydrateKeeps ==
    ASSUME ChatInv, Hydrate
    PROVE  ChatInv'
<1>1. /\ UNCHANGED <<index, versions, question, hits, answer>>
      /\ phase = "hydrate" /\ phase' = "ask"
  BY DEF Hydrate, Outside
<1>2. hits \in Seq(Segments)
  BY DEF ChatInv, ShapeInv
<1>3. /\ evidence' \in Seq(Evidence) /\ Len(evidence') = Len(hits)
      /\ \A i \in DOMAIN hits : evidence'[i].key = hits[i]
  <2> DEFINE e(i) == [key |-> hits[i], whole |-> hits[i] \in index]
  <2>1. \A i \in DOMAIN hits : e(i) \in Evidence /\ e(i).key = hits[i]
    BY <1>2 DEF Evidence
  <2>2. evidence' = [i \in 1..Len(hits) |-> e(i)] /\ Len(hits) \in Nat /\ DOMAIN hits = 1..Len(hits)
    BY <1>2 DEF Hydrate
  <2> HIDE DEF e
  <2> QED BY <2>1, <2>2
<1>4. ShapeInv'
  BY <1>1, <1>3 DEF ChatInv, ShapeInv, Phases
<1>5. FoundInv'
  BY <1>1, <1>3 DEF ChatInv, FoundInv
<1>6. ChatGrounded'
  BY <1>1 DEF ChatInv, ShapeInv, ChatGrounded, CitationsRetrieved, JumpsLand
<1> QED BY <1>4, <1>5, <1>6 DEF ChatInv

\* The anchors a reply falls back on are of the evidence; there is one if there is evidence.
LEMMA FallbackFacts ==
    ASSUME ChatAssumption, ChatInv, phase = "ask"
    PROVE  /\ Keys = ToSet(hits) /\ Fallback \subseteq Keys
           /\ evidence # <<>> => Fallback # {}
           /\ evidence = <<>> <=> hits = <<>>
<1>1. /\ hits \in Seq(Segments) /\ evidence \in Seq(Evidence) /\ Len(evidence) = Len(hits)
      /\ \A i \in DOMAIN hits : evidence[i].key = hits[i]
  BY DEF ChatInv, ShapeInv, FoundInv
<1>2. DOMAIN evidence = DOMAIN hits /\ (evidence = <<>> <=> hits = <<>>)
  BY <1>1
<1>3. Keys = ToSet(hits)
  BY <1>1, <1>2 DEF Keys, ToSet
<1> DEFINE n == IF Len(evidence) < FallbackCites THEN Len(evidence) ELSE FallbackCites
           t == Top(evidence, FallbackCites)
<1>4. n \in 0..Len(evidence) /\ (evidence # <<>> => n >= 1)
  BY <1>1 DEF ChatAssumption
<1>5. /\ t = SubSeq(evidence, 1, n) /\ Len(t) = n
      /\ DOMAIN t = 1..n /\ \A i \in 1..n : t[i] = evidence[i]
  BY <1>1, <1>4 DEF Top
<1> HIDE DEF n, t
<1>6. Fallback = {t[i].key : i \in 1..n}
  BY <1>5 DEF Fallback, ToSet, t
<1>7. Fallback \subseteq Keys
  BY <1>1, <1>4, <1>5, <1>6 DEF Keys
<1>8. evidence # <<>> => Fallback # {}
  BY <1>1, <1>4, <1>6
<1> QED BY <1>2, <1>3, <1>7, <1>8

\* An answer that cites of the evidence, if there is any, can be given.
LEMMA RepliesKeep ==
    ASSUME ChatAssumption, ChatInv, NEW kind \in {"evidence", "model"}, NEW cites, NEW jumps,
           phase = "ask", Replies(kind, cites, jumps), cites \subseteq Keys,
           kind = "model" => cites # {}, evidence # <<>> => cites # {}
    PROVE  ChatInv'
<1>1. /\ UNCHANGED <<index, versions, question, hits, evidence>> /\ phase' = "augment"
      /\ answer' = [answer EXCEPT !.kind = kind, !.cites = cites, !.jumps = jumps]
  BY DEF Replies, Outside
<1>2. /\ answer' = [kind |-> kind, cites |-> cites, jumps |-> jumps,
                    added |-> answer.added, opens |-> answer.opens]
      /\ answer.added = {}
  BY <1>1 DEF ChatInv, ShapeInv
<1>3. /\ answer'.kind = kind /\ answer'.cites = cites /\ answer'.jumps = jumps
      /\ answer'.added = {} /\ answer'.opens = answer.opens
  BY <1>2
<1>4. ShapeInv'
  BY <1>1, <1>2, <1>3 DEF ChatInv, ShapeInv, Phases
<1>5. FoundInv'
  BY <1>1 DEF ChatInv, FoundInv
<1>6. CitationsRetrieved'
  <2>1. cites \subseteq ToSet(hits) /\ (hits # <<>> => cites # {})
    BY FallbackFacts
  <2>2. question.scope = "session" => \A c \in cites : c.session = question.focus
    BY <2>1 DEF ChatInv, FoundInv, ToSet
  <2> QED BY <1>1, <1>3, <2>1, <2>2 DEF CitationsRetrieved
<1>7. JumpsLand'
  BY <1>3 DEF JumpsLand
<1> QED BY <1>4, <1>5, <1>6, <1>7 DEF ChatInv, ChatGrounded

\* Whatever the model says, and if it says nothing, the answer cites of the evidence.
LEMMA AnswersKeep ==
    ASSUME ChatAssumption, ChatInv, NothingFound \/ ModelFails \/ ModelAnswers
    PROVE  ChatInv'
<1>1. phase = "ask"
  BY DEF NothingFound, ModelFails, ModelAnswers
<1>2. Fallback \subseteq Keys /\ (evidence # <<>> => Fallback # {})
  BY <1>1, FallbackFacts
<1>3. CASE NothingFound
  <2>1. Replies("evidence", {}, {}) /\ evidence = <<>>
    BY <1>3 DEF NothingFound
  <2> QED BY <1>1, <2>1, RepliesKeep
<1>4. CASE ModelFails
  <2>1. Replies("evidence", Fallback, {}) /\ evidence # <<>>
    BY <1>4 DEF ModelFails
  <2> QED BY <1>1, <1>2, <2>1, RepliesKeep
<1>5. CASE ModelAnswers
  <2>1. PICK a \in Answers :
            /\ evidence # <<>>
            /\ IF a.text
               THEN IF KeptCites(a) = {} THEN Replies("evidence", Fallback, {})
                    ELSE Replies("model", KeptCites(a), KeptJumps(a))
               ELSE Replies("evidence", IF KeptCites(a) = {} THEN Fallback ELSE KeptCites(a),
                            KeptJumps(a))
    BY <1>5 DEF ModelAnswers
  <2>2. KeptCites(a) \subseteq Keys
    BY DEF KeptCites
  <2>3. CASE Replies("evidence", Fallback, {})
    BY <1>1, <1>2, <2>1, <2>3, RepliesKeep
  <2>4. CASE KeptCites(a) # {} /\ Replies("model", KeptCites(a), KeptJumps(a))
    BY <1>1, <2>1, <2>2, <2>4, RepliesKeep
  <2>5. CASE Replies("evidence", IF KeptCites(a) = {} THEN Fallback ELSE KeptCites(a),
                     KeptJumps(a))
    <3> DEFINE c == IF KeptCites(a) = {} THEN Fallback ELSE KeptCites(a)
    <3>1. c \subseteq Keys /\ c # {}
      BY <1>2, <2>1, <2>2
    <3>2. Replies("evidence", c, KeptJumps(a))
      BY <2>5
    <3> HIDE DEF c
    <3> QED BY <1>1, <3>1, <3>2, RepliesKeep
  <2> QED BY <2>1, <2>3, <2>4, <2>5
<1> QED BY <1>3, <1>4, <1>5

\* A jump is added only from a hit whose run's version is still there.
LEMMA AugmentKeeps ==
    ASSUME ChatAssumption, ChatInv, Augment
    PROVE  ChatInv'
<1>1. /\ UNCHANGED <<index, versions, question, hits, evidence>>
      /\ phase = "augment" /\ phase' = "done"
      /\ \/ answer' = answer
         \/ answer' = [answer EXCEPT !.added = Added, !.opens = Opened]
  BY DEF Augment, Outside
<1>2. hits \in Seq(Segments) /\ versions \subseteq Made
  BY DEF ChatInv, ShapeInv
<1>3. ASSUME NEW j \in Added
      PROVE  /\ j.version = Produced[j.run] /\ j.version # NoVersion
             /\ [session |-> j.session, run |-> j.run, seg |-> j.seg] \in ToSet(hits)
  <2> DEFINE n == IF Len(hits) < JumpHits THEN Len(hits) ELSE JumpHits
  <2>1. n \in 0..Len(hits)
    BY <1>2 DEF ChatAssumption
  <2>2. DOMAIN Best = 1..n /\ \A i \in 1..n : Best[i] = hits[i]
    BY <1>2, <2>1 DEF Best, Top
  <2> HIDE DEF n
  <2>3. PICK i \in 1..n : j = Landing(hits[i]) /\ Lands(hits[i])
    BY <1>3, <2>2 DEF Added
  <2>4. hits[i] \in ToSet(hits) /\ hits[i] \in Segments
    BY <1>2, <2>1 DEF ToSet
  <2>5. hits[i] = [session |-> hits[i].session, run |-> hits[i].run, seg |-> hits[i].seg]
    BY <2>4 DEF ChatAssumption
  <2>6. /\ j.session = hits[i].session /\ j.seg = hits[i].seg /\ j.run = hits[i].run
        /\ j.version = Produced[hits[i].run]
    BY <2>3 DEF Landing
  <2>7. Produced[hits[i].run] # NoVersion
    BY <1>2, <2>3 DEF Lands, Made
  <2> QED BY <2>4, <2>5, <2>6, <2>7
<1>4. CASE answer' = answer
  <2>1. ShapeInv'
    BY <1>1, <1>4 DEF ChatInv, ShapeInv, Phases
  <2> QED BY <1>1, <1>4, <2>1 DEF ChatInv, FoundInv, ChatGrounded, CitationsRetrieved, JumpsLand
<1>5. CASE answer' = [answer EXCEPT !.added = Added, !.opens = Opened]
  <2>1. answer' = [kind |-> answer.kind, cites |-> answer.cites, jumps |-> answer.jumps,
                   added |-> Added, opens |-> Opened]
    BY <1>5 DEF ChatInv, ShapeInv
  <2>2. /\ answer'.kind = answer.kind /\ answer'.cites = answer.cites
        /\ answer'.jumps = answer.jumps /\ answer'.added = Added /\ answer'.opens = Opened
    BY <2>1
  <2>3. ShapeInv'
    BY <1>1, <2>1, <2>2 DEF ChatInv, ShapeInv, Phases
  <2>4. FoundInv'
    BY <1>1 DEF ChatInv, FoundInv
  <2>5. CitationsRetrieved'
    BY <1>1, <2>2 DEF ChatInv, ChatGrounded, CitationsRetrieved
  <2>6. JumpsLand'
    BY <1>1, <1>3, <2>2 DEF JumpsLand
  <2> QED BY <2>3, <2>4, <2>5, <2>6 DEF ChatInv, ChatGrounded
<1> QED BY <1>1, <1>4, <1>5

\* What is indexed and deleted meanwhile changes nothing of the question being answered.
LEMMA LibraryKeeps ==
    ASSUME ChatInv,
           \/ \E r \in IndexedRuns : IndexRun(r) \/ DeleteRun(r)
           \/ \E v \in Made : DeleteVersion(v)
           \/ UNCHANGED chatVars
    PROVE  ChatInv'
<1>1. UNCHANGED <<phase, question, hits, evidence, answer>>
  BY DEF IndexRun, DeleteRun, DeleteVersion, Changes, chatVars
<1>2. index' \subseteq Segments /\ versions' \subseteq Made
  BY DEF ChatInv, ShapeInv, IndexRun, DeleteRun, DeleteVersion, chatVars
<1>3. ShapeInv'
  BY <1>1, <1>2 DEF ChatInv, ShapeInv
<1> QED BY <1>1, <1>3 DEF ChatInv, FoundInv, ChatGrounded, CitationsRetrieved, JumpsLand

\* Every step keeps all of it.
LEMMA ChatStep ==
    ASSUME ChatAssumption, ChatInv, [ChatNext]_chatVars
    PROVE  ChatInv'
BY SearchKeeps, HydrateKeeps, AnswersKeep, AugmentKeeps, LibraryKeeps DEF ChatNext

\* It holds of a question just asked.
LEMMA ChatBegins == ASSUME ChatAssumption, ChatInit PROVE ChatInv
<1>1. ShapeInv
  BY DEF ChatInit, ShapeInv, Phases, NoAnswer
<1>2. FoundInv /\ ChatGrounded
  BY DEF ChatInit, FoundInv, ChatGrounded, CitationsRetrieved, JumpsLand, NoAnswer
<1> QED BY <1>1, <1>2 DEF ChatInv

\* For any library, questions, answers of a model and changes meanwhile: what a reply cites
\* was retrieved, of its scope, and its jumps land on what was found.
THEOREM ChatAlwaysGrounded == ASSUME ChatAssumption PROVE ChatSpec => []ChatGrounded
<1>1. ChatInv /\ [ChatNext]_chatVars => ChatInv'
  BY ChatStep
<1>2. ChatInv => ChatGrounded
  BY DEF ChatInv
<1> QED BY <1>1, <1>2, ChatBegins, PTL DEF ChatSpec

\* What is searched is of the library, and what was found too.
THEOREM ChatTyped == ASSUME ChatAssumption PROVE ChatSpec => []ChatTypeOK
<1>1. ChatInv /\ [ChatNext]_chatVars => ChatInv'
  BY ChatStep
<1>2. ChatInv => ChatTypeOK
  BY DEF ChatInv, ShapeInv, ChatTypeOK, ToSet
<1> QED BY <1>1, <1>2, ChatBegins, PTL DEF ChatSpec
=============================================================================
