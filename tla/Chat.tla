-------------------------------- MODULE Chat --------------------------------
(***************************************************************************)
(* Questions about the library (chat/, the chat handlers of web/app.py):   *)
(* a search, a second look at what it found, a language model that answers *)
(* from it, and actions that open what was found.  Meanwhile threads index *)
(* runs and other processes delete them.                                   *)
(***************************************************************************)
EXTENDS Integers, FiniteSets, Sequences, SequencesExt

CONSTANTS
    Segments,       \* what may be in the index: [session, run, seg]
    Produced,       \* the version each run made, or NoVersion
    NoVersion,
    Questions,      \* what is asked: [scope, focus, cross, about (a set of segments)]
    Everywhere,     \* no session to look at first
    Answers,        \* what the model may say: [text, cites, jumps]
    FallbackCites,  \* 5 in the code
    JumpHits,       \* 6 in the code
    MaxChanges      \* bound: runs indexed, runs and versions deleted

VARIABLES
    index,          \* the segments the index has
    versions,       \* the transcript versions there are
    phase, question,
    hits,           \* what the search found, best first
    evidence,       \* the same, looked up again: has each its text, or only a snippet
    answer,         \* kind, citations and actions of the reply
    changes

chatVars == <<index, versions, phase, question, hits, evidence, answer, changes>>

IndexedRuns == {s.run : s \in Segments}
ChatAssumption ==
    /\ Segments \subseteq [session : STRING, run : DOMAIN Produced, seg : Nat]
    /\ IsFiniteSet(Segments)
    /\ \A q \in Questions : q.scope = "session" => q.focus # Everywhere    \* or it is refused
    /\ FallbackCites \in Nat \ {0} /\ JumpHits \in Nat /\ MaxChanges \in Nat

NoAnswer == [kind |-> "none", cites |-> {}, jumps |-> {}, added |-> {}, opens |-> {}]
Made == {Produced[r] : r \in IndexedRuns} \ {NoVersion}

ChatInit ==
    /\ index \in {{s \in Segments : s.run \in R} : R \in SUBSET IndexedRuns}
    /\ versions = Made
    /\ phase = "search"
    /\ question \in Questions
    /\ hits = <<>> /\ evidence = <<>>
    /\ answer = NoAnswer
    /\ changes = 0

Outside == UNCHANGED <<index, versions, question, changes>>
Top(s, n) == SubSeq(s, 1, IF Len(s) < n THEN Len(s) ELSE n)

(***************************************************************************)
(* The search (retrieve_hits): a session's chat looks in it and nowhere    *)
(* else; a global one looks first in the session in focus.                 *)
(***************************************************************************)
Matches(where) == {s \in index \cap question.about : where \in {Everywhere, s.session}}
Found(s) == hits' = SetToSeq(s)
Search ==
    /\ phase = "search"
    /\ Found(Matches(question.focus))
    /\ phase' = IF /\ question.scope = "global" /\ question.focus # Everywhere
                   /\ Matches(question.focus) = {} \/ question.cross
                THEN "widen" ELSE "hydrate"
    /\ UNCHANGED <<evidence, answer>> /\ Outside
SearchEverywhere ==
    /\ phase = "widen"
    /\ Found(Matches(Everywhere))
    /\ phase' = "hydrate"
    /\ UNCHANGED <<evidence, answer>> /\ Outside

\* hydrate_evidence, on a connection of its own: what is gone since keeps its snippet.
\* (The code puts hits by rank and evidence by run and number; which come first is
\* arbitrary here, and the same for both.)
Hydrate ==
    /\ phase = "hydrate"
    /\ evidence' = [i \in DOMAIN hits |-> [key |-> hits[i], whole |-> hits[i] \in index]]
    /\ phase' = "ask"
    /\ UNCHANGED <<hits, answer>> /\ Outside

Keys == {evidence[i].key : i \in DOMAIN evidence}
Fallback == {e.key : e \in ToSet(Top(evidence, FallbackCites))}

(***************************************************************************)
(* The answer (answer_with_evidence).                                      *)
(***************************************************************************)
Replies(kind, cites, jumps) ==
    /\ answer' = [answer EXCEPT !.kind = kind, !.cites = cites, !.jumps = jumps]
    /\ phase' = "augment"
    /\ UNCHANGED <<hits, evidence>> /\ Outside

\* Nothing was found: no model is asked.
NothingFound ==
    /\ phase = "ask" /\ evidence = <<>>
    /\ Replies("evidence", {}, {})

\* The gateway failed, or gave up waiting.
ModelFails ==
    /\ phase = "ask" /\ evidence # <<>>
    /\ Replies("evidence", Fallback, {})

\* Citations outside the evidence are taken out; jumps are compared by session and
\* number only, and one to segment 0 is never kept, as 0 is read for no number at all.
KeptCites(a) == a.cites \cap Keys
KeptJumps(a) ==
    {j \in a.jumps : j.seg # 0 /\ \E k \in Keys : k.session = j.session /\ k.seg = j.seg}
ModelAnswersUnchecked ==                    \* mutant: what the model cites is not looked up
    /\ phase = "ask" /\ evidence # <<>>
    /\ \E a \in Answers : Replies("model", a.cites, KeptJumps(a))
ModelAnswers ==
    /\ phase = "ask" /\ evidence # <<>>
    /\ \E a \in Answers :
          IF a.text
          THEN IF KeptCites(a) = {} THEN Replies("evidence", Fallback, {})
               ELSE Replies("model", KeptCites(a), KeptJumps(a))
          ELSE Replies("evidence", IF KeptCites(a) = {} THEN Fallback ELSE KeptCites(a),
                       KeptJumps(a))

(***************************************************************************)
(* Actions from the best hits (_augment_actions_from_hits): open a session *)
(* that is not in focus; jump to a hit in the version its run made, if it  *)
(* is still there, once for each number in a session.                      *)
(***************************************************************************)
Best == Top(hits, JumpHits)
Jumped(h) == \E j \in answer.jumps : j.session = h.session /\ j.seg = h.seg
Lands(h) == Produced[h.run] \in versions /\ ~Jumped(h)
Same(h, k) == h.session = k.session /\ h.seg = k.seg
Landing(h) == [session |-> h.session, seg |-> h.seg, version |-> Produced[h.run], run |-> h.run]
Added == {Landing(Best[i]) : i \in {n \in DOMAIN Best :
             Lands(Best[n]) /\ \A k \in 1..(n - 1) : ~(Lands(Best[k]) /\ Same(Best[k], Best[n]))}}
Opened == {h.session : h \in ToSet(Best)} \ {question.focus}
Augment ==
    /\ phase = "augment"
    /\ answer' = IF question.scope = "session" /\ evidence = <<>> THEN answer
                 ELSE [answer EXCEPT !.added = Added, !.opens = Opened]
    /\ phase' = "done"
    /\ UNCHANGED <<hits, evidence>> /\ Outside

(***************************************************************************)
(* The others.                                                             *)
(***************************************************************************)
Changes ==
    /\ phase # "done" /\ changes < MaxChanges
    /\ changes' = changes + 1
    /\ UNCHANGED <<phase, question, hits, evidence, answer>>
IndexRun(r) ==
    /\ Changes
    /\ index' = index \cup {s \in Segments : s.run = r}
    /\ UNCHANGED versions
DeleteRun(r) ==
    /\ Changes
    /\ index' = {s \in index : s.run # r}
    /\ UNCHANGED versions
DeleteVersion(v) ==
    /\ Changes
    /\ versions' = versions \ {v}
    /\ UNCHANGED index

ChatNext ==
    \/ Search \/ SearchEverywhere \/ Hydrate
    \/ NothingFound \/ ModelFails \/ ModelAnswers \/ Augment
    \/ \E r \in IndexedRuns : IndexRun(r) \/ DeleteRun(r)
    \/ \E v \in Made : DeleteVersion(v)
ChatSpec == ChatInit /\ [][ChatNext]_chatVars

-----------------------------------------------------------------------------
ChatTypeOK ==
    /\ index \subseteq Segments /\ versions \subseteq Made
    /\ ToSet(hits) \subseteq Segments
    /\ answer.kind \in {"none", "evidence", "model"}

\* Whatever the model says, and whatever is deleted while it thinks, a reply cites only
\* what the search found, of the asker's session when that is the scope, and words of the
\* model come with a citation (answer.py:212-297).
CitationsRetrieved ==
    phase \in {"augment", "done"} =>
        /\ answer.cites \subseteq ToSet(hits)
        /\ question.scope = "session" => \A c \in answer.cites : c.session = question.focus
        /\ answer.kind = "model" => answer.cites # {}
        /\ hits # <<>> => answer.cites # {}

\* A jump made from a hit leads to the transcript the hit's run made, where its number
\* stands for the segment that was found, and not to that of another run of the session.
JumpsLand ==
    \A j \in answer.added :
        /\ j.version = Produced[j.run] /\ j.version # NoVersion
        /\ [session |-> j.session, run |-> j.run, seg |-> j.seg] \in ToSet(hits)

ChatGrounded == CitationsRetrieved /\ JumpsLand
=============================================================================
