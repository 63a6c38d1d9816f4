------------------------------ MODULE MCServices ------------------------------
(* Small instances of what turns a recording into published text and answers  *)
(* questions about it, and of the two sides of the Telegram bot, the house    *)
(* and Stuart's door; one of them moves in each behaviour.                    *)
EXTENDS Alignment, Grounding, LLMGateway, StuartDoor, AshCore, Chat, TLC

VARIABLE scenario

Services == <<alignVars, groundingVars, gatewayVars, chatVars>>
vars == <<scenario, Services, ashVars, doorVars>>

(***************************************************************************)
(* Speech and turns: words that must be shared out, a dominant speaker, a  *)
(* gap just over and just under the merging distance, segments of no time. *)
(***************************************************************************)
Seg(i, from, to, words) ==
    [id |-> i, from |-> from, to |-> to, who |-> "SPEAKER_00", words |-> words, by |-> "asr"]
Uttered(from, to) == [i \in 1..(to - from + 1) |-> from + i - 1]
Recs == { <<>>, <<Seg(0, 0, 0, Uttered(1, 2))>>,
          <<Seg(0, 0, 2000, Uttered(1, 7)), Seg(1, 2100, 3000, Uttered(8, 9))>>,
          <<Seg(0, 0, 2000, Uttered(1, 6)), Seg(1, 2900, 4000, Uttered(7, 13))>>,
          <<Seg(0, 0, 1000, Uttered(1, 2)), Seg(1, 1000, 4000, Uttered(3, 13))>> }
TurnOf(who, from, to) == [who |-> who, from |-> from, to |-> to]
AllTurns == <<TurnOf("SPEAKER_00", 0, 900), TurnOf("SPEAKER_01", 100, 1100),
              TurnOf("SPEAKER_00", 1000, 2500), TurnOf("SPEAKER_01", 2000, 2300),
              TurnOf("SPEAKER_00", 3000, 3100), TurnOf("SPEAKER_02", 3150, 4000)>>
Heard == {SelectSeq([i \in 1..6 |-> IF i \in D THEN AllTurns[i] ELSE TurnOf("", 0, 0)],
                    LAMBDA t : t.who # "") : D \in SUBSET (1..6)}
Other(seg) == [seg EXCEPT !.who = "SPEAKER_01"]
Stub == <<Seg(0, 0, 0, Uttered(1, 3)), Other(Seg(1, 0, 0, Uttered(4, 6))),
          Other(Seg(2, 0, 0, Uttered(7, 8))), Seg(3, 0, 0, Uttered(9, 10))>>

Numbers == 1..13

(***************************************************************************)
(* Transcripts as those steps leave them: of the stub, of an engine, of a  *)
(* version made earlier, of silence.                                       *)
(***************************************************************************)
Talk == <<Seg(0, 0, 2000, Uttered(1, 6)), Seg(1, 2100, 3000, Uttered(7, 9)), Seg(2, 4000, 5000, <<>>)>>
TalkTurns == <<TurnOf("SPEAKER_00", 0, 900), TurnOf("SPEAKER_01", 950, 3000)>>
Pair(engine, segs, turns) ==
    [plain |-> File(engine, segs), aligned |-> File("time_overlap_v1", Aligned(segs, turns))]
Alone(engine, segs) == [plain |-> File(engine, segs), aligned |-> NoFile]
Transcripts ==
    [meeting |-> {Pair("stub", Stub, <<>>), Pair("faster-whisper", Talk, TalkTurns),
                  Pair("faster-whisper", <<>>, <<>>), Alone("stub", Stub),
                  Alone("default", Aligned(Talk, TalkTurns))},
     journal |-> {Alone("stub", Stub), Alone("faster-whisper", Talk),
                  Alone("faster-whisper", <<>>),
                  Alone("default", Talk), Pair("faster-whisper", Talk, TalkTurns)}]

Ann == "SPEAKER_00" :> "Ann"
Bea == "SPEAKER_00" :> "Bea" @@ "SPEAKER_01" :> "Cy"

Minute(n) == [must |-> TRUE, cites |-> {n}]
Person(label, name) == [label |-> label, name |-> name]
Meeting(shape, items, people, assignees) ==
    [mode |-> "meeting", shape |-> shape, items |-> items, people |-> people,
     assignees |-> assignees]
Written ==
    [meeting |-> {Meeting("meeting", {Minute(0), Minute(1)}, {Person("SPEAKER_00", "")}, {}),
                  Meeting("meeting", {Minute(0)}, {Person("SPEAKER_00", "Ann")}, {"Ann"}),
                  Meeting("meeting", {Minute(1)}, {Person("SPEAKER_00", "Bea"), Person("SPEAKER_01", "Cy")},
                          {"SPEAKER_00"}),
                  Meeting("meeting", {Minute(3)}, {}, {"Dan"}),
                  Meeting("meeting", {[must |-> TRUE, cites |-> {}]}, {}, {}),
                  Meeting("meeting", {}, {Person("SPEAKER_01", "")}, {})},
     journal |-> {[mode |-> "journal", shape |-> "journal", people |-> {}, assignees |-> {},
                   items |-> its] :
                     its \in {{}, {[must |-> FALSE, cites |-> {0, 1}]}, {Minute(2)}, {Minute(9)}}}
                 \cup {[mode |-> "meeting", shape |-> "journal", people |-> {}, assignees |-> {},
                        items |-> {Minute(0)}]}]

Named == {NoOverlay, Ann, Bea}

\* Two runs at the gateway, one a journal without a segment.
TwoRuns == {"r1", "r2"}
OneBlank == {"r2"}

(***************************************************************************)
(* Two runs of one session, one of another that made no version.           *)
(***************************************************************************)
InIndex(s, run, n) == [session |-> s, run |-> run, seg |-> n]
Indexed == {InIndex("s1", "r1", 0), InIndex("s1", "r1", 1), InIndex("s1", "r2", 0),
            InIndex("s1", "r2", 1), InIndex("s2", "r3", 0)}
Question(scope, focus, cross, about) ==
    [scope |-> scope, focus |-> focus, cross |-> cross, about |-> about]
Asked == {Question("session", "s1", FALSE, Indexed),
          Question("global", "s2", FALSE, Indexed),
          Question("global", "s1", FALSE, {InIndex("s2", "r3", 0)}),
          Question("global", "s1", TRUE, Indexed),
          Question("global", "*", FALSE, Indexed)}
Jump(s, n) == [session |-> s, seg |-> n]
Replied == {[text |-> t, cites |-> c, jumps |-> j] :
              t \in BOOLEAN,
              c \in {{}, {InIndex("s1", "r1", 1), InIndex("s9", "r9", 4)}, {InIndex("s2", "r3", 0)}},
              j \in {{}, {Jump("s1", 0), Jump("s1", 1), Jump("s9", 4)}}}

MadeBy == [r1 |-> "v1", r2 |-> "v2", r3 |-> "none"]

(***************************************************************************)
(* What two users say to the house: commands with and without a lamp, for  *)
(* a group that has none, phrases of a session, vague ones, the heat.      *)
(***************************************************************************)
Text(type, group, brightness, delta, says, guess, times) ==
    [type |-> type, group |-> group, brightness |-> brightness, delta |-> delta,
     says |-> says, guess |-> guess, times |-> times]
Talking(says, guess) == Text("chat", "none", Unsaid, Unsaid, says, guess, 1)
Sayings ==
    {Text("lights.on", g, Unsaid, Unsaid, "none", g, 1) : g \in {"none", "thor", "attic"}}
    \cup {Text("lights.adjust", "sky", 950, Unsaid, "none", "none", 1),
          Text("lights.off", "none", Unsaid, Unsaid, "none", "off", 1),
          Text("lights.adjust", "none", Unsaid, 100, "more", "more", 1),
          Text("lights.adjust", "none", Unsaid, -20, "none", "darker", 3)}
    \cup {Text("lights.adjust", "none", Unsaid, Unsaid, w, w, 1) :
             w \in {"back one", "lights out", "way down"}}
    \cup {Talking(w, w) : w \in {"too bright", "sunny", "a little", "yes"}}
    \cup {Talking("none", "thor"), Talking("turn it off", "none"),
          Text("comfort.cold", "none", Unsaid, Unsaid, "none", "none", 1)}

\* Two members of one chat whose recordings have the same name.
Members == {"ann", "bob"}
OneName == {"upload.bin"}
BothModes == {"meeting", "journal"}
AutoOrMore == {"auto", "3+"}

ASSUME InstancesAssumption ==
    /\ RecordingAssumption /\ SourcesAssumption /\ GatewayAssumption /\ ChatAssumption
    /\ AshAssumption /\ DoorAssumption

-----------------------------------------------------------------------------
\* Those that do not move stay at one of their initial states.
Init ==
    /\ scenario \in {"alignment", "grounding", "gateway", "chat", "ash", "door"}
    /\ AlignInit /\ GroundingInit /\ GatewayInit /\ ChatInit /\ AshInit /\ DoorInit
    /\ scenario # "alignment" => ~strict /\ ~diarizes
    /\ scenario # "grounding" =>
          mode = "meeting" /\ plain.engine = "default" /\ active = NoOverlay
    /\ scenario # "gateway" => ~allowed /\ ~keyed
    /\ scenario # "chat" => index = {} /\ question.focus = "*"
Next ==
    /\ \/ /\ UNCHANGED <<ashVars, doorVars>>
          /\ \/ scenario = "alignment" /\ AlignNext /\ UNCHANGED <<groundingVars, gatewayVars, chatVars>>
             \/ scenario = "grounding" /\ GroundingNext /\ UNCHANGED <<alignVars, gatewayVars, chatVars>>
             \/ scenario = "gateway" /\ GatewayNext /\ UNCHANGED <<alignVars, groundingVars, chatVars>>
             \/ scenario = "chat" /\ ChatNext /\ UNCHANGED <<alignVars, groundingVars, gatewayVars>>
       \/ scenario = "ash" /\ AshNext /\ UNCHANGED <<Services, doorVars>>
       \/ scenario = "door" /\ DoorNext /\ UNCHANGED <<Services, ashVars>>
    /\ UNCHANGED scenario
Fairness ==
    \A r \in {"r1", "r2"} : /\ WF_gatewayVars(scenario = "gateway" /\ RunStep(r))
                            /\ WF_gatewayVars(scenario = "gateway" /\ Timeout(r))
Spec == Init /\ [][Next]_vars /\ Fairness
=============================================================================
