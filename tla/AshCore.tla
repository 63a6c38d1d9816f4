------------------------------- MODULE AshCore -------------------------------
(***************************************************************************)
(* Ash, the voice of the house (core/router.py, capabilities/, control/):  *)
(* what is said to it is read together with what was said before, a        *)
(* lighting session of half a minute, a question it asked, a heat          *)
(* conversation of ten seconds, and becomes commands to lamps that may     *)
(* fail.  Messages are handled one after the other.  What reads a text     *)
(* (brain/nlu) is left open: a message is what was understood of it.       *)
(***************************************************************************)
EXTENDS Integers, FiniteSets

CONSTANTS
    Residents,
    Lamps,          \* the groups that have devices (GROUPS)
    Messages,       \* [type, group, brightness, delta, says, guess, times]: what extract_intent
                    \* made of a text, on the scale of lamps; a phrase the handlers look
                    \* for; what it would be as the name of a group; its emphasis
    SessionTimeout, \* 30 in the code
    HeatTimeout,    \* 10
    Pauses,         \* how long the users may be silent
    MaxTime,        \* bound: when the last message is sent
    MaxMessages     \* bound, of messages and restarts

VARIABLES
    now, sent,
    session,        \* lighting._sessions
    pending,        \* lighting._pending_targets
    heat,           \* comfort._sessions
    recent,         \* router._recent_actions
    preferred,      \* memory: the temperature a user likes
    lamp,           \* the lamps themselves
    last            \* observer: whose command was the last to each lamp, if it went
                    \* through and how the message named the lamp

ashVars == <<now, sent, session, pending, heat, recent, preferred, lamp, last>>

Unsaid == -9999
Step == 100
Clamp(x) == IF x < 0 THEN 0 ELSE IF x > 1000 THEN 1000 ELSE x

AshAssumption ==
    /\ Lamps # {} /\ "none" \notin Lamps
    /\ SessionTimeout \in Nat /\ HeatTimeout \in Nat
    /\ Pauses \subseteq Nat \ {0} /\ MaxTime \in Nat /\ MaxMessages \in Nat
    /\ Messages \subseteq [type : STRING, group : STRING, brightness : Int, delta : Int,
                           says : STRING, guess : STRING, times : 1..4]

NoSession == [on |-> FALSE, group |-> "none", level |-> 0, delta |-> 0, updated |-> 0]
NoHeat == [on |-> FALSE, current |-> 0, proposed |-> 0, updated |-> 0]
NoPending == [type |-> "none", brightness |-> Unsaid]
NoAction == [type |-> "none", group |-> "none", level |-> 0, at |-> 0]

AshInit ==
    /\ now = 0 /\ sent = 0
    /\ session = [u \in Residents |-> NoSession]
    /\ pending = [u \in Residents |-> NoPending]
    /\ heat = [u \in Residents |-> NoHeat]
    /\ recent = [u \in Residents |-> NoAction]
    /\ preferred = [u \in Residents |-> 21]
    /\ lamp = [g \in Lamps |-> [on |-> FALSE, level |-> 500]]
    /\ last = [g \in Lamps |-> [user |-> "none", ok |-> FALSE, by |-> "none"]]

\* Sessions run out; the code deletes them when it next looks.
Live(s, age) == s.on /\ now - s.updated <= age
LightingForever(u) == session[u].on         \* mutant: a lighting session never runs out
Lighting(u) == Live(session[u], SessionTimeout)
Heating(u) == Live(heat[u], HeatTimeout)
Active(u) == IF Lighting(u) THEN session[u].group ELSE "none"
Or(g, h) == IF g # "none" THEN g ELSE h

Said ==
    /\ sent < MaxMessages
    /\ sent' = sent + 1
    /\ UNCHANGED now
Unlit == UNCHANGED <<session, lamp, last>>

-----------------------------------------------------------------------------
(* Heat (capabilities/comfort): in its ten seconds every message is for it. *)
(* The thermostat is not told; what is agreed on is only remembered.        *)

LastKnown == 19                             \* never written, so always the default
Proposed(u, m) ==
    CASE m.says = "a little" -> heat[u].current + 1
      [] m.says = "more"     -> heat[u].proposed + 1
      [] OTHER               -> heat[u].proposed
HeatReply(u, m) ==
    /\ Heating(u)
    /\ Said
    /\ heat' = [heat EXCEPT ![u] =
                  IF m.says \in {"yes", "no"} THEN NoHeat
                  ELSE [@ EXCEPT !.proposed = Proposed(u, m), !.updated = now]]
    /\ \/ /\ m.says \in {"yes", "a little", "more"}
          /\ preferred' = [preferred EXCEPT ![u] = Proposed(u, m)]
          /\ recent' = [recent EXCEPT ![u] = [NoAction EXCEPT !.type = "heat", !.at = now]]
       \/ /\ m.says \notin {"yes", "a little", "more"}
          /\ UNCHANGED <<preferred, recent>>
    /\ UNCHANGED pending /\ Unlit

Cold(u, m) ==
    /\ ~Heating(u) /\ m.type = "comfort.cold"
    /\ Said
    /\ heat' = [heat EXCEPT ![u] =
                  IF 2 * LastKnown < 2 * preferred[u] - 1
                  THEN [on |-> TRUE, current |-> LastKnown, proposed |-> preferred[u],
                        updated |-> now]
                  ELSE @]
    /\ UNCHANGED <<pending, recent, preferred>> /\ Unlit

-----------------------------------------------------------------------------
(* What a message is taken for: in a lighting session phrases are about its *)
(* lamp, and a pending "which lights?" takes the message for its answer.    *)

IsLights(type) == type \in {"lights.on", "lights.off", "lights.adjust"}
InSession(u, m) ==
    IF ~Lighting(u) THEN m
    ELSE CASE m.says = "turn it off" ->
                  [m EXCEPT !.type = "lights.off", !.group = Or(@, Active(u))]
           [] m.says = "too bright" ->
                  [m EXCEPT !.type = "lights.adjust", !.group = Or(@, Active(u)),
                            !.delta = IF @ = Unsaid /\ m.brightness = Unsaid THEN -Step ELSE @]
           [] OTHER -> m
Answered(u, m) ==
    IF pending[u].type # "lights.on" THEN m
    ELSE LET g == Or(m.group, m.guess)
         IN  [m EXCEPT !.group = g,
                       !.brightness = IF @ = Unsaid THEN pending[u].brightness ELSE @,
                       !.type = IF g # "none" /\ ~IsLights(@) THEN "lights.on" ELSE @]
Meant(u, m) == Answered(u, InSession(u, m))

\* "It is too bright in here" asks back when no lamp is in session; the answer is not
\* waited for: whatever comes next takes the question away.  Talk of the weather does
\* not: it is answered before the question is looked at.
Vague(u, m) == ~Lighting(u) /\ ~IsLights(m.type) /\ m.says \in {"too bright", "sunny"}
Clarify(u, m) ==
    /\ ~Heating(u) /\ m.type # "comfort.cold" /\ Vague(u, m)
    /\ Said
    /\ pending' = IF m.says = "sunny" THEN pending
                  ELSE [pending EXCEPT ![u] = [NoPending EXCEPT !.type = "lights.adjust"]]
    /\ UNCHANGED <<heat, recent, preferred>> /\ Unlit

\* The messages that get as far as the lamps; whatever was pending is over.
ForLights(u, m) ==
    /\ ~Heating(u) /\ m.type # "comfort.cold"
    /\ ~Vague(u, m)
    /\ Said
    /\ UNCHANGED <<heat, preferred>>
Forget(u) == pending' = [pending EXCEPT ![u] = NoPending]

-----------------------------------------------------------------------------
(* Commands (device_control.py, lights_tuya.py): a lamp is switched on, then *)
(* dimmed, by two calls.  The result is not looked at.                       *)

Naming(m, g) == IF m.group = g THEN "group" ELSE IF m.guess = g THEN "text" ELSE "none"
Ordered(u, m, g, ok) ==
    last' = [h \in Lamps |-> IF h = g THEN [user |-> u, ok |-> ok, by |-> Naming(m, g)]
                             ELSE last[h]]
Done(g, level) ==
    lamp' = [lamp EXCEPT ![g] = IF level = 0 THEN [@ EXCEPT !.on = FALSE]
                                ELSE [on |-> TRUE, level |-> level]]
Partly(g, level) ==
    \/ UNCHANGED lamp
    \/ g \in Lamps /\ level > 0 /\ lamp' = [lamp EXCEPT ![g].on = TRUE]
    \/ g \in Lamps /\ Done(g, level)        \* the answer was lost
Command(u, m, g, level) ==
    \/ g \in Lamps /\ Done(g, level) /\ Ordered(u, m, g, TRUE)
    \/ Partly(g, level) /\ Ordered(u, m, g, FALSE)
Raises(u, m, g, level) == g \in Lamps /\ Partly(g, level) /\ Ordered(u, m, g, FALSE)

Started(g, level, delta) ==
    [on |-> TRUE, group |-> g, level |-> level, delta |-> delta, updated |-> now]
Acted(u, g, level) ==
    recent' = [recent EXCEPT ![u] = [type |-> "lighting", group |-> g, level |-> level, at |-> now]]

On(u, m) ==
    LET e == Meant(u, m)
        level == IF e.brightness = Unsaid THEN 600 ELSE Clamp(e.brightness)
    IN  /\ ForLights(u, m) /\ e.type = "lights.on" /\ e.group # "none"
        /\ \/ /\ Command(u, m, e.group, level)
              /\ session' = [session EXCEPT ![u] = Started(e.group, level, 0)]
              /\ Acted(u, e.group, level)
           \/ Raises(u, m, e.group, level) /\ UNCHANGED <<session, recent>>
        /\ Forget(u)
WhichLights(u, m) ==
    LET e == Meant(u, m)
    IN  /\ ForLights(u, m) /\ e.type = "lights.on" /\ e.group = "none"
        /\ pending' = [pending EXCEPT ![u] = [type |-> "lights.on", brightness |-> e.brightness]]
        /\ UNCHANGED recent /\ Unlit

OffKeepingSession(u, m) ==                  \* mutant: the session goes on
    LET g == Or(Meant(u, m).group, Active(u))
    IN  /\ ForLights(u, m) /\ Meant(u, m).type = "lights.off" /\ g # "none"
        /\ Command(u, m, g, 0) /\ Acted(u, g, 0) /\ Forget(u)
        /\ UNCHANGED session
Off(u, m) ==
    LET g == Or(Meant(u, m).group, Active(u))
    IN  /\ ForLights(u, m) /\ Meant(u, m).type = "lights.off" /\ g # "none"
        /\ \/ /\ Command(u, m, g, 0)
              /\ session' = [session EXCEPT ![u] = NoSession]
              /\ Acted(u, g, 0)
           \/ Raises(u, m, g, 0) /\ UNCHANGED <<session, recent>>
        /\ Forget(u)

(***************************************************************************)
(* Adjusting.  "More" and "again" repeat the last change; so does, since   *)
(* the words of a session are looked up only when there was none, "back    *)
(* one".                                                                   *)
(***************************************************************************)
Generic == {"more", "again"}                \* generic_followups
InHand(u, g) == Lighting(u) /\ session[u].group = g
LevelNow(u, g) == IF InHand(u, g) THEN session[u].level ELSE 600
LastDelta(u, g) == IF InHand(u, g) THEN session[u].delta ELSE 0
Delta(u, g, e) ==
    CASE LastDelta(u, g) # 0 /\ (e.delta = Unsaid \/ e.says \in Generic) -> LastDelta(u, g)
      [] e.delta # Unsaid -> e.delta
      [] e.says = "way down" -> -Step
      [] e.says = "way up" -> Step
      [] OTHER -> Unsaid
Scaled(d, times) == times * (IF 0 < d /\ d < Step THEN Step
                             ELSE IF -Step < d /\ d < 0 THEN -Step ELSE d)
Target(u, m) == Or(Meant(u, m).group, Active(u))
ForAdjust(u, m) ==
    ForLights(u, m) /\ Meant(u, m).type = "lights.adjust" /\ Target(u, m) # "none" /\ Forget(u)

Sets(u, m, g, level, delta) ==
    \/ /\ Command(u, m, g, level)
       /\ session' = [session EXCEPT ![u] = Started(g, level, delta)]
       /\ Acted(u, g, level)
    \/ Raises(u, m, g, level) /\ UNCHANGED <<session, recent>>
Adjust(u, m) ==
    LET e == Meant(u, m)
        g == Target(u, m)
        d == Delta(u, g, e)
    IN  /\ ForAdjust(u, m)
        /\ \/ e.brightness # Unsaid /\ Sets(u, m, g, Clamp(e.brightness), 0)
           \/ /\ e.brightness = Unsaid /\ d # Unsaid
              /\ Sets(u, m, g, Clamp(LevelNow(u, g) + Scaled(d, m.times)), Scaled(d, m.times))

\* process_adjust_phrase changes the session before the lamp is told.
Words == {"another", "back one", "lights out"}
Word(u, says) ==
    CASE says = "lights out" -> NoSession
      [] says = "another"    -> [session[u] EXCEPT !.level = Clamp(@ + Step), !.delta = Step,
                                                   !.updated = now]
      [] OTHER               -> [session[u] EXCEPT !.level = Clamp(@ - session[u].delta),
                                                   !.delta = -@, !.updated = now]
Wordless(u, m) ==
    LET e == Meant(u, m)
    IN  ForAdjust(u, m) /\ e.brightness = Unsaid /\ Delta(u, Target(u, m), e) = Unsaid
AdjustByWord(u, m) ==
    LET s == Word(u, m.says)
        g == session[u].group
    IN  /\ Wordless(u, m) /\ Lighting(u) /\ m.says \in Words
        /\ \/ /\ Command(u, m, g, s.level)
              /\ session' = [session EXCEPT ![u] = Started(g, s.level, 0)]
              /\ Acted(u, g, s.level)
           \/ /\ Raises(u, m, g, s.level)
              /\ session' = [session EXCEPT ![u] = s]
              /\ UNCHANGED recent

-----------------------------------------------------------------------------
\* Talk: a language model answers, and no lamp is told anything.  Praise for what was
\* just done is remembered as a liking, which nothing reads.
Chat(u, m) ==
    LET e == Meant(u, m)
    IN  \/ /\ ForLights(u, m) /\ Forget(u)
           /\ \/ ~IsLights(e.type)
              \/ e.type \in {"lights.off", "lights.adjust"} /\ Target(u, m) = "none"
           /\ UNCHANGED recent /\ Unlit
        \/ /\ Wordless(u, m) /\ ~(Lighting(u) /\ m.says \in Words)
           /\ UNCHANGED recent /\ Unlit

Message(u, m) ==
    \/ HeatReply(u, m) \/ Cold(u, m) \/ Clarify(u, m)
    \/ On(u, m) \/ WhichLights(u, m) \/ Off(u, m)
    \/ Adjust(u, m) \/ AdjustByWord(u, m) \/ Chat(u, m)

Silence ==
    /\ sent < MaxMessages
    /\ \E d \in Pauses : now + d <= MaxTime /\ now' = now + d
    /\ UNCHANGED <<sent, session, pending, heat, recent, preferred, lamp, last>>

\* The bot is started again: only what is in memory/users/ is left.
HouseRestart ==
    /\ sent < MaxMessages /\ sent' = sent + 1
    /\ session' = [u \in Residents |-> NoSession]
    /\ pending' = [u \in Residents |-> NoPending]
    /\ heat' = [u \in Residents |-> NoHeat]
    /\ recent' = [u \in Residents |-> NoAction]
    /\ UNCHANGED <<now, preferred, lamp, last>>

AshNext == (\E u \in Residents, m \in Messages : Message(u, m)) \/ Silence \/ HouseRestart
AshSpec == AshInit /\ [][AshNext]_ashVars

-----------------------------------------------------------------------------
AshTypeOK ==
    /\ \A g \in Lamps : lamp[g].on \in BOOLEAN /\ lamp[g].level \in 0..1000
    /\ \A u \in Residents : session[u].on \in BOOLEAN /\ session[u].level \in 0..1000
    /\ \A u \in Residents : pending[u].type \in {"none", "lights.on", "lights.adjust"}

\* What Ash believes of a lamp in session is so, and is what it last said it did, as long
\* as its last command came from that user and went through: with changes by words, by
\* steps and to limits, exceptions between session and lamp, and another user beside
\* (capabilities/lights/handler.py, brain/sessions/lighting.py).
Shines(g) == IF lamp[g].on THEN lamp[g].level ELSE 0
BeliefsExplained ==
    \A u \in Residents :
        LET s == session[u] IN
        s.on /\ s.group \in Lamps /\ last[s.group].user = u /\ last[s.group].ok =>
            /\ Shines(s.group) = s.level
            /\ recent[u].type = "lighting" =>
                  recent[u].group = s.group /\ recent[u].level = s.level

\* No lamp is touched but the one a message names, the one its user is in session with,
\* for half a minute, or the one that answers "which lights?"; and none while its user
\* talks of the heat.  What a user likes is learned in those ten seconds only.
CommandsMeant ==
    [][/\ \A g \in Lamps : lamp'[g] # lamp[g] =>
             LET u == last'[g].user IN
             /\ ~Live(heat[u], HeatTimeout)
             /\ \/ last'[g].by = "group"
                \/ Live(session[u], SessionTimeout) /\ session[u].group = g
                \/ pending[u].type = "lights.on" /\ last'[g].by = "text"
       /\ \A u \in Residents : preferred'[u] # preferred[u] => Live(heat[u], HeatTimeout)
      ]_ashVars
=============================================================================
