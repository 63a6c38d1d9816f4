------------------------------ MODULE StuartDoor ------------------------------
(***************************************************************************)
(* The Telegram door of Stuart: a file sent to a chat starts a flow, two   *)
(* buttons choose how it is run, a third runs it.  Messages and buttons    *)
(* are handled one after the other (a run blocks the bot), but the buttons *)
(* of every prompt stay on the screen, for whoever is in the chat, and act *)
(* on the flow of the one who presses.  The handlers never read the stage. *)
(***************************************************************************)
EXTENDS Naturals, Sequences, FiniteSets

CONSTANTS
    Users,
    Chats,
    Names,          \* file names; one without a name is called upload.bin
    Modes,          \* "meeting" and "journal"
    Counts,         \* "auto", "1", "2", "3+"
    MaxUploads,     \* bound
    MaxPresses      \* bound

VARIABLES
    flow,           \* user_data["stuart_door_state"] of each user
    inbox,          \* inbox/telegram/<chat>/<name>: which upload is there
    onscreen,       \* the kinds of prompts that were ever shown
    contributions,  \* what was uploaded to Stuart, one session each
    runs,
    uploads, presses,
    shown           \* observer: the newest prompt of each user, and if a later one was lost

doorVars == <<flow, inbox, onscreen, contributions, runs, uploads, presses, shown>>

None == "none"

DoorAssumption ==
    /\ MaxUploads \in Nat /\ MaxPresses \in Nat
    /\ "meeting" \in Modes /\ None \notin Modes \cup Counts

NoFlow == [up |-> 0, chat |-> None, name |-> None, mode |-> None, speakers |-> None]
NoPrompt == [kind |-> None, up |-> 0, mode |-> None, speakers |-> None, lost |-> FALSE]
Empty == 0

DoorInit ==
    /\ flow = [u \in Users |-> NoFlow]
    /\ inbox = [at \in Chats \X Names |-> Empty]
    /\ onscreen = {} /\ contributions = <<>> /\ runs = <<>>
    /\ uploads = 0 /\ presses = 0
    /\ shown = [u \in Users |-> NoPrompt]

DoorState(f) == f.up # 0
OrMeeting(mode) == IF mode = None THEN "meeting" ELSE mode

\* A handler stores the flow and then replies; the reply may be lost on its way.
Prompted(u, f, kind) ==
    \/ /\ onscreen' = onscreen \cup {kind}
       /\ shown' = [shown EXCEPT ![u] =
                      [kind |-> kind, up |-> f.up, mode |-> OrMeeting(f.mode),
                       speakers |-> f.speakers, lost |-> FALSE]]
    \/ UNCHANGED onscreen /\ shown' = [shown EXCEPT ![u].lost = TRUE]

\* A file of the same name in the same chat is replaced, whoever's flow it is of.
handle_media(u, chat, name) ==
    /\ uploads < MaxUploads
    /\ uploads' = uploads + 1
    /\ inbox' = [inbox EXCEPT ![<<chat, name>>] = uploads']
    /\ flow' = [flow EXCEPT ![u] = [NoFlow EXCEPT !.up = uploads', !.chat = chat, !.name = name]]
    /\ Prompted(u, flow'[u], "mode")
    /\ UNCHANGED <<contributions, runs, presses>>

Pressed(u, kind) ==
    /\ presses < MaxPresses /\ kind \in onscreen
    /\ presses' = presses + 1
    /\ UNCHANGED <<inbox, uploads>>
Fixed == UNCHANGED <<contributions, runs>>

ModeButton(u, mode) ==
    /\ Pressed(u, "mode") /\ DoorState(flow[u])
    /\ flow' = [flow EXCEPT ![u].mode = mode]
    /\ Prompted(u, flow'[u], "spk")
    /\ Fixed
SpeakersButtonUnsaved(u, count) ==          \* mutant: the choice is shown but not kept
    /\ Pressed(u, "spk") /\ DoorState(flow[u])
    /\ Prompted(u, [flow[u] EXCEPT !.speakers = count], "go")
    /\ UNCHANGED flow
    /\ Fixed
SpeakersButton(u, count) ==
    /\ Pressed(u, "spk") /\ DoorState(flow[u])
    /\ flow' = [flow EXCEPT ![u].speakers = count]
    /\ Prompted(u, flow'[u], "go")
    /\ Fixed
CancelButton(u) ==
    /\ Pressed(u, "go") /\ DoorState(flow[u])
    /\ flow' = [flow EXCEPT ![u] = NoFlow]
    /\ UNCHANGED <<onscreen, shown>> /\ Fixed
NoActiveFlow(u, kind) ==
    /\ Pressed(u, kind) /\ ~DoorState(flow[u])
    /\ UNCHANGED <<flow, onscreen, shown>> /\ Fixed

(***************************************************************************)
(* run_default_pipeline: the file is uploaded to a session of its own, a   *)
(* run is created, the run is executed; each step may fail.  Whatever      *)
(* comes of it, the flow is over.                                          *)
(***************************************************************************)
Contribution(f) == [up |-> inbox[<<f.chat, f.name>>], mode |-> OrMeeting(f.mode)]
RunOf(u, f) ==
    [user |-> u, flow |-> f.up, cid |-> Len(contributions) + 1, mode |-> OrMeeting(f.mode),
     speakers |-> f.speakers, shown |-> shown[u]]
run_default_pipeline(u) ==
    \/ Fixed
    \/ contributions' = Append(contributions, Contribution(flow[u])) /\ UNCHANGED runs
    \/ /\ contributions' = Append(contributions, Contribution(flow[u]))
       /\ runs' = Append(runs, RunOf(u, flow[u]))
RunButton(u) ==
    /\ Pressed(u, "go") /\ DoorState(flow[u])
    /\ run_default_pipeline(u)
    /\ flow' = [flow EXCEPT ![u] = NoFlow]
    /\ UNCHANGED <<onscreen, shown>>

\* The bot is started again: flows are in memory only, the prompts stay where they are.
Restart ==
    /\ \E u \in Users : DoorState(flow[u])
    /\ flow' = [u \in Users |-> NoFlow]
    /\ UNCHANGED <<inbox, onscreen, contributions, runs, uploads, presses, shown>>

DoorNext ==
    \/ \E u \in Users :
          \/ \E chat \in Chats, name \in Names : handle_media(u, chat, name)
          \/ \E mode \in Modes : ModeButton(u, mode)
          \/ \E count \in Counts : SpeakersButton(u, count)
          \/ CancelButton(u) \/ RunButton(u)
          \/ \E kind \in {"mode", "spk", "go"} : NoActiveFlow(u, kind)
    \/ Restart

DoorSpec == DoorInit /\ [][DoorNext]_doorVars

-----------------------------------------------------------------------------
Flow == [up : 0..MaxUploads, chat : Chats \cup {None}, name : Names \cup {None},
         mode : Modes \cup {None}, speakers : Counts \cup {None}]
DoorTypeOK ==
    /\ flow \in [Users -> Flow]
    /\ inbox \in [Chats \X Names -> 0..MaxUploads]
    /\ onscreen \subseteq {"mode", "spk", "go"}
    /\ uploads \in 0..MaxUploads /\ presses \in 0..MaxPresses
    /\ Len(runs) <= Len(contributions) /\ Len(contributions) <= presses

\* A file that was sent is run once at the most, whatever is pressed again and in whichever
\* order; when the newest prompt before its sender asks to confirm that very file and no later
\* reply was lost, the run is what the prompt says.  The file itself is the one sent, or one
\* sent later by that name to that chat (handle_callback, run_default_pipeline).
RunsAsConfirmed ==
    /\ \A i, j \in 1..Len(runs) : runs[i].flow = runs[j].flow => i = j
    /\ \A i \in 1..Len(runs) :
          LET r == runs[i]
              c == contributions[r.cid] IN
          /\ c.mode = r.mode
          /\ c.up >= r.flow
          /\ (r.shown.kind = "go" /\ r.shown.up = r.flow /\ ~r.shown.lost) =>
                r.mode = r.shown.mode /\ r.speakers = r.shown.speakers
=============================================================================
