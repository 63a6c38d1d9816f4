---------------------------- MODULE TemplateStore ----------------------------
(***************************************************************************)
(* User templates (templates/store.py) as the registry finds them          *)
(* (template_registry.py), for one mode.  A version is a directory that a  *)
(* handler fills file by file, and a deletion empties file by file, while  *)
(* the threads of runs look at every template of the mode, at the latest   *)
(* versions, and at the one they are to use.                               *)
(***************************************************************************)
EXTENDS Integers, FiniteSets, Sequences

CONSTANTS
    Titles,         \* the titles templates are created under
    IdsFor,         \* the ids each is tried under: its slug, then slug_2, ...
    System,         \* the id of the template that ships with the program
    Formalizers, Wants, \* the runs, and the template ids they may be created with
    MaxBorn,        \* bound: versions ever begun
    MaxEnds         \* bound: ends of the process

TitlesAssumption == \A t \in Titles : IdsFor[t] \in Seq(STRING) /\ IdsFor[t] # <<>>
TemplateBoundsAssumption == MaxBorn \in Nat /\ MaxEnds \in Nat

Texts == {"good", "flat"}       \* with headings, or without one
Stages == {"dir", "empty", "whole"}     \* no template.md, an empty one, all of it

VARIABLES
    dirs,       \* the ids that have a directory
    tree,       \* the version directories: what each holds, and which it is
    writer,     \* the request the event loop is handling
    thread,     \* each run's thread
    born, ends,
    disturbed,  \* observer: runs whose thread overlapped a write or a deletion
    torn,       \* observer: a process ended in the middle of one
    removed     \* observer: ids whose deletion has begun

templateVars == <<dirs, tree, writer, thread, born, ends, disturbed, torn, removed>>

MaxOf(ns) == CHOOSE n \in ns : \A m \in ns : m <= n
Vs(id) == {x.v : x \in {y \in tree : y.id = id}}
VersionAt(id, v) == CHOOSE x \in tree : x.id = id /\ x.v = v
Newest(id) == VersionAt(id, MaxOf(Vs(id)))
Known == {id \in dirs : Vs(id) # {}}        \* an empty directory is passed over

NoWrite == [kind |-> "none", id |-> System, v |-> 0, text |-> "good"]
NoThread == [pc |-> "absent", want |-> System, phase |-> "resolve", seen |-> 0, found |-> {},
             pick |-> 0, v |-> 0, resolved |-> 0, used |-> 0]

TemplateInit ==
    /\ dirs = {} /\ tree = {} /\ writer = NoWrite
    /\ thread = [r \in Formalizers |-> NoThread]
    /\ born = 0 /\ ends = 0
    /\ disturbed = {} /\ torn = FALSE /\ removed = {}

Working == {r \in Formalizers : thread[r].pc \notin {"absent", "done", "failed"}}
web == <<dirs, tree, writer, born>>
watch == <<disturbed, torn, removed>>

\* Discovery: the latest version of every user template is loaded, and what cannot be
\* loaded is an error for the whole mode.  Of a template that can be read the text may
\* still be unusable.
Discoverable == \A id \in Known : Newest(id).stage # "dir"
Usable(x) == x.stage = "whole" /\ x.text = "good"

\* A user template does not replace the system's one of the same id.
FromUser(id) == id # System

Failed(j) == [j EXCEPT !.pc = "failed", !.found = {}, !.pick = 0]
To(r, l) == thread' = [thread EXCEPT ![r].pc = l]

-----------------------------------------------------------------------------
(* The web process.                                                        *)

\* create_template and create_new_version choose the id and the version, and make the
\* version's directory.
FreeId(t) ==
    LET free == {i \in DOMAIN IdsFor[t] : IdsFor[t][i] \notin dirs}
    IN  IdsFor[t][CHOOSE i \in free : \A j \in free : i <= j]
HasFreeId(t) == \E i \in DOMAIN IdsFor[t] : IdsFor[t][i] \notin dirs

Started(id, v, text) ==
    /\ writer = NoWrite /\ born < MaxBorn
    /\ dirs' = dirs \cup {id}
    /\ tree' = tree \cup {[id |-> id, v |-> v, stage |-> "dir", text |-> text,
                           born |-> born + 1]}
    /\ born' = born + 1
    /\ writer' = [kind |-> "write", id |-> id, v |-> v, text |-> text]
    /\ disturbed' = disturbed \cup Working
    /\ UNCHANGED <<thread, ends, torn, removed>>
Create(t, text) == HasFreeId(t) /\ Started(FreeId(t), 1, text)

NextVersion(id) == MaxOf(Vs(id)) + 1
NewVersion(id, text) ==
    /\ id \in Known /\ Newest(id).stage # "dir"
    /\ Started(id, NextVersion(id), text)

\* metadata.json and an empty template.md, then its text.
FillMetadata ==                             \* mutant: template.md is never written
    /\ writer.kind = "write" /\ writer' = NoWrite
    /\ UNCHANGED <<dirs, tree, thread, born, ends>> /\ UNCHANGED watch
Fill ==
    /\ writer.kind = "write"
    /\ LET x == VersionAt(writer.id, writer.v)
           y == [x EXCEPT !.stage = IF @ = "dir" THEN "empty" ELSE "whole"]
       IN  /\ tree' = (tree \ {x}) \cup {y}
           /\ writer' = IF y.stage = "whole" THEN NoWrite ELSE writer
    /\ UNCHANGED <<dirs, thread, born, ends>> /\ UNCHANGED watch

\* rmtree: files and directories in any order, the template's own directory last.
AskDelete(id) ==
    /\ writer = NoWrite /\ id \in dirs
    /\ writer' = [NoWrite EXCEPT !.kind = "delete", !.id = id]
    /\ removed' = removed \cup {id} /\ disturbed' = disturbed \cup Working
    /\ UNCHANGED <<dirs, tree, thread, born, ends, torn>>
Remove(x) ==
    /\ writer.kind = "delete" /\ x \in tree /\ x.id = writer.id
    /\ tree' = IF x.stage = "dir" THEN tree \ {x}
               ELSE (tree \ {x}) \cup {[x EXCEPT !.stage = "dir"]}
    /\ UNCHANGED <<dirs, writer, thread, born, ends>> /\ UNCHANGED watch
EndDelete ==
    /\ writer.kind = "delete" /\ Vs(writer.id) = {}
    /\ dirs' = dirs \ {writer.id} /\ writer' = NoWrite
    /\ UNCHANGED <<tree, thread, born, ends>> /\ UNCHANGED watch

\* create_run validates the template, and a thread is started.
CreateRun(r, id) ==
    LET user == FromUser(id) /\ id \in Known IN
    /\ writer = NoWrite /\ thread[r].pc = "absent" /\ Discoverable
    /\ user \/ id = System
    /\ user => Usable(Newest(id))
    /\ thread' = [thread EXCEPT ![r].pc = "scan", ![r].want = id,
                    ![r].seen = IF user THEN Newest(id).born ELSE 0]
    /\ UNCHANGED <<web, ends>> /\ UNCHANGED watch

-----------------------------------------------------------------------------
(* A run's thread loads the template three times: the latest version, which*)
(* it records; the latest again, to validate; and the one it recorded.     *)

ThreadOnly == UNCHANGED <<web, ends>> /\ UNCHANGED watch

\* Each time all templates are listed with their latest versions, and loaded.
Scan(r) ==
    /\ thread[r].pc = "scan"
    /\ thread' = [thread EXCEPT ![r].pc = "loadall",
                    ![r].found = {<<id, MaxOf(Vs(id))>> : id \in Known}]
    /\ ThreadOnly
LoadAll(r) ==
    /\ thread[r].pc = "loadall"
    /\ IF \A p \in thread[r].found : \E x \in tree :
             x.id = p[1] /\ x.v = p[2] /\ x.stage # "dir"
       THEN To(r, "pick") ELSE thread' = [thread EXCEPT ![r] = Failed(@)]
    /\ ThreadOnly

\* The version: the one recorded, or the latest there is by now.
ChoiceLatest(j, id) == MaxOf(Vs(id))        \* mutant: always the latest
Choice(j, id) == IF j.phase = "formalize" THEN j.v ELSE MaxOf(Vs(id))

NextPhase == [resolve |-> "validate", validate |-> "formalize", formalize |-> "formalize"]
Loaded(j, b) ==
    [j EXCEPT !.phase = NextPhase[@],
              !.pc = IF j.phase = "formalize" THEN "done" ELSE "scan",
              !.found = {}, !.pick = 0,
              !.v = IF j.phase = "resolve" THEN j.pick ELSE @,
              !.resolved = IF j.phase = "resolve" THEN b ELSE @,
              !.used = IF j.phase = "formalize" THEN b ELSE @]

Pick(r) ==
    LET j == thread[r]
        id == j.want
        user == FromUser(id) /\ \E p \in j.found : p[1] = id IN
    /\ j.pc = "pick"
    /\ thread' = [thread EXCEPT ![r] =
         IF ~user /\ id = System THEN Loaded(@, 0)
         ELSE IF user /\ Vs(id) # {} /\ Choice(j, id) \in Vs(id)
         THEN [@ EXCEPT !.pc = "read", !.pick = Choice(j, id)]
         ELSE Failed(@)]
    /\ ThreadOnly

\* Its files are read and its headings found; what is read to validate is thrown away.
Read(r) ==
    LET j == thread[r]
        text == {x \in tree : x.id = j.want /\ x.v = j.pick /\ Usable(x)} IN
    /\ j.pc = "read"
    /\ thread' = [thread EXCEPT ![r] =
         IF text = {} THEN Failed(@)
         ELSE LET x == CHOOSE y \in text : TRUE
              IN  Loaded(@, x.born)]
    /\ ThreadOnly

\* The process ends: a half-written or half-deleted version stays.
TemplateCrash ==
    /\ ends < MaxEnds /\ ends' = ends + 1
    /\ torn' = (torn \/ writer # NoWrite)
    /\ writer' = NoWrite
    /\ thread' = [r \in Formalizers |-> IF r \in Working THEN NoThread ELSE thread[r]]
    /\ disturbed' = disturbed \ Working
    /\ UNCHANGED <<dirs, tree, born, removed>>

Ids == UNION {{IdsFor[t][i] : i \in DOMAIN IdsFor[t]} : t \in Titles}
TemplateNext == \/ \E t \in Titles, x \in Texts : Create(t, x)
                \/ \E id \in Ids : (\E x \in Texts : NewVersion(id, x)) \/ AskDelete(id)
                \/ \E x \in tree : Remove(x)
                \/ Fill \/ EndDelete \/ TemplateCrash
                \/ \E r \in Formalizers : \/ \E id \in Wants : CreateRun(r, id)
                                          \/ Scan(r) \/ LoadAll(r) \/ Pick(r) \/ Read(r)
TemplateSpec == TemplateInit /\ [][TemplateNext]_templateVars

-----------------------------------------------------------------------------
TemplateTypeOK ==
    /\ dirs \subseteq Ids
    /\ \A x \in tree : x.id \in dirs /\ x.v \in Nat \ {0} /\ x.stage \in Stages
                       /\ x.text \in Texts /\ x.born \in 1..born
    /\ writer.kind \in {"none", "write", "delete"}
    /\ \A r \in Formalizers :
          /\ thread[r].phase \in DOMAIN NextPhase
          /\ {thread[r].seen, thread[r].resolved, thread[r].used} \subseteq 0..born
    /\ born \in 0..MaxBorn /\ ends \in 0..MaxEnds

\* The templates of a mode can be listed, unless one is being written or deleted, or
\* the process ended in the middle of that.
DiscoveryFailsOnlyTorn == ~Discoverable => writer # NoWrite \/ torn

\* A run whose template was valid when it was created fails on it only if some template
\* of the mode, not necessarily its own, was written or deleted meanwhile.
TemplateFailuresExplained ==
    \A r \in Formalizers : thread[r].pc = "failed" => r \in disturbed

\* A run is formalized by the very text whose version it recorded, unless its template
\* was deleted, and perhaps created again under the id, with the same number.
LineageKept ==
    \A r \in Formalizers : thread[r].pc = "done" =>
        thread[r].used = thread[r].resolved \/ thread[r].want \in removed

\* Nor by a text older than the one it was created with, unless newer versions went
\* first in a deletion.
NeverOlder ==
    \A r \in Formalizers : thread[r].pc = "done" =>
        thread[r].used >= thread[r].seen \/ thread[r].want \in removed

\* What a run is formalized by follows from what it was created with.
TextsKept == LineageKept /\ NeverOlder

\* A mode whose templates cannot be listed, and a run that fails on its template, are
\* only what a write or a deletion of a template left or was doing.
FailuresExplained == DiscoveryFailsOnlyTorn /\ TemplateFailuresExplained
=============================================================================
