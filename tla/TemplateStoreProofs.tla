------------------------ MODULE TemplateStoreProofs ------------------------
(***************************************************************************)
(* Proofs about the template store, for any titles, runs and bounds.  The  *)
(* invariant has five parts: types; what the version directories of a      *)
(* template have to do with each other; who is to blame for one that is    *)
(* not whole; what a thread that nothing has overlapped knows of the store;*)
(* and how the text a run uses goes back to the one it was created with.   *)
(***************************************************************************)
EXTENDS TemplateStore, WellFoundedInduction, TLAPS

Places == {"absent", "scan", "loadall", "pick", "read", "done", "failed"}
Version == [id : Ids, v : Nat, stage : Stages, text : Texts, born : Nat]
Job == [pc : Places, want : Wants \cup {System}, phase : DOMAIN NextPhase, seen : Nat,
        found : SUBSET (Ids \X Nat), pick : Nat, v : Nat, resolved : Nat, used : Nat]

Typed ==
    /\ dirs \subseteq Ids /\ tree \subseteq Version
    /\ writer \in [kind : {"none", "write", "delete"}, id : Ids \cup {System}, v : Nat,
                   text : Texts]
    /\ thread \in [Formalizers -> Job]
    /\ born \in 0..MaxBorn /\ ends \in 0..MaxEnds
    /\ \A r \in Formalizers : {thread[r].seen, thread[r].resolved, thread[r].used} \subseteq 0..born

\* A number belongs to one version, and later versions have higher ones.
TreeInv ==
    /\ \A x \in tree : x.id \in dirs /\ x.v \in 1..x.born /\ x.born <= born
    /\ \A x, y \in tree : x.id = y.id => /\ x.v = y.v => x = y
                                         /\ x.v < y.v => x.born < y.born

\* What is not whole is being written or deleted, or a process ended in the middle.
WriterInv ==
    /\ writer.kind = "none" => writer = NoWrite
    /\ writer.kind = "write" => \E x \in tree : x.id = writer.id /\ x.v = writer.v
    /\ writer.kind = "delete" => writer.id \in removed
    /\ ~torn => \A x \in tree : x.stage # "whole" =>
                    /\ writer.kind # "none" /\ x.id = writer.id
                    /\ writer.kind = "write" => x.v = writer.v

\* A thread that no write and no deletion has overlapped sees the templates as its run was
\* created: they can be listed, and its own is usable, of the version it has recorded.
Calm(j) ==
    /\ writer = NoWrite /\ Discoverable
    /\ j.want # System => j.want \in Known /\ Usable(Newest(j.want))
    /\ j.want # System /\ j.phase # "resolve" => j.v = MaxOf(Vs(j.want))
    /\ j.pc \in {"loadall", "pick"} => j.found = {<<id, MaxOf(Vs(id))>> : id \in Known}
    /\ j.pc = "read" => j.want # System /\ j.pick = MaxOf(Vs(j.want))
CalmInv == \A r \in Working \ disturbed : Calm(thread[r])

\* A thread that has not been started has not got anywhere.
Fresh == \A r \in Formalizers : thread[r].pc = "absent" => thread[r] = NoThread

\* The text a run was created with, the one it recorded and the one it is to use, as long
\* as its template has not been deleted.
Has(id, v, b) == \E x \in tree : x.id = id /\ x.v = v /\ x.born = b
Line(j) ==
    IF j.want = System THEN j.seen = 0 /\ j.resolved = 0 /\ j.used = 0 /\ j.pc # "read"
    ELSE /\ \E x \in tree : x.id = j.want /\ x.born = j.seen
         /\ j.phase # "resolve" => Has(j.want, j.v, j.resolved) /\ j.resolved >= j.seen
         /\ j.pc = "read" => IF j.phase = "formalize" THEN j.pick = j.v
                             ELSE \E b \in Nat : Has(j.want, j.pick, b) /\ b >= j.seen
         /\ j.pc = "done" => j.phase = "formalize" /\ j.used = j.resolved
LineInv ==
    \A r \in Formalizers : thread[r].pc \notin {"absent", "failed"} /\ thread[r].want \notin removed
                              => Line(thread[r])

IInv == /\ Typed /\ TreeInv /\ WriterInv /\ Fresh /\ CalmInv /\ LineInv
        /\ TemplateFailuresExplained

-----------------------------------------------------------------------------
\* A set of numbers has a least one.
LEMMA Least ==
    ASSUME NEW S \in SUBSET Nat, S # {}
    PROVE  \E m \in S : \A n \in S : m <= n
<1>1. PICK m \in S : \A n \in S : <<n, m>> \notin OpToRel(<, Nat)
  BY NatLessThanWellFounded, WFMin
<1>2. ASSUME NEW n \in S, n < m PROVE FALSE
  <2>1. <<n, m>> \in Nat \X Nat /\ <<n, m>>[1] < <<n, m>>[2]
    BY <1>2
  <2>2. <<n, m>> \in OpToRel(<, Nat)
    BY <2>1, Zenon DEF OpToRel
  <2> QED BY <1>1, <2>2
<1>3. \A n \in S : ~(n < m)
  BY <1>2
<1> QED BY <1>3

\* If it is bounded it has a greatest one.
LEMMA Greatest ==
    ASSUME NEW top \in Nat, NEW S \in SUBSET (0..top), S # {}
    PROVE  /\ MaxOf(S) \in S
           /\ \A n \in S : n <= MaxOf(S)
<1> DEFINE D == {top - n : n \in S}
<1>0. D \in SUBSET Nat /\ D # {}
  <2>1. \A n \in S : top - n \in Nat
    OBVIOUS
  <2>2. PICK n \in S : TRUE
    OBVIOUS
  <2>3. top - n \in D
    BY <2>2
  <2> QED BY <2>1, <2>3
<1>1. PICK d \in D : \A e \in D : d <= e
  <2> HIDE DEF D
  <2> QED BY <1>0, Least
<1>2. top - d \in S /\ \A n \in S : n <= top - d
  BY <1>1
<1> QED BY <1>2, Zenon DEF MaxOf

\* An id that is found free is one of the title's, and no template has it.
LEMMA FreeIdIsFree ==
    ASSUME TitlesAssumption, NEW t \in Titles, HasFreeId(t)
    PROVE  FreeId(t) \in Ids /\ FreeId(t) \notin dirs
<1> DEFINE free == {i \in DOMAIN IdsFor[t] : IdsFor[t][i] \notin dirs}
           least == CHOOSE i \in free : \A j \in free : i <= j
<1>1. free \in SUBSET Nat /\ free # {}
  <2>1. DOMAIN IdsFor[t] \subseteq Nat
    <3>1. IdsFor[t] \in Seq(STRING)
      BY DEF TitlesAssumption
    <3>2. DOMAIN IdsFor[t] = 1..Len(IdsFor[t]) /\ Len(IdsFor[t]) \in Nat
      BY <3>1
    <3> QED BY <3>2
  <2> QED BY <2>1 DEF HasFreeId
<1>2. least \in free
  <2>1. \E i \in free : \A j \in free : i <= j
    <3> HIDE DEF free
    <3> QED BY <1>1, Least
  <2> QED BY <2>1, Zenon
<1>3. FreeId(t) = IdsFor[t][least]
  BY Zenon DEF FreeId
<1>4. \A i \in DOMAIN IdsFor[t] : IdsFor[t][i] \in Ids
  BY DEF Ids
<1> HIDE DEF least
<1> QED BY <1>2, <1>3, <1>4

\* The latest version of a template is one of its versions, with the highest number and
\* the last begun.
LEMMA LatestIsLast ==
    ASSUME Typed, TreeInv, NEW id, Vs(id) # {}
    PROVE  /\ MaxOf(Vs(id)) \in Vs(id) /\ MaxOf(Vs(id)) \in 1..born
           /\ Newest(id) \in tree /\ Newest(id).id = id /\ Newest(id).v = MaxOf(Vs(id))
           /\ \A x \in tree : x.id = id => x.v <= MaxOf(Vs(id)) /\ x.born <= Newest(id).born
<1>1. born \in Nat /\ Vs(id) \in SUBSET (0..born)
  BY DEF Typed, TreeInv, Vs, Version
<1>2. MaxOf(Vs(id)) \in Vs(id) /\ \A n \in Vs(id) : n <= MaxOf(Vs(id))
  BY <1>1, Greatest
<1>3. \E x \in tree : x.id = id /\ x.v = MaxOf(Vs(id))
  BY <1>2 DEF Vs
<1>4. Newest(id) \in tree /\ Newest(id).id = id /\ Newest(id).v = MaxOf(Vs(id))
  BY <1>3, Zenon DEF Newest, VersionAt
<1>5. ASSUME NEW x \in tree, x.id = id
      PROVE  x.v <= MaxOf(Vs(id)) /\ x.born <= Newest(id).born
  <2>1. x.v \in Vs(id)
    BY <1>5 DEF Vs
  <2>2. x.v <= MaxOf(Vs(id))
    BY <1>2, <2>1
  <2>3. x \in Version /\ Newest(id) \in Version
    BY <1>4 DEF Typed
  <2>4. x.v \in Nat /\ x.born \in Nat /\ Newest(id).v \in Nat /\ Newest(id).born \in Nat
    BY <2>3 DEF Version
  <2>5. CASE x.v = Newest(id).v
    BY <1>4, <1>5, <2>2, <2>4, <2>5 DEF TreeInv
  <2>6. CASE x.v < Newest(id).v
    BY <1>4, <1>5, <2>2, <2>4, <2>6 DEF TreeInv
  <2> QED BY <1>4, <2>2, <2>4, <2>5, <2>6
<1>6. MaxOf(Vs(id)) \in 1..born
  BY <1>1, <1>4 DEF TreeInv, Typed, Version
<1> QED BY <1>2, <1>4, <1>5, <1>6

\* A version directory is found by its template's id and its number.
LEMMA AtFinds ==
    ASSUME TreeInv, NEW id, NEW v, \E x \in tree : x.id = id /\ x.v = v
    PROVE  VersionAt(id, v) \in tree /\ VersionAt(id, v).id = id /\ VersionAt(id, v).v = v
BY Zenon DEF VersionAt

-----------------------------------------------------------------------------
\* A version that is begun has the next number of its template.
Begin == \E id \in Ids, v \in Nat, text \in Texts :
    /\ v >= 1 /\ v <= born + 1
    /\ \A x \in tree : x.id = id => x.v < v
    /\ Started(id, v, text)
Threads == \E r \in Formalizers :
    (\E id \in Wants : CreateRun(r, id)) \/ Scan(r) \/ LoadAll(r) \/ Pick(r) \/ Read(r)

\* Every step is one of a handler, of a run's thread, or the end of the process.
LEMMA StepCases ==
    ASSUME TitlesAssumption, Typed, TreeInv, TemplateNext
    PROVE  \/ Begin \/ Fill \/ EndDelete \/ TemplateCrash \/ Threads
           \/ \E id \in Ids : AskDelete(id)
           \/ \E x \in tree : Remove(x)
<1>1. ASSUME NEW t \in Titles, NEW text \in Texts, Create(t, text)
      PROVE  Begin
  <2>1. FreeId(t) \in Ids /\ FreeId(t) \notin dirs
    BY <1>1, FreeIdIsFree DEF Create
  <2>2. \A x \in tree : x.id # FreeId(t)
    BY <2>1 DEF TreeInv
  <2>3. 1 \in Nat /\ 1 >= 1 /\ 1 <= born + 1
    BY DEF Typed
  <2> QED BY <1>1, <2>1, <2>2, <2>3 DEF Begin, Create
<1>2. ASSUME NEW id \in Ids, NEW text \in Texts, NewVersion(id, text)
      PROVE  Begin
  <2>1. Vs(id) # {}
    BY <1>2 DEF NewVersion, Known
  <2>2. MaxOf(Vs(id)) \in 1..born /\ \A x \in tree : x.id = id => x.v <= MaxOf(Vs(id))
    BY <2>1, LatestIsLast
  <2>3. born \in Nat /\ \A x \in tree : x.v \in Nat
    BY DEF Typed, Version
  <2>4. /\ NextVersion(id) \in Nat /\ NextVersion(id) >= 1 /\ NextVersion(id) <= born + 1
        /\ \A x \in tree : x.id = id => x.v < NextVersion(id)
    BY <2>2, <2>3 DEF NextVersion
  <2> QED BY <1>2, <2>4 DEF Begin, NewVersion
<1> QED BY <1>1, <1>2, Zenon DEF TemplateNext, Threads

\* Everything has its type.
LEMMA TypedStep ==
    ASSUME TitlesAssumption, TemplateBoundsAssumption, Typed, TreeInv, WriterInv, TemplateNext
    PROVE  Typed'
<1>1. CASE Begin
  <2>1. PICK id \in Ids, v \in Nat, text \in Texts : Started(id, v, text)
    BY <1>1 DEF Begin
  <2>2. born' \in 0..MaxBorn /\ born <= born' /\ born' \in Nat
    BY <2>1 DEF Started, Typed, TemplateBoundsAssumption
  <2>3. [id |-> id, v |-> v, stage |-> "dir", text |-> text, born |-> born + 1] \in Version
    BY <2>1 DEF Version, Stages, Typed
  <2>4. \A r \in Formalizers : {thread[r].seen, thread[r].resolved, thread[r].used} \subseteq 0..born'
    BY <2>2 DEF Typed
  <2> QED BY <2>1, <2>2, <2>3, <2>4 DEF Started, Typed
<1>2. CASE Fill
  <2> DEFINE x == VersionAt(writer.id, writer.v)
             y == [x EXCEPT !.stage = IF @ = "dir" THEN "empty" ELSE "whole"]
  <2>1. x \in tree
    BY <1>2, AtFinds DEF Fill, WriterInv
  <2>2. y \in Version
    BY <2>1 DEF Typed, Version, Stages
  <2>3. NoWrite \in [kind : {"none", "write", "delete"}, id : Ids \cup {System}, v : Nat,
                     text : Texts]
    BY DEF NoWrite, Texts
  <2>4. tree' \subseteq Version
    <3>1. tree' = (tree \ {x}) \cup {y}
      BY <1>2 DEF Fill
    <3> HIDE DEF x, y
    <3> QED BY <2>2, <3>1 DEF Typed
  <2>5. writer' = NoWrite \/ writer' = writer
    BY <1>2 DEF Fill
  <2> QED BY <1>2, <2>3, <2>4, <2>5 DEF Fill, Typed
<1>3. CASE EndDelete
  <2>1. NoWrite \in [kind : {"none", "write", "delete"}, id : Ids \cup {System}, v : Nat,
                     text : Texts]
    BY DEF NoWrite, Texts
  <2> QED BY <1>3, <2>1 DEF EndDelete, Typed
<1>4. CASE \E id \in Ids : AskDelete(id)
  <2>1. PICK id \in Ids : AskDelete(id)
    BY <1>4
  <2>2. [NoWrite EXCEPT !.kind = "delete", !.id = id]
           \in [kind : {"none", "write", "delete"}, id : Ids \cup {System}, v : Nat, text : Texts]
    BY DEF NoWrite, Texts
  <2> QED BY <2>1, <2>2 DEF AskDelete, Typed
<1>5. CASE \E x \in tree : Remove(x)
  <2>1. PICK x \in tree : Remove(x)
    BY <1>5
  <2>2. [x EXCEPT !.stage = "dir"] \in Version
    BY DEF Typed, Version, Stages
  <2>3. tree' \subseteq Version
    BY <2>1, <2>2 DEF Remove, Typed
  <2> QED BY <2>1, <2>3 DEF Remove, Typed
<1>6. CASE TemplateCrash
  <2>1. NoWrite \in [kind : {"none", "write", "delete"}, id : Ids \cup {System}, v : Nat,
                     text : Texts]
    BY DEF NoWrite, Texts
  <2>2. NoThread \in Job
    BY DEF NoThread, Job, Places, NextPhase
  <2>3. thread' \in [Formalizers -> Job]
    BY <1>6, <2>2 DEF TemplateCrash, Typed
  <2>4. ends' \in 0..MaxEnds
    BY <1>6 DEF TemplateCrash, Typed, TemplateBoundsAssumption
  <2>5. \A r \in Formalizers :
            {thread'[r].seen, thread'[r].resolved, thread'[r].used} \subseteq 0..born
    BY <1>6 DEF TemplateCrash, Typed, NoThread
  <2> QED BY <1>6, <2>1, <2>3, <2>4, <2>5 DEF TemplateCrash, Typed
<1>7. CASE Threads
  <2>1. PICK r \in Formalizers :
          (\E id \in Wants : CreateRun(r, id)) \/ Scan(r) \/ LoadAll(r) \/ Pick(r) \/ Read(r)
    BY <1>7, Zenon DEF Threads
  <2>2. UNCHANGED <<dirs, tree, writer, born, ends>>
    BY <2>1 DEF CreateRun, Scan, LoadAll, Pick, Read, ThreadOnly, web
  <2> DEFINE j == thread[r]
  <2>3. j \in Job /\ j.seen \in 0..born /\ j.resolved \in 0..born /\ j.used \in 0..born
    BY DEF Typed
  <2>4. \A id \in Known : id \in Ids /\ MaxOf(Vs(id)) \in Nat
    BY LatestIsLast DEF Known, Typed
  <2>5. ASSUME NEW b \in 0..born
        PROVE  /\ Loaded(j, b) \in Job
               /\ {Loaded(j, b).seen, Loaded(j, b).resolved, Loaded(j, b).used} \subseteq 0..born
    <3>1. NextPhase[j.phase] \in DOMAIN NextPhase
      BY <2>3 DEF Job, NextPhase
    <3>2. b \in Nat
      BY DEF Typed
    <3> QED BY <2>3, <3>1, <3>2 DEF Loaded, Job, Places
  <2>6. Failed(j) \in Job /\ {Failed(j).seen, Failed(j).resolved, Failed(j).used} \subseteq 0..born
    BY <2>3 DEF Failed, Job, Places
  <2>7. \E k \in Job : /\ {k.seen, k.resolved, k.used} \subseteq 0..born
                       /\ thread' = [thread EXCEPT ![r] = k]
    <3>1. CASE \E id \in Wants : CreateRun(r, id)
      <4>1. PICK id \in Wants : CreateRun(r, id)
        BY <3>1
      <4> DEFINE seen == IF FromUser(id) /\ id \in Known THEN Newest(id).born ELSE 0
                 k == [j EXCEPT !.pc = "scan", !.want = id, !.seen = seen]
      <4>2. seen \in 0..born
        <5>1. born \in Nat
          BY DEF Typed
        <5>2. id \in Known => Newest(id) \in tree
          BY LatestIsLast DEF Known
        <5> QED BY <5>1, <5>2 DEF Typed, TreeInv, Version
      <4>3. k \in Job /\ {k.seen, k.resolved, k.used} \subseteq 0..born
        <5>1. seen \in Nat /\ id \in Wants \cup {System}
          BY <4>2 DEF Typed
        <5> HIDE DEF seen
        <5>2. k \in Job
          BY <2>3, <5>1 DEF Job, Places
        <5>3. k.seen = seen /\ k.resolved = j.resolved /\ k.used = j.used
          BY <2>3 DEF Job
        <5> QED BY <2>3, <4>2, <5>2, <5>3
      <4>4. thread' = [thread EXCEPT ![r] = k]
        BY <4>1, Zenon DEF CreateRun
      <4> QED BY <4>3, <4>4
    <3>2. CASE Scan(r)
      <4> DEFINE found == {<<id, MaxOf(Vs(id))>> : id \in Known}
                 k == [j EXCEPT !.pc = "loadall", !.found = found]
      <4>1. found \in SUBSET (Ids \X Nat)
        BY <2>4
      <4>2. k \in Job /\ {k.seen, k.resolved, k.used} \subseteq 0..born
        <5> HIDE DEF found
        <5> QED BY <2>3, <4>1 DEF Job, Places
      <4>3. thread' = [thread EXCEPT ![r] = k]
        BY <3>2, Zenon DEF Scan
      <4> QED BY <4>2, <4>3
    <3>3. CASE LoadAll(r)
      <4> DEFINE k == [j EXCEPT !.pc = "pick"]
      <4>1. k \in Job /\ {k.seen, k.resolved, k.used} \subseteq 0..born
        BY <2>3 DEF Job, Places
      <4>2. \/ thread' = [thread EXCEPT ![r] = k]
            \/ thread' = [thread EXCEPT ![r] = Failed(j)]
        BY <3>3, Zenon DEF LoadAll, To
      <4> QED BY <2>6, <4>1, <4>2
    <3>4. CASE Pick(r)
      <4> DEFINE k == [j EXCEPT !.pc = "read", !.pick = Choice(j, j.want)]
      <4>1. CASE thread' = [thread EXCEPT ![r] = Loaded(j, 0)]
        <5>1. 0 \in 0..born
          BY DEF Typed
        <5> QED BY <2>5, <4>1, <5>1
      <4>2. CASE thread' = [thread EXCEPT ![r] = Failed(j)]
        BY <2>6, <4>2
      <4>3. CASE thread' = [thread EXCEPT ![r] = k] /\ Choice(j, j.want) \in Vs(j.want)
        <5>1. Choice(j, j.want) \in Nat
          BY <4>3 DEF Vs, Typed, Version
        <5>2. k \in Job /\ {k.seen, k.resolved, k.used} \subseteq 0..born
          <6> QED BY <2>3, <5>1 DEF Job, Places
        <5> QED BY <4>3, <5>2
      <4> QED BY <3>4, <4>1, <4>2, <4>3, Zenon DEF Pick
    <3>5. CASE Read(r)
      <4> DEFINE text == {x \in tree : x.id = j.want /\ x.v = j.pick /\ Usable(x)}
                 x == CHOOSE y \in text : TRUE
      <4>1. CASE thread' = [thread EXCEPT ![r] = Failed(j)]
        BY <2>6, <4>1
      <4>2. CASE text # {} /\ thread' = [thread EXCEPT ![r] = Loaded(j, x.born)]
        <5>1. x \in tree
          BY <4>2
        <5>2. x.born \in 0..born
          BY <5>1 DEF Typed, TreeInv, Version
        <5> HIDE DEF x
        <5> QED BY <2>5, <4>2, <5>2
      <4> QED BY <3>5, <4>1, <4>2, Zenon DEF Read
    <3> QED BY <2>1, <3>1, <3>2, <3>3, <3>4, <3>5
  <2> QED BY <2>2, <2>7 DEF Typed
<1> QED BY <1>1, <1>2, <1>3, <1>4, <1>5, <1>6, <1>7, StepCases

\* Numbers stay with their versions, and later versions have higher ones.
LEMMA TreeStep ==
    ASSUME TitlesAssumption, Typed, TreeInv, WriterInv, TemplateNext
    PROVE  TreeInv'
<1>0. born \in Nat /\ \A x \in tree : x.v \in Nat /\ x.born \in Nat
  BY DEF Typed, Version
<1>1. CASE Begin
  <2>1. PICK id \in Ids, v \in Nat, text \in Texts :
               /\ v >= 1 /\ v <= born + 1
               /\ \A x \in tree : x.id = id => x.v < v
               /\ Started(id, v, text)
    BY <1>1 DEF Begin
  <2> DEFINE y == [id |-> id, v |-> v, stage |-> "dir", text |-> text, born |-> born + 1]
  <2>2. tree' = tree \cup {y} /\ dirs' = dirs \cup {id} /\ born' = born + 1
    BY <2>1 DEF Started
  <2>3. y.id = id /\ y.v = v /\ y.born = born + 1
    OBVIOUS
  <2> HIDE DEF y
  <2>4. \A x \in tree' : x.id \in dirs' /\ x.v \in 1..x.born /\ x.born <= born'
    BY <1>0, <2>1, <2>2, <2>3 DEF TreeInv
  <2>5. \A x, z \in tree' : x.id = z.id => /\ x.v = z.v => x = z
                                           /\ x.v < z.v => x.born < z.born
    BY <1>0, <2>1, <2>2, <2>3 DEF TreeInv
  <2> QED BY <2>4, <2>5 DEF TreeInv
<1>2. CASE Fill
  <2> DEFINE x == VersionAt(writer.id, writer.v)
             y == [x EXCEPT !.stage = IF @ = "dir" THEN "empty" ELSE "whole"]
  <2>1. x \in tree
    BY <1>2, AtFinds DEF Fill, WriterInv
  <2>2. y.id = x.id /\ y.v = x.v /\ y.born = x.born
    BY <2>1 DEF Typed, Version
  <2>3. tree' = (tree \ {x}) \cup {y} /\ dirs' = dirs /\ born' = born
    BY <1>2 DEF Fill
  <2> HIDE DEF x, y
  <2> QED BY <1>0, <2>1, <2>2, <2>3 DEF TreeInv
<1>3. CASE \E x \in tree : Remove(x)
  <2>1. PICK x \in tree : Remove(x)
    BY <1>3
  <2> DEFINE y == [x EXCEPT !.stage = "dir"]
  <2>2. y.id = x.id /\ y.v = x.v /\ y.born = x.born
    BY DEF Typed, Version
  <2>3. tree' = tree \ {x} \/ tree' = (tree \ {x}) \cup {y}
    BY <2>1 DEF Remove
  <2>4. dirs' = dirs /\ born' = born
    BY <2>1 DEF Remove
  <2> HIDE DEF y
  <2> QED BY <1>0, <2>2, <2>3, <2>4 DEF TreeInv
<1>4. CASE EndDelete
  BY <1>4 DEF EndDelete, TreeInv, Vs
<1>5. CASE UNCHANGED <<tree, dirs, born>>
  BY <1>5 DEF TreeInv
<1>6. (\E id \in Ids : AskDelete(id)) \/ TemplateCrash \/ Threads => UNCHANGED <<tree, dirs, born>>
  BY DEF AskDelete, TemplateCrash, Threads, CreateRun, Scan, LoadAll, Pick, Read, ThreadOnly, web
<1> QED BY <1>1, <1>2, <1>3, <1>4, <1>5, <1>6, StepCases

\* What is not whole stays explained.
LEMMA WriterStep ==
    ASSUME TitlesAssumption, Typed, TreeInv, WriterInv, TemplateNext
    PROVE  WriterInv'
<1>1. CASE Begin
  <2>1. PICK id \in Ids, v \in Nat, text \in Texts : Started(id, v, text)
    BY <1>1 DEF Begin
  <2> DEFINE y == [id |-> id, v |-> v, stage |-> "dir", text |-> text, born |-> born + 1]
  <2>2. /\ tree' = tree \cup {y} /\ torn' = torn
        /\ writer'.kind = "write" /\ writer'.id = id /\ writer'.v = v
        /\ writer.kind = "none"
    BY <2>1 DEF Started, NoWrite
  <2>3. y.id = id /\ y.v = v
    OBVIOUS
  <2> HIDE DEF y
  <2> QED BY <2>2, <2>3 DEF WriterInv
<1>2. CASE Fill
  <2> DEFINE x == VersionAt(writer.id, writer.v)
             y == [x EXCEPT !.stage = IF @ = "dir" THEN "empty" ELSE "whole"]
  <2>1. x \in tree /\ x.id = writer.id /\ x.v = writer.v /\ writer.kind = "write"
    BY <1>2, AtFinds DEF Fill, WriterInv
  <2>2. y.id = x.id /\ y.v = x.v
    BY <2>1 DEF Typed, Version
  <2>3. /\ tree' = (tree \ {x}) \cup {y} /\ torn' = torn
        /\ writer' = IF y.stage = "whole" THEN NoWrite ELSE writer
    BY <1>2 DEF Fill, watch
  <2>4. \A z \in tree : z.id = x.id /\ z.v = x.v => z = x
    BY <2>1 DEF TreeInv
  <2>5. CASE y.stage = "whole"
    <3>1. writer' = NoWrite
      BY <2>3, <2>5
    <3> HIDE DEF x, y
    <3>2. ~torn => \A z \in tree' : z.stage = "whole"
      BY <2>1, <2>3, <2>4, <2>5 DEF WriterInv
    <3> QED BY <2>3, <3>1, <3>2 DEF WriterInv, NoWrite
  <2>6. CASE y.stage # "whole"
    <3>1. writer' = writer
      BY <2>3, <2>6
    <3> HIDE DEF x, y
    <3> QED BY <2>1, <2>2, <2>3, <3>1 DEF WriterInv
  <2> QED BY <2>5, <2>6
<1>3. CASE \E x \in tree : Remove(x)
  <2>1. PICK x \in tree : Remove(x)
    BY <1>3
  <2> DEFINE y == [x EXCEPT !.stage = "dir"]
  <2>2. y.id = x.id /\ y.v = x.v
    BY DEF Typed, Version
  <2>3. /\ tree' = tree \ {x} \/ tree' = (tree \ {x}) \cup {y}
        /\ writer' = writer /\ torn' = torn /\ removed' = removed
        /\ writer.kind = "delete" /\ x.id = writer.id
    BY <2>1 DEF Remove, watch
  <2> HIDE DEF y
  <2> QED BY <2>2, <2>3 DEF WriterInv
<1>4. CASE EndDelete
  <2>1. writer' = NoWrite /\ tree' = tree /\ torn' = torn
    BY <1>4 DEF EndDelete, watch
  <2>2. writer.kind = "delete" /\ \A x \in tree : x.id # writer.id
    BY <1>4 DEF EndDelete, Vs
  <2> QED BY <2>1, <2>2 DEF WriterInv, NoWrite
<1>5. CASE \E id \in Ids : AskDelete(id)
  <2>1. PICK id \in Ids : AskDelete(id)
    BY <1>5
  <2>2. writer'.kind = "delete" /\ writer'.id = id
    BY <2>1 DEF AskDelete, NoWrite
  <2>3. removed' = removed \cup {id} /\ tree' = tree /\ torn' = torn /\ writer.kind = "none"
    BY <2>1 DEF AskDelete, NoWrite
  <2> QED BY <2>2, <2>3 DEF WriterInv
<1>6. CASE TemplateCrash
  <2>1. writer' = NoWrite /\ tree' = tree /\ torn' = (torn \/ writer # NoWrite)
    BY <1>6 DEF TemplateCrash
  <2> QED BY <2>1 DEF WriterInv, NoWrite
<1>7. CASE Threads
  <2>1. UNCHANGED <<tree, writer, torn, removed>>
    BY <1>7 DEF Threads, CreateRun, Scan, LoadAll, Pick, Read, ThreadOnly, web, watch
  <2> QED BY <2>1 DEF WriterInv
<1> QED BY <1>1, <1>2, <1>3, <1>4, <1>5, <1>6, <1>7, StepCases

\* Threads are started from nothing.
LEMMA FreshStep ==
    ASSUME TitlesAssumption, Typed, TreeInv, Fresh, TemplateNext
    PROVE  Fresh'
<1>1. CASE Begin \/ Fill \/ EndDelete \/ (\E id \in Ids : AskDelete(id))
           \/ (\E x \in tree : Remove(x))
  <2>1. thread' = thread
    BY <1>1 DEF Begin, Started, Fill, EndDelete, AskDelete, Remove
  <2> QED BY <2>1 DEF Fresh
<1>2. CASE TemplateCrash
  BY <1>2 DEF TemplateCrash, Fresh
<1>3. CASE Threads
  <2>1. PICK r \in Formalizers :
          (\E id \in Wants : CreateRun(r, id)) \/ Scan(r) \/ LoadAll(r) \/ Pick(r) \/ Read(r)
    BY <1>3, Zenon DEF Threads
  <2>2. thread[r] \in Job /\ DOMAIN thread = Formalizers
    BY DEF Typed
  <2>3. thread'[r].pc # "absent"
    <3>1. Failed(thread[r]).pc = "failed" /\ \A b : Loaded(thread[r], b).pc \in {"done", "scan"}
      BY <2>2 DEF Failed, Loaded, Job
    <3>2. CASE \E id \in Wants : CreateRun(r, id)
      <4>1. PICK id \in Wants : CreateRun(r, id)
        BY <3>2
      <4> DEFINE k == [thread[r] EXCEPT !.pc = "scan", !.want = id,
                         !.seen = IF FromUser(id) /\ id \in Known THEN Newest(id).born ELSE 0]
      <4>2. thread' = [thread EXCEPT ![r] = k]
        BY <4>1, Zenon DEF CreateRun
      <4>3. k.pc = "scan"
        BY <2>2 DEF Job
      <4> QED BY <2>2, <4>2, <4>3
    <3>6. CASE Scan(r)
      <4> DEFINE k == [thread[r] EXCEPT !.pc = "loadall",
                                        !.found = {<<id, MaxOf(Vs(id))>> : id \in Known}]
      <4>1. thread' = [thread EXCEPT ![r] = k]
        BY <3>6, Zenon DEF Scan
      <4>2. k.pc = "loadall"
        BY <2>2 DEF Job
      <4> QED BY <2>2, <4>1, <4>2
    <3>3. CASE LoadAll(r)
      BY <2>2, <3>1, <3>3 DEF LoadAll, To, Job
    <3>4. CASE Pick(r)
      BY <2>2, <3>1, <3>4 DEF Pick, Job
    <3>5. CASE Read(r)
      BY <2>2, <3>1, <3>5 DEF Read
    <3> QED BY <2>1, <3>2, <3>3, <3>4, <3>5, <3>6
  <2>4. \A q \in Formalizers \ {r} : thread'[q] = thread[q]
    BY <2>1, <2>2 DEF CreateRun, Scan, LoadAll, Pick, Read, To
  <2> QED BY <2>3, <2>4 DEF Fresh
<1> QED BY <1>1, <1>2, <1>3, StepCases

\* Handlers leave the threads alone, and whoever is at work while they write or delete is
\* disturbed.
LEMMA HandlersDisturb ==
    ASSUME CalmInv, Begin \/ Fill \/ EndDelete \/ (\E id \in Ids : AskDelete(id))
                       \/ (\E x \in tree : Remove(x))
    PROVE  thread' = thread /\ disturbed \subseteq disturbed' /\ Working' \subseteq disturbed'
<1>1. thread' = thread
  BY DEF Begin, Started, Fill, EndDelete, AskDelete, Remove
<1>2. CASE Begin \/ \E id \in Ids : AskDelete(id)
  BY <1>1, <1>2 DEF Begin, Started, AskDelete, Working
<1>3. CASE Fill \/ EndDelete \/ \E x \in tree : Remove(x)
  <2>1. writer # NoWrite /\ disturbed' = disturbed
    BY <1>3 DEF Fill, EndDelete, Remove, NoWrite, watch
  <2>2. Working \subseteq disturbed
    BY <2>1 DEF CalmInv, Calm
  <2> QED BY <1>1, <2>1, <2>2 DEF Working
<1> QED BY <1>1, <1>2, <1>3

\* Undisturbed, a thread finds the version it is to use, and goes on to read it.
LEMMA CalmPick ==
    ASSUME Typed, TreeInv, NEW r \in Formalizers, Calm(thread[r]), Pick(r)
    PROVE  \E k : /\ thread' = [thread EXCEPT ![r] = k]
                  /\ k.pc # "failed" /\ (k.pc # "done" => Calm(k))
<1> DEFINE j == thread[r]
<1>0. j \in Job /\ j.pc = "pick"
  BY DEF Typed, Pick
<1>1. CASE j.want = System
  <2> DEFINE k == Loaded(j, 0)
  <2>1. thread' = [thread EXCEPT ![r] = k]
    BY <1>1, Zenon DEF Pick, FromUser
  <2>2. k.want = System /\ k.pc \in {"done", "scan"}
    BY <1>0, <1>1 DEF Loaded, Job
  <2> HIDE DEF k
  <2>3. Calm(k)
    BY <2>2 DEF Calm
  <2> QED BY <2>1, <2>2, <2>3
<1>2. CASE j.want # System
  <2> DEFINE k == [j EXCEPT !.pc = "read", !.pick = Choice(j, j.want)]
  <2>1. /\ j.want \in Known /\ j.found = {<<id, MaxOf(Vs(id))>> : id \in Known}
        /\ Usable(Newest(j.want)) /\ (j.phase # "resolve" => j.v = MaxOf(Vs(j.want)))
    BY <1>0, <1>2 DEF Calm
  <2>2. \E p \in j.found : p[1] = j.want
    <3>1. <<j.want, MaxOf(Vs(j.want))>> \in j.found
      BY <2>1
    <3> QED BY <3>1
  <2>3. Choice(j, j.want) = MaxOf(Vs(j.want))
    BY <2>1 DEF Choice
  <2>4. Vs(j.want) # {} /\ MaxOf(Vs(j.want)) \in Vs(j.want)
    BY <2>1, LatestIsLast DEF Known
  <2>5. thread' = [thread EXCEPT ![r] = k]
    BY <1>2, <2>2, <2>3, <2>4, Zenon DEF Pick, FromUser
  <2>6. /\ k.pc = "read" /\ k.want = j.want /\ k.phase = j.phase /\ k.v = j.v
        /\ k.pick = MaxOf(Vs(j.want))
    BY <1>0, <2>3 DEF Job
  <2> HIDE DEF k
  <2>7. Calm(k)
    BY <1>2, <2>1, <2>6 DEF Calm
  <2> QED BY <2>5, <2>6, <2>7
<1> QED BY <1>1, <1>2

\* Nor does it fail to read it.
LEMMA CalmRead ==
    ASSUME Typed, TreeInv, NEW r \in Formalizers, Calm(thread[r]), Read(r)
    PROVE  \E k : /\ thread' = [thread EXCEPT ![r] = k]
                  /\ k.pc # "failed" /\ (k.pc # "done" => Calm(k))
<1> DEFINE j == thread[r]
           text == {x \in tree : x.id = j.want /\ x.v = j.pick /\ Usable(x)}
           x == CHOOSE y \in text : TRUE
           k == Loaded(j, x.born)
<1>1. j \in Job /\ j.pc = "read"
  BY DEF Typed, Read
<1>2. /\ j.want # System /\ j.want \in Known /\ j.pick = MaxOf(Vs(j.want))
      /\ Usable(Newest(j.want)) /\ (j.phase # "resolve" => j.v = MaxOf(Vs(j.want)))
  BY <1>1 DEF Calm
<1>3. Newest(j.want) \in text
  BY <1>2, LatestIsLast DEF Known
<1>4. thread' = [thread EXCEPT ![r] = k]
  BY <1>3, Zenon DEF Read
<1>5. /\ k.pc \in {"done", "scan"} /\ k.want = j.want
      /\ k.v = MaxOf(Vs(j.want))
  <2> HIDE DEF x
  <2> QED BY <1>1, <1>2 DEF Loaded, Job
<1>6. Calm(j)
  OBVIOUS
<1> HIDE DEF k
<1>7. Calm(k)
  BY <1>2, <1>5, <1>6 DEF Calm
<1> QED BY <1>4, <1>5, <1>7

\* A thread that nothing has overlapped stays calm, and does not fail.
LEMMA CalmStep ==
    ASSUME TitlesAssumption, Typed, TreeInv, Fresh, CalmInv, TemplateFailuresExplained, TemplateNext
    PROVE  CalmInv' /\ TemplateFailuresExplained'
<1>1. CASE Begin \/ Fill \/ EndDelete \/ (\E id \in Ids : AskDelete(id))
           \/ (\E x \in tree : Remove(x))
  BY <1>1, HandlersDisturb DEF CalmInv, TemplateFailuresExplained
<1>2. CASE TemplateCrash
  <2>1. Working' = {}
    BY <1>2 DEF TemplateCrash, Working, NoThread
  <2>2. \A r \in Formalizers : thread'[r].pc = "failed" => thread[r].pc = "failed"
    BY <1>2 DEF TemplateCrash, NoThread
  <2>3. disturbed' = disturbed \ Working /\ \A r \in Working : thread[r].pc # "failed"
    BY <1>2 DEF TemplateCrash, Working
  <2> QED BY <2>1, <2>2, <2>3 DEF CalmInv, TemplateFailuresExplained
<1>3. CASE Threads
  <2>1. PICK r \in Formalizers :
          (\E id \in Wants : CreateRun(r, id)) \/ Scan(r) \/ LoadAll(r) \/ Pick(r) \/ Read(r)
    BY <1>3, Zenon DEF Threads
  <2>2. UNCHANGED <<dirs, tree, writer, disturbed>>
    BY <2>1 DEF CreateRun, Scan, LoadAll, Pick, Read, ThreadOnly, web, watch
  <2> DEFINE j == thread[r]
  <2>3. j \in Job /\ DOMAIN thread = Formalizers
    BY DEF Typed
  <2>4. \A k : Calm(k) => Calm(k)'
    <3>1. \A id : Vs(id)' = Vs(id)
      BY <2>2 DEF Vs
    <3>2. Known' = Known
      BY <2>2, <3>1 DEF Known
    <3>3. \A id, v : VersionAt(id, v)' = VersionAt(id, v)
      BY <2>2 DEF VersionAt
    <3>4. \A id : Newest(id)' = Newest(id)
      BY <3>1, <3>3 DEF Newest
    <3>5. Discoverable' = Discoverable
      BY <3>2, <3>4 DEF Discoverable
    <3> QED BY <2>2, <3>1, <3>2, <3>4, <3>5 DEF Calm
  <2>5. CASE r \in disturbed
    <3>1. \A q \in Formalizers \ {r} : thread'[q] = thread[q]
      BY <2>1, <2>3 DEF CreateRun, Scan, LoadAll, Pick, Read, To
    <3> QED BY <2>2, <2>4, <2>5, <3>1 DEF CalmInv, Working, TemplateFailuresExplained
  <2>6. CASE r \notin disturbed
    <3>1. \E k : /\ thread' = [thread EXCEPT ![r] = k]
                 /\ k.pc # "failed" /\ (k.pc # "done" => Calm(k))
      <4>1. CASE \E id \in Wants : CreateRun(r, id)
        <5>1. PICK id \in Wants : CreateRun(r, id)
          BY <4>1
        <5> DEFINE user == FromUser(id) /\ id \in Known
                   k == [j EXCEPT !.pc = "scan", !.want = id,
                           !.seen = IF user THEN Newest(id).born ELSE 0]
        <5>2. thread' = [thread EXCEPT ![r] = k]
          BY <5>1, Zenon DEF CreateRun
        <5>3. k.pc = "scan" /\ k.want = id /\ k.phase = j.phase
          BY <2>3 DEF Job
        <5>4. j.phase = "resolve"
          BY <5>1 DEF CreateRun, Fresh, NoThread
        <5>5. /\ writer = NoWrite /\ Discoverable
              /\ id # System => id \in Known /\ Usable(Newest(id))
          BY <5>1 DEF CreateRun, FromUser
        <5> HIDE DEF k
        <5>6. Calm(k)
          BY <5>3, <5>4, <5>5 DEF Calm
        <5> QED BY <5>2, <5>3, <5>6
      <4>2. CASE Scan(r)
        <5> DEFINE k == [j EXCEPT !.pc = "loadall",
                                  !.found = {<<id, MaxOf(Vs(id))>> : id \in Known}]
        <5>1. thread' = [thread EXCEPT ![r] = k] /\ j.pc = "scan"
          BY <4>2, Zenon DEF Scan
        <5>2. Calm(j)
          BY <2>6, <5>1 DEF CalmInv, Working
        <5>3. /\ k.pc = "loadall" /\ k.want = j.want /\ k.phase = j.phase /\ k.v = j.v
              /\ k.found = {<<id, MaxOf(Vs(id))>> : id \in Known}
          BY <2>3 DEF Job
        <5> HIDE DEF k
        <5>4. Calm(k)
          BY <5>2, <5>3 DEF Calm
        <5> QED BY <5>1, <5>3, <5>4
      <4>3. CASE LoadAll(r)
        <5> DEFINE k == [j EXCEPT !.pc = "pick"]
        <5>1. Calm(j) /\ j.pc = "loadall"
          BY <2>6, <4>3 DEF CalmInv, Working, LoadAll
        <5>2. \A p \in j.found : \E x \in tree :
                 x.id = p[1] /\ x.v = p[2] /\ x.stage # "dir"
          BY <5>1, LatestIsLast DEF Calm, Discoverable, Known
        <5>3. thread' = [thread EXCEPT ![r] = k]
          BY <4>3, <5>2, Zenon DEF LoadAll, To
        <5>4. /\ k.pc = "pick" /\ k.want = j.want /\ k.phase = j.phase /\ k.v = j.v
              /\ k.found = j.found
          BY <2>3 DEF Job
        <5> HIDE DEF k
        <5>5. Calm(k)
          BY <5>1, <5>4 DEF Calm
        <5> QED BY <5>3, <5>4, <5>5
      <4>4. CASE Pick(r)
        BY <2>6, <4>4, CalmPick DEF CalmInv, Working, Pick
      <4>5. CASE Read(r)
        BY <2>6, <4>5, CalmRead DEF CalmInv, Working, Read
      <4> QED BY <2>1, <4>1, <4>2, <4>3, <4>4, <4>5
    <3>2. PICK k : /\ thread' = [thread EXCEPT ![r] = k]
                   /\ k.pc # "failed" /\ (k.pc # "done" => Calm(k))
      BY <3>1
    <3>3. \A q \in Formalizers : thread'[q] = IF q = r THEN k ELSE thread[q]
      BY <2>3, <3>2
    <3> QED BY <2>2, <2>4, <3>2, <3>3 DEF CalmInv, Working, TemplateFailuresExplained
  <2> QED BY <2>5, <2>6
<1> QED BY <1>1, <1>2, <1>3, StepCases

\* What a run was created with, has recorded and is to use stays where it is, as long as its
\* template has not been deleted.
LEMMA LineKept ==
    ASSUME \A x \in tree : x.id \notin removed' =>
              \E y \in tree' : y.id = x.id /\ y.v = x.v /\ y.born = x.born,
           NEW CONSTANT j, Line(j), j.want \notin removed'
    PROVE  Line(j)'
<1>1. \A v, b : Has(j.want, v, b) => Has(j.want, v, b)'
  BY DEF Has
<1>2. (\E x \in tree : x.id = j.want /\ x.born = j.seen)
         => (\E x \in tree' : x.id = j.want /\ x.born = j.seen)
  OBVIOUS
<1> QED BY <1>1, <1>2 DEF Line

\* The latest version is no older than the one the run was created with.
LEMMA LinePick ==
    ASSUME Typed, TreeInv, NEW r \in Formalizers, Pick(r), Line(thread[r])
    PROVE  \E k : /\ thread' = [thread EXCEPT ![r] = k] /\ k.want = thread[r].want
                  /\ k.pc # "failed" => Line(k)
<1> DEFINE j == thread[r]
<1>0. j \in Job /\ j.pc = "pick"
  BY DEF Typed, Pick
<1>1. CASE thread' = [thread EXCEPT ![r] = Loaded(j, 0)] /\ j.want = System
  <2>1. j.seen = 0 /\ j.resolved = 0 /\ j.used = 0
    BY <1>1 DEF Line
  <2> DEFINE k == Loaded(j, 0)
  <2>2. /\ k.want = System /\ k.seen = 0 /\ k.resolved = 0 /\ k.used = 0
        /\ k.pc \in {"scan", "done"}
    BY <1>0, <1>1, <2>1 DEF Loaded, Job
  <2>3. thread' = [thread EXCEPT ![r] = k]
    BY <1>1
  <2> HIDE DEF k
  <2>4. Line(k)
    BY <2>2 DEF Line
  <2> QED BY <1>1, <2>2, <2>3, <2>4
<1>2. CASE thread' = [thread EXCEPT ![r] = Failed(j)]
  <2>1. Failed(j).want = j.want /\ Failed(j).pc = "failed"
    BY <1>0 DEF Failed, Job
  <2> QED BY <1>2, <2>1
<1>3. CASE /\ j.want # System /\ Vs(j.want) # {}
           /\ thread' = [thread EXCEPT ![r] =
                           [j EXCEPT !.pc = "read", !.pick = Choice(j, j.want)]]
  <2> DEFINE k == [j EXCEPT !.pc = "read", !.pick = Choice(j, j.want)]
  <2>1. /\ k.want = j.want /\ k.seen = j.seen /\ k.resolved = j.resolved /\ k.v = j.v
        /\ k.phase = j.phase /\ k.pc = "read" /\ k.pick = Choice(j, j.want)
    BY <1>0 DEF Job
  <2>2. /\ \E x \in tree : x.id = j.want /\ x.born = j.seen
        /\ j.phase # "resolve" => Has(j.want, j.v, j.resolved) /\ j.resolved >= j.seen
    BY <1>3 DEF Line
  <2>3. Has(j.want, MaxOf(Vs(j.want)), Newest(j.want).born)
    BY <1>3, LatestIsLast DEF Has
  <2>4. Newest(j.want).born >= j.seen /\ Newest(j.want).born \in Nat
    <3>1. \A x \in tree : x.id = j.want => x.born <= Newest(j.want).born
      BY <1>3, LatestIsLast
    <3>2. Newest(j.want) \in tree
      BY <1>3, LatestIsLast
    <3>3. \A x \in tree : x.born \in Nat
      BY DEF Typed, Version
    <3> QED BY <2>2, <3>1, <3>2, <3>3
  <2>5. j.phase # "formalize" => Choice(j, j.want) = MaxOf(Vs(j.want))
    BY DEF Choice
  <2>6. j.phase = "formalize" => Choice(j, j.want) = j.v
    BY DEF Choice
  <2>7. thread' = [thread EXCEPT ![r] = k]
    BY <1>3
  <2> HIDE DEF k
  <2>8. Line(k)
    BY <1>3, <2>1, <2>2, <2>3, <2>4, <2>5, <2>6 DEF Line
  <2> QED BY <2>1, <2>7, <2>8
<1> QED BY <1>1, <1>2, <1>3, Zenon DEF Pick, FromUser

\* What is read of a version is the text it was begun with.
LEMMA LineRead ==
    ASSUME Typed, TreeInv, NEW r \in Formalizers, Read(r), Line(thread[r])
    PROVE  \E k : /\ thread' = [thread EXCEPT ![r] = k] /\ k.want = thread[r].want
                  /\ k.pc # "failed" => Line(k)
<1> DEFINE j == thread[r]
           text == {x \in tree : x.id = j.want /\ x.v = j.pick /\ Usable(x)}
           x == CHOOSE y \in text : TRUE
<1>0. j \in Job /\ j.pc = "read"
  BY DEF Typed, Read
<1>1. CASE text = {}
  <2>1. thread' = [thread EXCEPT ![r] = Failed(j)]
    BY <1>1, Zenon DEF Read
  <2>2. Failed(j).want = j.want /\ Failed(j).pc = "failed"
    BY <1>0 DEF Failed, Job
  <2> QED BY <2>1, <2>2
<1>2. CASE text # {}
  <2> DEFINE k == Loaded(j, x.born)
  <2>1. thread' = [thread EXCEPT ![r] = k]
    BY <1>2, Zenon DEF Read
  <2>2. x \in tree /\ x.id = j.want /\ x.v = j.pick
    BY <1>2
  <2> HIDE DEF x
  <2>3. j.want # System
    BY <1>0 DEF Line
  <2>4. /\ \E y \in tree : y.id = j.want /\ y.born = j.seen
        /\ j.phase # "resolve" => Has(j.want, j.v, j.resolved) /\ j.resolved >= j.seen
        /\ IF j.phase = "formalize" THEN j.pick = j.v
           ELSE \E b \in Nat : Has(j.want, j.pick, b) /\ b >= j.seen
    BY <1>0, <2>3 DEF Line
  <2>5. \A v, b : Has(j.want, v, b) /\ v = j.pick => b = x.born
    BY <2>2 DEF Has, TreeInv
  <2>6. Has(j.want, j.pick, x.born)
    BY <2>2 DEF Has
  <2>7. k.want = j.want /\ k.seen = j.seen
    BY <1>0 DEF Loaded, Job
  <2>8. CASE j.phase = "resolve"
    <3>1. k.phase = "validate" /\ k.pc = "scan" /\ k.v = j.pick /\ k.resolved = x.born
      BY <1>0, <2>8 DEF Loaded, Job, NextPhase
    <3>2. x.born >= j.seen
      BY <2>4, <2>5, <2>8
    <3> HIDE DEF k
    <3>3. Line(k)
      BY <2>3, <2>4, <2>6, <2>7, <3>1, <3>2 DEF Line
    <3> QED BY <2>1, <2>7, <3>3
  <2>9. CASE j.phase = "validate"
    <3>1. k.phase = "formalize" /\ k.pc = "scan" /\ k.v = j.v /\ k.resolved = j.resolved
      BY <1>0, <2>9 DEF Loaded, Job, NextPhase
    <3> HIDE DEF k
    <3>2. Line(k)
      BY <2>3, <2>4, <2>7, <2>9, <3>1 DEF Line
    <3> QED BY <2>1, <2>7, <3>2
  <2>10. CASE j.phase = "formalize"
    <3>1. /\ k.phase = "formalize" /\ k.pc = "done" /\ k.v = j.v /\ k.resolved = j.resolved
          /\ k.used = x.born
      BY <1>0, <2>10 DEF Loaded, Job, NextPhase
    <3>2. j.resolved = x.born
      BY <2>4, <2>5, <2>10
    <3> HIDE DEF k
    <3>3. Line(k)
      BY <2>3, <2>4, <2>7, <2>10, <3>1, <3>2 DEF Line
    <3> QED BY <2>1, <2>7, <3>3
  <2>11. j.phase \in {"resolve", "validate", "formalize"}
    BY <1>0 DEF Job, NextPhase
  <2> QED BY <2>8, <2>9, <2>10, <2>11
<1> QED BY <1>1, <1>2

\* A version that is kept keeps its number and its text.
LEMMA VersionsKept ==
    ASSUME TitlesAssumption, Typed, TreeInv, WriterInv, TemplateNext
    PROVE  /\ removed \subseteq removed'
           /\ \A x \in tree : x.id \notin removed' =>
                 \E y \in tree' : y.id = x.id /\ y.v = x.v /\ y.born = x.born
<1>1. CASE Begin
  BY <1>1 DEF Begin, Started
<1>2. CASE Fill
  <2> DEFINE x == VersionAt(writer.id, writer.v)
             y == [x EXCEPT !.stage = IF @ = "dir" THEN "empty" ELSE "whole"]
  <2>1. x \in tree
    BY <1>2, AtFinds DEF Fill, WriterInv
  <2>2. y.id = x.id /\ y.v = x.v /\ y.born = x.born
    BY <2>1 DEF Typed, Version
  <2>3. tree' = (tree \ {x}) \cup {y} /\ removed' = removed
    BY <1>2 DEF Fill, watch
  <2> HIDE DEF x, y
  <2> QED BY <2>2, <2>3
<1>3. CASE \E x \in tree : Remove(x)
  <2>1. PICK x \in tree : Remove(x)
    BY <1>3
  <2>2. writer.id \in removed /\ x.id = writer.id /\ removed' = removed
    BY <2>1 DEF Remove, WriterInv, watch
  <2>3. tree \ {x} \subseteq tree'
    BY <2>1 DEF Remove
  <2> QED BY <2>2, <2>3
<1>4. CASE EndDelete \/ (\E id \in Ids : AskDelete(id)) \/ TemplateCrash \/ Threads
  <2>1. tree' = tree /\ removed \subseteq removed'
    BY <1>4 DEF EndDelete, AskDelete, TemplateCrash, Threads, CreateRun, Scan, LoadAll, Pick, Read,
                ThreadOnly, web, watch
  <2> QED BY <2>1
<1> QED BY <1>1, <1>2, <1>3, <1>4, StepCases

\* Each run keeps to the text it was created with, or a newer one, and then to the one it
\* has recorded.
LEMMA LineStep ==
    ASSUME TitlesAssumption, Typed, TreeInv, WriterInv, Fresh, LineInv, TemplateNext
    PROVE  LineInv'
<1>0. /\ removed \subseteq removed'
      /\ \A x \in tree : x.id \notin removed' =>
            \E y \in tree' : y.id = x.id /\ y.v = x.v /\ y.born = x.born
  BY VersionsKept
<1>1. \A j : Line(j) /\ j.want \notin removed' => Line(j)'
  BY <1>0, LineKept
<1>2. CASE Begin \/ Fill \/ EndDelete \/ (\E id \in Ids : AskDelete(id))
           \/ (\E x \in tree : Remove(x))
  <2>1. thread' = thread
    BY <1>2 DEF Begin, Started, Fill, EndDelete, AskDelete, Remove
  <2> QED BY <1>0, <1>1, <2>1 DEF LineInv
<1>3. CASE TemplateCrash
  <2>1. \A r \in Formalizers : thread'[r] = thread[r] \/ thread'[r].pc = "absent"
    BY <1>3 DEF TemplateCrash, NoThread
  <2> QED BY <1>0, <1>1, <2>1 DEF LineInv
<1>4. CASE Threads
  <2>1. PICK r \in Formalizers :
          (\E id \in Wants : CreateRun(r, id)) \/ Scan(r) \/ LoadAll(r) \/ Pick(r) \/ Read(r)
    BY <1>4, Zenon DEF Threads
  <2> DEFINE j == thread[r]
  <2>2. j \in Job /\ DOMAIN thread = Formalizers
    BY DEF Typed
  <2>3. removed' = removed
    BY <1>4 DEF Threads, CreateRun, Scan, LoadAll, Pick, Read, ThreadOnly, watch
  <2>5. \E k : /\ thread' = [thread EXCEPT ![r] = k]
               /\ k.pc # "failed" /\ k.want \notin removed => Line(k)
    <3>1. CASE \E id \in Wants : CreateRun(r, id)
      <4>1. PICK id \in Wants : CreateRun(r, id)
        BY <3>1
      <4> DEFINE k == [j EXCEPT !.pc = "scan", !.want = id,
                         !.seen = IF FromUser(id) /\ id \in Known THEN Newest(id).born ELSE 0]
      <4>2. thread' = [thread EXCEPT ![r] = k]
        BY <4>1, Zenon DEF CreateRun
      <4>3. j = NoThread
        BY <4>1 DEF CreateRun, Fresh
      <4>4. /\ k.pc = "scan" /\ k.want = id /\ k.resolved = 0 /\ k.used = 0
            /\ k.phase = "resolve"
            /\ k.seen = IF FromUser(id) /\ id \in Known THEN Newest(id).born ELSE 0
        BY <4>3 DEF NoThread
      <4>5. id # System => FromUser(id) /\ id \in Known /\ Newest(id) \in tree /\ Newest(id).id = id
        BY <4>1, LatestIsLast DEF CreateRun, FromUser, Known
      <4>6. id = System => ~FromUser(id)
        BY DEF FromUser
      <4> HIDE DEF k
      <4>7. Line(k)
        BY <4>4, <4>5, <4>6 DEF Line
      <4> QED BY <4>2, <4>7
    <3>2. CASE Scan(r)
      <4> DEFINE k == [j EXCEPT !.pc = "loadall",
                                !.found = {<<id, MaxOf(Vs(id))>> : id \in Known}]
      <4>1. thread' = [thread EXCEPT ![r] = k] /\ j.pc = "scan"
        BY <3>2, Zenon DEF Scan
      <4>2. /\ k.pc = "loadall" /\ k.want = j.want /\ k.phase = j.phase /\ k.v = j.v
            /\ k.seen = j.seen /\ k.resolved = j.resolved /\ k.used = j.used
        BY <2>2 DEF Job
      <4>3. j.want \notin removed => Line(j)
        BY <4>1 DEF LineInv
      <4> HIDE DEF k
      <4>4. k.want \notin removed => Line(k)
        BY <4>2, <4>3 DEF Line
      <4> QED BY <4>1, <4>4
    <3>3. CASE LoadAll(r)
      <4> DEFINE k == [j EXCEPT !.pc = "pick"]
      <4>1. CASE thread' = [thread EXCEPT ![r] = Failed(j)]
        <5>1. Failed(j).pc = "failed"
          BY <2>2 DEF Failed, Job
        <5> QED BY <4>1, <5>1
      <4>2. CASE thread' = [thread EXCEPT ![r] = k]
        <5>1. /\ k.pc = "pick" /\ k.want = j.want /\ k.phase = j.phase /\ k.v = j.v
              /\ k.seen = j.seen /\ k.resolved = j.resolved /\ k.used = j.used
          BY <2>2 DEF Job
        <5>2. j.want \notin removed => Line(j)
          BY <3>3 DEF LineInv, LoadAll
        <5> HIDE DEF k
        <5>3. k.want \notin removed => Line(k)
          BY <5>1, <5>2 DEF Line
        <5> QED BY <4>2, <5>3
      <4> QED BY <3>3, <4>1, <4>2, Zenon DEF LoadAll, To
    <3>4. CASE Pick(r) /\ j.want \notin removed
      <4>1. Line(j)
        BY <3>4 DEF LineInv, Pick
      <4> QED BY <3>4, <4>1, LinePick
    <3>5. CASE Read(r) /\ j.want \notin removed
      <4>1. Line(j)
        BY <3>5 DEF LineInv, Read
      <4> QED BY <3>5, <4>1, LineRead
    <3>6. CASE (Pick(r) \/ Read(r)) /\ j.want \in removed
      <4>1. \E k : thread' = [thread EXCEPT ![r] = k] /\ k.want = j.want
        <5>1. Failed(j).want = j.want /\ \A b : Loaded(j, b).want = j.want
          BY <2>2 DEF Failed, Loaded, Job
        <5>2. \A p : [j EXCEPT !.pc = "read", !.pick = p].want = j.want
          BY <2>2 DEF Job
        <5>3. CASE Pick(r)
          BY <5>1, <5>2, <5>3, Zenon DEF Pick
        <5>4. CASE Read(r)
          BY <5>1, <5>4, Zenon DEF Read
        <5> QED BY <3>6, <5>3, <5>4
      <4> QED BY <3>6, <4>1
    <3> QED BY <2>1, <3>1, <3>2, <3>3, <3>4, <3>5, <3>6
  <2>6. PICK k : /\ thread' = [thread EXCEPT ![r] = k]
                 /\ k.pc # "failed" /\ k.want \notin removed => Line(k)
    BY <2>5
  <2>7. \A q \in Formalizers : thread'[q] = IF q = r THEN k ELSE thread[q]
    BY <2>2, <2>6
  <2> QED BY <1>1, <2>3, <2>6, <2>7 DEF LineInv
<1> QED BY <1>2, <1>3, <1>4, StepCases

-----------------------------------------------------------------------------
\* The invariant holds of an empty store.
LEMMA IInvInit ==
    ASSUME TemplateBoundsAssumption, TemplateInit
    PROVE  IInv
<1>1. NoThread \in Job
  BY DEF NoThread, Job, Places, NextPhase
<1>2. Typed
  BY <1>1 DEF TemplateInit, Typed, NoWrite, NoThread, Texts, TemplateBoundsAssumption
<1>3. TreeInv /\ WriterInv
  BY DEF TemplateInit, TreeInv, WriterInv, NoWrite
<1>4. Fresh /\ CalmInv /\ LineInv /\ TemplateFailuresExplained
  BY DEF TemplateInit, Fresh, CalmInv, LineInv, TemplateFailuresExplained, Working, NoThread
<1> QED BY <1>2, <1>3, <1>4 DEF IInv

\* Every step keeps it.
LEMMA IInvStep ==
    ASSUME TitlesAssumption, TemplateBoundsAssumption, IInv, [TemplateNext]_templateVars
    PROVE  IInv'
<1>1. CASE TemplateNext
  <2>1. Typed' /\ TreeInv' /\ WriterInv'
    BY <1>1, TypedStep, TreeStep, WriterStep DEF IInv
  <2>2. Fresh' /\ CalmInv' /\ TemplateFailuresExplained' /\ LineInv'
    BY <1>1, FreshStep, CalmStep, LineStep DEF IInv
  <2> QED BY <2>1, <2>2 DEF IInv
<1>2. CASE UNCHANGED templateVars
  <2>1. Typed' /\ TreeInv' /\ WriterInv' /\ Fresh'
    BY <1>2 DEF templateVars, IInv, Typed, TreeInv, WriterInv, Fresh
  <2>2. TemplateFailuresExplained'
    BY <1>2 DEF templateVars, IInv, TemplateFailuresExplained
  <2>3. \A id : Vs(id)' = Vs(id)
    BY <1>2 DEF templateVars, Vs
  <2>4. Known' = Known
    BY <1>2, <2>3 DEF templateVars, Known
  <2>5. \A id, v : VersionAt(id, v)' = VersionAt(id, v)
    BY <1>2 DEF templateVars, VersionAt
  <2>6. \A id : Newest(id)' = Newest(id)
    BY <2>3, <2>5 DEF Newest
  <2>7. Discoverable' = Discoverable
    BY <2>4, <2>6 DEF Discoverable
  <2>8. \A j : Calm(j) => Calm(j)'
    BY <1>2, <2>3, <2>4, <2>6, <2>7 DEF templateVars, Calm
  <2>9. CalmInv'
    BY <1>2, <2>8 DEF templateVars, IInv, CalmInv, Working
  <2>10. \A j : Line(j) => Line(j)'
    BY <1>2 DEF templateVars, Line, Has
  <2>11. LineInv'
    BY <1>2, <2>10 DEF templateVars, IInv, LineInv
  <2> QED BY <2>1, <2>2, <2>9, <2>11 DEF IInv
<1> QED BY <1>1, <1>2

\* The parts of the invariant hold in every state, however many templates, runs, versions
\* and ends of the process there are.
THEOREM TemplatesInvariance ==
    ASSUME TitlesAssumption, TemplateBoundsAssumption
    PROVE  TemplateSpec => []IInv
<1>1. TemplateInit => IInv
  BY IInvInit
<1>2. IInv /\ [TemplateNext]_templateVars => IInv'
  BY IInvStep
<1> QED BY <1>1, <1>2, PTL DEF TemplateSpec

\* It gives everything its type.
LEMMA IInvTypes ==
    ASSUME IInv
    PROVE  TemplateTypeOK
<1>1. \A x \in tree : x.id \in dirs /\ x.v \in Nat \ {0} /\ x.stage \in Stages
                      /\ x.text \in Texts /\ x.born \in 1..born
  BY DEF IInv, Typed, TreeInv, Version
<1> QED BY <1>1 DEF IInv, Typed, TemplateTypeOK, Job

\* Everything a template, a handler and a run's thread hold has its type, and a version is
\* of a template that has a directory.
THEOREM TemplatesTyped ==
    ASSUME TitlesAssumption, TemplateBoundsAssumption
    PROVE  TemplateSpec => []TemplateTypeOK
BY TemplatesInvariance, IInvTypes, PTL

\* It explains what cannot be listed, and who fails.
LEMMA IInvExplains ==
    ASSUME IInv
    PROVE  FailuresExplained
<1>1. ASSUME ~Discoverable, writer = NoWrite, ~torn
      PROVE  FALSE
  <2>1. PICK id \in Known : Newest(id).stage = "dir"
    BY <1>1 DEF Discoverable
  <2>2. Newest(id) \in tree
    BY <2>1, LatestIsLast DEF Known, IInv
  <2> QED BY <1>1, <2>1, <2>2 DEF IInv, WriterInv, NoWrite
<1> QED BY <1>1 DEF FailuresExplained, DiscoveryFailsOnlyTorn, IInv

\* The templates of a mode can be listed unless one is being written or deleted or a process
\* ended in the middle of that, and a run fails on its template only if one was written or
\* deleted while it was at work.
THEOREM TemplateFailuresAlwaysExplained ==
    ASSUME TitlesAssumption, TemplateBoundsAssumption
    PROVE  TemplateSpec => []FailuresExplained
BY TemplatesInvariance, IInvExplains, PTL

\* It keeps the texts of runs that are done.
LEMMA IInvKeeps ==
    ASSUME IInv
    PROVE  TextsKept
<1>1. ASSUME NEW r \in Formalizers, thread[r].pc = "done", thread[r].want \notin removed
      PROVE  /\ thread[r].used = thread[r].resolved
             /\ thread[r].used >= thread[r].seen
  <2>1. Line(thread[r])
    BY <1>1 DEF IInv, LineInv
  <2> QED BY <1>1, <2>1 DEF Line
<1> QED BY <1>1 DEF TextsKept, LineageKept, NeverOlder

\* Unless its template has been deleted, a run is formalized by the very text whose version
\* it recorded, and by none older than the one it was created with.
THEOREM TextsAlwaysKept ==
    ASSUME TitlesAssumption, TemplateBoundsAssumption
    PROVE  TemplateSpec => []TextsKept
BY TemplatesInvariance, IInvKeeps, PTL
=============================================================================
