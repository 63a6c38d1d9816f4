----------------------------- MODULE LibraryProofs -----------------------------
(***************************************************************************)
(* For any sessions, runs, plans, requests, faults and crashes: the tables *)
(* of the index stay consistent, and what was deleted is gone but for the  *)
(* exceptions that are named.                                              *)
(***************************************************************************)
EXTENDS Library, TLAPS

Kinds == {"none", "run", "version", "session", "map"}
Places == {"idle", "remove", "rows", "next", "versionrows", "runs", "contributions",
           "overlays", "refresh"}
DiskRec == [manifest : BOOLEAN, transcript : BOOLEAN, doc : Doc]
SesRec == [manifest : BOOLEAN, state : BOOLEAN, versions : SUBSET Runs, mapped : SUBSET Runs,
           active : SUBSET Runs]
KeptRec == [contributions : SUBSET Sessions, overlays : SUBSET Sessions]
Request == [kind : Kinds, at : Places, session : SUBSET Sessions, version : SUBSET Runs,
            todo : SUBSET Runs, now : SUBSET Runs, gone : SUBSET Runs]
Excuses == [raced : SUBSET Runs, faulty : SUBSET Runs, renamed : SUBSET Runs,
            moved : SUBSET Runs, late : SUBSET Runs]

Typed ==
    /\ plan \in [uses : [Runs -> Runs], visible : SUBSET Runs]
    /\ disk \in [Runs -> DiskRec] /\ ses \in [Sessions -> SesRec]
    /\ kept \in KeptRec /\ index \in Index
    /\ pc \in [Runs -> Labels] /\ held \in [Runs -> Doc]
    /\ op \in Request
    /\ confirmed \in [runs : SUBSET Runs, sessions : SUBSET Sessions]
    /\ excused \in Excuses
    /\ nOps \in 0..MaxOps /\ nFaults \in 0..MaxFaults /\ nCrashes \in 0..MaxCrashes

\* The request at hand is one of four kinds, each with its own places.
OpInv ==
    /\ op.kind = "none" => op = NoOp
    /\ op.kind = "run" =>
          /\ op.at \in {"remove", "rows"} /\ op.gone = {}
          /\ \E r \in Runs : op.now = {r}
    /\ op.kind = "version" =>
          /\ op.at \in {"next", "remove", "rows", "versionrows"}
          /\ op.at \in {"next", "versionrows"} => op.now = {}
    /\ op.kind = "session" =>
          /\ op.at \in {"runs", "contributions", "overlays", "rows"} /\ op.now = {}
    /\ op.kind = "map" =>
          /\ op.at = "refresh" /\ op.now = {} /\ op.gone = {}
          /\ \A v \in op.version : Version(v)

Lost(r) == r \in excused.raced \cup excused.faulty

\* A thread at work has its manifest, unless it raced with a removal or that failed; and
\* so has a directory.
DirsInv ==
    \A r \in Runs : /\ Live(r) => disk[r].manifest \/ Lost(r)
                    /\ Here(r) => disk[r].manifest \/ Lost(r)

\* The rows of what is gone are explained, if not yet by an exception then by the request
\* at hand; a version's cascade has deleted them by the time it goes on.
RowsInv ==
    \A r \in Indexed(index) :
        \/ disk[r].manifest \/ Lost(r) \/ r \in excused.renamed \cup op.now
        \/ op.kind = "session" /\ r \in op.gone

\* How far a deletion of a session has come: what it has passed stays gone.
Unraced(s) == RunsOf(s) \cap excused.raced = {}
Idle(s) == \A r \in RunsOf(s) : ~Live(r)
ClearInv ==
    \A s \in Sessions : op.kind = "session" /\ op.session = {s} =>
        /\ \A r \in RunsOf(s) : Here(r) => Lost(r) \/ (op.at = "runs" /\ r \in op.todo)
        /\ op.at # "runs" /\ Unraced(s) => ~SessionHere(s) /\ Idle(s)
        /\ op.at \in {"overlays", "rows"} => s \notin kept.contributions
        /\ op.at = "rows" => s \notin kept.overlays

\* And what was confirmed can come back by nothing but a thread that was at work.
Gone(s) ==
    /\ ~SessionHere(s) /\ Idle(s)
    /\ s \notin kept.contributions \cup kept.overlays \cup index.sessions
    /\ \A r \in RunsOf(s) : /\ Here(r) => r \in excused.faulty
                            /\ r \notin Indexed(index)
ConfirmedInv == \A s \in confirmed.sessions : Unraced(s) => Gone(s)

IInv == /\ Typed /\ TablesConsistent /\ OpInv /\ DirsInv /\ RowsInv /\ ClearInv
        /\ ConfirmedInv

-----------------------------------------------------------------------------
(* What each transaction does to the index.                                *)

Consistent(ix) == ix \in Index /\ ForeignKeysHold(ix) /\ TablesAgree(ix)

LEMMA IngestKeeps ==
    ASSUME NEW ix, Consistent(ix), NEW r \in Runs, NEW status \in RunStatuses,
           NEW source \in Sources, NEW named \in BOOLEAN
    PROVE  /\ Consistent(Ingested(ix, r, status, source, named))
           /\ Indexed(Ingested(ix, r, status, source, named)) = Indexed(ix) \cup {r}
           /\ Ingested(ix, r, status, source, named).sessions = ix.sessions \cup {SessionOf[r]}
<1> DEFINE new == Ingested(ix, r, status, source, named)
<1>1. /\ new.sessions = ix.sessions \cup {SessionOf[r]}
      /\ new.status = [ix.status EXCEPT ![r] = status]
      /\ new.segs = [ix.segs EXCEPT ![r] = source]
      /\ new.fts = ix.fts \cup {r}
      /\ new.maps = IF named THEN ix.maps \cup {r} ELSE ix.maps \ {r}
  BY DEF Consistent, Index, Ingested
<1>2. new \in Index
  <2>1. /\ new.sessions \in SUBSET Sessions
        /\ new.status \in [Runs -> RunStatuses \cup {NoRow}]
        /\ new.segs \in [Runs -> Sources \cup {NoRow}]
        /\ new.fts \in SUBSET Runs /\ new.maps \in SUBSET Runs
    BY <1>1, SessionOfAssumption DEF Consistent, Index
  <2> QED BY <2>1, Zenon DEF Consistent, Index, Ingested
<1> HIDE DEF new
<1>3. /\ Segmented(new) = Segmented(ix) \cup {r} /\ Indexed(new) = Indexed(ix) \cup {r}
  BY <1>1, <1>2, NoRowAssumption DEF Consistent, Index, Segmented, Indexed
<1>4. ForeignKeysHold(new) /\ TablesAgree(new)
  BY <1>1, <1>3 DEF Consistent, ForeignKeysHold, TablesAgree
<1> QED BY <1>1, <1>2, <1>3, <1>4 DEF Consistent, new

LEMMA RefreshKeeps ==
    ASSUME NEW ix, Consistent(ix), NEW r \in Runs, NEW named \in BOOLEAN
    PROVE  /\ Consistent(Refreshed(ix, r, named))
           /\ Indexed(Refreshed(ix, r, named)) = Indexed(ix) \cup {r}
           /\ Refreshed(ix, r, named).sessions = ix.sessions \cup {SessionOf[r]}
<1> DEFINE new == Refreshed(ix, r, named)
<1>1. /\ new.sessions = ix.sessions \cup {SessionOf[r]}
      /\ new.status = [ix.status EXCEPT ![r] = "succeeded"]
      /\ new.segs = ix.segs /\ new.fts = ix.fts
      /\ new.maps = IF named THEN ix.maps \cup {r} ELSE ix.maps \ {r}
  BY DEF Consistent, Index, Refreshed
<1>2. new \in Index
  <2>1. /\ new.sessions \in SUBSET Sessions
        /\ new.status \in [Runs -> RunStatuses \cup {NoRow}]
        /\ new.segs \in [Runs -> Sources \cup {NoRow}]
        /\ new.fts \in SUBSET Runs /\ new.maps \in SUBSET Runs
    BY <1>1, SessionOfAssumption DEF Consistent, Index, RunStatuses
  <2> QED BY <2>1, Zenon DEF Consistent, Index, Refreshed
<1> HIDE DEF new
<1>3. Segmented(new) = Segmented(ix) /\ Indexed(new) = Indexed(ix) \cup {r}
  BY <1>1, <1>2, NoRowAssumption DEF Consistent, Index, Segmented, Indexed, RunStatuses
<1>4. ForeignKeysHold(new) /\ TablesAgree(new)
  BY <1>1, <1>3 DEF Consistent, ForeignKeysHold, TablesAgree
<1> QED BY <1>1, <1>2, <1>3, <1>4 DEF Consistent, new

LEMMA DeleteKeeps ==
    ASSUME NEW ix, Consistent(ix), NEW rs \in SUBSET Runs
    PROVE  /\ Consistent(WithoutRuns(ix, rs))
           /\ Indexed(WithoutRuns(ix, rs)) = Indexed(ix) \ rs
           /\ WithoutRuns(ix, rs).sessions = ix.sessions
<1> DEFINE new == WithoutRuns(ix, rs)
<1>1. /\ new.sessions = ix.sessions
      /\ new.status = [r \in Runs |-> IF r \in rs THEN NoRow ELSE ix.status[r]]
      /\ new.segs = [r \in Runs |-> IF r \in rs THEN NoRow ELSE ix.segs[r]]
      /\ new.fts = ix.fts \ rs /\ new.maps = ix.maps \ rs
  BY DEF Consistent, Index, WithoutRuns
<1>2. new \in Index
  <2>1. /\ new.sessions \in SUBSET Sessions
        /\ new.status \in [Runs -> RunStatuses \cup {NoRow}]
        /\ new.segs \in [Runs -> Sources \cup {NoRow}]
        /\ new.fts \in SUBSET Runs /\ new.maps \in SUBSET Runs
    BY <1>1 DEF Consistent, Index
  <2> QED BY <2>1, Zenon DEF Consistent, Index, WithoutRuns
<1> HIDE DEF new
<1>3. Segmented(new) = Segmented(ix) \ rs /\ Indexed(new) = Indexed(ix) \ rs
  BY <1>1 DEF Segmented, Indexed
<1>4. ForeignKeysHold(new) /\ TablesAgree(new)
  BY <1>1, <1>3 DEF Consistent, ForeignKeysHold, TablesAgree
<1> QED BY <1>1, <1>2, <1>3, <1>4 DEF Consistent, new

LEMMA DeleteSessionKeeps ==
    ASSUME NEW ix, Consistent(ix), NEW s \in Sessions
    PROVE  /\ Consistent(WithoutSession(ix, s))
           /\ Indexed(WithoutSession(ix, s)) = Indexed(ix) \ RunsOf(s)
           /\ WithoutSession(ix, s).sessions = ix.sessions \ {s}
<1> DEFINE mid == WithoutRuns(ix, RunsOf(s))
<1> DEFINE new == WithoutSession(ix, s)
<1>0. RunsOf(s) \in SUBSET Runs
  BY DEF RunsOf
<1>1. /\ Consistent(mid) /\ Indexed(mid) = Indexed(ix) \ RunsOf(s)
      /\ mid.sessions = ix.sessions
  BY <1>0, DeleteKeeps
<1> HIDE DEF mid
<1>2. new = [mid EXCEPT !.sessions = @ \ {s}]
  BY DEF WithoutSession, mid
<1>3. /\ new.sessions = ix.sessions \ {s} /\ new.status = mid.status /\ new.segs = mid.segs
      /\ new.fts = mid.fts /\ new.maps = mid.maps
  BY <1>1, <1>2 DEF Consistent, Index
<1>4. new \in Index
  <2>1. mid.sessions \ {s} \in SUBSET Sessions /\ mid \in Index
    BY <1>1 DEF Consistent, Index
  <2> HIDE DEF new
  <2> QED BY <2>1, <1>2, Zenon DEF Index
<1> HIDE DEF new
<1>5. Segmented(new) = Segmented(mid) /\ Indexed(new) = Indexed(mid)
  BY <1>3 DEF Segmented, Indexed
<1>6. \A r \in Indexed(new) : SessionOf[r] \in new.sessions
  BY <1>1, <1>3, <1>5 DEF Consistent, ForeignKeysHold, RunsOf, Indexed
<1>7. ForeignKeysHold(new) /\ TablesAgree(new)
  BY <1>1, <1>3, <1>5, <1>6 DEF Consistent, ForeignKeysHold, TablesAgree
<1> QED BY <1>1, <1>3, <1>4, <1>5, <1>7 DEF Consistent, new

-----------------------------------------------------------------------------
LEMMA InitIInv == Init => IInv
<1> SUFFICES ASSUME Init PROVE IInv
  OBVIOUS
<1> USE OldAssumption, PlansAssumption, BoundsAssumption, SessionOfAssumption
<1>1. index \in Index
  <2>1. /\ {SessionOf[r] : r \in Old} \in SUBSET Sessions
        /\ [r \in Runs |-> IF r \in Old THEN "running" ELSE NoRow]
             \in [Runs -> RunStatuses \cup {NoRow}]
        /\ [r \in Runs |-> IF r \in Old THEN "json" ELSE NoRow]
             \in [Runs -> Sources \cup {NoRow}]
        /\ Old \in SUBSET Runs /\ {} \in SUBSET Runs
    BY DEF RunStatuses, Sources
  <2> QED BY <2>1, Zenon DEF Init, Index
<1>2. /\ plan \in [uses : [Runs -> Runs], visible : SUBSET Runs]
      /\ kept \in KeptRec /\ pc \in [Runs -> Labels] /\ op \in Request
      /\ confirmed \in [runs : SUBSET Runs, sessions : SUBSET Sessions]
      /\ excused \in Excuses
      /\ nOps \in 0..MaxOps /\ nFaults \in 0..MaxFaults /\ nCrashes \in 0..MaxCrashes
  BY DEF Init, KeptRec, Labels, Request, NoOp, Kinds, Places, Excuses
<1>3. Fresh \in Doc /\ \A r \in Runs : Succeeded(r) \in Doc
  BY <1>2 DEF Fresh, Succeeded, Doc, RunStatuses, Makes
<1>4. disk \in [Runs -> DiskRec] /\ held \in [Runs -> Doc]
  BY <1>3 DEF Init, DiskRec
<1>5. ses \in [Sessions -> SesRec]
  BY DEF Init, SesRec, RunsOf, Newest
<1>6. Indexed(index) = Old /\ Segmented(index) = Old
  BY NoRowAssumption DEF Init, Indexed, Segmented, RunStatuses, Sources
<1>7. TablesConsistent
  BY <1>6 DEF Init, TablesConsistent, ForeignKeysHold, TablesAgree
<1>8. OpInv /\ ClearInv /\ ConfirmedInv
  BY DEF Init, OpInv, ClearInv, ConfirmedInv, NoOp
<1>9. DirsInv /\ RowsInv
  BY <1>6 DEF Init, DirsInv, RowsInv, Live, Here
<1> QED BY <1>1, <1>2, <1>4, <1>5, <1>7, <1>8, <1>9 DEF IInv, Typed

-----------------------------------------------------------------------------
(* What a step of a thread may do to what the others see.                  *)

Effect(r) ==
    /\ Live(r)
    /\ op' = op /\ kept' = kept /\ confirmed' = confirmed
    /\ \A q \in Runs \ {r} : pc'[q] = pc[q] /\ disk'[q] = disk[q]
    /\ disk[r].manifest => disk'[r].manifest
    /\ excused'.raced = excused.raced /\ excused'.faulty = excused.faulty
    /\ excused'.renamed = excused.renamed
    /\ \A s \in Sessions \ {SessionOf[r]} : ses'[s] = ses[s]
    /\ \A s \in Sessions : ses[s].versions \subseteq ses'[s].versions
    /\ ForeignKeysHold(index') /\ TablesAgree(index')
    /\ Indexed(index') \subseteq Indexed(index) \cup {r}
    /\ index'.sessions \subseteq index.sessions \cup {SessionOf[r]}

LEMMA EffectKeeps ==
    ASSUME IInv, NEW r \in Runs, Effect(r), Typed'
    PROVE  IInv'
<1> USE SessionOfAssumption DEF IInv
<1>1. TablesConsistent'
  BY DEF Effect, TablesConsistent
<1>2. OpInv'
  <2>1. \A v \in op.version : Version(v) => Version(v)'
    BY DEF Effect, Version, Typed, Request
  <2> QED BY <2>1 DEF Effect, OpInv, NoOp
<1>3. \A q \in Runs : /\ Lost(q)' <=> Lost(q)
                      /\ disk[q].manifest => disk'[q].manifest
                      /\ q # r => (Live(q)' <=> Live(q)) /\ (Here(q)' <=> Here(q))
  BY DEF Effect, Lost, Live, Here
<1>4. disk[r].manifest \/ Lost(r)
  BY DEF DirsInv, Effect
<1>5. DirsInv'
  BY <1>3, <1>4 DEF DirsInv, Here
<1>6. RowsInv'
  <2>1. \A q \in Indexed(index') : q \in Runs /\ (q = r \/ q \in Indexed(index))
    BY DEF Effect, Indexed
  <2> QED BY <2>1, <1>3, <1>4 DEF RowsInv, Effect
<1>7. \A s \in Sessions : /\ Unraced(s)' <=> Unraced(s)
                          /\ Idle(s) => s # SessionOf[r]
                          /\ Idle(s) => Idle(s)'
                          /\ s # SessionOf[r] => (SessionHere(s)' <=> SessionHere(s))
  BY <1>3 DEF Unraced, Idle, Effect, RunsOf, SessionHere
<1>8. ClearInv'
  <2> SUFFICES ASSUME NEW s \in Sessions, op.kind = "session", op.session = {s}
               PROVE  /\ \A q \in RunsOf(s) :
                           Here(q)' => Lost(q) \/ (op.at = "runs" /\ q \in op.todo)
                      /\ op.at # "runs" /\ Unraced(s) => ~SessionHere(s)' /\ Idle(s)'
                      /\ op.at \in {"overlays", "rows"} => s \notin kept.contributions
                      /\ op.at = "rows" => s \notin kept.overlays
    <3>1. \A s \in Sessions : RunsOf(s) \subseteq Runs
      BY DEF RunsOf
    <3> QED BY <3>1, <1>3, <1>7 DEF ClearInv, Effect
  <2>1. ASSUME NEW q \in RunsOf(s), Here(q)'
        PROVE  Lost(q) \/ (op.at = "runs" /\ q \in op.todo)
    BY <2>1, <1>3, <1>4 DEF ClearInv, Here, RunsOf
  <2> QED BY <2>1, <1>7 DEF ClearInv
<1>9. ConfirmedInv'
  <2> SUFFICES ASSUME NEW s \in confirmed.sessions, Unraced(s)
               PROVE  Gone(s)'
    <3>1. \A s \in confirmed.sessions : s \in Sessions
      BY DEF Typed
    <3> QED BY <3>1, <1>7 DEF ConfirmedInv, Effect
  <2>0. s \in Sessions /\ Gone(s)
    BY DEF Typed, ConfirmedInv
  <2>1. Idle(s) /\ s # SessionOf[r]
    BY <2>0, <1>7 DEF Gone
  <2>2. \A q \in RunsOf(s) : q \in Runs \ {r}
    BY <2>1 DEF RunsOf
  <2>3. \A q \in RunsOf(s) : Here(q)' => q \in excused.faulty
    BY <2>0, <2>2, <1>3 DEF Gone
  <2>4. \A q \in RunsOf(s) : q \notin Indexed(index')
    BY <2>0, <2>2 DEF Gone, Effect
  <2>5. s \notin index'.sessions
    BY <2>0, <2>1 DEF Gone, Effect
  <2> QED BY <2>0, <2>1, <2>3, <2>4, <2>5, <1>7 DEF Gone, Effect
<1> QED BY <1>1, <1>2, <1>5, <1>6, <1>8, <1>9

LEMMA Documents ==
    ASSUME Typed
    PROVE  /\ Fresh \in Doc /\ [Fresh EXCEPT !.status = "failed"] \in Doc
           /\ \A d \in Doc : Running(d) \in Doc
           /\ \A r \in Runs : Succeeded(r) \in Doc /\ disk[r].doc \in Doc /\ held[r] \in Doc
<1>1. \A r \in Runs : disk[r].doc \in Doc /\ held[r] \in Doc
  BY DEF Typed, DiskRec
<1>2. \A r \in Runs : Succeeded(r) \in Doc
  BY DEF Typed, Succeeded, Doc, RunStatuses
<1>3. \A d \in Doc : Running(d) \in Doc
  BY DEF Running, Doc, RunStatuses
<1> QED BY <1>1, <1>2, <1>3 DEF Fresh, Doc, RunStatuses

\* The steps that change where the thread is, and what it holds.
LEMMA QuietEffect ==
    ASSUME IInv, NEW r \in Runs, Live(r), NEW l \in Labels, Goto(r, l), plan' = plan,
           UNCHANGED <<disk, ses, index>>, ThreadOnly, held' \in [Runs -> Doc]
    PROVE  Effect(r) /\ Typed'
<1>1. Typed'
  BY DEF IInv, Typed, Goto, ThreadOnly, counts, watch
<1>2. ForeignKeysHold(index') /\ TablesAgree(index')
  BY DEF IInv, TablesConsistent
<1>3. \A q \in Runs \ {r} : pc'[q] = pc[q]
  BY DEF IInv, Typed, Goto
<1> QED BY <1>1, <1>2, <1>3 DEF Effect, ThreadOnly, watch, Indexed

LEMMA FailEffect ==
    ASSUME IInv, NEW r \in Runs, Live(r), Fail(r), plan' = plan
    PROVE  Effect(r) /\ Typed'
<1>1. held' \in [Runs -> Doc] /\ "finish" \in Labels
  BY Documents DEF IInv, Typed, Fail, Labels
<1> QED BY <1>1, QuietEffect DEF Fail

LEMMA LoadEffect ==
    ASSUME IInv, NEW r \in Runs, NEW l, NEW save \in Labels, NEW doc \in Doc,
           l \notin {"absent", "done"}, LoadAt(r, l, save, doc), plan' = plan
    PROVE  Effect(r) /\ Typed'
<1>1. Live(r)
  BY DEF LoadAt, Live
<1>2. CASE Fail(r)
  BY <1>1, <1>2, FailEffect
<1>3. CASE /\ Goto(r, save) /\ held' = [held EXCEPT ![r] = doc]
           /\ UNCHANGED <<disk, ses, index>> /\ ThreadOnly
  <2>1. held' \in [Runs -> Doc]
    BY <1>3 DEF IInv, Typed
  <2> QED BY <1>1, <1>3, <2>1, QuietEffect
<1> QED BY <1>2, <1>3 DEF LoadAt

LEMMA DirEffect ==
    ASSUME IInv, NEW r \in Runs, Live(r), NEW l \in Labels, Goto(r, l), plan' = plan,
           NEW d \in DiskRec, disk' = [disk EXCEPT ![r] = d],
           disk[r].manifest => d.manifest,
           UNCHANGED <<ses, index, held>>, ThreadOnly
    PROVE  Effect(r) /\ Typed'
<1>1. disk' \in [Runs -> DiskRec] /\ pc' \in [Runs -> Labels]
  BY DEF IInv, Typed, Goto
<1>2. Typed'
  BY <1>1 DEF IInv, Typed, ThreadOnly, counts, watch
<1>3. ForeignKeysHold(index') /\ TablesAgree(index')
  BY DEF IInv, TablesConsistent
<1>4. /\ \A q \in Runs \ {r} : pc'[q] = pc[q] /\ disk'[q] = disk[q]
      /\ disk[r].manifest => disk'[r].manifest
  BY DEF IInv, Typed, Goto
<1> QED BY <1>2, <1>3, <1>4 DEF Effect, ThreadOnly, watch, Indexed

LEMMA SaveEffect ==
    ASSUME IInv, NEW r \in Runs, NEW l, NEW next \in Labels, l \notin {"absent", "done"},
           SaveAt(r, l, next), plan' = plan
    PROVE  Effect(r) /\ Typed'
<1> DEFINE d == [disk[r] EXCEPT !.manifest = TRUE, !.doc = held[r]]
<1>1. d \in DiskRec /\ d.manifest
  BY Documents, ZenonT(30) DEF IInv, Typed, DiskRec
<1>2. disk' = [disk EXCEPT ![r] = d]
  BY DEF SaveAt, IInv, Typed, DiskRec
<1> HIDE DEF d
<1> QED BY <1>1, <1>2, DirEffect DEF SaveAt, Live

LEMMA TranscribeEffect ==
    ASSUME IInv, NEW r \in Runs, Transcribe(r), plan' = plan
    PROVE  Effect(r) /\ Typed'
<1>1. Live(r)
  BY DEF Transcribe, Live
<1>2. CASE Fail(r)
  BY <1>1, <1>2, FailEffect
<1>3. CASE /\ disk' = [disk EXCEPT ![r].transcript = TRUE]
           /\ Goto(r, IF Makes(r) THEN "emit" ELSE "read")
           /\ UNCHANGED <<ses, index, held>> /\ ThreadOnly
  <2> DEFINE d == [disk[r] EXCEPT !.transcript = TRUE]
  <2>1. d \in DiskRec /\ d.manifest = disk[r].manifest
    BY DEF IInv, Typed, DiskRec
  <2>2. disk' = [disk EXCEPT ![r] = d]
    BY <1>3 DEF IInv, Typed, DiskRec
  <2>3. (IF Makes(r) THEN "emit" ELSE "read") \in Labels
    BY DEF Labels
  <2> HIDE DEF d
  <2> QED BY <1>1, <1>3, <2>1, <2>2, <2>3, DirEffect
<1> QED BY <1>2, <1>3 DEF Transcribe

LEMMA MintEffect ==
    ASSUME IInv, NEW r \in Runs, Mint(r), plan' = plan
    PROVE  Effect(r) /\ Typed'
<1> DEFINE s == SessionOf[r]
<1>1. s \in Sessions /\ Live(r)
  BY SessionOfAssumption DEF Mint, Live
<1> DEFINE names == IF ses[s].active \subseteq ses[s].mapped /\ ses[s].active # {}
                    THEN ses[s].mapped \cup {r} ELSE ses[s].mapped
<1> DEFINE x == [ses[s] EXCEPT !.state = TRUE, !.versions = @ \cup {r}, !.active = {r},
                               !.mapped = names]
<1>2. x \in SesRec /\ ses[s].versions \subseteq x.versions
  <2>1. ses[s] \in SesRec
    BY <1>1 DEF IInv, Typed
  <2>2. names \in SUBSET Runs
    BY <2>1 DEF SesRec
  <2> HIDE DEF names
  <2> QED BY <2>1, <2>2 DEF SesRec
<1>3. ses' = [ses EXCEPT ![s] = x]
  BY <1>1 DEF Mint, IInv, Typed, SesRec
<1>4. excused' \in Excuses /\ excused'.raced = excused.raced
      /\ excused'.faulty = excused.faulty /\ excused'.renamed = excused.renamed
  BY DEF Mint, IInv, Typed, Excuses, Overtaken, RunsOf
<1>5. pc' \in [Runs -> Labels] /\ \A q \in Runs \ {r} : pc'[q] = pc[q]
  BY DEF Mint, Goto, IInv, Typed, Labels
<1> HIDE DEF x, s
<1>6. ses' \in [Sessions -> SesRec]
  BY <1>1, <1>2, <1>3 DEF IInv, Typed
<1>7. Typed'
  BY <1>4, <1>5, <1>6 DEF Mint, IInv, Typed, counts
<1>8. ForeignKeysHold(index') /\ TablesAgree(index')
  BY DEF Mint, IInv, TablesConsistent
<1>9. \A t \in Sessions : /\ t # s => ses'[t] = ses[t]
                          /\ ses[t].versions \subseteq ses'[t].versions
  BY <1>1, <1>2, <1>3 DEF IInv, Typed
<1> QED BY <1>1, <1>4, <1>5, <1>7, <1>8, <1>9 DEF Effect, Mint, Indexed, s

LEMMA CommitEffect ==
    ASSUME IInv, NEW r \in Runs, Commit(r), plan' = plan
    PROVE  Effect(r) /\ Typed'
<1>1. disk[r].doc.status \in RunStatuses
  BY Documents DEF IInv, Doc
<1>2. TranscriptSource({"json"}, {"json"}) \in Sources
  BY DEF TranscriptSource, Sources
<1>3. NamesFound(SessionOf[r]) \in BOOLEAN
  BY DEF NamesFound
<1>4. Consistent(index)
  BY DEF IInv, Typed, TablesConsistent, Consistent
<1>5. /\ Consistent(index') /\ Indexed(index') = Indexed(index) \cup {r}
      /\ index'.sessions = index.sessions \cup {SessionOf[r]}
  BY <1>1, <1>2, <1>3, <1>4, IngestKeeps DEF Commit
<1>6. pc' \in [Runs -> Labels] /\ \A q \in Runs \ {r} : pc'[q] = pc[q]
  BY DEF Commit, Goto, IInv, Typed, Labels
<1>7. Typed'
  BY <1>5, <1>6 DEF Consistent, Commit, IInv, Typed, ThreadOnly, counts, watch
<1> QED BY <1>5, <1>6, <1>7 DEF Effect, Commit, Live, ThreadOnly, watch, Consistent

LEMMA ThreadEffect ==
    ASSUME IInv, NEW r \in Runs, Thread(r), plan' = plan
    PROVE  Effect(r) /\ Typed'
<1>1. {"save_start", "transcribe", "mint", "save_record", "read", "commit", "receipt",
       "finish", "save_finish", "done"} \subseteq Labels
  BY DEF Labels
<1>2. Running(disk[r].doc) \in Doc /\ disk[r].doc \in Doc /\ Succeeded(r) \in Doc
  BY Documents DEF IInv
<1>3. CASE LoadAt(r, "start", "save_start", Running(disk[r].doc))
  BY <1>3, <1>1, <1>2, LoadEffect
<1>4. CASE LoadAt(r, "record", "save_record", disk[r].doc)
  BY <1>4, <1>1, <1>2, LoadEffect
<1>5. CASE \/ SaveAt(r, "save_start", "transcribe") \/ SaveAt(r, "save_record", "read")
           \/ SaveAt(r, "save_finish", "done")
  BY <1>5, <1>1, SaveEffect
<1>6. CASE Emit(r) \/ Read(r) \/ Receipt(r) \/ Render(r) \/ Finish(r)
  <2>1. Live(r)
    BY <1>6 DEF Emit, Read, Receipt, Render, Finish, Live
  <2>2. CASE Fail(r)
    BY <2>1, <2>2, FailEffect
  <2>3. CASE \E l \in Labels : /\ Goto(r, l) /\ held' \in [Runs -> Doc]
                               /\ UNCHANGED <<disk, ses, index>> /\ ThreadOnly
    BY <2>1, <2>3, QuietEffect
  <2>4. held \in [Runs -> Doc] /\ [held EXCEPT ![r] = Succeeded(r)] \in [Runs -> Doc]
    BY <1>2 DEF IInv, Typed
  <2>5. CASE Emit(r)
    BY <2>2, <2>3, <2>4, <2>5, <1>1 DEF Emit
  <2>6. CASE Read(r)
    BY <2>3, <2>4, <2>6, <1>1 DEF Read
  <2>7. CASE Receipt(r)
    BY <2>2, <2>3, <2>4, <2>7, <1>1 DEF Receipt
  <2>8. CASE Finish(r)
    BY <2>3, <2>4, <2>8, <1>1 DEF Finish
  <2> QED BY <1>6, <2>2, <2>5, <2>6, <2>7, <2>8 DEF Render
<1>7. CASE Transcribe(r)
  BY <1>7, TranscribeEffect
<1>8. CASE Mint(r)
  BY <1>8, MintEffect
<1>9. CASE Commit(r)
  BY <1>9, CommitEffect
<1> QED BY <1>3, <1>4, <1>5, <1>6, <1>7, <1>8, <1>9 DEF Thread

LEMMA ThreadKeeps ==
    ASSUME IInv, NEW r \in Runs, Thread(r), plan' = plan
    PROVE  IInv'
BY ThreadEffect, EffectKeeps

-----------------------------------------------------------------------------
(* Most steps of the web process, and the end of the process, take away.   *)

Takes ==
    /\ \A q \in Runs : /\ Live(q)' => Live(q)
                       /\ Here(q)' => Here(q)
                       /\ disk[q].manifest /\ (Here(q)' \/ Live(q)')
                             => disk'[q].manifest \/ Lost(q)'
    /\ excused.raced \subseteq excused'.raced /\ excused.faulty \subseteq excused'.faulty
    /\ excused.renamed \subseteq excused'.renamed
    /\ \A s \in Sessions : SessionHere(s)' => SessionHere(s)
    /\ kept'.contributions \subseteq kept.contributions
    /\ kept'.overlays \subseteq kept.overlays
    /\ index'.sessions \subseteq index.sessions /\ Indexed(index') \subseteq Indexed(index)
    /\ ForeignKeysHold(index') /\ TablesAgree(index')

Shrinks == Takes /\ confirmed'.sessions = confirmed.sessions

LEMMA TakeKeeps ==
    ASSUME IInv, Takes
    PROVE  /\ TablesConsistent' /\ DirsInv'
           /\ \A s \in Sessions : Unraced(s)' /\ Gone(s) => Gone(s)'
<1>1. TablesConsistent'
  BY DEF Takes, TablesConsistent
<1>2. \A q \in Runs : Lost(q) => Lost(q)'
  BY DEF Takes, Lost
<1>3. DirsInv'
  BY <1>2 DEF IInv, Takes, DirsInv
<1>4. \A s \in Sessions : RunsOf(s) \subseteq Runs
  BY DEF RunsOf
<1>5. \A s \in Sessions : (Unraced(s)' => Unraced(s)) /\ (Idle(s) => Idle(s)')
  BY <1>4 DEF Unraced, Idle, Takes
<1>6. \A s \in Sessions : Unraced(s)' /\ Gone(s) => Gone(s)'
  BY <1>4, <1>5 DEF Gone, Takes
<1> QED BY <1>1, <1>3, <1>6

LEMMA ShrinkKeeps ==
    ASSUME IInv, Shrinks
    PROVE  TablesConsistent' /\ DirsInv' /\ ConfirmedInv'
<1>1. \A s \in Sessions : Unraced(s)' => Unraced(s)
  BY DEF Shrinks, Takes, Unraced
<1>2. \A s \in confirmed.sessions : s \in Sessions
  BY DEF IInv, Typed
<1> QED BY <1>1, <1>2, TakeKeeps DEF IInv, ConfirmedInv, Shrinks

\* A request that ends with an error.
LEMMA AbortKeeps ==
    ASSUME IInv, NEW rs \in SUBSET Runs, Abort(rs), op.now \subseteq rs, Typed', Shrinks,
           \A q \in Runs \ rs : disk'[q] = disk[q]
    PROVE  IInv'
<1>1. op' = NoOp /\ excused'.faulty = excused.faulty \cup op.gone \cup rs
  BY DEF Abort, Answer, IInv, Typed, Excuses
<1>2. OpInv' /\ ClearInv'
  BY <1>1 DEF OpInv, ClearInv, NoOp
<1>3. RowsInv'
  <2>1. Indexed(index') \subseteq Runs
    BY DEF Indexed
  <2> QED BY <1>1, <2>1 DEF IInv, RowsInv, Shrinks, Takes, Lost
<1> QED BY <1>2, <1>3, ShrinkKeeps DEF IInv

\* A removal that raises leaves the run without a part of its directory.
LEMMA HalfRemovedKeeps ==
    ASSUME IInv, NEW r \in Runs, HalfRemoved(r), op.now \subseteq {r}, plan' = plan
    PROVE  IInv'
<1> PICK m \in BOOLEAN, t \in BOOLEAN :
        /\ disk' = [disk EXCEPT ![r].manifest = @ /\ m, ![r].transcript = @ /\ t]
        /\ Abort({r})
        /\ UNCHANGED <<ses, kept, index>>
  BY DEF HalfRemoved
<1>1. excused' \in Excuses /\ excused'.raced = excused.raced
      /\ excused'.renamed = excused.renamed
      /\ excused'.faulty = excused.faulty \cup op.gone \cup {r}
  BY DEF Abort, IInv, Typed, Excuses, Request
<1>2. /\ disk' \in [Runs -> DiskRec]
      /\ \A q \in Runs \ {r} : disk'[q] = disk[q]
      /\ disk'[r].manifest => disk[r].manifest
      /\ disk'[r].transcript => disk[r].transcript
  BY ZenonT(30) DEF IInv, Typed, DiskRec
<1>3. Typed'
  <2>1. NoOp \in Request /\ nFaults' \in 0..MaxFaults
    BY BoundsAssumption DEF NoOp, Request, Kinds, Places, Abort, Faulty, IInv, Typed
  <2> QED BY <1>1, <1>2, <2>1 DEF Abort, Answer, IInv, Typed
<1>4. Shrinks
  <2>1. \A q \in Runs : (Live(q)' <=> Live(q)) /\ (Here(q)' => Here(q))
    BY <1>2 DEF Live, Here, Abort
  <2>2. \A s \in Sessions : SessionHere(s)' => SessionHere(s)
    BY DEF SessionHere
  <2> QED BY <1>1, <1>2, <2>1, <2>2 DEF Shrinks, Takes, Lost, IInv, TablesConsistent, Abort,
                                         Indexed
<1> QED BY <1>2, <1>3, <1>4, AbortKeeps

\* A request that ends with an error and has changed nothing in this step.
LEMMA StoppedKeeps ==
    ASSUME IInv, NEW rs \in SUBSET Runs, Abort(rs), op.now \subseteq rs,
           UNCHANGED store, plan' = plan
    PROVE  IInv'
<1>1. excused' \in Excuses /\ excused'.raced = excused.raced
      /\ excused'.renamed = excused.renamed
      /\ excused'.faulty = excused.faulty \cup op.gone \cup rs
  BY DEF Abort, IInv, Typed, Excuses, Request
<1>2. Typed'
  <2>1. NoOp \in Request /\ nFaults' \in 0..MaxFaults
    BY BoundsAssumption DEF NoOp, Request, Kinds, Places, Abort, Faulty, IInv, Typed
  <2> QED BY <1>1, <2>1 DEF Abort, Answer, IInv, Typed, store
<1>3. Shrinks
  BY <1>1 DEF Shrinks, Takes, Live, Here, SessionHere, IInv, TablesConsistent, Abort, Indexed,
              store
<1> QED BY <1>2, <1>3, AbortKeeps DEF store

\* A step of a request that touches nothing the others see.
LEMMA AskShrinks ==
    ASSUME IInv, op' \in Request, UNCHANGED <<store, pc, held, nFaults, nCrashes, confirmed>>,
           nOps' \in 0..MaxOps, excused' \in Excuses, plan' = plan,
           excused'.raced = excused.raced, excused'.faulty = excused.faulty,
           excused'.renamed = excused.renamed
    PROVE  Typed' /\ Shrinks
<1>1. Typed'
  BY DEF IInv, Typed, store
<1>2. Shrinks
  BY DEF Shrinks, Takes, Live, Here, SessionHere, IInv, TablesConsistent, Indexed, store
<1> QED BY <1>1, <1>2

\* A removal of a whole directory; a thread that was at work has raced with it.
LEMMA RemovedShrinks ==
    ASSUME IInv, NEW r \in Runs, Removed(r), UNCHANGED <<ses, kept, index>>,
           op' \in Request, plan' = plan
    PROVE  /\ Typed' /\ Shrinks /\ ~Here(r)'
           /\ \A q \in Runs \ {r} : disk'[q] = disk[q]
<1>1. /\ disk' \in [Runs -> DiskRec] /\ ~disk'[r].manifest /\ ~disk'[r].transcript
      /\ \A q \in Runs \ {r} : disk'[q] = disk[q]
  BY DEF Removed, IInv, Typed, DiskRec
<1>2. /\ excused' \in Excuses /\ excused'.faulty = excused.faulty
      /\ excused'.renamed = excused.renamed
      /\ excused.raced \subseteq excused'.raced /\ (Live(r) => r \in excused'.raced)
  BY DEF Removed, IInv, Typed, Excuses
<1>3. Typed'
  BY <1>1, <1>2 DEF Removed, IInv, Typed
<1>4. ~Here(r)' /\ \A q \in Runs \ {r} : Here(q)' <=> Here(q)
  BY <1>1 DEF Here
<1>5. \A q \in Runs : Live(q)' <=> Live(q)
  BY DEF Removed, Live
<1>6. \A q \in Runs : disk[q].manifest /\ (Here(q)' \/ Live(q)')
                         => disk'[q].manifest \/ Lost(q)'
  BY <1>1, <1>2, <1>4, <1>5 DEF Lost
<1>7. Shrinks
  BY <1>2, <1>4, <1>5, <1>6
     DEF Shrinks, Takes, Removed, SessionHere, IInv, TablesConsistent, Indexed
<1> QED BY <1>1, <1>3, <1>4, <1>7

LEMMA NoOpTyped == NoOp \in Request
BY DEF Request, NoOp, Kinds, Places

-----------------------------------------------------------------------------
(* Deleting a run, or a version with the runs that depend on it.           *)

LEMMA AskDeleteRunKeeps ==
    ASSUME IInv, NEW r \in Runs, AskDeleteRun(r), plan' = plan
    PROVE  IInv'
<1>1. /\ op = NoOp /\ op' = [NoOp EXCEPT !.kind = "run", !.at = "remove", !.now = {r}]
      /\ nOps' \in 0..MaxOps /\ excused' = excused /\ confirmed' = confirmed
  BY BoundsAssumption DEF AskDeleteRun, Begin, IInv, Typed, watch
<1>2. op' \in Request
  BY <1>1 DEF NoOp, Request, Kinds, Places
<1>3. Typed' /\ Shrinks
  BY <1>1, <1>2, AskShrinks DEF AskDeleteRun, IInv, Typed
<1>4. op'.kind = "run" /\ op'.at = "remove" /\ op'.gone = {} /\ op'.now = {r}
  BY <1>1 DEF NoOp
<1>5. OpInv' /\ ClearInv'
  BY <1>4 DEF OpInv, ClearInv
<1>6. RowsInv'
  BY <1>1, <1>4 DEF IInv, RowsInv, NoOp, AskDeleteRun, store, Lost
<1> QED BY <1>3, <1>5, <1>6, ShrinkKeeps DEF IInv

LEMMA RemoveRunKeeps ==
    ASSUME IInv, NEW r \in Runs, RemoveRun(r), plan' = plan
    PROVE  IInv'
<1>1. CASE HalfRemoved(r)
  BY <1>1, HalfRemovedKeeps DEF RemoveRun
<1>2. CASE Removed(r) /\ op' = [op EXCEPT !.at = "rows"] /\ UNCHANGED <<ses, kept, index>>
  <2>1. op' \in Request
    BY <1>2 DEF IInv, Typed, Request, Places
  <2>2. /\ Typed' /\ Shrinks /\ ~Here(r)'
        /\ \A q \in Runs \ {r} : disk'[q] = disk[q]
    BY <1>2, <2>1, RemovedShrinks
  <2>3. /\ op.kind \in {"run", "version"} /\ op'.kind = op.kind /\ op'.at = "rows"
        /\ op'.now = {r} /\ op'.gone = op.gone /\ op.now = {r}
    BY <1>2 DEF RemoveRun, IInv, Typed, OpInv, Request, Kinds, NoOp
  <2>4. OpInv' /\ ClearInv'
    BY <2>3 DEF IInv, OpInv, ClearInv
  <2>5. RowsInv'
    <3>1. \A q \in Indexed(index') : q \in Indexed(index) /\ q \in Runs
      BY <1>2 DEF Indexed
    <3> QED BY <2>2, <2>3, <3>1 DEF IInv, RowsInv, Shrinks, Takes, Lost
  <2> QED BY <2>2, <2>4, <2>5, ShrinkKeeps DEF IInv
<1> QED BY <1>1, <1>2 DEF RemoveRun

LEMMA RunRowsKeeps ==
    ASSUME IInv, NEW r \in Runs, RunRows(r), plan' = plan
    PROVE  IInv'
<1>0. op.kind \in {"run", "version"} /\ op.at = "rows" /\ op.now = {r}
  BY DEF RunRows
<1>1. CASE Abort({r}) /\ UNCHANGED store
  BY <1>0, <1>1, StoppedKeeps
<1>2. CASE /\ index' = WithoutRuns(index, {r})
           /\ op' = IF op.kind = "run" THEN NoOp
                    ELSE [op EXCEPT !.at = "next", !.now = {}, !.gone = @ \cup {r}]
           /\ confirmed' = IF op.kind = "run"
                           THEN [confirmed EXCEPT !.runs = @ \cup {r}] ELSE confirmed
           /\ UNCHANGED <<disk, ses, kept, pc, held, counts, excused>>
  <2>1. Consistent(index)
    BY DEF IInv, Typed, TablesConsistent, Consistent
  <2>2. /\ Consistent(index') /\ Indexed(index') = Indexed(index) \ {r}
        /\ index'.sessions = index.sessions
    BY <1>2, <2>1, DeleteKeeps
  <2>3. op' \in Request
    BY <1>2, NoOpTyped DEF IInv, Typed, Request, Places
  <2>4. /\ confirmed' \in [runs : SUBSET Runs, sessions : SUBSET Sessions]
        /\ confirmed'.sessions = confirmed.sessions
    BY <1>2 DEF IInv, Typed
  <2>5. Typed'
    BY <1>2, <2>2, <2>3, <2>4 DEF IInv, Typed, Consistent, counts
  <2>6. Shrinks
    BY <1>2, <2>2, <2>4 DEF Shrinks, Takes, Live, Here, SessionHere, Consistent
  <2>7. CASE op.kind = "run"
    <3>1. op' = NoOp
      BY <1>2, <2>7
    <3>2. OpInv' /\ ClearInv'
      BY <3>1 DEF OpInv, ClearInv, NoOp
    <3>3. RowsInv'
      BY <1>0, <1>2, <2>2, <2>7 DEF IInv, RowsInv, Lost
    <3> QED BY <2>5, <2>6, <3>2, <3>3, ShrinkKeeps DEF IInv
  <2>8. CASE op.kind = "version"
    <3>1. op'.kind = "version" /\ op'.at = "next" /\ op'.now = {}
      BY <1>2, <2>8 DEF IInv, Typed, Request
    <3>2. OpInv' /\ ClearInv'
      BY <3>1 DEF OpInv, ClearInv
    <3>3. RowsInv'
      BY <1>0, <1>2, <2>2, <2>8 DEF IInv, RowsInv, Lost
    <3> QED BY <2>5, <2>6, <3>2, <3>3, ShrinkKeeps DEF IInv
  <2> QED BY <1>0, <2>7, <2>8
<1> QED BY <1>1, <1>2 DEF RunRows

LEMMA AskDeleteVersionKeeps ==
    ASSUME IInv, NEW v \in Runs, AskDeleteVersion(v), plan' = plan
    PROVE  IInv'
<1>1. /\ op = NoOp /\ nOps' \in 0..MaxOps /\ confirmed' = confirmed
      /\ op' = [NoOp EXCEPT !.kind = "version", !.at = "next", !.version = {v},
                            !.todo = Dependents(v)]
  BY BoundsAssumption DEF AskDeleteVersion, Begin, IInv, Typed
<1>2. Dependents(v) \in SUBSET Runs /\ {v} \in SUBSET Runs
  BY DEF Dependents, RunsOf
<1>3. op' \in Request
  BY <1>1, <1>2 DEF NoOp, Request, Kinds, Places
<1>4. /\ excused' \in Excuses /\ excused'.raced = excused.raced
      /\ excused'.faulty = excused.faulty /\ excused'.renamed = excused.renamed
  BY DEF AskDeleteVersion, IInv, Typed, Excuses, RunsOf
<1>5. Typed' /\ Shrinks
  BY <1>1, <1>3, <1>4, AskShrinks DEF AskDeleteVersion
<1>6. op'.kind = "version" /\ op'.at = "next" /\ op'.now = {}
  BY <1>1 DEF NoOp
<1>7. OpInv' /\ ClearInv'
  BY <1>6 DEF OpInv, ClearInv
<1>8. RowsInv'
  BY <1>1, <1>4, <1>6 DEF IInv, RowsInv, NoOp, AskDeleteVersion, store, Lost
<1> QED BY <1>5, <1>7, <1>8, ShrinkKeeps DEF IInv

LEMMA NextDependentKeeps ==
    ASSUME IInv, NEW r \in Runs, NextDependent(r), plan' = plan
    PROVE  IInv'
<1>1. op.kind = "version" /\ op.now = {}
  BY DEF NextDependent, Handling, IInv, OpInv
<1>2. op' \in Request
  BY DEF NextDependent, IInv, Typed, Request, Places
<1>3. Typed' /\ Shrinks
  BY <1>2, AskShrinks DEF NextDependent, counts, watch, IInv, Typed
<1>4. /\ op'.kind = "version" /\ op'.at \in {"remove", "next"}
      /\ op'.at = "next" => op'.now = {}
  BY <1>1 DEF NextDependent, Handling, IInv, Typed, Request
<1>5. OpInv' /\ ClearInv'
  BY <1>4 DEF OpInv, ClearInv
<1>6. RowsInv'
  BY <1>1, <1>4 DEF IInv, RowsInv, NextDependent, store, watch, Lost
<1> QED BY <1>3, <1>5, <1>6, ShrinkKeeps DEF IInv

LEMMA UnlinkKeeps ==
    ASSUME IInv, NEW v \in Runs, Unlink(v), plan' = plan
    PROVE  IInv'
<1> DEFINE s == SessionOf[v]
<1>1. s \in Sessions /\ op.kind = "version" /\ op.now = {}
  BY SessionOfAssumption DEF Unlink, Handling, IInv, OpInv
<1>2. op' \in Request
  BY NoOpTyped DEF Unlink, Answer, IInv, Typed, Request, Places
<1>3. ses' \in [Sessions -> SesRec] /\ \A t \in Sessions : SessionHere(t)' => SessionHere(t)
  <2>1. CASE ses' = ses
    BY <2>1 DEF IInv, Typed, SessionHere
  <2>2. CASE ses[s].manifest /\ ses' = [ses EXCEPT ![s].versions = @ \ {v}]
    BY <1>1, <2>2, SMTT(30) DEF IInv, Typed, SesRec, SessionHere
  <2> QED BY <2>1, <2>2 DEF Unlink
<1>4. Typed'
  BY <1>2, <1>3 DEF Unlink, IInv, Typed, counts, watch
<1>5. Shrinks
  BY <1>3 DEF Shrinks, Takes, Unlink, Live, Here, watch, IInv, TablesConsistent, Indexed
<1>6. /\ op' = NoOp \/ (op'.kind = "version" /\ op'.at = "versionrows")
      /\ op'.now = {}
  BY <1>1 DEF Unlink, Answer, NoOp, IInv, Typed, Request
<1>7. OpInv' /\ ClearInv'
  BY <1>6 DEF OpInv, ClearInv, NoOp
<1>8. RowsInv'
  BY <1>1, <1>6 DEF IInv, RowsInv, Unlink, watch, Lost
<1> QED BY <1>4, <1>5, <1>7, <1>8, ShrinkKeeps DEF IInv

LEMMA VersionRowsKeeps ==
    ASSUME IInv, VersionRows, plan' = plan
    PROVE  IInv'
<1>1. op.kind = "version" /\ op.now = {} /\ op.gone \in SUBSET Runs
  BY DEF VersionRows, Handling, IInv, OpInv, Typed, Request
<1>2. CASE Abort({}) /\ UNCHANGED store
  BY <1>1, <1>2, StoppedKeeps
<1>3. CASE /\ index' = WithoutRuns(index, op.gone) /\ Answer
           /\ UNCHANGED <<disk, ses, kept, pc, held, counts, watch>>
  <2>1. Consistent(index)
    BY DEF IInv, Typed, TablesConsistent, Consistent
  <2>2. /\ Consistent(index') /\ Indexed(index') = Indexed(index) \ op.gone
        /\ index'.sessions = index.sessions
    BY <1>1, <1>3, <2>1, DeleteKeeps
  <2>3. op' = NoOp /\ op' \in Request
    BY <1>3, NoOpTyped DEF Answer
  <2>4. Typed'
    BY <1>3, <2>2, <2>3 DEF IInv, Typed, Consistent, counts, watch
  <2>5. Shrinks
    BY <1>3, <2>2 DEF Shrinks, Takes, Live, Here, SessionHere, Consistent, watch
  <2>6. OpInv' /\ ClearInv'
    BY <2>3 DEF OpInv, ClearInv, NoOp
  <2>7. RowsInv'
    BY <1>1, <1>3, <2>2 DEF IInv, RowsInv, Lost, watch
  <2> QED BY <2>4, <2>5, <2>6, <2>7, ShrinkKeeps DEF IInv
<1> QED BY <1>2, <1>3 DEF VersionRows

-----------------------------------------------------------------------------
(* Deleting a session.                                                     *)

LEMMA AskDeleteSessionKeeps ==
    ASSUME IInv, NEW s \in Sessions, AskDeleteSession(s), plan' = plan
    PROVE  IInv'
<1> DEFINE dirs == {r \in RunsOf(s) : Here(r)}
<1>1. /\ op = NoOp /\ nOps' \in 0..MaxOps /\ confirmed' = confirmed /\ excused' = excused
      /\ op' = [NoOp EXCEPT !.kind = "session", !.at = "runs", !.session = {s},
                            !.todo = dirs]
      /\ UNCHANGED store
  BY BoundsAssumption DEF AskDeleteSession, Begin, IInv, Typed, watch
<1>2. dirs \in SUBSET Runs
  BY DEF RunsOf
<1>3. /\ op' \in Request
      /\ op'.kind = "session" /\ op'.at = "runs" /\ op'.now = {} /\ op'.session = {s}
      /\ op'.todo = dirs
  BY <1>1, <1>2 DEF NoOp, Request, Kinds, Places
<1>4. Typed' /\ Shrinks
  BY <1>1, <1>3, AskShrinks DEF AskDeleteSession, IInv, Typed
<1>5. OpInv' /\ ClearInv'
  <2>1. \A r \in Runs : Here(r)' <=> Here(r)
    BY <1>1 DEF Here, store
  <2>2. RunsOf(s) \subseteq Runs
    BY DEF RunsOf
  <2> QED BY <1>3, <2>1, <2>2 DEF OpInv, ClearInv
<1>6. RowsInv'
  BY <1>1, <1>3 DEF IInv, RowsInv, NoOp, store, Lost
<1> QED BY <1>4, <1>5, <1>6, ShrinkKeeps DEF IInv

LEMMA SessionRunKeeps ==
    ASSUME IInv, NEW r \in Runs, SessionRun(r), plan' = plan
    PROVE  IInv'
<1>1. op.kind = "session" /\ op.at = "runs" /\ op.now = {} /\ op \in Request
  BY DEF SessionRun, Handling, IInv, OpInv, Typed
<1>2. CASE HalfRemoved(r)
  BY <1>1, <1>2, HalfRemovedKeeps
<1>3. CASE /\ Removed(r) /\ UNCHANGED <<ses, kept, index>>
           /\ op' = [op EXCEPT !.todo = @ \ {r}, !.gone = @ \cup {r}]
  <2>1. /\ op' \in Request /\ op'.kind = "session" /\ op'.at = "runs" /\ op'.now = {}
        /\ op'.session = op.session /\ op'.todo = op.todo \ {r}
        /\ op'.gone = op.gone \cup {r}
    BY <1>1, <1>3 DEF Request
  <2>2. /\ Typed' /\ Shrinks /\ ~Here(r)'
        /\ \A q \in Runs \ {r} : disk'[q] = disk[q]
    BY <1>3, <2>1, RemovedShrinks
  <2>3. \A q \in Runs : Lost(q) => Lost(q)'
    BY <2>2 DEF Shrinks, Takes, Lost
  <2>4. OpInv'
    BY <2>1 DEF OpInv
  <2>5. ClearInv'
    <3> SUFFICES ASSUME NEW s \in Sessions, op.session = {s}, NEW q \in RunsOf(s), Here(q)'
                 PROVE  Lost(q)' \/ q \in op'.todo
      BY <2>1 DEF ClearInv
    <3>1. q \in Runs /\ q # r /\ Here(q)
      BY <2>2 DEF RunsOf, Shrinks, Takes
    <3> QED BY <1>1, <2>1, <2>3, <3>1 DEF IInv, ClearInv
  <2>6. RowsInv'
    <3>1. \A q \in Indexed(index') : q \in Indexed(index) /\ q \in Runs
      BY <1>3 DEF Indexed
    <3> QED BY <1>1, <2>1, <2>2, <2>3, <3>1 DEF IInv, RowsInv, Shrinks, Takes
  <2> QED BY <2>2, <2>4, <2>5, <2>6, ShrinkKeeps DEF IInv
<1>4. CASE /\ ~disk[r].manifest /\ op' = [op EXCEPT !.todo = @ \ {r}]
           /\ UNCHANGED <<store, pc, held, counts, watch>>
  <2>1. /\ op' \in Request /\ op'.kind = "session" /\ op'.at = "runs" /\ op'.now = {}
        /\ op'.session = op.session /\ op'.todo = op.todo \ {r} /\ op'.gone = op.gone
    BY <1>1, <1>4 DEF Request
  <2>2. Typed' /\ Shrinks
    BY <1>4, <2>1, AskShrinks DEF counts, watch, IInv, Typed
  <2>3. \A q \in Runs : (Here(q)' <=> Here(q)) /\ (Lost(q)' <=> Lost(q))
    BY <1>4 DEF Here, Lost, store, watch
  <2>4. OpInv'
    BY <2>1 DEF OpInv
  <2>5. ClearInv'
    <3> SUFFICES ASSUME NEW s \in Sessions, op.session = {s}, NEW q \in RunsOf(s), Here(q)'
                 PROVE  Lost(q)' \/ q \in op'.todo
      BY <2>1 DEF ClearInv
    <3>1. q \in Runs /\ Here(q)
      BY <2>3 DEF RunsOf
    <3>2. Here(r) => Lost(r)
      BY <1>4 DEF IInv, DirsInv
    <3> QED BY <1>1, <2>1, <2>3, <3>1, <3>2 DEF IInv, ClearInv
  <2>6. RowsInv'
    BY <1>1, <1>4, <2>1 DEF IInv, RowsInv, store, watch, Lost
  <2> QED BY <2>2, <2>4, <2>5, <2>6, ShrinkKeeps DEF IInv
<1> QED BY <1>2, <1>3, <1>4 DEF SessionRun

LEMMA SessionDirKeeps ==
    ASSUME IInv, NEW s \in Sessions, SessionDir(s), plan' = plan
    PROVE  IInv'
<1>1. /\ op.kind = "session" /\ op.at = "runs" /\ op.now = {} /\ op.todo = {}
      /\ op.session = {s} /\ op \in Request /\ RunsOf(s) \in SUBSET Runs
  BY DEF SessionDir, Handling, IInv, OpInv, Typed, RunsOf
<1>2. CASE \E m \in BOOLEAN : /\ ses' = [ses EXCEPT ![s].manifest = @ /\ m]
                              /\ Abort(RunsOf(s))
  <2>1. /\ excused' \in Excuses /\ excused'.raced = excused.raced
        /\ excused'.renamed = excused.renamed /\ excused.faulty \subseteq excused'.faulty
    BY <1>1, <1>2 DEF Abort, IInv, Typed, Excuses, Request
  <2>2. ses' \in [Sessions -> SesRec] /\ \A t \in Sessions : SessionHere(t)' => SessionHere(t)
    BY <1>2 DEF IInv, Typed, SesRec, SessionHere
  <2>3. Typed'
    <3>1. nFaults' \in 0..MaxFaults
      BY <1>2, BoundsAssumption DEF Abort, Faulty, IInv, Typed
    <3> QED BY <1>2, <2>1, <2>2, <3>1, NoOpTyped DEF SessionDir, Abort, Answer, IInv, Typed
  <2>4. Shrinks
    BY <1>2, <2>1, <2>2 DEF Shrinks, Takes, SessionDir, Abort, Live, Here, IInv,
                            TablesConsistent, Indexed
  <2> QED BY <1>1, <1>2, <2>3, <2>4, AbortKeeps DEF SessionDir
<1>3. CASE /\ ses' = [ses EXCEPT ![s] = NothingOf(s)]
           /\ op' = [op EXCEPT !.at = "contributions"]
           /\ excused' = [excused EXCEPT !.raced = @ \cup {r \in RunsOf(s) : Live(r)}]
           /\ UNCHANGED <<pc, held, counts, confirmed>>
  <2>1. /\ op' \in Request /\ op'.kind = "session" /\ op'.at = "contributions"
        /\ op'.now = {} /\ op'.session = {s} /\ op'.gone = op.gone
    BY <1>1, <1>3 DEF Request, Places
  <2>2. /\ excused' \in Excuses /\ excused'.faulty = excused.faulty
        /\ excused'.renamed = excused.renamed
        /\ excused'.raced = excused.raced \cup {r \in RunsOf(s) : Live(r)}
    BY <1>1, <1>3 DEF IInv, Typed, Excuses
  <2>3. NothingOf(s) \in SesRec
    <3>1. ses[s] \in SesRec
      BY DEF IInv, Typed
    <3> QED BY <3>1 DEF NothingOf, SesRec
  <2>4. ses' \in [Sessions -> SesRec]
    BY <1>3, <2>3 DEF IInv, Typed
  <2>5. ~SessionHere(s)' /\ \A t \in Sessions : SessionHere(t)' => SessionHere(t)
    <3>1. /\ ~ses'[s].manifest /\ ~ses'[s].state /\ ses'[s].versions = {}
          /\ \A t \in Sessions \ {s} : ses'[t] = ses[t]
      BY <1>3 DEF NothingOf, IInv, Typed, SesRec
    <3> QED BY <3>1 DEF SessionHere
  <2>6. Typed'
    BY <1>3, <2>1, <2>2, <2>4 DEF SessionDir, IInv, Typed, counts
  <2>7. Shrinks
    BY <1>3, <2>2, <2>5 DEF Shrinks, Takes, SessionDir, Live, Here, IInv,
                            TablesConsistent, Indexed
  <2>8. OpInv'
    BY <2>1 DEF OpInv
  <2>9. ClearInv'
    <3>1. \A r \in RunsOf(s) : Here(r)' => Lost(r)'
      BY <1>1, <2>2 DEF SessionDir, IInv, ClearInv, Here, Lost
    <3>2. Unraced(s)' => Idle(s)'
      BY <1>3, <2>2 DEF Unraced, Idle, Live
    <3> QED BY <2>1, <2>5, <3>1, <3>2 DEF ClearInv
  <2>10. RowsInv'
    BY <1>1, <2>1, <2>2 DEF SessionDir, IInv, RowsInv, Lost
  <2> QED BY <2>6, <2>7, <2>8, <2>9, <2>10, ShrinkKeeps DEF IInv
<1> QED BY <1>2, <1>3 DEF SessionDir

LEMMA SessionTreeKeeps ==
    ASSUME IInv, NEW s \in Sessions, NEW what, NEW next, SessionTree(s, what, next),
           \/ what = "contributions" /\ next = "overlays"
           \/ what = "overlays" /\ next = "rows",
           plan' = plan
    PROVE  IInv'
<1>1. /\ op.kind = "session" /\ op.at = what /\ op.now = {} /\ op.session = {s}
      /\ op \in Request /\ RunsOf(s) \in SUBSET Runs
  BY DEF SessionTree, Handling, IInv, OpInv, Typed, RunsOf
<1>2. CASE Abort(RunsOf(s)) /\ UNCHANGED kept
  BY <1>1, <1>2, StoppedKeeps DEF SessionTree, store
<1>3. CASE /\ kept' = [kept EXCEPT ![what] = @ \ {s}]
           /\ op' = [op EXCEPT !.at = next]
           /\ UNCHANGED <<pc, held, counts, watch>>
  <2>1. /\ op' \in Request /\ op'.kind = "session" /\ op'.at = next
        /\ op'.now = {} /\ op'.session = {s} /\ op'.gone = op.gone
    BY <1>1, <1>3 DEF Request, Places
  <2>2. /\ kept' \in KeptRec
        /\ kept'.contributions \subseteq kept.contributions
        /\ kept'.overlays \subseteq kept.overlays
        /\ what = "contributions" => s \notin kept'.contributions
        /\ what = "overlays" => s \notin kept'.overlays
    BY <1>3 DEF IInv, Typed, KeptRec
  <2>3. Typed'
    BY <1>3, <2>1, <2>2 DEF SessionTree, IInv, Typed, counts, watch
  <2>4. Shrinks
    BY <1>3, <2>2 DEF Shrinks, Takes, SessionTree, Live, Here, SessionHere, watch, IInv,
                      TablesConsistent, Indexed
  <2>5. OpInv'
    BY <2>1 DEF OpInv
  <2>6. ClearInv'
    <3>1. /\ \A r \in RunsOf(s) : Here(r)' => Lost(r)'
          /\ Unraced(s)' => ~SessionHere(s)' /\ Idle(s)'
      BY <1>1, <1>3 DEF SessionTree, IInv, ClearInv, Here, Lost, Unraced, SessionHere, Idle,
                        Live, watch
    <3>2. what = "overlays" => s \notin kept.contributions
      BY <1>1 DEF IInv, ClearInv
    <3> QED BY <2>1, <2>2, <3>1, <3>2 DEF ClearInv
  <2>7. RowsInv'
    BY <1>1, <1>3, <2>1 DEF SessionTree, IInv, RowsInv, Lost, watch
  <2> QED BY <2>3, <2>4, <2>5, <2>6, <2>7, ShrinkKeeps DEF IInv
<1> QED BY <1>2, <1>3 DEF SessionTree

LEMMA SessionRowsKeeps ==
    ASSUME IInv, NEW s \in Sessions, SessionRows(s), plan' = plan
    PROVE  IInv'
<1>1. /\ op.kind = "session" /\ op.at = "rows" /\ op.now = {} /\ op.session = {s}
      /\ op.gone \in SUBSET Runs /\ RunsOf(s) \in SUBSET Runs
  BY DEF SessionRows, Handling, IInv, OpInv, Typed, RunsOf, Request
<1>2. CASE Abort(RunsOf(s)) /\ UNCHANGED store
  BY <1>1, <1>2, StoppedKeeps
<1>3. CASE /\ index' = WithoutSession(WithoutRuns(index, op.gone), s) /\ Answer
           /\ confirmed' = [confirmed EXCEPT !.sessions = @ \cup {s}]
           /\ UNCHANGED <<disk, ses, kept, pc, held, counts, excused>>
  <2> DEFINE mid == WithoutRuns(index, op.gone)
  <2>1. Consistent(index)
    BY DEF IInv, Typed, TablesConsistent, Consistent
  <2>2. /\ Consistent(mid) /\ Indexed(mid) = Indexed(index) \ op.gone
        /\ mid.sessions = index.sessions
    BY <1>1, <2>1, DeleteKeeps
  <2> HIDE DEF mid
  <2>3. /\ Consistent(WithoutSession(mid, s))
        /\ Indexed(WithoutSession(mid, s)) = Indexed(mid) \ RunsOf(s)
        /\ WithoutSession(mid, s).sessions = mid.sessions \ {s}
    BY <2>2, DeleteSessionKeeps
  <2>4. /\ Consistent(index') /\ index'.sessions = index.sessions \ {s}
        /\ Indexed(index') = (Indexed(index) \ op.gone) \ RunsOf(s)
    BY <1>3, <2>2, <2>3 DEF mid
  <2>5. /\ confirmed' \in [runs : SUBSET Runs, sessions : SUBSET Sessions]
        /\ confirmed'.sessions = confirmed.sessions \cup {s}
    BY <1>3 DEF IInv, Typed
  <2>6. op' = NoOp /\ op' \in Request
    BY <1>3, NoOpTyped DEF Answer
  <2>7. Typed'
    BY <1>3, <2>4, <2>5, <2>6 DEF IInv, Typed, Consistent, counts
  <2>8. Takes
    BY <1>3, <2>4 DEF Takes, Live, Here, SessionHere, Consistent
  <2>9. OpInv' /\ ClearInv'
    BY <2>6 DEF OpInv, ClearInv, NoOp
  <2>10. RowsInv'
    BY <1>1, <1>3, <2>4 DEF IInv, RowsInv, Lost
  <2>11. ConfirmedInv'
    <3>1. Unraced(s) => Gone(s)'
      <4>1. /\ \A r \in RunsOf(s) : Here(r) => Lost(r)
            /\ Unraced(s) => ~SessionHere(s) /\ Idle(s)
            /\ s \notin kept.contributions /\ s \notin kept.overlays
        BY <1>1 DEF IInv, ClearInv
      <4>2. \A r \in RunsOf(s) : Unraced(s) /\ Here(r) => r \in excused.faulty
        BY <4>1 DEF Lost, Unraced
      <4> QED BY <1>3, <2>4, <4>1, <4>2 DEF Gone, SessionHere, Idle, Live, Here
    <3>2. \A t \in Sessions : Unraced(t)' <=> Unraced(t)
      BY <1>3 DEF Unraced
    <3>3. \A t \in confirmed.sessions : t \in Sessions
      BY DEF IInv, Typed
    <3> QED BY <2>5, <2>8, <3>1, <3>2, <3>3, TakeKeeps DEF IInv, ConfirmedInv
  <2> QED BY <2>7, <2>8, <2>9, <2>10, <2>11, TakeKeeps DEF IInv
<1> QED BY <1>2, <1>3 DEF SessionRows

-----------------------------------------------------------------------------
(* Creating a run, naming speakers, choosing a version, and a crash.       *)

LEMMA CreateRunKeeps ==
    ASSUME IInv, NEW r \in Runs, CreateRun(r), plan' = plan
    PROVE  IInv'
<1> DEFINE s == SessionOf[r]
<1>1. op = NoOp /\ s \in Sessions /\ SessionHere(s)
  BY SessionOfAssumption DEF CreateRun, SessionHere
<1>2. /\ disk' \in [Runs -> DiskRec] /\ disk'[r].manifest
      /\ \A q \in Runs \ {r} : disk'[q] = disk[q]
  BY DEF CreateRun, IInv, Typed, DiskRec
<1>3. pc' \in [Runs -> Labels] /\ \A q \in Runs \ {r} : pc'[q] = pc[q]
  BY DEF CreateRun, Goto, IInv, Typed, Labels
<1>4. Typed'
  BY <1>2, <1>3 DEF CreateRun, IInv, Typed, counts, watch
<1>5. TablesConsistent' /\ OpInv' /\ ClearInv'
  BY <1>1 DEF CreateRun, IInv, TablesConsistent, OpInv, ClearInv, NoOp
<1>6. DirsInv'
  BY <1>2, <1>3 DEF CreateRun, IInv, DirsInv, Here, Live, Lost, watch
<1>7. RowsInv'
  <2>1. Indexed(index) \subseteq Runs
    BY DEF Indexed
  <2> QED BY <1>2, <2>1 DEF CreateRun, IInv, RowsInv, Lost, watch
<1>8. ConfirmedInv'
  <2> SUFFICES ASSUME NEW t \in confirmed.sessions, Unraced(t)
               PROVE  Gone(t)'
    BY DEF CreateRun, ConfirmedInv, Unraced, watch
  <2>1. Gone(t) /\ t # s
    BY <1>1 DEF IInv, ConfirmedInv, Gone
  <2>2. \A q \in RunsOf(t) : q \in Runs \ {r}
    BY <2>1 DEF RunsOf
  <2> QED BY <1>2, <1>3, <2>1, <2>2
          DEF CreateRun, Gone, SessionHere, Idle, Live, Here, watch
<1> QED BY <1>4, <1>5, <1>6, <1>7, <1>8 DEF IInv

\* A step that makes names or pointers of a session that is there, and no more.
LEMMA NamingKeeps ==
    ASSUME IInv, NEW v \in Runs, Version(v), NEW x \in SesRec,
           x.versions = ses[SessionOf[v]].versions,
           ses' = [ses EXCEPT ![SessionOf[v]] = x],
           UNCHANGED <<disk, index, pc, confirmed>>, kept' \in KeptRec,
           kept'.contributions = kept.contributions,
           kept'.overlays \subseteq kept.overlays \cup {SessionOf[v]},
           excused'.raced = excused.raced, excused'.faulty = excused.faulty,
           excused'.renamed = excused.renamed
    PROVE  /\ ses' \in [Sessions -> SesRec] /\ Version(v)'
           /\ TablesConsistent' /\ DirsInv' /\ ConfirmedInv'
<1> DEFINE s == SessionOf[v]
<1>1. s \in Sessions /\ SessionHere(s)
  BY SessionOfAssumption DEF Version, SessionHere
<1>2. ses' \in [Sessions -> SesRec] /\ \A t \in Sessions \ {s} : ses'[t] = ses[t]
  BY DEF IInv, Typed
<1>3. Version(v)'
  BY <1>1 DEF Version, IInv, Typed
<1>4. TablesConsistent' /\ DirsInv'
  BY DEF IInv, TablesConsistent, DirsInv, Live, Here, Lost
<1>5. ConfirmedInv'
  <2> SUFFICES ASSUME NEW t \in confirmed.sessions, Unraced(t)
               PROVE  Gone(t)'
    BY DEF ConfirmedInv, Unraced
  <2>1. Gone(t) /\ t # s /\ t \in Sessions
    BY <1>1 DEF IInv, Typed, ConfirmedInv, Gone
  <2> QED BY <1>2, <2>1 DEF Gone, SessionHere, Idle, Live, Here
<1> QED BY <1>2, <1>3, <1>4, <1>5

LEMMA NameSpeakersKeeps ==
    ASSUME IInv, NEW v \in Runs, NEW named \in BOOLEAN, NameSpeakers(v, named), plan' = plan
    PROVE  IInv'
<1> DEFINE s == SessionOf[v]
<1>1. s \in Sessions /\ Version(v) /\ op = NoOp /\ nOps' \in 0..MaxOps
  BY SessionOfAssumption, BoundsAssumption DEF NameSpeakers, Begin, IInv, Typed
<1>2. /\ op' \in Request /\ op'.kind = "map" /\ op'.at = "refresh" /\ op'.now = {}
      /\ op'.gone = {} /\ op'.version = {v}
  BY DEF NameSpeakers, Begin, NoOp, Request, Kinds, Places
<1> DEFINE names == IF named THEN ses[s].mapped \cup {v} ELSE ses[s].mapped \ {v}
<1> DEFINE x == [ses[s] EXCEPT !.state = TRUE, !.mapped = names]
<1>3. x \in SesRec /\ x.versions = ses[s].versions
  <2>1. ses[s] \in SesRec
    BY <1>1 DEF IInv, Typed
  <2>2. names \in SUBSET Runs
    BY <2>1 DEF SesRec
  <2> HIDE DEF names
  <2> QED BY <2>1, <2>2 DEF SesRec
<1>4. ses' = [ses EXCEPT ![s] = x]
  BY <1>1 DEF NameSpeakers, IInv, Typed, SesRec
<1>5. /\ kept' \in KeptRec /\ kept'.contributions = kept.contributions
      /\ kept'.overlays \subseteq kept.overlays \cup {s}
  BY <1>1 DEF NameSpeakers, IInv, Typed, KeptRec
<1> HIDE DEF x
<1>6. /\ ses' \in [Sessions -> SesRec] /\ Version(v)'
      /\ TablesConsistent' /\ DirsInv' /\ ConfirmedInv'
  BY <1>1, <1>3, <1>4, <1>5, NamingKeeps DEF NameSpeakers, watch
<1>7. Typed'
  BY <1>1, <1>2, <1>5, <1>6 DEF NameSpeakers, IInv, Typed, watch
<1>8. OpInv' /\ ClearInv'
  BY <1>2, <1>6 DEF OpInv, ClearInv
<1>9. RowsInv'
  BY <1>1, <1>2 DEF NameSpeakers, IInv, RowsInv, Lost, NoOp, watch
<1> QED BY <1>6, <1>7, <1>8, <1>9 DEF IInv

LEMMA ActivateKeeps ==
    ASSUME IInv, NEW v \in Runs, Activate(v), plan' = plan
    PROVE  IInv'
<1> DEFINE s == SessionOf[v]
<1>1. s \in Sessions /\ Version(v) /\ op = NoOp /\ nOps' \in 0..MaxOps
  BY SessionOfAssumption, BoundsAssumption DEF Activate, IInv, Typed
<1> DEFINE x == [ses[s] EXCEPT !.state = TRUE, !.active = {v}]
<1>2. x \in SesRec /\ x.versions = ses[s].versions
  <2>1. ses[s] \in SesRec
    BY <1>1 DEF IInv, Typed
  <2> QED BY <2>1 DEF SesRec
<1>3. ses' = [ses EXCEPT ![s] = x]
  BY <1>1 DEF Activate, IInv, Typed, SesRec
<1>4. /\ excused' \in Excuses /\ excused'.raced = excused.raced
      /\ excused'.faulty = excused.faulty /\ excused'.renamed = excused.renamed
  BY DEF Activate, IInv, Typed, Excuses, Overtaken, RunsOf
<1> HIDE DEF x
<1>5. ses' \in [Sessions -> SesRec] /\ TablesConsistent' /\ DirsInv' /\ ConfirmedInv'
  BY <1>1, <1>2, <1>3, <1>4, NamingKeeps DEF Activate, IInv, Typed
<1>6. Typed'
  BY <1>1, <1>4, <1>5 DEF Activate, IInv, Typed
<1>7. OpInv' /\ ClearInv'
  BY <1>1 DEF Activate, OpInv, ClearInv, NoOp
<1>8. RowsInv'
  BY <1>4 DEF Activate, IInv, RowsInv, Lost
<1> QED BY <1>5, <1>6, <1>7, <1>8 DEF IInv

LEMMA RefreshNamesKeeps ==
    ASSUME IInv, NEW v \in Runs, RefreshNames(v), plan' = plan
    PROVE  IInv'
<1> DEFINE s == SessionOf[v]
<1>1. /\ s \in Sessions /\ op.kind = "map" /\ op.now = {} /\ op.gone = {}
      /\ Version(v) /\ SessionHere(s)
  BY SessionOfAssumption DEF RefreshNames, Handling, IInv, OpInv, Version, SessionHere
<1>2. CASE Abort({v}) /\ UNCHANGED store
  BY <1>1, <1>2, StoppedKeeps
<1>3. CASE /\ index' = Refreshed(index, v, v \in ses[s].mapped) /\ Answer
           /\ excused' = IF disk[v].manifest THEN excused
                         ELSE [excused EXCEPT !.renamed = @ \cup {v}]
           /\ UNCHANGED <<disk, ses, kept, pc, held, counts, confirmed>>
  <2>1. Consistent(index)
    BY DEF IInv, Typed, TablesConsistent, Consistent
  <2>2. /\ Consistent(index') /\ Indexed(index') = Indexed(index) \cup {v}
        /\ index'.sessions = index.sessions \cup {s}
    <3> DEFINE named == v \in ses[s].mapped
    <3>1. named \in BOOLEAN /\ index' = Refreshed(index, v, named)
      BY <1>3
    <3> HIDE DEF named
    <3> QED BY <2>1, <3>1, RefreshKeeps
  <2>3. op' = NoOp /\ op' \in Request
    BY <1>3, NoOpTyped DEF Answer
  <2>4. /\ excused' \in Excuses /\ excused'.raced = excused.raced
        /\ excused'.faulty = excused.faulty /\ excused.renamed \subseteq excused'.renamed
        /\ disk[v].manifest \/ v \in excused'.renamed
    BY <1>3 DEF IInv, Typed, Excuses
  <2>5. Typed'
    BY <1>3, <2>2, <2>3, <2>4 DEF IInv, Typed, Consistent, counts
  <2>6. TablesConsistent' /\ DirsInv'
    BY <1>3, <2>2, <2>4 DEF TablesConsistent, Consistent, IInv, DirsInv, Live, Here, Lost
  <2>7. OpInv' /\ ClearInv'
    BY <2>3 DEF OpInv, ClearInv, NoOp
  <2>8. RowsInv'
    BY <1>1, <1>3, <2>2, <2>4 DEF IInv, RowsInv, Lost
  <2>9. ConfirmedInv'
    <3> SUFFICES ASSUME NEW t \in confirmed.sessions, Unraced(t)
                 PROVE  Gone(t)'
      BY <1>3, <2>4 DEF ConfirmedInv, Unraced
    <3>1. Gone(t) /\ t # s
      BY <1>1 DEF IInv, ConfirmedInv, Gone
    <3>2. v \notin RunsOf(t)
      BY <3>1 DEF RunsOf
    <3> QED BY <1>3, <2>2, <2>4, <3>1, <3>2 DEF Gone, SessionHere, Idle, Live, Here
  <2> QED BY <2>5, <2>6, <2>7, <2>8, <2>9 DEF IInv
<1> QED BY <1>2, <1>3 DEF RefreshNames

LEMMA CrashKeeps ==
    ASSUME IInv, Crash, plan' = plan
    PROVE  IInv'
<1> DEFINE more == op.now \cup op.gone \cup op.version
                     \cup UNION {RunsOf(s) : s \in op.session}
<1>1. more \in SUBSET Runs
  BY DEF IInv, Typed, Request, RunsOf
<1>2. excused' = [excused EXCEPT !.faulty = @ \cup more]
  BY DEF Crash
<1>3. op.now \subseteq more /\ op.gone \subseteq more
  OBVIOUS
<1> HIDE DEF more
<1>4. /\ excused' \in Excuses /\ excused'.raced = excused.raced
      /\ excused'.renamed = excused.renamed /\ excused'.faulty = excused.faulty \cup more
  BY <1>1, <1>2 DEF IInv, Typed, Excuses
<1>5. pc' \in [Runs -> Labels] /\ \A q \in Runs : ~Live(q)'
  BY DEF Crash, IInv, Typed, Live, Labels
<1>6. op' = NoOp /\ op' \in Request /\ nCrashes' \in 0..MaxCrashes
  BY NoOpTyped, BoundsAssumption DEF Crash, Answer, IInv, Typed
<1>7. Typed'
  BY <1>4, <1>5, <1>6 DEF Crash, IInv, Typed, store
<1>8. Shrinks
  BY <1>4, <1>5 DEF Shrinks, Takes, Crash, Here, SessionHere, store, IInv,
                    TablesConsistent, Indexed
<1>9. OpInv' /\ ClearInv'
  BY <1>6 DEF OpInv, ClearInv, NoOp
<1>10. RowsInv'
  BY <1>3, <1>4 DEF Crash, IInv, RowsInv, Lost, store
<1> QED BY <1>7, <1>8, <1>9, <1>10, ShrinkKeeps DEF IInv

LEMMA StepKeeps == IInv /\ [Next]_vars => IInv'
<1> SUFFICES ASSUME IInv, [Next]_vars PROVE IInv'
  OBVIOUS
<1>1. CASE UNCHANGED vars
  BY <1>1 DEF vars, IInv, Typed, TablesConsistent, OpInv, DirsInv, RowsInv, ClearInv,
              ConfirmedInv, Version, Live, Here, Lost, Unraced, Gone, SessionHere, Idle
<1>2. CASE Next
  <2>1. plan' = plan
    BY <1>2 DEF Next
  <2>2. CASE \E r \in Runs : Thread(r)
    BY <2>1, <2>2, ThreadKeeps
  <2>3. CASE \E r \in Runs : \/ CreateRun(r) \/ AskDeleteRun(r) \/ RemoveRun(r)
                             \/ RunRows(r) \/ NextDependent(r) \/ SessionRun(r)
    BY <2>1, <2>3, CreateRunKeeps, AskDeleteRunKeeps, RemoveRunKeeps, RunRowsKeeps,
       NextDependentKeeps, SessionRunKeeps
  <2>4. CASE \E v \in Runs : \/ AskDeleteVersion(v) \/ Unlink(v) \/ RefreshNames(v)
                             \/ Activate(v) \/ \E named \in BOOLEAN : NameSpeakers(v, named)
    BY <2>1, <2>4, AskDeleteVersionKeeps, UnlinkKeeps, RefreshNamesKeeps, ActivateKeeps,
       NameSpeakersKeeps
  <2>5. CASE \E s \in Sessions : \/ AskDeleteSession(s) \/ SessionDir(s) \/ SessionRows(s)
                                 \/ SessionTree(s, "contributions", "overlays")
                                 \/ SessionTree(s, "overlays", "rows")
    BY <2>1, <2>5, AskDeleteSessionKeeps, SessionDirKeeps, SessionRowsKeeps,
       SessionTreeKeeps
  <2>6. CASE VersionRows
    BY <2>1, <2>6, VersionRowsKeeps
  <2>7. CASE Crash
    BY <2>1, <2>7, CrashKeeps
  <2> QED BY <1>2, <2>2, <2>3, <2>4, <2>5, <2>6, <2>7 DEF Next, Web
<1> QED BY <1>1, <1>2

LEMMA AlwaysIInv == Spec => []IInv
BY InitIInv, StepKeeps, PTL DEF Spec

-----------------------------------------------------------------------------
\* Whatever threads, requests, failures and crashes interleave, documents, the index and
\* the request at hand keep their types.
THEOREM LibraryTyped == Spec => []TypeOK
<1>1. IInv => TypeOK
  BY DEF IInv, Typed, TypeOK, DiskRec, SesRec, KeptRec, Request
<1> QED BY <1>1, AlwaysIInv, PTL

\* No transaction, in whatever order they come, leaves a row that refers to none, or a
\* full text that differs from the segments.
THEOREM IndexConsistent == Spec => []TablesConsistent
<1>1. IInv => TablesConsistent
  BY DEF IInv
<1> QED BY <1>1, AlwaysIInv, PTL

\* For any number of sessions, runs and requests: what was deleted is neither found nor
\* listed, and a deleted session leaves nothing, but for the exceptions that are named.
THEOREM DeletionsExplained == Spec => []DeletionsWhole
<1>1. IInv => DeletionsWhole
  <2> SUFFICES ASSUME IInv PROVE DeletionsWhole
    OBVIOUS
  <2>1. {hit.run : hit \in SearchHits(index)} \subseteq Indexed(index)
    BY DEF SearchHits, IInv, TablesConsistent, TablesAgree, ForeignKeysHold
  <2>2. UNION {row.latest : row \in ListedSessions(index, FALSE)} \subseteq Indexed(index)
    BY DEF ListedSessions, Newest
  <2>3. \A r \in Indexed(index) :
            disk[r].manifest \/ r \in op.now \cup op.gone \cup excused.raced
                                  \cup excused.renamed \cup excused.faulty
    BY DEF IInv, RowsInv, Lost
  <2>4. GoneRowsExplained
    BY <2>1, <2>2, <2>3 DEF GoneRowsExplained
  <2>5. SessionGone
    BY DEF IInv, ConfirmedInv, Gone, Unraced, SessionGone
  <2> QED BY <2>4, <2>5 DEF DeletionsWhole
<1> QED BY <1>1, AlwaysIInv, PTL
-----------------------------------------------------------------------------
(* What a run works from, or has recorded, and the deletion of a version.  *)

\* What run.json or a thread says was consumed is the version the run uses, and run.json
\* says it only once the thread has ended; only the maker of a version mints it.
DocsInv ==
    \A r \in Runs :
        /\ disk[r].doc.consumed \cup held[r].consumed \subseteq {plan.uses[r]}
        /\ disk[r].doc.consumed # {} => pc[r] = "done"
        /\ held[r].consumed # {} => pc[r] \in {"finish", "save_finish", "done"}
        /\ pc[r] \in {"emit", "mint"} => Makes(r)

\* The runs whose version must be there: at work on it, or recorded.
Recorded(r) == disk[r].manifest /\ disk[r].doc.consumed # {}
Relies(r) ==
    \/ pc[r] \in {"record", "save_record", "read", "commit", "receipt"}
    \/ pc[r] \in {"finish", "save_finish"} /\ held[r].consumed # {}
    \/ Recorded(r)
Excused(r) == r \in excused.late \cup excused.raced \cup excused.faulty

RelyInv ==
    \A r \in Runs : Relies(r) /\ ses[SessionOf[r]].manifest
                       => Version(plan.uses[r]) \/ Excused(r)

\* A cascade has yet to delete every run that might still rely on its version.
CascadeInv ==
    op.kind = "version" /\ op.at # "versionrows" =>
        \A r \in Runs : (Live(r) \/ Recorded(r)) /\ plan.uses[r] \in op.version =>
            r \in op.todo \/ (op.at = "remove" /\ r \in op.now) \/ Excused(r)

ConsumeInv == plan \in Plans /\ DocsInv /\ RelyInv /\ CascadeInv


\* At first runs are done or absent, and every version that was used is there.
LEMMA InitConsumes == Init => ConsumeInv
<1> SUFFICES ASSUME Init PROVE ConsumeInv
  OBVIOUS
<1>0. plan \in Plans /\ plan.uses \in [Runs -> Runs] /\ op = NoOp
  BY PlansAssumption DEF Init
<1>1. /\ \A r \in Runs : disk[r].doc = IF r \in Old THEN Succeeded(r) ELSE Fresh
      /\ \A r \in Runs : held[r] = Fresh /\ pc[r] = IF r \in Old THEN "done" ELSE "absent"
      /\ \A s \in Sessions : ses[s].versions = RunsOf(s) \cap Old
  BY DEF Init
<1>2. DocsInv
  <2>1. \A r \in Runs : /\ disk[r].doc.consumed = IF r \in Old THEN {plan.uses[r]} ELSE {}
                        /\ held[r].consumed = {}
    <3>1. Fresh.consumed = {} /\ \A r \in Runs : Succeeded(r).consumed = {plan.uses[r]}
      BY DEF Succeeded, Fresh
    <3> QED BY <1>1, <3>1
  <2> QED BY <1>1, <2>1 DEF DocsInv
<1>3. \A r \in Old : Version(plan.uses[r])
  BY <1>0, <1>1, OldAssumption, OldUses, SessionOfAssumption DEF Version, RunsOf
<1>4. RelyInv
  BY <1>1, <1>3 DEF RelyInv, Relies, Recorded, Fresh
<1> QED BY <1>0, <1>2, <1>4 DEF ConsumeInv, CascadeInv, NoOp

\* What a step of a thread does to its document, and when it comes to rely on a version.
LEMMA ThreadDocs ==
    ASSUME IInv, DocsInv, NEW r \in Runs, Thread(r), plan' = plan
    PROVE  /\ \A q \in Runs \ {r} : held'[q] = held[q]
           /\ excused'.late = excused.late
           /\ \A s \in Sessions : ses'[s].manifest = ses[s].manifest
           /\ DocsInv'
           /\ Relies(r)' => Relies(r) \/ Version(plan.uses[r])'
<1> DEFINE one == /\ disk'[r].doc.consumed \cup held'[r].consumed \subseteq {plan.uses[r]}
                  /\ disk'[r].doc.consumed # {} => pc'[r] = "done"
                  /\ held'[r].consumed # {} => pc'[r] \in {"finish", "save_finish", "done"}
                  /\ pc'[r] \in {"emit", "mint"} => Makes(r)
<1>0. /\ disk \in [Runs -> DiskRec] /\ held \in [Runs -> Doc] /\ pc \in [Runs -> Labels]
      /\ ses \in [Sessions -> SesRec] /\ excused \in Excuses
      /\ plan.uses[r] \in Runs /\ SessionOf[r] \in Sessions
  BY SessionOfAssumption DEF IInv, Typed
<1>1. /\ disk[r].doc.consumed \cup held[r].consumed \subseteq {plan.uses[r]}
      /\ disk[r].doc.consumed # {} => pc[r] = "done"
      /\ held[r].consumed # {} => pc[r] \in {"finish", "save_finish", "done"}
      /\ pc[r] \in {"emit", "mint"} => Makes(r)
  BY DEF DocsInv
<1> DEFINE rest == /\ \A q \in Runs \ {r} : held'[q] = held[q]
                   /\ excused'.late = excused.late
                   /\ \A s \in Sessions : ses'[s].manifest = ses[s].manifest
<1> DEFINE result == one /\ rest /\ (Relies(r)' => Relies(r) \/ Version(plan.uses[r])')
<1>2. ASSUME Fail(r)
      PROVE  result
  <2>1. pc'[r] = "finish" /\ held'[r].consumed = {} /\ disk' = disk /\ rest /\ pc[r] # "done"
    BY <1>0, <1>2, ThreadEffect DEF Fail, Goto, Fresh, ThreadOnly, watch, Effect, Live
  <2> QED BY <1>1, <2>1 DEF Relies, Recorded
<1>3. ASSUME ~Fail(r) /\ (LoadAt(r, "start", "save_start", Running(disk[r].doc))
                         \/ LoadAt(r, "record", "save_record", disk[r].doc))
      PROVE  result
  <2>1. /\ held'[r].consumed = disk[r].doc.consumed /\ disk' = disk /\ rest
        /\ \/ pc[r] = "start" /\ pc'[r] = "save_start"
           \/ pc[r] = "record" /\ pc'[r] = "save_record"
    BY <1>0, <1>3 DEF LoadAt, Goto, Running, ThreadOnly, watch, DiskRec, Doc
  <2> QED BY <1>1, <2>1 DEF Relies, Recorded
<1>4. ASSUME \/ SaveAt(r, "save_start", "transcribe") \/ SaveAt(r, "save_record", "read")
             \/ SaveAt(r, "save_finish", "done")
      PROVE  result
  <2>1. /\ disk'[r].doc = held[r] /\ held' = held /\ rest
        /\ \/ pc[r] = "save_start" /\ pc'[r] = "transcribe"
           \/ pc[r] = "save_record" /\ pc'[r] = "read"
           \/ pc[r] = "save_finish" /\ pc'[r] = "done"
    BY <1>0, <1>4 DEF SaveAt, Goto, ThreadOnly, watch, DiskRec
  <2> QED BY <1>1, <2>1 DEF Relies, Recorded
<1>5. ASSUME ~Fail(r) /\ Transcribe(r)
      PROVE  result
  <2>1. /\ disk'[r].doc = disk[r].doc /\ disk'[r].manifest = disk[r].manifest
        /\ held' = held /\ ses' = ses /\ rest /\ pc[r] = "transcribe"
        /\ \/ pc'[r] = "emit" /\ Makes(r)
           \/ pc'[r] = "read" /\ Version(plan.uses[r])
    BY <1>0, <1>5 DEF Transcribe, Goto, ThreadOnly, watch, DiskRec
  <2> QED BY <1>1, <2>1 DEF Relies, Recorded, Version
<1>6. ASSUME ~Fail(r) /\ (Emit(r) \/ Read(r) \/ Commit(r) \/ Finish(r))
      PROVE  result
  <2>1. /\ disk' = disk /\ held' = held /\ rest
        /\ \/ pc[r] = "emit" /\ pc'[r] = "mint"
           \/ pc[r] = "read" /\ pc'[r] \in {"commit", "receipt"}
           \/ pc[r] = "commit" /\ pc'[r] = "receipt"
           \/ pc[r] = "finish" /\ pc'[r] \in {"save_finish", "done"}
    BY <1>0, <1>6 DEF Emit, Read, Commit, Finish, Goto, ThreadOnly, watch
  <2> QED BY <1>1, <2>1 DEF Relies, Recorded
<1>7. ASSUME Mint(r)
      PROVE  result
  <2>1. /\ disk' = disk /\ held' = held /\ pc[r] = "mint" /\ pc'[r] = "record"
        /\ r \in ses'[SessionOf[r]].versions /\ rest
    BY <1>0, <1>7 DEF Mint, Goto, SesRec, Excuses
  <2>2. plan.uses[r] = r
    BY <1>1, <2>1 DEF Makes
  <2> QED BY <1>1, <2>1, <2>2 DEF Relies, Recorded, Version
<1>8. ASSUME ~Fail(r) /\ Receipt(r)
      PROVE  result
  <2>1. /\ disk' = disk /\ held'[r].consumed = {plan.uses[r]} /\ rest
        /\ pc[r] = "receipt" /\ pc'[r] = "finish"
    BY <1>0, <1>8 DEF Receipt, Goto, ThreadOnly, watch, Succeeded
  <2> QED BY <1>1, <2>1 DEF Relies, Recorded
<1>9. result
  BY <1>2, <1>3, <1>4, <1>5, <1>6, <1>7, <1>8 DEF Thread, Render
<1>10. DocsInv'
  <2>1. \A q \in Runs \ {r} : disk'[q] = disk[q] /\ pc'[q] = pc[q]
    BY ThreadEffect DEF Effect
  <2> HIDE DEF one
  <2>2. \A q \in Runs : Makes(q)' <=> Makes(q)
    BY DEF Makes
  <2>3. one
    BY <1>9
  <2>4. \A q \in Runs \ {r} : held'[q] = held[q]
    BY <1>9
  <2> QED BY <2>1, <2>2, <2>3, <2>4 DEF DocsInv, one
<1> QED BY <1>9, <1>10

\* A thread comes to rely on a version only where it has seen it, and takes none away.
LEMMA ThreadConsumes ==
    ASSUME IInv, ConsumeInv, NEW r \in Runs, Thread(r), plan' = plan
    PROVE  ConsumeInv'
<1>1. Effect(r) /\ DocsInv
  BY ThreadEffect DEF ConsumeInv
<1>2. /\ \A q \in Runs \ {r} : held'[q] = held[q]
      /\ excused'.late = excused.late
      /\ \A s \in Sessions : ses'[s].manifest = ses[s].manifest
      /\ DocsInv'
      /\ Relies(r)' => Relies(r) \/ Version(plan.uses[r])'
  BY <1>1, ThreadDocs
<1>3. \A q \in Runs : /\ Excused(q)' <=> Excused(q)
                      /\ q # r => (Relies(q)' <=> Relies(q)) /\ (Live(q)' <=> Live(q))
                                  /\ (Recorded(q)' <=> Recorded(q))
  BY <1>1, <1>2 DEF Effect, Excused, Relies, Recorded, Live
<1>4. \A q \in Runs : Version(q) => Version(q)'
  BY <1>1, SessionOfAssumption DEF Effect, Version
<1>5. plan.uses \in [Runs -> Runs]
  BY DEF IInv, Typed
<1>6. RelyInv'
  BY <1>2, <1>3, <1>4, <1>5, SessionOfAssumption DEF ConsumeInv, RelyInv
<1>7. CascadeInv'
  BY <1>1, <1>3 DEF ConsumeInv, CascadeInv, Effect
<1> QED BY <1>2, <1>6, <1>7 DEF ConsumeInv

-----------------------------------------------------------------------------
\* A step of the web process, which writes no document, keeps that what runs rely on is
\* there if every version it takes away has no runs left to rely on it.
LEMMA WebConsumes ==
    ASSUME IInv, ConsumeInv, plan' = plan, UNCHANGED <<pc, held>>,
           \A q \in Runs : /\ disk'[q].doc = disk[q].doc
                           /\ disk'[q].manifest => disk[q].manifest
                           /\ Excused(q) => Excused(q)',
           \A s \in Sessions : ses'[s].manifest => ses[s].manifest,
           \A v \in Runs : Version(v) /\ ses'[SessionOf[v]].manifest =>
               \/ Version(v)'
               \/ \A q \in Runs : Relies(q) /\ plan.uses[q] = v => Excused(q)',
           CascadeInv'
    PROVE  ConsumeInv'
<1>1. plan.uses \in [Runs -> Runs] /\ \A q \in Runs : SessionOf[plan.uses[q]] = SessionOf[q]
  BY UsesInSession DEF IInv, Typed, ConsumeInv
<1>2. DocsInv'
  BY DEF ConsumeInv, DocsInv, Makes
<1>3. \A q \in Runs : Relies(q)' => Relies(q)
  BY DEF Relies, Recorded
<1>4. RelyInv'
  <2> SUFFICES ASSUME NEW q \in Runs, Relies(q)', ses'[SessionOf[q]].manifest
               PROVE  Version(plan.uses[q])' \/ Excused(q)'
    BY DEF RelyInv
  <2>1. Version(plan.uses[q]) \/ Excused(q)
    BY <1>3, SessionOfAssumption DEF ConsumeInv, RelyInv
  <2> QED BY <1>1, <1>3, <2>1
<1> QED BY <1>2, <1>4 DEF ConsumeInv

\* A request that is not, or no longer, about to take a version away.
NotCascading == op'.kind = "version" => op'.at = "versionrows"

\* A step that leaves the sessions alone.
LEMMA DirConsumes ==
    ASSUME IInv, ConsumeInv, plan' = plan, UNCHANGED <<pc, held, ses>>,
           \A q \in Runs : /\ disk'[q].doc = disk[q].doc
                           /\ disk'[q].manifest => disk[q].manifest
                           /\ Excused(q) => Excused(q)',
           NotCascading \/ CascadeInv'
    PROVE  ConsumeInv'
<1>1. CascadeInv'
  BY DEF NotCascading, CascadeInv
<1>2. \A v \in Runs : Version(v)' <=> Version(v)
  BY DEF Version
<1> QED BY <1>1, <1>2, WebConsumes

\* A directory goes, and with it what run.json says; a thread that was at work is noted.
LEMMA RemovedDocs ==
    ASSUME IInv, NEW r \in Runs, Removed(r) \/ HalfRemoved(r)
    PROVE  /\ \A q \in Runs : /\ disk'[q].doc = disk[q].doc
                              /\ disk'[q].manifest => disk[q].manifest
                              /\ Excused(q) => Excused(q)'
           /\ UNCHANGED <<pc, held>>
           /\ Removed(r) => ~disk'[r].manifest /\ (Live(r) => Excused(r)')
<1>1. disk \in [Runs -> DiskRec] /\ excused \in Excuses /\ op.gone \in SUBSET Runs
  BY DEF IInv, Typed, Request
<1>2. CASE Removed(r)
  BY <1>1, <1>2 DEF Removed, DiskRec, Excuses, Excused
<1>3. CASE HalfRemoved(r) /\ ~Removed(r)
  <2> PICK m \in BOOLEAN, t \in BOOLEAN :
        /\ disk' = [disk EXCEPT ![r].manifest = @ /\ m, ![r].transcript = @ /\ t]
        /\ Abort({r})
    BY <1>3 DEF HalfRemoved
  <2>1. \A q \in Runs : /\ disk'[q].doc = disk[q].doc
                        /\ disk'[q].manifest => disk[q].manifest
    BY <1>1 DEF DiskRec
  <2>2. \A q \in Runs : Excused(q) => Excused(q)'
    BY <1>1 DEF Abort, Excuses, Excused
  <2> QED BY <1>3, <2>1, <2>2 DEF HalfRemoved, Abort
<1> QED BY <1>2, <1>3

\* An answer with an error.
LEMMA AbortDocs ==
    ASSUME IInv, NEW rs \in SUBSET Runs, Abort(rs)
    PROVE  NotCascading /\ UNCHANGED <<pc, held>> /\ \A q \in Runs : Excused(q) => Excused(q)'
BY DEF Abort, Answer, NotCascading, NoOp, Excused, IInv, Typed, Excuses

\* The run whose directory goes is no longer recorded; its thread, if any, is noted.
LEMMA RemoveRunConsumes ==
    ASSUME IInv, ConsumeInv, NEW r \in Runs, RemoveRun(r), plan' = plan
    PROVE  ConsumeInv'
<1>1. op.at = "remove" /\ op.now = {r} /\ op \in Request
  BY DEF RemoveRun, IInv, Typed
<1>2. CASE HalfRemoved(r)
  <2>1. UNCHANGED ses /\ NotCascading
    BY <1>2 DEF HalfRemoved, Abort, Answer, NotCascading, NoOp
  <2> QED BY <1>2, <2>1, RemovedDocs, DirConsumes
<1>3. CASE Removed(r) /\ op' = [op EXCEPT !.at = "rows"] /\ UNCHANGED <<ses, kept, index>>
  <2>1. op'.kind = op.kind /\ op'.todo = op.todo /\ op'.version = op.version
    BY <1>1, <1>3 DEF Request
  <2>2. /\ \A q \in Runs : /\ disk'[q].doc = disk[q].doc
                           /\ disk'[q].manifest => disk[q].manifest
                           /\ Excused(q) => Excused(q)'
        /\ UNCHANGED <<pc, held>> /\ ~disk'[r].manifest /\ (Live(r) => Excused(r)')
    BY <1>3, RemovedDocs
  <2>3. CascadeInv'
    <3> SUFFICES ASSUME op.kind = "version", NEW q \in Runs, Live(q)' \/ Recorded(q)',
                        plan.uses[q] \in op.version
                 PROVE  q \in op.todo \/ Excused(q)'
      BY <2>1 DEF CascadeInv
    <3>1. (Live(q)' => Live(q)) /\ (Recorded(q)' => Recorded(q) /\ q # r)
      BY <2>2 DEF Live, Recorded
    <3> QED BY <1>1, <2>2, <3>1 DEF ConsumeInv, CascadeInv
  <2> QED BY <1>3, <2>2, <2>3, DirConsumes
<1> QED BY <1>2, <1>3 DEF RemoveRun

\* Deleting rows touches no document.
LEMMA RunRowsConsumes ==
    ASSUME IInv, ConsumeInv, NEW r \in Runs, RunRows(r), plan' = plan
    PROVE  ConsumeInv'
<1>1. CASE Abort({r}) /\ UNCHANGED store
  BY <1>1, AbortDocs, DirConsumes DEF store
<1>2. CASE /\ op' = IF op.kind = "run" THEN NoOp
                    ELSE [op EXCEPT !.at = "next", !.now = {}, !.gone = @ \cup {r}]
           /\ UNCHANGED <<disk, ses, pc, held, excused>>
  <2>1. \A q \in Runs : /\ (Excused(q)' <=> Excused(q)) /\ (Live(q)' <=> Live(q))
                        /\ (Recorded(q)' <=> Recorded(q))
    BY <1>2 DEF Excused, Live, Recorded
  <2>2. CascadeInv'
    <3>1. CASE op.kind = "run"
      BY <1>2, <3>1 DEF CascadeInv, NoOp
    <3>2. CASE op.kind # "run"
      <4>1. /\ op'.kind = op.kind /\ op'.todo = op.todo /\ op'.version = op.version
            /\ op.at = "rows" /\ op.kind = "version"
        BY <1>2, <3>2 DEF RunRows, IInv, Typed, Request
      <4> QED BY <2>1, <4>1 DEF ConsumeInv, CascadeInv
    <3> QED BY <3>1, <3>2
  <2> QED BY <1>2, <2>1, <2>2, DirConsumes
<1> QED BY <1>1, <1>2 DEF RunRows

\* The cascade begins with every run that may rely on the version, but for threads at
\* work whose plan does not name it, and those that have raced or failed before.
LEMMA AskDeleteVersionConsumes ==
    ASSUME IInv, ConsumeInv, NEW v \in Runs, AskDeleteVersion(v), plan' = plan
    PROVE  ConsumeInv'
<1>1. /\ op' = [NoOp EXCEPT !.kind = "version", !.at = "next", !.version = {v},
                            !.todo = Dependents(v)]
      /\ UNCHANGED <<disk, ses, pc, held>>
  BY DEF AskDeleteVersion, Begin, store
<1>2. op'.version = {v} /\ op'.todo = Dependents(v)
  BY <1>1 DEF NoOp
<1> DEFINE unseen == {r \in RunsOf(SessionOf[v]) : Live(r) /\ r \notin plan.visible}
<1>3. /\ excused'.late = excused.late \cup unseen
      /\ excused'.raced = excused.raced /\ excused'.faulty = excused.faulty
  BY DEF AskDeleteVersion, IInv, Typed, Excuses
<1>4. \A q \in Runs : Excused(q) => Excused(q)'
  BY <1>3 DEF Excused
<1>5. CascadeInv'
  <2> SUFFICES ASSUME NEW q \in Runs, Live(q) \/ Recorded(q), plan.uses[q] = v
               PROVE  q \in Dependents(v) \/ Excused(q)'
    BY <1>1, <1>2 DEF CascadeInv, Live, Recorded
  <2>1. q \in RunsOf(SessionOf[v])
    BY UsesInSession DEF ConsumeInv, RunsOf
  <2>2. CASE Recorded(q)
    <3>1. disk[q].doc.consumed = {v}
      BY <2>2 DEF ConsumeInv, DocsInv, Recorded
    <3> QED BY <2>1, <2>2, <3>1 DEF Dependents, Recorded
  <2>3. CASE Live(q) /\ ~Recorded(q)
    <3>1. CASE q \notin plan.visible
      BY <1>3, <2>1, <2>3, <3>1 DEF Excused
    <3>2. CASE q \in plan.visible /\ disk[q].manifest
      BY <2>1, <2>3, <3>2 DEF Dependents, Recorded
    <3>3. CASE ~disk[q].manifest
      BY <2>3, <3>3, <1>4 DEF IInv, DirsInv, Lost, Excused
    <3> QED BY <3>1, <3>2, <3>3
  <2> QED BY <2>2, <2>3
<1> QED BY <1>1, <1>4, <1>5, DirConsumes

\* A run is dropped from the cascade unvisited only if it has no directory.
LEMMA NextDependentConsumes ==
    ASSUME IInv, ConsumeInv, NEW r \in Runs, NextDependent(r), plan' = plan
    PROVE  ConsumeInv'
<1>1. /\ op' = IF Here(r) THEN [op EXCEPT !.at = "remove", !.now = {r}, !.todo = @ \ {r}]
               ELSE [op EXCEPT !.todo = @ \ {r}]
      /\ UNCHANGED <<disk, ses, pc, held, excused>> /\ op.kind = "version" /\ op.at = "next"
      /\ op \in Request
  BY DEF NextDependent, Handling, store, watch, IInv, Typed
<1>2. /\ op'.todo = op.todo \ {r} /\ op'.version = op.version
      /\ Here(r) => op'.at = "remove" /\ op'.now = {r}
  BY <1>1 DEF Request
<1>3. \A q \in Runs : /\ (Excused(q)' <=> Excused(q)) /\ (Live(q)' <=> Live(q))
                      /\ (Recorded(q)' <=> Recorded(q))
  BY <1>1 DEF Excused, Live, Recorded
<1>4. ~Here(r) => ~Recorded(r) /\ (Live(r) => Excused(r))
  BY DEF IInv, DirsInv, Here, Recorded, Lost, Excused
<1>5. CascadeInv'
  BY <1>1, <1>2, <1>3, <1>4 DEF ConsumeInv, CascadeInv
<1> QED BY <1>1, <1>3, <1>5, DirConsumes

\* The cascade is over: who still relies on the version is one of the exceptions.
LEMMA UnlinkConsumes ==
    ASSUME IInv, ConsumeInv, NEW v \in Runs, Unlink(v), plan' = plan
    PROVE  ConsumeInv'
<1>1. /\ op.kind = "version" /\ op.at = "next" /\ op.todo = {} /\ op.version = {v}
      /\ UNCHANGED <<disk, pc, held, excused>>
  BY DEF Unlink, Handling, watch
<1>2. ses \in [Sessions -> SesRec] /\ SessionOf[v] \in Sessions
  BY SessionOfAssumption DEF IInv, Typed
<1>3. CascadeInv'
  BY DEF Unlink, Answer, CascadeInv, NoOp, IInv, Typed, Request
<1>4. \A q \in Runs : Excused(q)' <=> Excused(q)
  BY <1>1 DEF Excused
<1>5. \A q \in Runs : Relies(q) /\ plan.uses[q] = v => Excused(q)
  BY <1>1 DEF ConsumeInv, CascadeInv, Relies, Live
<1>6. /\ \A s \in Sessions : ses'[s].manifest => ses[s].manifest
      /\ \A w \in Runs : w # v /\ Version(w) => Version(w)'
  <2>1. CASE ses' = ses
    BY <2>1 DEF Version
  <2>2. CASE ses' = [ses EXCEPT ![SessionOf[v]].versions = @ \ {v}]
    <3>1. \A s \in Sessions : /\ ses'[s].manifest = ses[s].manifest
                              /\ ses[s].versions \ {v} \subseteq ses'[s].versions
      BY <1>2, <2>2 DEF SesRec
    <3> QED BY <3>1, SessionOfAssumption DEF Version
  <2> QED BY <2>1, <2>2 DEF Unlink
<1> QED BY <1>1, <1>3, <1>4, <1>5, <1>6, WebConsumes

\* Where the session stays, so do its versions.
LEMMA SessionDirConsumes ==
    ASSUME IInv, ConsumeInv, NEW s \in Sessions, SessionDir(s), plan' = plan
    PROVE  ConsumeInv'
<1>0. ses \in [Sessions -> SesRec] /\ RunsOf(s) \in SUBSET Runs /\ op.kind = "session"
  BY DEF IInv, Typed, RunsOf, SessionDir, Handling
<1>1. /\ disk' = disk /\ UNCHANGED <<pc, held>> /\ NotCascading
      /\ \A q \in Runs : Excused(q) => Excused(q)'
  <2>1. CASE Abort(RunsOf(s))
    BY <1>0, <2>1, AbortDocs DEF SessionDir
  <2>2. CASE ~Abort(RunsOf(s))
    BY <1>0, <2>2 DEF SessionDir, NotCascading, IInv, Typed, Request, Excuses, Excused
  <2> QED BY <2>1, <2>2
<1>2. /\ \A t \in Sessions : ses'[t].manifest => ses[t].manifest
      /\ \A v \in Runs : Version(v) /\ ses'[SessionOf[v]].manifest => Version(v)'
  <2>1. CASE ses' = [ses EXCEPT ![s] = NothingOf(s)]
    BY <1>0, <2>1, SessionOfAssumption DEF NothingOf, SesRec, Version
  <2>2. CASE \E m \in BOOLEAN : ses' = [ses EXCEPT ![s].manifest = @ /\ m]
    BY <1>0, <2>2, SessionOfAssumption DEF SesRec, Version
  <2> QED BY <2>1, <2>2 DEF SessionDir
<1>3. CascadeInv'
  BY <1>1 DEF NotCascading, CascadeInv
<1> QED BY <1>1, <1>2, <1>3, WebConsumes

\* Naming and activating a version take none away.
LEMMA NamingConsumes ==
    ASSUME IInv, ConsumeInv, plan' = plan, NEW v \in Runs,
           Activate(v) \/ \E named \in BOOLEAN : NameSpeakers(v, named)
    PROVE  ConsumeInv'
<1>0. ses \in [Sessions -> SesRec] /\ SessionOf[v] \in Sessions /\ excused \in Excuses
  BY SessionOfAssumption DEF IInv, Typed
<1>1. /\ disk' = disk /\ UNCHANGED <<pc, held>> /\ op'.kind \in {"none", "map"}
      /\ \A q \in Runs : Excused(q)' <=> Excused(q)
      /\ \A t \in Sessions : /\ ses'[t].manifest = ses[t].manifest
                             /\ ses'[t].versions = ses[t].versions
  <2>1. CASE Activate(v)
    <3>1. /\ disk' = disk /\ UNCHANGED <<pc, held>> /\ op'.kind = "none"
      BY <2>1 DEF Activate, NoOp
    <3>2. \A q \in Runs : Excused(q)' <=> Excused(q)
      BY <1>0, <2>1 DEF Activate, Excuses, Excused
    <3>3. \A t \in Sessions : /\ ses'[t].manifest = ses[t].manifest
                              /\ ses'[t].versions = ses[t].versions
      BY <1>0, <2>1 DEF Activate, SesRec
    <3> QED BY <3>1, <3>2, <3>3
  <2>2. ASSUME NEW named \in BOOLEAN, NameSpeakers(v, named)
        PROVE  /\ disk' = disk /\ UNCHANGED <<pc, held, excused>> /\ op'.kind = "map"
               /\ \A t \in Sessions : /\ ses'[t].manifest = ses[t].manifest
                                      /\ ses'[t].versions = ses[t].versions
    <3>1. /\ disk' = disk /\ UNCHANGED <<pc, held, excused>> /\ op'.kind = "map"
      BY <2>2 DEF NameSpeakers, Begin, NoOp, watch
    <3>2. \A t \in Sessions : /\ ses'[t].manifest = ses[t].manifest
                              /\ ses'[t].versions = ses[t].versions
      BY <1>0, <2>2 DEF NameSpeakers, SesRec
    <3> QED BY <3>1, <3>2
  <2> QED BY <2>1, <2>2 DEF Excused
<1>3. \A w \in Runs : Version(w)' <=> Version(w)
  BY <1>1, SessionOfAssumption DEF Version
<1>4. CascadeInv'
  BY <1>1 DEF CascadeInv
<1> QED BY <1>1, <1>3, <1>4, WebConsumes

\* A new run relies on nothing yet.
LEMMA CreateRunConsumes ==
    ASSUME IInv, ConsumeInv, NEW r \in Runs, CreateRun(r), plan' = plan
    PROVE  ConsumeInv'
<1>0. /\ disk \in [Runs -> DiskRec] /\ pc \in [Runs -> Labels]
  BY DEF IInv, Typed
<1>1. /\ op' = NoOp /\ UNCHANGED <<ses, held, excused>>
      /\ pc' = [pc EXCEPT ![r] = "start"] /\ pc[r] = "absent"
      /\ \A q \in Runs : disk'[q].doc = disk[q].doc
      /\ \A q \in Runs \ {r} : disk'[q] = disk[q]
  BY <1>0 DEF CreateRun, Goto, watch, DiskRec
<1>2. DocsInv'
  BY <1>0, <1>1 DEF ConsumeInv, DocsInv, Makes
<1>3. \A q \in Runs : Relies(q)' => Relies(q)
  BY <1>0, <1>1 DEF ConsumeInv, DocsInv, Relies, Recorded
<1>4. RelyInv'
  BY <1>1, <1>3 DEF ConsumeInv, RelyInv, Version, Excused
<1> QED BY <1>1, <1>2, <1>4 DEF ConsumeInv, CascadeInv, NoOp

\* A crash leaves what is recorded, and no thread.
LEMMA CrashConsumes ==
    ASSUME IInv, ConsumeInv, Crash, plan' = plan
    PROVE  ConsumeInv'
<1>1. /\ op' = NoOp /\ UNCHANGED <<disk, ses, held>>
      /\ \A q \in Runs : pc'[q] = IF Live(q) THEN "done" ELSE pc[q]
  BY DEF Crash, Answer, store
<1>2. \A q \in Runs : Excused(q) => Excused(q)'
  BY DEF Crash, IInv, Typed, Excuses, Excused
<1>3. DocsInv'
  BY <1>1 DEF ConsumeInv, DocsInv, Makes, Live
<1>4. \A q \in Runs : Relies(q)' => Relies(q)
  BY <1>1 DEF Relies, Recorded, Live
<1>5. RelyInv'
  BY <1>1, <1>2, <1>4 DEF ConsumeInv, RelyInv, Version
<1> QED BY <1>1, <1>3, <1>5 DEF ConsumeInv, CascadeInv, NoOp

\* Every step keeps it.
LEMMA StepConsumes == IInv /\ ConsumeInv /\ [Next]_vars => ConsumeInv'
<1> SUFFICES ASSUME IInv, ConsumeInv, [Next]_vars PROVE ConsumeInv'
  OBVIOUS
<1>1. CASE UNCHANGED vars
  BY <1>1 DEF vars, ConsumeInv, DocsInv, RelyInv, CascadeInv, Relies, Recorded, Live, Makes,
              Version, Excused
<1>2. CASE Next
  <2>1. plan' = plan
    BY <1>2 DEF Next
  <2>2. CASE \E r \in Runs : Thread(r)
    BY <2>1, <2>2, ThreadConsumes
  <2>3. CASE \E r \in Runs : CreateRun(r) \/ RemoveRun(r) \/ RunRows(r) \/ NextDependent(r)
    BY <2>1, <2>3, CreateRunConsumes, RemoveRunConsumes, RunRowsConsumes,
       NextDependentConsumes
  <2>4. CASE \E v \in Runs : \/ AskDeleteVersion(v) \/ Unlink(v) \/ Activate(v)
                             \/ \E named \in BOOLEAN : NameSpeakers(v, named)
    BY <2>1, <2>4, AskDeleteVersionConsumes, UnlinkConsumes, NamingConsumes
  <2>5. CASE \E s \in Sessions : SessionDir(s)
    BY <2>1, <2>5, SessionDirConsumes
  <2>6. CASE \E r \in Runs : AskDeleteRun(r)
    <3>1. UNCHANGED <<disk, ses, pc, held, excused>> /\ op'.kind = "run"
      BY <2>6 DEF AskDeleteRun, Begin, NoOp, store, watch
    <3> QED BY <2>1, <3>1, DirConsumes DEF NotCascading, Excused
  <2>7. CASE \E r \in Runs : SessionRun(r)
    <3> PICK r \in Runs : SessionRun(r)
      BY <2>7
    <3>1. op.kind = "session" /\ op \in Request
      BY DEF SessionRun, Handling, IInv, Typed
    <3>2. CASE HalfRemoved(r)
      <4>1. ses' = ses /\ NotCascading
        BY <3>2 DEF HalfRemoved, Abort, Answer, NotCascading, NoOp
      <4> QED BY <2>1, <3>2, <4>1, RemovedDocs, DirConsumes
    <3>3. CASE /\ Removed(r) /\ UNCHANGED <<ses, kept, index>>
               /\ op' = [op EXCEPT !.todo = @ \ {r}, !.gone = @ \cup {r}]
      <4>1. NotCascading
        BY <3>1, <3>3 DEF NotCascading, Request
      <4> QED BY <2>1, <3>3, <4>1, RemovedDocs, DirConsumes
    <3>4. CASE /\ op' = [op EXCEPT !.todo = @ \ {r}]
               /\ UNCHANGED <<store, pc, held, counts, watch>>
      <4>1. NotCascading
        BY <3>1, <3>4 DEF NotCascading, Request
      <4> QED BY <2>1, <3>4, <4>1, DirConsumes DEF store, watch, Excused
    <3> QED BY <3>2, <3>3, <3>4 DEF SessionRun
  <2>8. CASE \E v \in Runs : RefreshNames(v)
    <3> PICK v \in Runs : RefreshNames(v)
      BY <2>8
    <3>1. UNCHANGED <<disk, ses, pc, held>> /\ NotCascading
          /\ \A q \in Runs : Excused(q) => Excused(q)'
      BY AbortDocs DEF RefreshNames, Answer, NotCascading, NoOp, store, Excused, IInv, Typed,
         Excuses
    <3> QED BY <2>1, <3>1, DirConsumes
  <2>9. CASE \E s \in Sessions : \/ AskDeleteSession(s) \/ SessionRows(s)
                                 \/ SessionTree(s, "contributions", "overlays")
                                 \/ SessionTree(s, "overlays", "rows")
    <3>0. PICK s \in Sessions : \/ AskDeleteSession(s) \/ SessionRows(s)
                                \/ SessionTree(s, "contributions", "overlays")
                                \/ SessionTree(s, "overlays", "rows")
      BY <2>9
    <3>1. RunsOf(s) \in SUBSET Runs
      BY DEF RunsOf
    <3>2. UNCHANGED <<disk, ses, pc, held>> /\ NotCascading
          /\ \A q \in Runs : Excused(q) => Excused(q)'
      <4>1. CASE Abort(RunsOf(s))
        BY <3>0, <3>1, <4>1, AbortDocs DEF AskDeleteSession, SessionRows, SessionTree, store
      <4>2. CASE AskDeleteSession(s)
        BY <4>2 DEF AskDeleteSession, Begin, NoOp, NotCascading, store, watch, Excused
      <4>3. CASE SessionRows(s) /\ ~Abort(RunsOf(s))
        BY <4>3 DEF SessionRows, Answer, NoOp, NotCascading, Excused
      <4>4. CASE /\ ~Abort(RunsOf(s))
                 /\ \/ SessionTree(s, "contributions", "overlays")
                    \/ SessionTree(s, "overlays", "rows")
        BY <4>4 DEF SessionTree, Handling, NotCascading, watch, Excused, IInv, Typed, Request
      <4> QED BY <3>0, <4>1, <4>2, <4>3, <4>4
    <3> QED BY <2>1, <3>2, DirConsumes
  <2>10. CASE VersionRows
    <3>1. UNCHANGED <<disk, ses, pc, held>> /\ NotCascading
          /\ \A q \in Runs : Excused(q) => Excused(q)'
      BY <2>10, AbortDocs DEF VersionRows, Answer, NotCascading, NoOp, store, watch, Excused
    <3> QED BY <2>1, <3>1, DirConsumes
  <2> QED BY <1>2, <2>2, <2>3, <2>4, <2>5, <2>6, <2>7, <2>8, <2>9, <2>10, CrashConsumes,
             <2>1 DEF Next, Web
<1> QED BY <1>1, <1>2

\* For any plans, deletions, failures and restarts: a run that succeeded can be traced to
\* the version it consumed, but for the exceptions that are named (delete_ops.py:
\* list_run_dependencies_for_transcript, delete_transcript_version).
THEOREM ConsumersTraced == Spec => []ConsumersKeepTheirVersion
<1>1. ConsumeInv => ConsumersKeepTheirVersion
  BY DEF ConsumeInv, DocsInv, RelyInv, Relies, Recorded, Excused, ConsumersKeepTheirVersion
<1>2. IInv /\ ConsumeInv /\ [Next]_vars => (IInv /\ ConsumeInv)'
  BY StepKeeps, StepConsumes
<1> QED BY <1>1, <1>2, InitIInv, InitConsumes, PTL DEF Spec
-----------------------------------------------------------------------------
(* Whose names a run is found by.                                          *)

Minted == {"record", "save_record", "read", "commit", "receipt", "finish", "save_finish"}
Unindexed == {"absent", "start", "save_start", "transcribe", "emit", "mint"}

\* A version is there only once its thread has minted it, and has rows only then.
VersionsInv ==
    \A v \in Runs : /\ Version(v) => pc[v] = "done" \/ (Makes(v) /\ pc[v] \in Minted)
                    /\ v \in Indexed(index) => pc[v] \notin Unindexed

\* A session without overlays has no version with names.
OverlaysInv ==
    \A s \in Sessions :
        /\ ses[s].mapped # {} => s \in kept.overlays
        /\ op.kind = "session" /\ op.at # "runs" /\ s \in op.session => ses[s].mapped = {}

\* Up to its own indexing a run's version is the active one, or another was activated.
ActiveInv ==
    \A v \in Runs :
        pc[v] \in {"record", "save_record", "read", "commit"} /\ Version(v)
            => ses[SessionOf[v]].active = {v} \/ v \in excused.moved

\* The names are those of the version, but for the one that is being named.
NamedInv ==
    \A v \in Indexed(index) :
        Version(v) /\ ~(op.kind = "map" /\ v \in op.version) =>
            \/ v \in index.maps <=> v \in ses[SessionOf[v]].mapped
            \/ v \in excused.moved \cup excused.faulty

NamesInv == VersionsInv /\ OverlaysInv /\ ActiveInv /\ NamedInv

\* A session begins without names, and with rows of the versions that are there.
LEMMA InitNames == Init => NamesInv
<1> SUFFICES ASSUME Init PROVE NamesInv
  OBVIOUS
<1>1. /\ \A s \in Sessions : ses[s].versions = RunsOf(s) \cap Old /\ ses[s].mapped = {}
      /\ \A r \in Runs : pc[r] = IF r \in Old THEN "done" ELSE "absent"
      /\ \A r \in Runs : index.status[r] = IF r \in Old THEN "running" ELSE NoRow
      /\ index.maps = {} /\ op = NoOp
  BY DEF Init
<1>2. \A v \in Runs : /\ Version(v) => v \in Old
                      /\ v \in Indexed(index) => v \in Old
  BY <1>1, SessionOfAssumption DEF Version, Indexed
<1>3. VersionsInv
  BY <1>1, <1>2 DEF VersionsInv, Unindexed
<1>4. OverlaysInv /\ ActiveInv
  BY <1>1 DEF OverlaysInv, ActiveInv, NoOp
<1>5. NamedInv
  BY <1>1, SessionOfAssumption DEF NamedInv, Indexed
<1> QED BY <1>3, <1>4, <1>5 DEF NamesInv

-----------------------------------------------------------------------------
\* Where a run has its version and no rows yet.
Before == {"record", "save_record", "read", "commit"}

\* The steps of a thread that leave sessions and index alone.
LEMMA QuietNames ==
    ASSUME IInv, NamesInv, plan' = plan, NEW r \in Runs, NEW l \in Labels, Goto(r, l),
           UNCHANGED <<ses, kept, index, op, excused>>,
           \/ pc[r] \in Unindexed
           \/ pc[r] \in Minted /\ l \in Minted \cup {"done"} /\ (l \in Before => pc[r] \in Before)
    PROVE  NamesInv'
<1>1. /\ pc'[r] = l /\ \A q \in Runs \ {r} : pc'[q] = pc[q]
  BY DEF Goto, IInv, Typed
<1>2. pc[r] \in Unindexed => ~Version(r) /\ r \notin Indexed(index)
  BY DEF NamesInv, VersionsInv, Unindexed, Minted
<1>3. VersionsInv'
  BY <1>1, <1>2 DEF NamesInv, VersionsInv, Version, Makes, Minted, Unindexed
<1>4. OverlaysInv' /\ NamedInv'
  BY DEF NamesInv, OverlaysInv, NamedInv, Version
<1>5. ActiveInv'
  BY <1>1, <1>2 DEF NamesInv, ActiveInv, Version, Before
<1> QED BY <1>3, <1>4, <1>5 DEF NamesInv

\* The new version becomes the active one, with the names of the one before it; whoever
\* is not indexed by then will take its names.
LEMMA MintNames ==
    ASSUME IInv, DocsInv, NamesInv, plan' = plan, NEW r \in Runs, Mint(r)
    PROVE  NamesInv'
<1> DEFINE s == SessionOf[r]
<1>0. /\ ses \in [Sessions -> SesRec] /\ pc \in [Runs -> Labels] /\ excused \in Excuses
      /\ s \in Sessions /\ Overtaken(s) \in SUBSET Runs
  BY SessionOfAssumption DEF IInv, Typed, Overtaken, RunsOf
<1>1. /\ pc[r] = "mint" /\ pc'[r] = "record" /\ \A q \in Runs \ {r} : pc'[q] = pc[q]
      /\ UNCHANGED <<kept, index, op>> /\ Makes(r) /\ Makes(r)'
  BY <1>0 DEF Mint, Goto, DocsInv, Makes
<1>2. /\ ses'[s].versions = ses[s].versions \cup {r} /\ ses'[s].active = {r}
      /\ ses'[s].mapped \ {r} = ses[s].mapped \ {r}
      /\ ses[s].mapped = {} => ses'[s].mapped = {}
  BY <1>0, SMTT(30) DEF Mint, SesRec
<1>3. \A t \in Sessions \ {s} : ses'[t] = ses[t]
  BY <1>0 DEF Mint
<1>4. /\ excused'.moved = excused.moved \cup (Overtaken(s) \ {r})
      /\ excused'.faulty = excused.faulty
  BY <1>0 DEF Mint, Excuses
<1>5. \A q \in Runs \ {r} : Version(q)' => Version(q)
  BY <1>2, <1>3, SessionOfAssumption DEF Version
<1>6. r \notin Indexed(index)
  BY <1>1 DEF NamesInv, VersionsInv, Unindexed
<1> HIDE DEF s
<1>7. VersionsInv'
  BY <1>1, <1>5, <1>6 DEF NamesInv, VersionsInv, Makes, Minted
<1>8. OverlaysInv'
  BY <1>1, <1>2, <1>3 DEF NamesInv, OverlaysInv
<1>9. ActiveInv'
  BY <1>1, <1>2, <1>3, <1>4, <1>5, SessionOfAssumption
     DEF NamesInv, ActiveInv, Overtaken, RunsOf, s
<1>10. NamedInv'
  <2>1. \A q \in Indexed(index) : q \in Runs /\ q # r
    BY <1>6 DEF Indexed
  <2>2. \A q \in Indexed(index) :
          q \in ses'[SessionOf[q]].mapped <=> q \in ses[SessionOf[q]].mapped
    BY <1>2, <1>3, <2>1, SessionOfAssumption
  <2> QED BY <1>1, <1>4, <1>5, <2>1, <2>2 DEF NamesInv, NamedInv
<1> QED BY <1>7, <1>8, <1>9, <1>10 DEF NamesInv

\* What a transaction leaves of the names.
LEMMA DeleteMaps ==
    ASSUME NEW ix \in Index, NEW rs
    PROVE  WithoutRuns(ix, rs).maps = ix.maps \ rs
BY DEF Index, WithoutRuns

\* And one that deletes a session.
LEMMA DeleteSessionMaps ==
    ASSUME NEW ix, Consistent(ix), NEW s \in Sessions
    PROVE  WithoutSession(ix, s).maps = ix.maps \ RunsOf(s)
<1>1. /\ WithoutRuns(ix, RunsOf(s)).maps = ix.maps \ RunsOf(s)
      /\ WithoutRuns(ix, RunsOf(s)) \in Index
  BY DeleteMaps, DeleteKeeps DEF Consistent, RunsOf
<1> QED BY <1>1 DEF WithoutSession, Index

\* A run is indexed with the names of the active version: its own, or it was overtaken.
LEMMA CommitNames ==
    ASSUME IInv, NamesInv, plan' = plan, NEW r \in Runs, Commit(r)
    PROVE  NamesInv'
<1> DEFINE s == SessionOf[r]
<1>0. pc[r] = "commit" /\ pc \in [Runs -> Labels] /\ s \in Sessions
  BY SessionOfAssumption DEF Commit, IInv, Typed
<1>1. /\ pc'[r] = "receipt" /\ \A q \in Runs \ {r} : pc'[q] = pc[q]
      /\ UNCHANGED <<ses, kept, op, excused>>
  BY <1>0 DEF Commit, Goto, ThreadOnly, watch
<1>2. /\ Indexed(index') = Indexed(index) \cup {r}
      /\ index'.maps = IF NamesFound(s) THEN index.maps \cup {r} ELSE index.maps \ {r}
  <2>1. Consistent(index) /\ disk[r].doc.status \in RunStatuses
    BY DEF IInv, Typed, TablesConsistent, Consistent, DiskRec, Doc
  <2> DEFINE named == NamesFound(s)
             source == TranscriptSource({"json"}, {"json"})
             status == disk[r].doc.status
  <2>2. named \in BOOLEAN /\ source \in Sources
    BY DEF NamesFound, TranscriptSource, Sources
  <2>3. index' = Ingested(index, r, status, source, named)
    BY DEF Commit
  <2>4. status \in RunStatuses
    BY <2>1
  <2> HIDE DEF named, source, status
  <2>5. Indexed(index') = Indexed(index) \cup {r}
    BY <2>1, <2>2, <2>3, <2>4, IngestKeeps
  <2>6. index'.maps = IF named THEN index.maps \cup {r} ELSE index.maps \ {r}
    <3>1. index \in Index
      BY <2>1 DEF Consistent
    <3> QED BY <3>1, <2>3 DEF Index, Ingested
  <2> QED BY <2>5, <2>6 DEF named
<1>3. \A q \in Runs : Version(q)' <=> Version(q)
  BY <1>1 DEF Version
<1>4. VersionsInv' /\ OverlaysInv' /\ ActiveInv'
  BY <1>0, <1>1, <1>2, <1>3
     DEF NamesInv, VersionsInv, OverlaysInv, ActiveInv, Makes, Minted, Unindexed
<1>5. Version(r) => \/ NamesFound(s) <=> r \in ses[s].mapped
                    \/ r \in excused.moved
  BY <1>0 DEF NamesInv, OverlaysInv, ActiveInv, NamesFound
<1> HIDE DEF s
<1>6. NamedInv'
  <2> SUFFICES ASSUME NEW v \in Indexed(index'), Version(v),
                      ~(op.kind = "map" /\ v \in op.version)
               PROVE  \/ v \in index'.maps <=> v \in ses[SessionOf[v]].mapped
                      \/ v \in excused.moved \cup excused.faulty
    BY <1>1, <1>3 DEF NamedInv, Indexed
  <2>1. CASE v = r
    BY <1>2, <1>5, <2>1 DEF s
  <2>2. CASE v # r
    BY <1>2, <2>2 DEF NamesInv, NamedInv
  <2> QED BY <2>1, <2>2
<1> QED BY <1>4, <1>6 DEF NamesInv

\* All steps of a thread.
LEMMA ThreadNames ==
    ASSUME IInv, DocsInv, NamesInv, plan' = plan, NEW r \in Runs, Thread(r)
    PROVE  NamesInv'
<1>1. CASE Mint(r)
  BY <1>1, MintNames
<1>2. CASE Commit(r)
  BY <1>2, CommitNames
<1>3. ASSUME NEW l \in Labels, Goto(r, l), UNCHANGED <<ses, index>>, ThreadOnly,
             \/ pc[r] \in Unindexed
             \/ /\ pc[r] \in Minted /\ l \in Minted \cup {"done"}
                /\ l \in Before => pc[r] \in Before
      PROVE  NamesInv'
  BY <1>3, QuietNames DEF ThreadOnly, watch
<1>4. /\ {"save_start", "transcribe", "emit", "mint", "save_record", "read", "commit",
          "receipt", "finish", "save_finish", "done"} \subseteq Labels
  BY DEF Labels
<1>5. CASE Fail(r)
  <2>1. pc[r] \in Unindexed \cup Minted
    BY <1>5 DEF Thread, LoadAt, SaveAt, Transcribe, Emit, Mint, Read, Commit, Receipt, Render,
                Finish, Unindexed, Minted
  <2> QED BY <1>3, <1>4, <1>5, <2>1 DEF Fail, Minted, Before
<1>6. CASE ~Fail(r) /\ (\/ LoadAt(r, "start", "save_start", Running(disk[r].doc))
                        \/ LoadAt(r, "record", "save_record", disk[r].doc))
  BY <1>3, <1>4, <1>6 DEF LoadAt, Minted, Before, Unindexed
<1>7. CASE \/ SaveAt(r, "save_start", "transcribe") \/ SaveAt(r, "save_record", "read")
           \/ SaveAt(r, "save_finish", "done")
  BY <1>3, <1>4, <1>7 DEF SaveAt, Minted, Before, Unindexed
<1>8. CASE ~Fail(r) /\ (Transcribe(r) \/ Emit(r))
  BY <1>3, <1>4, <1>8 DEF Transcribe, Emit, Unindexed
<1>9. CASE ~Fail(r) /\ (Read(r) \/ Receipt(r) \/ Finish(r))
  BY <1>3, <1>4, <1>9 DEF Read, Receipt, Finish, Minted, Before
<1> QED BY <1>1, <1>2, <1>5, <1>6, <1>7, <1>8, <1>9 DEF Thread, Render

-----------------------------------------------------------------------------
\* A step of the web process that names nothing, activates nothing, indexes nothing and
\* takes no overlay away.
LEMMA WebNames ==
    ASSUME IInv, NamesInv, UNCHANGED <<plan, pc>>, kept'.overlays = kept.overlays,
           \A v \in Runs : Version(v)' => Version(v),
           \A s \in Sessions : /\ ses'[s].mapped = ses[s].mapped
                               /\ ses'[s].active = ses[s].active,
           excused.moved \subseteq excused'.moved, excused.faulty \subseteq excused'.faulty,
           Indexed(index') \subseteq Indexed(index),
           \A v \in Indexed(index') : v \in index'.maps <=> v \in index.maps,
           op.kind # "map",
           op'.kind = "session" /\ op'.at # "runs" =>
               op.kind = "session" /\ op.at # "runs" /\ op'.session \subseteq op.session
    PROVE  NamesInv'
<1>1. VersionsInv'
  BY DEF NamesInv, VersionsInv, Makes
<1>2. OverlaysInv' /\ ActiveInv'
  BY SessionOfAssumption DEF NamesInv, OverlaysInv, ActiveInv
<1>3. NamedInv'
  <2>1. \A v \in Indexed(index') : v \in Indexed(index) /\ SessionOf[v] \in Sessions /\ v \in Runs
    BY SessionOfAssumption DEF Indexed
  <2> QED BY <2>1 DEF NamesInv, NamedInv
<1> QED BY <1>1, <1>2, <1>3 DEF NamesInv

\* Such a step that only moves the request on: directories and documents may change.
LEMMA OpNames ==
    ASSUME IInv, NamesInv, UNCHANGED <<plan, pc, ses, kept, index>>,
           excused.moved \subseteq excused'.moved, excused.faulty \subseteq excused'.faulty,
           op.kind # "map",
           op'.kind = "session" /\ op'.at # "runs" =>
               op.kind = "session" /\ op.at # "runs" /\ op'.session \subseteq op.session
    PROVE  NamesInv'
BY WebNames DEF Version

\* What an error leaves.
LEMMA AbortNames ==
    ASSUME IInv, NEW rs \in SUBSET Runs, Abort(rs)
    PROVE  /\ op' = NoOp /\ op'.kind = "none" /\ pc' = pc
           /\ excused'.moved = excused.moved /\ excused'.faulty = excused.faulty \cup op.gone \cup rs
BY DEF Abort, Answer, NoOp, IInv, Typed, Excuses

\* A directory that goes has no names.
LEMMA DirNames ==
    ASSUME IInv, NamesInv, plan' = plan, NEW r \in Runs, op.kind # "map",
           UNCHANGED <<ses, kept, index>>,
           \/ HalfRemoved(r)
           \/ Removed(r) /\ (op'.kind = "session" /\ op'.at # "runs" =>
                                op.kind = "session" /\ op.at # "runs"
                                /\ op'.session \subseteq op.session)
    PROVE  NamesInv'
<1>1. CASE HalfRemoved(r)
  <2>1. Abort({r})
    BY <1>1 DEF HalfRemoved
  <2> QED BY <2>1, AbortNames, OpNames
<1>2. CASE Removed(r) /\ ~HalfRemoved(r)
  <2>1. /\ excused'.moved = excused.moved /\ excused'.faulty = excused.faulty /\ pc' = pc
    BY <1>2 DEF Removed, IInv, Typed, Excuses
  <2> QED BY <1>2, <2>1, OpNames
<1> QED BY <1>1, <1>2

\* The steps of the three deletions, but for a session's directory and overlays.
LEMMA DeleteNames ==
    ASSUME IInv, NamesInv, plan' = plan, op.kind # "map",
           \/ \E r \in Runs : \/ AskDeleteRun(r) \/ RemoveRun(r) \/ RunRows(r)
                              \/ AskDeleteVersion(r) \/ NextDependent(r) \/ Unlink(r)
                              \/ SessionRun(r)
           \/ VersionRows
           \/ \E s \in Sessions : \/ AskDeleteSession(s) \/ SessionRows(s)
                                  \/ SessionTree(s, "contributions", "overlays")
    PROVE  NamesInv'
<1>0. op \in Request /\ Consistent(index) /\ excused \in Excuses /\ ses \in [Sessions -> SesRec]
  BY DEF IInv, Typed, TablesConsistent, Consistent
<1> DEFINE onward == op'.kind = "session" /\ op'.at # "runs" =>
                       op.kind = "session" /\ op.at # "runs" /\ op'.session \subseteq op.session
<1>1. CASE \E r \in Runs : AskDeleteRun(r) \/ AskDeleteVersion(r)
  <2>1. /\ UNCHANGED <<pc, ses, kept, index>> /\ op'.kind \in {"run", "version"}
        /\ excused'.moved = excused.moved /\ excused'.faulty = excused.faulty
    BY <1>0, <1>1 DEF AskDeleteRun, AskDeleteVersion, Begin, NoOp, store, watch, Excuses
  <2> QED BY <2>1, OpNames
<1>2. CASE \E s \in Sessions : AskDeleteSession(s)
  <2>1. UNCHANGED <<pc, ses, kept, index, excused>> /\ op'.at = "runs"
    BY <1>2 DEF AskDeleteSession, Begin, NoOp, store, watch
  <2> QED BY <2>1, OpNames
<1>3. CASE \E r \in Runs : RemoveRun(r)
  <2> PICK r \in Runs : RemoveRun(r)
    BY <1>3
  <2>1. CASE HalfRemoved(r)
    BY <2>1, DirNames DEF HalfRemoved
  <2>2. CASE Removed(r) /\ op' = [op EXCEPT !.at = "rows"] /\ UNCHANGED <<ses, kept, index>>
    <3>1. op.kind # "session"
      BY DEF RemoveRun, IInv, OpInv
    <3>2. op'.kind = op.kind
      BY <1>0, <2>2 DEF Request
    <3> QED BY <2>2, <3>1, <3>2, DirNames
  <2> QED BY <2>1, <2>2 DEF RemoveRun
<1>4. CASE \E r \in Runs : SessionRun(r)
  <2> PICK r \in Runs : SessionRun(r)
    BY <1>4
  <2>0. op.kind = "session" /\ op.at = "runs"
    BY DEF SessionRun, Handling
  <2>1. CASE HalfRemoved(r)
    BY <2>1, DirNames DEF HalfRemoved
  <2>2. CASE /\ Removed(r) /\ UNCHANGED <<ses, kept, index>>
             /\ op' = [op EXCEPT !.todo = @ \ {r}, !.gone = @ \cup {r}]
    <3>1. op'.at = "runs"
      BY <1>0, <2>0, <2>2 DEF Request
    <3> QED BY <2>2, <3>1, DirNames
  <2>3. CASE /\ op' = [op EXCEPT !.todo = @ \ {r}]
             /\ UNCHANGED <<store, pc, held, counts, watch>>
    <3>1. op'.at = "runs"
      BY <1>0, <2>0, <2>3 DEF Request
    <3> QED BY <2>3, <3>1, OpNames DEF store, watch
  <2> QED BY <2>1, <2>2, <2>3 DEF SessionRun
<1>5. CASE \E r \in Runs : NextDependent(r)
  <2>1. UNCHANGED <<pc, ses, kept, index, excused>> /\ op'.kind = "version"
    BY <1>0, <1>5 DEF NextDependent, Handling, store, watch, Request
  <2> QED BY <2>1, OpNames
<1>6. CASE \E r \in Runs : Unlink(r)
  <2> PICK v \in Runs : Unlink(v)
    BY <1>6
  <2>1. UNCHANGED <<pc, kept, index, excused>> /\ op'.kind \in {"version", "none"}
    BY <1>0 DEF Unlink, Handling, Answer, NoOp, watch, Request
  <2>2. \A s \in Sessions : /\ ses'[s].mapped = ses[s].mapped /\ ses'[s].active = ses[s].active
                           /\ ses'[s].versions \subseteq ses[s].versions
    <3>1. CASE ses' = ses
      BY <3>1
    <3>2. CASE ses' = [ses EXCEPT ![SessionOf[v]].versions = @ \ {v}]
      BY <1>0, <3>2, SessionOfAssumption DEF SesRec
    <3> QED BY <3>1, <3>2 DEF Unlink
  <2>3. \A w \in Runs : Version(w)' => Version(w)
    BY <2>2, SessionOfAssumption DEF Version
  <2> QED BY <2>1, <2>2, <2>3, WebNames
<1>7. ASSUME NEW rs \in SUBSET Runs, Abort(rs), UNCHANGED store
      PROVE  NamesInv'
  BY <1>7, AbortNames, OpNames DEF store
<1>8. ASSUME UNCHANGED <<pc, ses, kept, excused>>, op'.kind # "session", NEW rs,
             Indexed(index') = Indexed(index) \ rs, index'.maps = index.maps \ rs
      PROVE  NamesInv'
  BY <1>8, WebNames DEF Version
<1>9. CASE \E r \in Runs : RunRows(r)
  <2> PICK r \in Runs : RunRows(r)
    BY <1>9
  <2>1. CASE Abort({r}) /\ UNCHANGED store
    BY <1>7, <2>1
  <2>2. CASE /\ index' = WithoutRuns(index, {r})
             /\ op' = IF op.kind = "run" THEN NoOp
                      ELSE [op EXCEPT !.at = "next", !.now = {}, !.gone = @ \cup {r}]
             /\ UNCHANGED <<disk, ses, kept, pc, held, counts, excused>>
    <3>1. op'.kind # "session"
      BY <1>0, <2>2 DEF RunRows, NoOp, Request
    <3>2. Indexed(index') = Indexed(index) \ {r} /\ index'.maps = index.maps \ {r}
      BY <1>0, <2>2, DeleteKeeps, DeleteMaps DEF Consistent
    <3> QED BY <1>8, <2>2, <3>1, <3>2
  <2> QED BY <2>1, <2>2 DEF RunRows
<1>10. CASE VersionRows /\ ~(Abort({}) /\ UNCHANGED store)
  <2>1. UNCHANGED <<pc, ses, kept, excused>> /\ op'.kind # "session"
    BY <1>10 DEF VersionRows, Answer, NoOp, watch
  <2>2. /\ Indexed(index') = Indexed(index) \ op.gone /\ index'.maps = index.maps \ op.gone
    BY <1>0, <1>10, DeleteKeeps, DeleteMaps DEF VersionRows, Consistent, Request
  <2> QED BY <1>8, <2>1, <2>2
<1>11. ASSUME NEW s \in Sessions, SessionRows(s), ~(Abort(RunsOf(s)) /\ UNCHANGED store)
       PROVE  NamesInv'
  <2>1. UNCHANGED <<pc, ses, kept, excused>> /\ op'.kind # "session"
    BY <1>11 DEF SessionRows, Answer, NoOp
  <2> DEFINE mid == WithoutRuns(index, op.gone)
  <2>2. index' = WithoutSession(mid, s)
    BY <1>11 DEF SessionRows
  <2>3. Consistent(mid) /\ Indexed(mid) = Indexed(index) \ op.gone
        /\ mid.maps = index.maps \ op.gone
    BY <1>0, DeleteKeeps, DeleteMaps DEF Consistent, Request
  <2> HIDE DEF mid
  <2>4. /\ Indexed(index') = Indexed(mid) \ RunsOf(s) /\ index'.maps = mid.maps \ RunsOf(s)
    BY <2>2, <2>3, DeleteSessionKeeps, DeleteSessionMaps
  <2>5. /\ Indexed(index') = Indexed(index) \ (op.gone \cup RunsOf(s))
        /\ index'.maps = index.maps \ (op.gone \cup RunsOf(s))
    BY <2>3, <2>4
  <2> QED BY <1>8, <2>1, <2>5
<1>12. ASSUME NEW s \in Sessions, SessionTree(s, "contributions", "overlays"),
              ~(Abort(RunsOf(s)) /\ UNCHANGED kept)
       PROVE  NamesInv'
  <2>1. /\ kept' = [kept EXCEPT !["contributions"] = @ \ {s}]
        /\ op' = [op EXCEPT !.at = "overlays"] /\ UNCHANGED <<pc, ses, index, excused>>
        /\ op.kind = "session" /\ op.at = "contributions"
    BY <1>12 DEF SessionTree, Handling, watch
  <2>2. kept'.overlays = kept.overlays
    BY <2>1 DEF IInv, Typed, KeptRec
  <2>3. op'.session = op.session
    BY <1>0, <2>1 DEF Request
  <2> QED BY <2>1, <2>2, <2>3, WebNames DEF Version
<1>13. ASSUME NEW s \in Sessions, Abort(RunsOf(s)), UNCHANGED <<ses, kept, index>>
       PROVE  NamesInv'
  <2>1. RunsOf(s) \in SUBSET Runs
    BY DEF RunsOf
  <2> QED BY <1>13, <2>1, AbortNames, OpNames
<1>14. CASE \E s \in Sessions : SessionRows(s)
  BY <1>11, <1>13, <1>14 DEF SessionRows, store
<1>15. CASE \E s \in Sessions : SessionTree(s, "contributions", "overlays")
  BY <1>12, <1>13, <1>15 DEF SessionTree
<1>16. CASE VersionRows
  BY <1>7, <1>10, <1>16 DEF VersionRows
<1> QED BY <1>1, <1>2, <1>3, <1>4, <1>5, <1>6, <1>9, <1>14, <1>15, <1>16

\* What a deletion of a session does to its names, and what naming does.
LEMMA SessionDirNames ==
    ASSUME IInv, NamesInv, plan' = plan, NEW s \in Sessions, SessionDir(s)
    PROVE  NamesInv'
<1>0. /\ op.kind = "session" /\ op.session = {s} /\ op \in Request /\ ses \in [Sessions -> SesRec]
      /\ UNCHANGED <<kept, index>> /\ RunsOf(s) \in SUBSET Runs
  BY DEF SessionDir, Handling, IInv, Typed, RunsOf
<1>1. CASE Abort(RunsOf(s)) /\ \E m \in BOOLEAN : ses' = [ses EXCEPT ![s].manifest = @ /\ m]
  <2>1. /\ op'.kind = "none" /\ pc' = pc /\ excused'.moved = excused.moved
        /\ excused.faulty \subseteq excused'.faulty
    BY <1>0, <1>1, AbortNames
  <2>2. \A t \in Sessions : /\ ses'[t].mapped = ses[t].mapped /\ ses'[t].active = ses[t].active
                            /\ ses'[t].versions = ses[t].versions
    BY <1>0, <1>1 DEF SesRec
  <2>3. \A v \in Runs : Version(v)' => Version(v)
    BY <2>2, SessionOfAssumption DEF Version
  <2> QED BY <1>0, <2>1, <2>2, <2>3, WebNames
<1>2. CASE /\ ses' = [ses EXCEPT ![s] = NothingOf(s)]
           /\ op' = [op EXCEPT !.at = "contributions"]
           /\ excused' = [excused EXCEPT !.raced = @ \cup {r \in RunsOf(s) : Live(r)}]
           /\ UNCHANGED <<pc, held, counts, confirmed>>
  <2>1. /\ op'.kind = "session" /\ op'.session = {s} /\ excused'.moved = excused.moved
        /\ excused'.faulty = excused.faulty
    BY <1>0, <1>2 DEF IInv, Typed, Request, Excuses
  <2>2. /\ ses'[s].versions = {} /\ ses'[s].mapped = {}
        /\ \A t \in Sessions \ {s} : ses'[t] = ses[t]
    BY <1>0, <1>2 DEF NothingOf, SesRec
  <2>3. \A v \in Runs : Version(v)' => Version(v) /\ SessionOf[v] \in Sessions \ {s}
    BY <2>2, SessionOfAssumption DEF Version
  <2>4. VersionsInv' /\ OverlaysInv'
    BY <1>0, <1>2, <2>1, <2>2, <2>3 DEF NamesInv, VersionsInv, OverlaysInv, Makes
  <2>5. ActiveInv'
    BY <1>2, <2>1, <2>2, <2>3 DEF NamesInv, ActiveInv
  <2>6. NamedInv'
    BY <1>0, <2>1, <2>2, <2>3 DEF NamesInv, NamedInv, Indexed
  <2> QED BY <2>4, <2>5, <2>6 DEF NamesInv
<1> QED BY <1>1, <1>2 DEF SessionDir

\* The overlays of a session go when it has no version left that could be named.
LEMMA OverlaysNames ==
    ASSUME IInv, NamesInv, plan' = plan, NEW s \in Sessions, SessionTree(s, "overlays", "rows")
    PROVE  NamesInv'
<1>0. /\ op.kind = "session" /\ op.at = "overlays" /\ op.session = {s} /\ op \in Request
      /\ UNCHANGED <<ses, index>> /\ RunsOf(s) \in SUBSET Runs
  BY DEF SessionTree, Handling, IInv, Typed, RunsOf
<1>1. CASE Abort(RunsOf(s)) /\ UNCHANGED kept
  BY <1>0, <1>1, AbortNames, OpNames
<1>2. CASE /\ kept' = [kept EXCEPT !["overlays"] = @ \ {s}] /\ op' = [op EXCEPT !.at = "rows"]
           /\ UNCHANGED <<pc, held, counts, watch>>
  <2>1. /\ kept'.overlays = kept.overlays \ {s} /\ op'.kind = "session" /\ op'.session = {s}
        /\ excused' = excused /\ pc' = pc
    BY <1>0, <1>2 DEF IInv, Typed, KeptRec, Request, watch
  <2>2. VersionsInv' /\ OverlaysInv' /\ ActiveInv' /\ NamedInv'
    BY <1>0, <2>1
       DEF NamesInv, VersionsInv, OverlaysInv, ActiveInv, NamedInv, Version, Makes
  <2> QED BY <2>2 DEF NamesInv
<1> QED BY <1>1, <1>2 DEF SessionTree

\* Between the pointer and the rows of a naming the request stands for the difference.
LEMMA NameSpeakersNames ==
    ASSUME IInv, NamesInv, plan' = plan, NEW v \in Runs, NEW named \in BOOLEAN,
           NameSpeakers(v, named)
    PROVE  NamesInv'
<1> DEFINE s == SessionOf[v]
<1>0. ses \in [Sessions -> SesRec] /\ s \in Sessions /\ kept \in KeptRec
  BY SessionOfAssumption DEF IInv, Typed
<1>1. /\ op = NoOp /\ op'.kind = "map" /\ op'.version = {v}
      /\ UNCHANGED <<index, pc, excused>>
  BY DEF NameSpeakers, Begin, NoOp, watch
<1>2. /\ kept.overlays \subseteq kept'.overlays
      /\ ses'[s].versions = ses[s].versions /\ ses'[s].active = ses[s].active
      /\ ses'[s].mapped \ {v} = ses[s].mapped \ {v}
      /\ ses'[s].mapped # {} => ses[s].mapped # {} \/ s \in kept'.overlays
      /\ \A t \in Sessions \ {s} : ses'[t] = ses[t]
  <2>1. CASE named
    BY <1>0, <2>1 DEF NameSpeakers, SesRec, KeptRec
  <2>2. CASE ~named
    BY <1>0, <2>2 DEF NameSpeakers, SesRec, KeptRec
  <2> QED BY <2>1, <2>2
<1>3. \A w \in Runs : /\ (Version(w)' <=> Version(w))
                      /\ w # v => (w \in ses'[SessionOf[w]].mapped <=>
                                      w \in ses[SessionOf[w]].mapped)
  BY <1>2, SessionOfAssumption DEF Version
<1> HIDE DEF s
<1>4. VersionsInv' /\ ActiveInv'
  BY <1>1, <1>2, <1>3, SessionOfAssumption DEF NamesInv, VersionsInv, ActiveInv, Makes
<1>5. OverlaysInv'
  BY <1>1, <1>2 DEF NamesInv, OverlaysInv
<1>6. NamedInv'
  <2>1. \A w \in Indexed(index) : w \in Runs
    BY DEF Indexed
  <2>2. op.kind # "map"
    BY <1>1 DEF NoOp
  <2> QED BY <1>1, <1>3, <2>1, <2>2 DEF NamesInv, NamedInv
<1> QED BY <1>4, <1>5, <1>6 DEF NamesInv

\* The rows of the named version are those of the pointer, or the refresh has failed.
LEMMA RefreshNamesNames ==
    ASSUME IInv, NamesInv, plan' = plan, NEW v \in Runs, RefreshNames(v)
    PROVE  NamesInv'
<1> DEFINE named == v \in ses[SessionOf[v]].mapped
<1>0. /\ op.kind = "map" /\ op.version = {v} /\ Version(v) /\ Consistent(index)
      /\ excused \in Excuses
  BY DEF RefreshNames, Handling, IInv, OpInv, Typed, TablesConsistent, Consistent
<1>1. /\ UNCHANGED <<ses, kept, pc>> /\ op' = NoOp /\ excused'.moved = excused.moved
      /\ excused.faulty \subseteq excused'.faulty
      /\ \A q \in Runs : Version(q)' <=> Version(q)
  <2>1. CASE Abort({v}) /\ UNCHANGED store
    BY <2>1, AbortNames DEF store, Version
  <2>2. CASE ~(Abort({v}) /\ UNCHANGED store)
    BY <1>0, <2>2 DEF RefreshNames, Answer, Excuses, Version
  <2> QED BY <2>1, <2>2
<1>2. OverlaysInv' /\ ActiveInv'
  BY <1>1 DEF NamesInv, OverlaysInv, ActiveInv, NoOp
<1>3. CASE Abort({v}) /\ UNCHANGED store
  <2>1. index' = index /\ v \in excused'.faulty
    BY <1>3, AbortNames DEF store
  <2>2. VersionsInv'
    BY <1>1, <2>1 DEF NamesInv, VersionsInv, Makes
  <2>3. NamedInv'
    BY <1>0, <1>1, <2>1 DEF NamesInv, NamedInv, Indexed
  <2> QED BY <1>2, <2>2, <2>3 DEF NamesInv
<1>4. CASE index' = Refreshed(index, v, named)
  <2>0. named \in BOOLEAN
    OBVIOUS
  <2> HIDE DEF named
  <2>1. /\ Indexed(index') = Indexed(index) \cup {v}
        /\ index'.maps = IF named THEN index.maps \cup {v} ELSE index.maps \ {v}
    <3>1. index \in Index
      BY <1>0 DEF Consistent
    <3>2. Indexed(index') = Indexed(index) \cup {v}
      BY <1>0, <1>4, <2>0, RefreshKeeps
    <3>3. index'.maps = IF named THEN index.maps \cup {v} ELSE index.maps \ {v}
      BY <1>4, <3>1 DEF Index, Refreshed
    <3> QED BY <3>2, <3>3
  <2>2. VersionsInv'
    BY <1>0, <1>1, <2>1 DEF NamesInv, VersionsInv, Makes, Minted, Unindexed
  <2>3. NamedInv'
    BY <1>0, <1>1, <2>1 DEF NamesInv, NamedInv, NoOp, named, Indexed
  <2> QED BY <1>2, <2>2, <2>3 DEF NamesInv
<1> QED BY <1>3, <1>4 DEF RefreshNames

\* Who has not been indexed when another version is made active is noted.
LEMMA ActivateNames ==
    ASSUME IInv, NamesInv, plan' = plan, NEW v \in Runs, Activate(v)
    PROVE  NamesInv'
<1> DEFINE s == SessionOf[v]
<1>0. ses \in [Sessions -> SesRec] /\ s \in Sessions /\ excused \in Excuses
  BY SessionOfAssumption DEF IInv, Typed
<1>1. UNCHANGED <<kept, index, pc, op>> /\ op = NoOp
  BY DEF Activate
<1>2. /\ ses'[s].active = {v}
      /\ \A t \in Sessions : ses'[t].versions = ses[t].versions /\ ses'[t].mapped = ses[t].mapped
      /\ \A t \in Sessions \ {s} : ses'[t] = ses[t]
  BY <1>0 DEF Activate, SesRec
<1>3. /\ excused'.moved = excused.moved \cup (Overtaken(s) \ {v})
      /\ excused'.faulty = excused.faulty
  BY <1>0 DEF Activate, Excuses
<1>4. \A w \in Runs : Version(w)' <=> Version(w)
  BY <1>2, SessionOfAssumption DEF Version
<1> HIDE DEF s
<1>5. VersionsInv' /\ OverlaysInv'
  BY <1>1, <1>2, <1>4 DEF NamesInv, VersionsInv, OverlaysInv, Makes
<1>6. ActiveInv'
  BY <1>1, <1>2, <1>3, <1>4, SessionOfAssumption DEF NamesInv, ActiveInv, Overtaken, RunsOf, s
<1>7. NamedInv'
  <2>1. \A w \in Indexed(index) : w \in Runs /\ SessionOf[w] \in Sessions
    BY SessionOfAssumption DEF Indexed
  <2> QED BY <1>1, <1>2, <1>3, <1>4, <2>1 DEF NamesInv, NamedInv
<1> QED BY <1>5, <1>6, <1>7 DEF NamesInv

\* A new run has no version and no rows.
LEMMA CreateRunNames ==
    ASSUME IInv, NamesInv, plan' = plan, NEW r \in Runs, CreateRun(r)
    PROVE  NamesInv'
BY QuietNames DEF CreateRun, watch, Labels, Unindexed

\* A crash leaves a version that was being named with the names it had in the index.
LEMMA CrashNames ==
    ASSUME IInv, NamesInv, plan' = plan, Crash
    PROVE  NamesInv'
<1>1. /\ op' = NoOp /\ UNCHANGED <<ses, kept, index>>
      /\ \A q \in Runs : pc'[q] = IF Live(q) THEN "done" ELSE pc[q]
      /\ excused'.moved = excused.moved /\ excused.faulty \cup op.version \subseteq excused'.faulty
  BY DEF Crash, Answer, store, IInv, Typed, Excuses
<1>2. \A v \in Runs : Version(v)' <=> Version(v)
  BY <1>1 DEF Version
<1>3. VersionsInv'
  BY <1>1, <1>2 DEF NamesInv, VersionsInv, Live, Minted, Unindexed
<1>4. OverlaysInv' /\ ActiveInv'
  BY <1>1, <1>2 DEF NamesInv, OverlaysInv, ActiveInv, NoOp, Live
<1>5. NamedInv'
  BY <1>1, <1>2 DEF NamesInv, NamedInv, NoOp, Indexed
<1> QED BY <1>3, <1>4, <1>5 DEF NamesInv

\* Every step keeps it.
LEMMA StepNames == IInv /\ DocsInv /\ NamesInv /\ [Next]_vars => NamesInv'
<1> SUFFICES ASSUME IInv, DocsInv, NamesInv, [Next]_vars PROVE NamesInv'
  OBVIOUS
<1>1. CASE UNCHANGED vars
  BY <1>1 DEF vars, NamesInv, VersionsInv, OverlaysInv, ActiveInv, NamedInv, Version, Makes,
              Indexed
<1>2. CASE Next
  <2>1. plan' = plan
    BY <1>2 DEF Next
  <2>2. CASE \E r \in Runs : Thread(r)
    BY <2>1, <2>2, ThreadNames
  <2>3. CASE Crash
    BY <2>1, <2>3, CrashNames
  <2>4. CASE Web
    <3>1. CASE \/ \E r \in Runs : \/ AskDeleteRun(r) \/ RemoveRun(r) \/ RunRows(r)
                                  \/ AskDeleteVersion(r) \/ NextDependent(r) \/ Unlink(r)
                                 \/ SessionRun(r)
               \/ VersionRows
               \/ \E s \in Sessions : \/ AskDeleteSession(s) \/ SessionRows(s)
                                      \/ SessionTree(s, "contributions", "overlays")
      <4>1. op.kind # "map"
        <5>1. op.kind = "map" => op.at = "refresh" /\ op.now = {}
          BY DEF IInv, OpInv
        <5>2. \/ op = NoOp \/ op.kind \in {"run", "version", "session"} \/ op.at = "remove"
          BY <3>1 DEF AskDeleteRun, RemoveRun, RunRows, AskDeleteVersion, NextDependent,
                      Unlink, SessionRun, VersionRows, AskDeleteSession, SessionRows,
                      SessionTree, Handling, Begin
        <5> QED BY <5>1, <5>2 DEF NoOp
      <4> QED BY <2>1, <3>1, <4>1, DeleteNames
    <3>2. CASE \E r \in Runs : \/ CreateRun(r) \/ RefreshNames(r) \/ Activate(r)
                               \/ \E named \in BOOLEAN : NameSpeakers(r, named)
      BY <2>1, <3>2, CreateRunNames, RefreshNamesNames, ActivateNames, NameSpeakersNames
    <3>3. CASE \E s \in Sessions : SessionDir(s) \/ SessionTree(s, "overlays", "rows")
      BY <2>1, <3>3, SessionDirNames, OverlaysNames
    <3> QED BY <2>4, <3>1, <3>2, <3>3 DEF Web
  <2> QED BY <1>2, <2>2, <2>3, <2>4 DEF Next
<1> QED BY <1>1, <1>2

\* For any requests, failures and restarts: once it is indexed, a run is found by the names
\* of its own version, but for the exceptions that are named (ingest.py: ingest_run;
\* app.py: speaker maps and activation).
THEOREM NamesAlwaysFollow == Spec => []NamesFollowVersion
<1>1. NamesInv => NamesFollowVersion
  BY DEF NamesInv, NamedInv, NamesFollowVersion
<1>2. IInv /\ ConsumeInv /\ [Next]_vars => (IInv /\ ConsumeInv)'
  BY StepKeeps, StepConsumes
<1>3. ConsumeInv /\ IInv /\ NamesInv /\ [Next]_vars => NamesInv'
  BY StepNames DEF ConsumeInv
<1> QED BY <1>1, <1>2, <1>3, InitIInv, InitConsumes, InitNames, PTL DEF Spec
=============================================================================
