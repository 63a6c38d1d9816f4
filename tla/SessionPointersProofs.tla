------------------------ MODULE SessionPointersProofs ------------------------
(* Proofs about SessionPointers, for every value of its constants.         *)
EXTENDS SessionPointers, TLAPS

\* What the setters need of the document they change.
Ready(d) == d.active # NoTrv => d.of[d.active] # Unset

LEMMA LoadedFields ==
    ASSUME NEW d \in Doc
    PROVE  /\ Loaded(d) \in Doc
           /\ Loaded(d).active = d.active /\ Loaded(d).overlay = d.overlay
           /\ Loaded(d).title = d.title
           /\ \A v \in Trvs : d.of[v] # Unset => Loaded(d).of[v] = d.of[v]
           /\ Ready(Loaded(d))
           /\ Agrees(d) => Agrees(Loaded(d))
<1>1. CASE d.active # NoTrv /\ d.of[d.active] = Unset
  <2>1. Loaded(d) = [d EXCEPT !.of = [@ EXCEPT ![d.active] = d.overlay]]
    BY <1>1 DEF Loaded
  <2>2. d.active \in Trvs /\ d.overlay \in MaybeOvr
    BY <1>1 DEF Doc, MaybeTrv
  <2>3. [d.of EXCEPT ![d.active] = d.overlay] \in [Trvs -> MaybeOvr \cup {Unset}]
    BY <2>2 DEF Doc
  <2>4. Loaded(d) \in Doc
    BY <2>1, <2>3, Zenon DEF Doc
  <2>5. QED
    BY <1>1, <2>1, <2>2, <2>4, PointersAssumption DEF Doc, Ready, Agrees
<1>2. CASE ~(d.active # NoTrv /\ d.of[d.active] = Unset)
  BY <1>2 DEF Loaded, Ready
<1>3. QED
  BY <1>1, <1>2

LEMMA WithActiveFields ==
    ASSUME NEW d \in Doc, NEW v \in Trvs
    PROVE  /\ WithActive(d, v) \in Doc
           /\ WithActive(d, v).active = v
           /\ WithActive(d, v).of = d.of /\ WithActive(d, v).title = d.title
           /\ Agrees(WithActive(d, v))
<1> DEFINE o == IF d.of[v] = Unset THEN NoOvr ELSE d.of[v]
<1>1. o \in MaybeOvr /\ v \in MaybeTrv
  BY DEF Doc, MaybeOvr, MaybeTrv
<1>2. WithActive(d, v) = [d EXCEPT !.active = v, !.overlay = o]
  BY DEF WithActive
<1>3. WithActive(d, v) \in Doc
  BY <1>1, <1>2, Zenon DEF Doc
<1>4. QED
  BY <1>2, <1>3 DEF Doc, Agrees

LEMMA WithActiveOverlayFields ==
    ASSUME NEW d \in Doc, NEW o \in Overlays
    PROVE  /\ WithActiveOverlay(d, o) \in Doc
           /\ WithActiveOverlay(d, o).active = d.active
           /\ WithActiveOverlay(d, o).title = d.title
           /\ \A v \in Trvs : WithActiveOverlay(d, o).of[v]
                                = IF v = d.active THEN o ELSE d.of[v]
           /\ Agrees(WithActiveOverlay(d, o))
<1> DEFINE of == IF d.active = NoTrv THEN d.of ELSE [d.of EXCEPT ![d.active] = o]
<1>1. of \in [Trvs -> MaybeOvr \cup {Unset}] /\ o \in MaybeOvr
  BY DEF Doc, MaybeOvr
<1>2. WithActiveOverlay(d, o) = [d EXCEPT !.overlay = o, !.of = of]
  BY DEF WithActiveOverlay
<1>3. WithActiveOverlay(d, o) \in Doc
  BY <1>1, <1>2, Zenon DEF Doc
<1>4. QED
  BY <1>2, <1>3, PointersAssumption DEF Doc, Agrees, MaybeTrv

LEMMA WithOverlayOfFields ==
    ASSUME NEW d \in Doc, NEW v \in Trvs, NEW o \in MaybeOvr, Agrees(d)
    PROVE  /\ WithOverlayOf(d, v, o) \in Doc
           /\ WithOverlayOf(d, v, o).active = d.active
           /\ WithOverlayOf(d, v, o).title = d.title
           /\ WithOverlayOf(d, v, o).of = [d.of EXCEPT ![v] = o]
           /\ Agrees(WithOverlayOf(d, v, o))
<1> DEFINE p == IF d.active = v THEN o ELSE d.overlay
<1>1. [d.of EXCEPT ![v] = o] \in [Trvs -> MaybeOvr \cup {Unset}] /\ p \in MaybeOvr
  BY DEF Doc
<1>2. WithOverlayOf(d, v, o) = [d EXCEPT !.of = [d.of EXCEPT ![v] = o], !.overlay = p]
  BY DEF WithOverlayOf
<1>3. WithOverlayOf(d, v, o) \in Doc
  BY <1>1, <1>2, Zenon DEF Doc
<1>4. QED
  BY <1>2, <1>3 DEF Doc, Agrees, MaybeTrv

LEMMA WithSeedFields ==
    ASSUME NEW d \in Doc, NEW v \in Trvs, NEW s \in MaybeTrv,
           Agrees(d), Ready(d), Seeds(d, v)
    PROVE  /\ WithSeed(d, v, s) \in Doc
           /\ WithSeed(d, v, s).active = d.active
           /\ WithSeed(d, v, s).title = d.title
           /\ \A u \in Trvs : d.of[u] # Unset => WithSeed(d, v, s).of[u] = d.of[u]
           /\ Agrees(WithSeed(d, v, s))
<1> DEFINE i == Inherited(d, s)
<1>1. i \in MaybeOvr
  BY DEF Inherited, Doc, MaybeOvr, MaybeTrv
<1>2. [d.of EXCEPT ![v] = i] \in [Trvs -> MaybeOvr \cup {Unset}]
  BY <1>1 DEF Doc
<1>3. WithSeed(d, v, s) = [d EXCEPT !.of = [d.of EXCEPT ![v] = i]]
  BY DEF WithSeed
<1>4. WithSeed(d, v, s) \in Doc
  BY <1>2, <1>3, Zenon DEF Doc
<1>5. d.active # v
  BY PointersAssumption DEF Ready, Seeds
<1> HIDE DEF i
<1>6. QED
  BY <1>2, <1>3, <1>4, <1>5 DEF Doc, Agrees, MaybeTrv, Seeds

LEMMA WithTitleFields ==
    ASSUME NEW d \in Doc, Agrees(d)
    PROVE  /\ [d EXCEPT !.title = TRUE] \in Doc
           /\ [d EXCEPT !.title = TRUE].active = d.active
           /\ [d EXCEPT !.title = TRUE].of = d.of
           /\ [d EXCEPT !.title = TRUE].title
           /\ Agrees([d EXCEPT !.title = TRUE])
<1>1. [d EXCEPT !.title = TRUE] \in Doc
  BY Zenon DEF Doc
<1>2. QED
  BY <1>1 DEF Doc, Agrees

LEMMA BlankFields == Blank \in Doc /\ Agrees(Blank)
  BY DEF Blank, Doc, Agrees, MaybeTrv, MaybeOvr

-----------------------------------------------------------------------------
\* What holds besides TypeOK, PointersAgree and RequestsKept wherever a thread
\* or a handler may be.

\* A thread past the choice of its version has one.
HasVersion == {"index", "lookup", "previous", "load_seed", "save_seed", "load_active",
               "save_active", "load_pin", "save_pin", "open"}
VersionInv == \A r \in Runs : pc[r] \in HasVersion => ver[r] \in Trvs

\* A thread about to seed has seen no entry for its version.
SeedInv == \A r \in Runs : pc[r] = "save_seed" => Seeds(Loaded(mem[r]), ver[r])

\* The title handler: the file is torn while it writes, unless a save replaced
\* it, which is then noted; else what it is about to write is what was wished.
\* Requests about a version, and listings with one at hand, have it.
WebInv == /\ web.op \in {"active", "map", "list_index", "list_lookup"} => web.v \in Trvs
          /\ web.op = "truncated" => state = Torn
          /\ web.op = "truncated" /\ ~overlap => Wished(web.mem)
          /\ web.op = "orphaned" => overlap

IInv == TypeOK /\ PointersAgree /\ RequestsKept /\ VersionInv /\ SeedInv /\ WebInv

LEMMA IdleFields == Idle \in WebType /\ Idle.op = "idle" /\ Idle.mem = Blank
BY BlankFields DEF Idle, WebType, MaybeTrv, MaybeOvr

\* The snapshot a run saves from, repaired.
LEMMA SnapshotFields ==
    ASSUME IInv, NEW r \in Runs
    PROVE  /\ mem[r] \in Doc /\ Loaded(mem[r]) \in Doc
           /\ Agrees(Loaded(mem[r])) /\ Ready(Loaded(mem[r]))
<1>1. mem[r] \in Doc /\ Agrees(mem[r])
  BY DEF IInv, TypeOK, PointersAgree
<1>2. QED
  BY <1>1, LoadedFields

\* A save keeps the invariant's parts about state, snapshots and requests, if
\* the document saved agrees and has what is wished after the save, should the
\* snapshot have been current.
LEMMA SaveStep ==
    ASSUME IInv, NEW r \in Runs, NEW d \in Doc, Agrees(d), Save(r, d),
           ~overlap /\ state # Torn /\ state = mem[r] => Wished(d)'
    PROVE  /\ state' \in Doc \cup {Torn} /\ mem' \in [Runs -> Doc]
           /\ web' \in WebType /\ overlap' \in BOOLEAN
           /\ PointersAgree' /\ RequestsKept' /\ WebInv'
<1>1. /\ mem[r] \in Doc /\ web \in WebType /\ overlap \in BOOLEAN
      /\ mem \in [Runs -> Doc]
  BY DEF IInv, TypeOK, WebType
<1>2. state' \in Doc \cup {Torn} /\ mem' \in [Runs -> Doc] /\ overlap' \in BOOLEAN
  BY <1>1, BlankFields DEF Save
<1>3. /\ web' \in WebType /\ web'.mem = web.mem /\ web'.v = web.v
      /\ web'.op # "truncated"
      /\ web'.op = web.op \/ (web.op = "truncated" /\ web'.op = "orphaned")
  <2>1. CASE web.op = "truncated"
    <3>1. web' = [web EXCEPT !.op = "orphaned"]
      BY <2>1 DEF Save
    <3>2. web' \in WebType
      BY <1>1, <3>1, Zenon DEF WebType
    <3>3. QED
      BY <1>1, <2>1, <3>1, <3>2 DEF WebType
  <2>2. CASE web.op # "truncated"
    BY <1>1, <2>2 DEF Save
  <2>3. QED
    BY <2>1, <2>2
<1>4. PointersAgree'
  <2>1. Agrees(state')
    BY DEF Save
  <2>2. Agrees(web'.mem)
    BY <1>3 DEF IInv, PointersAgree
  <2>3. ASSUME NEW q \in Runs PROVE Agrees(mem'[q])
    BY <1>1, BlankFields DEF Save, IInv, PointersAgree
  <2>4. QED
    BY <2>1, <2>2, <2>3 DEF PointersAgree, Agrees
<1>5. Torn \notin Doc
  BY PointersAssumption
<1>6. RequestsKept'
  <2>1. ASSUME ~overlap' PROVE ~overlap /\ state = mem[r]
    BY <1>1, <2>1 DEF Save
  <2>2. ASSUME ~overlap' PROVE Wished(d)'
    BY <1>1, <1>5, <2>1, <2>2
  <2>3. QED
    BY <2>2 DEF RequestsKept, Save, Wished
<1>7. WebInv'
  <2>1. web.op = "truncated" => state = Torn
    BY DEF IInv, WebInv
  <2>2. web.op = "truncated" => overlap'
    BY <1>1, <1>5, <2>1 DEF Save
  <2>3. web.op = "orphaned" => overlap'
    BY DEF IInv, WebInv, Save
  <2>4. web.op \in {"active", "map", "list_index", "list_lookup"} => web.v \in Trvs
    BY DEF IInv, WebInv
  <2>5. QED
    BY <1>3, <2>2, <2>3, <2>4 DEF WebInv
<1>8. QED
  BY <1>2, <1>3, <1>4, <1>6, <1>7

\* A step that leaves the file, the snapshots and the requests alone.
LEMMA QuietStep ==
    ASSUME IInv, UNCHANGED <<state, mem, web, wishes, overlap>>
    PROVE  PointersAgree' /\ RequestsKept' /\ WebInv'
BY DEF IInv, PointersAgree, RequestsKept, WebInv, Wished, Agrees, wishes

\* The steps of a thread that neither load for a setter nor save.
QuietThread(r) ==
    \/ Transcribe(r) \/ Pick(r) \/ Reuse(r) \/ MapSpeakers(r) \/ Stop(r) \/ Mint(r)
    \/ AppendIndex(r) \/ AppendLookup(r) \/ ReadPrevious(r) \/ Open(r) \/ Work(r)

LEMMA QuietThreadStep ==
    ASSUME IInv, NEW r \in Runs, QuietThread(r), UNCHANGED plan
    PROVE  IInv'
<1> USE DEF Go, Fails, disk, threads, history, Labels, Ended
<1>1. UNCHANGED <<state, mem, web, wishes, overlap>>
  BY DEF QuietThread, Transcribe, Pick, Reuse, MapSpeakers, Stop, Mint, AppendIndex,
         AppendLookup, ReadPrevious, Open, Work
<1>2. TypeOK /\ VersionInv /\ SeedInv
  BY DEF IInv
<1>3. PointersAgree' /\ RequestsKept' /\ WebInv'
  BY <1>1, QuietStep
<1>4. /\ pc' \in [Runs -> Labels] /\ pc' = [pc EXCEPT ![r] = pc'[r]]
      /\ pc'[r] \notin {"save_seed"}
  BY <1>2 DEF TypeOK, QuietThread, Transcribe, Pick, Reuse, MapSpeakers, Stop, Mint,
              AppendIndex, AppendLookup, ReadPrevious, Open, Work
<1>5. /\ ver' \in [Runs -> MaybeTrv] /\ \A q \in Runs \ {r} : ver'[q] = ver[q]
      /\ pc'[r] \in HasVersion => ver'[r] \in Trvs
  <2>1. CASE Pick(r)
    <3>1. plan[r].choice \in MaybeTrv /\ (state # Torn => state.active \in MaybeTrv)
      BY <1>2, PointersAssumption DEF TypeOK, Doc, Plan
    <3>2. QED
      BY <1>2, <2>1, <3>1 DEF Pick, TypeOK, HasVersion, MaybeTrv
  <2>2. CASE Mint(r)
    BY <1>2, <2>2 DEF Mint, TypeOK, HasVersion, MaybeTrv, Unminted
  <2>3. CASE ~Pick(r) /\ ~Mint(r)
    BY <1>2, <2>3 DEF TypeOK, HasVersion, VersionInv, QuietThread, Transcribe,
       Reuse, MapSpeakers, Stop, AppendIndex, AppendLookup, ReadPrevious, Open, Work
  <2>4. QED
    BY <2>1, <2>2, <2>3
<1>6. VersionInv' /\ SeedInv'
  BY <1>1, <1>2, <1>4, <1>5 DEF VersionInv, SeedInv, TypeOK, Seeds, Loaded
<1>7. /\ files' \in SUBSET Trvs /\ rows' \in SUBSET Trvs /\ lookup' \in SUBSET Trvs
      /\ maker' \in [Trvs -> Runs \cup {NoRun}]
  <2>1. CASE Mint(r)
    BY <1>2, <2>1 DEF Mint, TypeOK, Unminted
  <2>2. CASE AppendIndex(r) \/ AppendLookup(r)
    BY <1>2, <2>2 DEF AppendIndex, AppendLookup, TypeOK, VersionInv, HasVersion
  <2>3. CASE UNCHANGED <<files, rows, lookup, maker>>
    BY <1>2, <2>3 DEF TypeOK
  <2>4. QED
    BY <2>1, <2>2, <2>3 DEF QuietThread, Transcribe, Pick, Reuse, MapSpeakers, Stop,
       ReadPrevious, Open, Work
<1>8. src' \in [Runs -> MaybeTrv] /\ text' \in SUBSET Runs
  <2>1. CASE ReadPrevious(r)
    BY <1>2, <2>1 DEF ReadPrevious, TypeOK, Doc
  <2>2. CASE ~ReadPrevious(r)
    BY <1>2, <2>2 DEF TypeOK, QuietThread, Transcribe, Pick, Reuse, MapSpeakers, Stop,
       Mint, AppendIndex, AppendLookup, Open, Work
  <2>3. QED
    BY <2>1, <2>2
<1>9. UNCHANGED <<nRequests, nCrashes, deleted, raced, cut>>
  BY DEF QuietThread, Transcribe, Pick, Reuse, MapSpeakers, Stop, Mint, AppendIndex,
         AppendLookup, ReadPrevious, Open, Work
<1>10. TypeOK'
  BY <1>1, <1>2, <1>4, <1>5, <1>7, <1>8, <1>9 DEF TypeOK, wishes
<1>11. QED
  BY <1>3, <1>6, <1>10 DEF IInv

LEMMA LoadStep ==
    ASSUME IInv, NEW r \in Runs, Load(r), UNCHANGED plan
    PROVE  IInv'
<1> USE DEF Go, Fails, disk, history, Labels, Ended, AfterLoad
<1>1. TypeOK /\ VersionInv /\ SeedInv /\ PointersAgree /\ WebInv
  BY DEF IInv
<1>2. UNCHANGED <<state, disk, ver, src, web, nRequests, wishes, overlap, history>>
  BY DEF Load
<1>3. /\ mem' \in [Runs -> Doc] /\ \A q \in Runs : Agrees(mem'[q])
      /\ \A q \in Runs \ {r} : mem'[q] = mem[q]
  BY <1>1 DEF Load, TypeOK, PointersAgree
<1>4. PointersAgree' /\ RequestsKept' /\ WebInv'
  BY <1>1, <1>2, <1>3 DEF PointersAgree, Agrees, RequestsKept, Wished, WebInv,
     wishes, IInv
<1>5. /\ pc' \in [Runs -> Labels] /\ \A q \in Runs \ {r} : pc'[q] = pc[q]
      /\ pc'[r] \in HasVersion => pc[r] \in HasVersion
      /\ pc'[r] = "save_seed" => mem'[r] = state /\ Seeds(Loaded(state), ver[r])
  BY <1>1 DEF Load, TypeOK, HasVersion
<1>6. VersionInv' /\ SeedInv'
  BY <1>1, <1>2, <1>3, <1>5 DEF VersionInv, SeedInv, Seeds, Loaded
<1>7. TypeOK'
  BY <1>1, <1>2, <1>3, <1>5 DEF TypeOK, wishes
<1>8. QED
  BY <1>4, <1>6, <1>7 DEF IInv

\* The steps of a thread that save.
SavingThread(r) == SaveSeed(r) \/ SaveActive(r) \/ SaveMap(r)

LEMMA SavingThreadStep ==
    ASSUME IInv, NEW r \in Runs, SavingThread(r), UNCHANGED plan
    PROVE  IInv'
<1>1. TypeOK /\ VersionInv /\ SeedInv /\ RequestsKept
  BY DEF IInv
<1>2. /\ mem[r] \in Doc /\ Loaded(mem[r]) \in Doc
      /\ Agrees(Loaded(mem[r])) /\ Ready(Loaded(mem[r]))
  BY SnapshotFields
<1>3. ASSUME ~overlap, state # Torn, state = mem[r]
      PROVE  Wished(Loaded(mem[r])) /\ mem[r].active = asked
  BY <1>1, <1>2, <1>3, LoadedFields DEF RequestsKept, Wished
<1>4. /\ state' \in Doc \cup {Torn} /\ mem' \in [Runs -> Doc]
      /\ web' \in WebType /\ overlap' \in BOOLEAN
      /\ PointersAgree' /\ RequestsKept' /\ WebInv'
      /\ want' \in [Trvs -> MaybeOvr \cup {Unset}] /\ asked' \in MaybeTrv
      /\ UNCHANGED titled
  <2>1. CASE SaveSeed(r)
    <3> DEFINE d == WithSeed(Loaded(mem[r]), ver[r], src[r])
    <3>1. /\ ver[r] \in Trvs /\ src[r] \in MaybeTrv /\ Seeds(Loaded(mem[r]), ver[r])
          /\ Save(r, d) /\ UNCHANGED <<want, asked, titled>>
      BY <1>1, <2>1 DEF SaveSeed, TypeOK, VersionInv, HasVersion, SeedInv, wishes
    <3>2. /\ d \in Doc /\ Agrees(d) /\ d.active = Loaded(mem[r]).active
          /\ d.title = Loaded(mem[r]).title
          /\ \A u \in Trvs : Loaded(mem[r]).of[u] # Unset => d.of[u] = Loaded(mem[r]).of[u]
      BY <1>2, <3>1, WithSeedFields
    <3> HIDE DEF d
    <3>3. ASSUME ~overlap, state # Torn, state = mem[r]
          PROVE  d.active = asked' /\ (titled' => d.title)
                 /\ \A u \in Trvs : want'[u] # Unset => d.of[u] = want'[u]
      BY <1>3, <3>1, <3>2, <3>3 DEF Wished
    <3>4. ASSUME NEW e \in Doc, e = d
          PROVE  /\ Agrees(e) /\ Save(r, e)
                 /\ ~overlap /\ state # Torn /\ state = mem[r] => Wished(e)'
      BY <3>1, <3>2, <3>3, <3>4 DEF Wished
    <3>5. QED
      BY <1>1, <3>1, <3>2, <3>4, SaveStep DEF TypeOK
  <2>2. CASE SaveActive(r)
    <3> DEFINE d == WithActive(Loaded(mem[r]), ver[r])
    <3>1. /\ ver[r] \in Trvs /\ Save(r, d) /\ asked' = ver[r] /\ UNCHANGED <<want, titled>>
      BY <1>1, <2>2 DEF SaveActive, VersionInv, HasVersion
    <3>2. /\ d \in Doc /\ Agrees(d) /\ d.active = ver[r]
          /\ d.title = Loaded(mem[r]).title /\ d.of = Loaded(mem[r]).of
      BY <1>2, <3>1, WithActiveFields
    <3> HIDE DEF d
    <3>3. ASSUME ~overlap, state # Torn, state = mem[r]
          PROVE  d.active = asked' /\ (titled' => d.title)
                 /\ \A u \in Trvs : want'[u] # Unset => d.of[u] = want'[u]
      BY <1>3, <3>1, <3>2, <3>3 DEF Wished
    <3>4. ASSUME NEW e \in Doc, e = d
          PROVE  /\ Agrees(e) /\ Save(r, e)
                 /\ ~overlap /\ state # Torn /\ state = mem[r] => Wished(e)'
      BY <3>1, <3>2, <3>3, <3>4 DEF Wished
    <3>5. QED
      BY <1>1, <3>1, <3>2, <3>4, SaveStep DEF TypeOK, MaybeTrv
  <2>3. CASE SaveMap(r)
    <3>1. PICK o \in Overlays :
             /\ Save(r, WithActiveOverlay(Loaded(mem[r]), o))
             /\ want' = IF mem[r].active = NoTrv THEN want
                        ELSE [want EXCEPT ![mem[r].active] = o]
      BY <2>3 DEF SaveMap
    <3> DEFINE d == WithActiveOverlay(Loaded(mem[r]), o)
    <3>2. UNCHANGED <<asked, titled>> /\ Save(r, d)
      BY <2>3, <3>1 DEF SaveMap
    <3>3. Loaded(mem[r]).active = mem[r].active /\ mem[r].active \in MaybeTrv
      BY <1>2, LoadedFields DEF Doc
    <3>4. /\ d \in Doc /\ Agrees(d) /\ d.active = mem[r].active
          /\ d.title = Loaded(mem[r]).title
          /\ \A u \in Trvs : d.of[u] = IF u = mem[r].active THEN o
                                       ELSE Loaded(mem[r]).of[u]
      BY <1>2, <3>3, WithActiveOverlayFields
    <3> HIDE DEF d
    <3>5. want' \in [Trvs -> MaybeOvr \cup {Unset}]
      BY <1>1, <3>1 DEF TypeOK, MaybeOvr
    <3>6. \A u \in Trvs : want'[u] = IF u = mem[r].active THEN o ELSE want[u]
      BY <1>1, <3>1, <3>3, PointersAssumption DEF TypeOK, MaybeTrv
    <3>7. ASSUME ~overlap, state # Torn, state = mem[r]
          PROVE  d.active = asked' /\ (titled' => d.title)
                 /\ \A u \in Trvs : want'[u] # Unset => d.of[u] = want'[u]
      BY <1>3, <3>2, <3>4, <3>6, <3>7 DEF Wished
    <3>8. ASSUME NEW e \in Doc, e = d
          PROVE  /\ Agrees(e) /\ Save(r, e)
                 /\ ~overlap /\ state # Torn /\ state = mem[r] => Wished(e)'
      BY <3>2, <3>4, <3>7, <3>8 DEF Wished
    <3>9. QED
      BY <1>1, <3>2, <3>4, <3>5, <3>8, SaveStep DEF TypeOK
  <2>4. QED
    BY <2>1, <2>2, <2>3 DEF SavingThread
<1>5. /\ UNCHANGED <<disk, ver, src, nRequests, history>>
      /\ mem' = [mem EXCEPT ![r] = Blank]
      /\ pc' \in [Runs -> Labels] /\ \A q \in Runs \ {r} : pc'[q] = pc[q]
      /\ pc'[r] \in HasVersion => pc[r] \in HasVersion
      /\ pc'[r] # "save_seed"
  BY <1>1 DEF SavingThread, SaveSeed, SaveActive, SaveMap, Save, Go, TypeOK, Labels,
     HasVersion
<1>6. VersionInv' /\ SeedInv'
  BY <1>1, <1>4, <1>5 DEF VersionInv, SeedInv, Seeds, Loaded, TypeOK
<1>7. TypeOK'
  BY <1>1, <1>4, <1>5 DEF TypeOK, disk, history
<1>8. QED
  BY <1>4, <1>6, <1>7 DEF IInv

-----------------------------------------------------------------------------
\* A handler begins: it holds the state as it is.
LEMMA RequestStep ==
    ASSUME IInv, NEW op \in {"active", "map", "title"}, NEW v \in MaybeTrv,
           NEW o \in MaybeOvr, Request(op, v, o), op # "title" => v \in Trvs,
           UNCHANGED <<plan, state, disk, threads, wishes, overlap, history>>
    PROVE  IInv'
<1>1. TypeOK /\ VersionInv /\ SeedInv /\ PointersAgree /\ RequestsKept
  BY DEF IInv
<1>2. state \in Doc /\ Agrees(state)
  BY <1>1 DEF Request, TypeOK, PointersAgree
<1>3. web' = [Idle EXCEPT !.op = op, !.v = v, !.o = o, !.mem = state]
  BY DEF Request
<1>4. web' \in WebType
  BY <1>2, <1>3, IdleFields, Zenon DEF WebType
<1>5. web'.op = op /\ web'.v = v /\ web'.mem = state
  BY <1>3 DEF Idle
<1>6. nRequests' \in 0..MaxRequests
  BY <1>1, PointersAssumption DEF Request, TypeOK
<1>7. TypeOK'
  BY <1>1, <1>4, <1>6 DEF TypeOK, disk, threads, wishes, history
<1>8. WebInv'
  BY <1>5 DEF WebInv
<1>9. PointersAgree' /\ RequestsKept' /\ VersionInv' /\ SeedInv'
  BY <1>1, <1>2, <1>5 DEF PointersAgree, Agrees, RequestsKept, Wished, VersionInv,
     SeedInv, Seeds, Loaded, threads, wishes
<1>10. QED
  BY <1>7, <1>8, <1>9 DEF IInv

LEMMA SaveAskedStep ==
    ASSUME IInv, SaveAsked, UNCHANGED plan
    PROVE  IInv'
<1> DEFINE d == IF web.op = "active" THEN WithActive(Loaded(web.mem), web.v)
                ELSE WithOverlayOf(Loaded(web.mem), web.v, web.o)
<1>1. TypeOK /\ VersionInv /\ SeedInv /\ PointersAgree /\ RequestsKept /\ WebInv
  BY DEF IInv
<1>2. /\ web.mem \in Doc /\ Agrees(web.mem) /\ web.o \in MaybeOvr /\ web.v \in Trvs
  BY <1>1 DEF SaveAsked, TypeOK, WebType, PointersAgree, WebInv
<1>3. Loaded(web.mem) \in Doc /\ Agrees(Loaded(web.mem))
  BY <1>2, LoadedFields
<1>4. /\ state' = d /\ web' = Idle /\ overlap' = (overlap \/ state # web.mem)
      /\ UNCHANGED <<disk, threads, nRequests, titled, history>>
  BY DEF SaveAsked
<1>5. d \in Doc /\ Agrees(d)
  BY <1>2, <1>3, WithActiveFields, WithOverlayOfFields
<1>6. ASSUME ~overlap, state = web.mem
      PROVE  Wished(Loaded(web.mem))
  <2>1. state # Torn
    BY <1>2, <1>6, PointersAssumption
  <2>2. QED
    BY <1>1, <1>2, <1>6, <2>1, LoadedFields DEF RequestsKept, Wished
<1>7. /\ want' \in [Trvs -> MaybeOvr \cup {Unset}] /\ asked' \in MaybeTrv
      /\ ~overlap' => /\ d.active = asked' /\ (titled' => d.title)
                      /\ \A u \in Trvs : want'[u] # Unset => d.of[u] = want'[u]
  <2>1. CASE web.op = "active"
    <3>1. asked' = web.v /\ UNCHANGED <<want, titled>>
      BY <2>1 DEF SaveAsked
    <3>2. /\ d.active = web.v /\ d.of = Loaded(web.mem).of
          /\ d.title = Loaded(web.mem).title
      BY <1>2, <1>3, <2>1, WithActiveFields
    <3> HIDE DEF d
    <3>3. ~overlap' => Wished(Loaded(web.mem))
      BY <1>1, <1>4, <1>6 DEF TypeOK
    <3>4. QED
      BY <1>1, <1>2, <3>1, <3>2, <3>3 DEF TypeOK, MaybeTrv, Wished
  <2>2. CASE web.op = "map"
    <3>1. want' = [want EXCEPT ![web.v] = web.o] /\ UNCHANGED <<asked, titled>>
      BY <2>2 DEF SaveAsked
    <3>2. /\ d.active = Loaded(web.mem).active
          /\ d.of = [Loaded(web.mem).of EXCEPT ![web.v] = web.o]
          /\ d.title = Loaded(web.mem).title
      BY <1>2, <1>3, <2>2, WithOverlayOfFields
    <3> HIDE DEF d
    <3>3. ~overlap' => Wished(Loaded(web.mem))
      BY <1>1, <1>4, <1>6 DEF TypeOK
    <3>4. QED
      BY <1>1, <1>2, <1>3, <3>1, <3>2, <3>3 DEF TypeOK, Doc, Wished
  <2>3. QED
    BY <2>1, <2>2 DEF SaveAsked
<1> HIDE DEF d
<1>8. TypeOK'
  BY <1>1, <1>4, <1>5, <1>7, IdleFields DEF TypeOK, disk, threads, history
<1>9. PointersAgree' /\ RequestsKept'
  BY <1>1, <1>4, <1>5, <1>7, IdleFields, BlankFields
     DEF PointersAgree, Agrees, RequestsKept, Wished, threads
<1>10. VersionInv' /\ SeedInv' /\ WebInv'
  BY <1>1, <1>4, IdleFields DEF VersionInv, SeedInv, Seeds, Loaded, threads, WebInv
<1>11. QED
  BY <1>8, <1>9, <1>10 DEF IInv

LEMMA TruncateStep ==
    ASSUME IInv, TruncateState, UNCHANGED plan
    PROVE  IInv'
<1>1. TypeOK /\ VersionInv /\ SeedInv /\ PointersAgree /\ RequestsKept
  BY DEF IInv
<1>2. /\ web' = [web EXCEPT !.op = "truncated"] /\ state' = Torn
      /\ overlap' = (overlap \/ state # web.mem)
      /\ UNCHANGED <<disk, threads, nRequests, wishes, history>>
  BY DEF TruncateState
<1>3. web \in WebType /\ web.mem \in Doc /\ overlap \in BOOLEAN
  BY <1>1 DEF TypeOK, WebType
<1>4. web' \in WebType
  BY <1>2, <1>3, Zenon DEF WebType
<1>5. web'.op = "truncated" /\ web'.mem = web.mem
  BY <1>2, <1>3 DEF WebType
<1>6. ~overlap' => Wished(web.mem)
  BY <1>1, <1>2, <1>3, PointersAssumption DEF RequestsKept
<1>7. TypeOK'
  BY <1>1, <1>2, <1>3, <1>4 DEF TypeOK, disk, threads, wishes, history
<1>8. PointersAgree' /\ RequestsKept' /\ WebInv'
  BY <1>1, <1>2, <1>5, <1>6 DEF PointersAgree, Agrees, RequestsKept, WebInv, Wished,
     threads, wishes
<1>9. VersionInv' /\ SeedInv'
  BY <1>1, <1>2 DEF VersionInv, SeedInv, Seeds, Loaded, threads
<1>10. QED
  BY <1>7, <1>8, <1>9 DEF IInv

LEMMA WriteTitleStep ==
    ASSUME IInv, WriteTitle, UNCHANGED plan
    PROVE  IInv'
<1> DEFINE d == [Loaded(web.mem) EXCEPT !.title = TRUE]
<1>1. TypeOK /\ VersionInv /\ SeedInv /\ PointersAgree /\ RequestsKept /\ WebInv
  BY DEF IInv
<1>2. /\ web' = Idle /\ titled' = TRUE
      /\ state' = IF web.op = "truncated" THEN d ELSE state
      /\ UNCHANGED <<disk, threads, nRequests, want, asked, overlap, history>>
  BY DEF WriteTitle
<1>3. /\ web.mem \in Doc /\ Agrees(web.mem)
      /\ Loaded(web.mem) \in Doc /\ Agrees(Loaded(web.mem))
  BY <1>1, LoadedFields DEF TypeOK, WebType, PointersAgree
<1>4. /\ d \in Doc /\ Agrees(d) /\ d.title
      /\ d.active = Loaded(web.mem).active /\ d.of = Loaded(web.mem).of
  BY <1>3, WithTitleFields
<1> HIDE DEF d
<1>5. state' \in Doc \cup {Torn} /\ (state' # Torn => Agrees(state'))
  BY <1>1, <1>2, <1>4 DEF TypeOK, PointersAgree
<1>6. ASSUME ~overlap
      PROVE  /\ state' = d /\ d.active = asked
             /\ \A u \in Trvs : want[u] # Unset => d.of[u] = want[u]
  <2>1. web.op = "truncated"
    BY <1>1, <1>6 DEF WriteTitle, WebInv
  <2>2. Wished(web.mem)
    BY <1>1, <1>6, <2>1 DEF WebInv
  <2>3. QED
    BY <1>2, <1>3, <1>4, <2>1, <2>2, LoadedFields DEF Wished
<1>7. TypeOK'
  BY <1>1, <1>2, <1>5, IdleFields DEF TypeOK, disk, threads, history
<1>8. PointersAgree'
  BY <1>1, <1>2, <1>5, IdleFields, BlankFields DEF PointersAgree, Agrees, threads
<1>9. RequestsKept'
  BY <1>1, <1>2, <1>4, <1>6 DEF RequestsKept, Wished, TypeOK
<1>10. VersionInv' /\ SeedInv' /\ WebInv'
  BY <1>1, <1>2, IdleFields DEF VersionInv, SeedInv, Seeds, Loaded, threads, WebInv
<1>11. QED
  BY <1>7, <1>8, <1>9, <1>10 DEF IInv

\* Deleting and listing versions change no pointer and no snapshot but the
\* request's own, which is then blank or as it was.
Listing == (\E v \in Trvs : DeleteVersion(v)) \/ AskList \/ EndList
           \/ (\E r \in Runs : Backfill(r)) \/ BackfillIndex \/ BackfillLookup

\* A listing at work, and one with a version at hand.
AtHand == {"list_index", "list_lookup"}
AtList == {"list"} \cup AtHand

LEMMA ListingStep ==
    ASSUME IInv, Listing, UNCHANGED plan
    PROVE  IInv'
<1>1. TypeOK /\ VersionInv /\ SeedInv /\ PointersAgree /\ RequestsKept /\ WebInv
  BY DEF IInv
<1>2. UNCHANGED <<state, text, threads, nCrashes, wishes, overlap, cut>>
  BY DEF Listing, DeleteVersion, AskList, EndList, Backfill, BackfillIndex,
         BackfillLookup, disk, history
<1>3. /\ web' \in WebType /\ (web'.mem = web.mem \/ web'.mem = Blank)
      /\ web' = web \/ web'.op \in {"idle"} \cup AtList
      /\ web' = web \/ (web'.op \in AtHand => web'.v \in Trvs)
  <2>0. web \in WebType /\ web.mem \in Doc /\ NoTrv \in MaybeTrv
    BY <1>1 DEF TypeOK, WebType, MaybeTrv
  <2>1. ASSUME NEW v \in Trvs, DeleteVersion(v) PROVE web' = web
    BY <2>1 DEF DeleteVersion
  <2>2. CASE AskList
    <3> DEFINE h == Represented
               l == {r \in Runs : pc[r] \notin Ended}
    <3>1. h \in SUBSET (Runs \cup {NoRun}) /\ l \in SUBSET Runs
      BY <1>1 DEF TypeOK, Represented, Listed
    <3>2. web' = [Idle EXCEPT !.op = "list", !.have = h, !.live = l]
      BY <2>2 DEF AskList
    <3>3. web' \in WebType
      BY <3>1, <3>2, IdleFields, Zenon DEF WebType
    <3>4. web'.mem = Blank /\ web'.op = "list"
      BY <3>2 DEF Idle
    <3>5. QED
      BY <3>3, <3>4 DEF AtHand, AtList
  <2>3. CASE EndList
    BY <2>3, IdleFields DEF EndList, AtHand
  <2>4. ASSUME NEW r \in Runs, Backfill(r)
        PROVE  /\ web' \in WebType /\ web'.mem = web.mem /\ web'.op \in AtList
               /\ web'.op \in AtHand => web'.v \in Trvs
    <3> DEFINE sn == web.seen \cup {r}
    <3>1. sn \in SUBSET Runs
      BY <2>0 DEF WebType
    <3> HIDE DEF sn
    <3>2. CASE NeedsVersion(r)
      <4>1. PICK v \in Trvs : web' = [web EXCEPT !.seen = sn, !.op = "list_index", !.v = v]
        BY <2>4, <3>2 DEF Backfill, Unminted, sn
      <4>2. v \in MaybeTrv
        BY DEF MaybeTrv
      <4>3. web' \in WebType
        BY <2>0, <3>1, <4>1, <4>2, Zenon DEF WebType
      <4>4. QED
        BY <2>0, <4>1, <4>3 DEF WebType, AtHand, AtList
    <3>3. CASE ~NeedsVersion(r)
      <4>1. web' = [web EXCEPT !.seen = sn] /\ web.op = "list"
        BY <2>4, <3>3 DEF Backfill, sn
      <4>2. web' \in WebType
        BY <2>0, <3>1, <4>1, Zenon DEF WebType
      <4>3. QED
        BY <2>0, <4>1, <4>2 DEF WebType, AtHand, AtList
    <3>4. QED
      BY <3>2, <3>3
  <2>5. CASE BackfillIndex
    <3>1. web' = [web EXCEPT !.op = "list_lookup"] /\ web.v \in Trvs
      BY <1>1, <2>5 DEF BackfillIndex, WebInv
    <3>2. web' \in WebType
      BY <2>0, <3>1, Zenon DEF WebType
    <3>3. QED
      BY <2>0, <3>1, <3>2 DEF WebType, AtHand, AtList
  <2>6. CASE BackfillLookup
    <3>1. web' = [web EXCEPT !.op = "list", !.v = NoTrv]
      BY <2>6 DEF BackfillLookup
    <3>2. web' \in WebType
      BY <2>0, <3>1, Zenon DEF WebType
    <3>3. QED
      BY <2>0, <3>1, <3>2 DEF WebType, AtHand, AtList
  <2>7. QED
    BY <2>0, <2>1, <2>2, <2>3, <2>4, <2>5, <2>6 DEF Listing
<1>4. /\ files' \in SUBSET Trvs /\ rows' \in SUBSET Trvs /\ lookup' \in SUBSET Trvs
      /\ maker' \in [Trvs -> Runs \cup {NoRun}]
      /\ deleted' \in SUBSET Trvs /\ raced' \in SUBSET Runs
      /\ nRequests' \in 0..MaxRequests
  <2>1. ASSUME NEW v \in Trvs, DeleteVersion(v)
        PROVE  /\ files' \in SUBSET Trvs /\ deleted' \in SUBSET Trvs
               /\ nRequests' \in 0..MaxRequests
               /\ UNCHANGED <<rows, lookup, maker, raced>>
    BY <1>1, <2>1, PointersAssumption DEF DeleteVersion, TypeOK
  <2>2. CASE AskList
    BY <1>1, <2>2, PointersAssumption DEF AskList, TypeOK, disk, history
  <2>3. CASE EndList
    BY <1>1, <2>3 DEF EndList, TypeOK, disk, history
  <2>4. ASSUME NEW r \in Runs, Backfill(r)
        PROVE  /\ files' \in SUBSET Trvs /\ maker' \in [Trvs -> Runs \cup {NoRun}]
               /\ raced' \in SUBSET Runs /\ UNCHANGED <<rows, lookup, deleted, nRequests>>
    BY <1>1, <2>4 DEF Backfill, TypeOK, Unminted
  <2>5. CASE BackfillIndex \/ BackfillLookup
    BY <1>1, <2>5 DEF BackfillIndex, BackfillLookup, TypeOK, WebInv, history
  <2>6. QED
    BY <1>1, <2>1, <2>2, <2>3, <2>4, <2>5 DEF Listing, TypeOK
<1>5. TypeOK'
  BY <1>1, <1>2, <1>3, <1>4 DEF TypeOK, threads, wishes
<1>6. PointersAgree' /\ RequestsKept'
  BY <1>1, <1>2, <1>3, BlankFields
     DEF PointersAgree, Agrees, RequestsKept, Wished, threads, wishes
<1>7. VersionInv' /\ SeedInv' /\ WebInv'
  BY <1>1, <1>2, <1>3 DEF VersionInv, SeedInv, Seeds, Loaded, threads, WebInv, Wished,
     wishes, AtHand, AtList
<1>8. QED
  BY <1>5, <1>6, <1>7 DEF IInv

LEMMA CrashStep ==
    ASSUME IInv, Crash, UNCHANGED plan
    PROVE  IInv'
<1>1. TypeOK /\ VersionInv /\ SeedInv /\ PointersAgree /\ RequestsKept
  BY DEF IInv
<1>2. UNCHANGED <<state, disk, ver, src, nRequests, wishes, overlap, deleted, raced>>
  BY DEF Crash
<1>3. /\ web' = Idle /\ mem' = [r \in Runs |-> Blank]
      /\ pc' \in [Runs -> Labels]
      /\ \A r \in Runs : pc'[r] \in Ended \cup {"start"}
  BY <1>1 DEF Crash, TypeOK, Labels, Ended
<1>4. nCrashes' \in 0..MaxCrashes /\ cut' \in SUBSET Trvs
  <2>1. Between \subseteq Trvs
    BY <1>1 DEF IInv, Between, VersionInv, HasVersion, WebInv
  <2>2. QED
    BY <1>1, <2>1, PointersAssumption DEF Crash, TypeOK
<1>5. TypeOK'
  BY <1>1, <1>2, <1>3, <1>4, IdleFields, BlankFields DEF TypeOK, disk, wishes
<1>6. PointersAgree' /\ RequestsKept'
  BY <1>1, <1>2, <1>3, IdleFields, BlankFields
     DEF PointersAgree, Agrees, RequestsKept, Wished, wishes
<1>7. VersionInv' /\ SeedInv' /\ WebInv'
  BY <1>3, IdleFields DEF VersionInv, SeedInv, WebInv, HasVersion, Ended
<1>8. QED
  BY <1>5, <1>6, <1>7 DEF IInv

-----------------------------------------------------------------------------
LEMMA InitInv ==
    ASSUME Init
    PROVE  IInv
<1>1. state \in Doc /\ state \in InitDocs
  BY DEF Init, InitDocs, Doc, MaybeTrv, MaybeOvr
<1>2. \A v \in Trvs : state.of[v] = Unset
  BY <1>1 DEF InitDocs
<1>3. ~state.title /\ state.active \in MaybeTrv
  BY <1>1 DEF InitDocs
<1>4. TypeOK
  <2>1. pc \in [Runs -> Labels] /\ text \in SUBSET Runs
    BY DEF Init, Labels, Ended
  <2>2. /\ files \in SUBSET Trvs /\ rows \in SUBSET Trvs /\ lookup \in SUBSET Trvs
        /\ maker \in [Trvs -> Runs \cup {NoRun}]
    BY DEF Init
  <2>3. nRequests \in 0..MaxRequests /\ nCrashes \in 0..MaxCrashes
    BY PointersAssumption DEF Init
  <2>4. QED
    BY <1>1, <1>3, <2>1, <2>2, <2>3, BlankFields, IdleFields
       DEF Init, TypeOK, MaybeTrv
<1>5. Agrees(state)
  BY <1>1, <1>2 DEF Agrees, Doc, MaybeTrv
<1>6. PointersAgree
  BY <1>5, BlankFields, IdleFields DEF Init, PointersAgree, Agrees
<1>7. RequestsKept
  BY <1>3 DEF Init, RequestsKept, Wished
<1>8. VersionInv /\ SeedInv /\ WebInv
  BY IdleFields DEF Init, VersionInv, SeedInv, WebInv, HasVersion
<1>9. QED
  BY <1>4, <1>6, <1>7, <1>8 DEF IInv

LEMMA NextInv ==
    ASSUME IInv, [Next]_vars
    PROVE  IInv'
<1>1. CASE (\E r \in Runs : Thread(r)) /\ UNCHANGED plan
  BY <1>1, QuietThreadStep, LoadStep, SavingThreadStep
     DEF Thread, QuietThread, SavingThread
<1>2. CASE Web /\ UNCHANGED plan
  <2>1. ASSUME NEW v \in Trvs, AskActive(v)
        PROVE  IInv'
    BY <1>2, <2>1, RequestStep DEF AskActive, MaybeTrv, MaybeOvr
  <2>2. ASSUME NEW v \in Trvs, NEW o \in MaybeOvr, AskMap(v, o)
        PROVE  IInv'
    BY <1>2, <2>2, RequestStep DEF AskMap, MaybeTrv
  <2>3. CASE AskTitle
    BY <1>2, <2>3, RequestStep DEF AskTitle, MaybeTrv, MaybeOvr
  <2>4. CASE Listing
    BY <1>2, <2>4, ListingStep
  <2>5. CASE SaveAsked \/ TruncateState \/ WriteTitle
    BY <1>2, <2>5, SaveAskedStep, TruncateStep, WriteTitleStep
  <2>6. QED
    BY <1>2, <2>1, <2>2, <2>3, <2>4, <2>5 DEF Web, Listing
<1>3. CASE Crash /\ UNCHANGED plan
  BY <1>3, CrashStep
<1>4. CASE UNCHANGED vars
  BY <1>4 DEF vars, IInv, TypeOK, PointersAgree, Agrees, RequestsKept, Wished,
     VersionInv, SeedInv, Seeds, Loaded, WebInv
<1>5. QED
  BY <1>1, <1>2, <1>3, <1>4 DEF Next

LEMMA AlwaysInv == Spec => []IInv
<1>1. Init => IInv
  BY InitInv
<1>2. IInv /\ [Next]_vars => IInv'
  BY NextInv
<1>3. QED
  BY <1>1, <1>2, PTL DEF Spec

\* Every variable keeps its type.
THEOREM TypeCorrect == Spec => []TypeOK
BY AlwaysInv, PTL DEF IInv

\* For any number of run threads, versions, overlays, requests and restarts,
\* and whatever saves were lost to each other, the two places session_state.json
\* keeps the active version's overlay in agree (session_state.py).
THEOREM PointersAlwaysAgree == Spec => []PointersAgree
BY AlwaysInv, PTL DEF IInv

\* A request, and the last of each kind, is lost only to a save that replaced
\* what its load had not seen (session_state.py, app.py, job_runner.py).
THEOREM RequestsAlwaysKept == Spec => []RequestsKept
BY AlwaysInv, PTL DEF IInv
-----------------------------------------------------------------------------
(* Which versions the pointers may name.                                   *)

\* The versions there are, were, or were asked for by a plan.
Known == files \cup deleted \cup {plan[r].choice : r \in Runs} \cup {NoTrv}

\* No pointer, snapshot, thread or request names any other.
KnownInv ==
    /\ state # Torn => state.active \in Known
    /\ web.mem.active \in Known /\ web.v \in Known
    /\ \A r \in Runs : mem[r].active \in Known /\ ver[r] \in Known

-----------------------------------------------------------------------------
(* What a listing shows.                                                   *)

\* What has a file or a line has a maker: the thread that is writing it, or the run
\* a listing is writing it for.
MintedInv ==
    /\ \A v \in files \cup rows \cup lookup : maker[v] # NoRun
    /\ \A r \in Runs : pc[r] \in {"index", "lookup"} => maker[ver[r]] = r
    /\ web.op \in AtHand => maker[web.v] \in web.seen

\* Where a run that made a version has that version listed.
HasListed == {"lookup", "previous", "load_seed", "save_seed", "load_active", "save_active",
              "work"}

\* A run that has not ended is shown only with the version it made itself, unless a
\* listing raced it; a listing that goes through a run that ended before it began, and
\* had no version then, finds none now, nor once it has written the version's file.
TwinInv ==
    /\ \A r \in Runs : pc[r] \notin Ended =>
          \A w \in Listed : maker[w] = r =>
              r \in raced \/ (ver[r] = w /\ pc[r] \in HasListed)
    /\ web.op \in AtList =>
          \A r \in Runs \ web.live :
              /\ pc[r] \in Ended
              /\ r \notin web.have \cup web.seen => \A w \in Listed : maker[w] # r
    /\ web.op = "list_index" =>
          \/ maker[web.v] \in raced
          \/ /\ maker[web.v] \notin web.live
             /\ \A w \in Listed : maker[w] # maker[web.v]

ListingInv == MintedInv /\ TwinInv /\ ListingTrue

-----------------------------------------------------------------------------
\* Versions are never forgotten.
LEMMA KnownGrows ==
    ASSUME TypeOK, [Next]_vars
    PROVE  Known \subseteq Known' /\ files' \cup deleted' \subseteq Known'
<1>1. plan' = plan
  BY DEF Next, vars
<1>2. files \cup deleted \subseteq files' \cup deleted'
  <2>1. CASE UNCHANGED vars
    BY <2>1 DEF vars
  <2>2. CASE \E r \in Runs : Thread(r)
    BY <2>2 DEF Thread, Transcribe, Pick, Reuse, MapSpeakers, Stop, Mint, AppendIndex,
       AppendLookup, ReadPrevious, Load, SaveSeed, SaveActive, SaveMap, Open, Work, disk, history
  <2>3. CASE Web
    BY <2>3 DEF Web, AskActive, DeleteVersion, AskMap, SaveAsked, AskTitle, TruncateState,
       WriteTitle, AskList, EndList, Backfill, BackfillIndex, BackfillLookup, disk, history
  <2>4. CASE Crash
    BY <2>4 DEF Crash, disk
  <2>5. QED
    BY <2>1, <2>2, <2>3, <2>4 DEF Next
<1>3. QED
  BY <1>1, <1>2 DEF Known

\* Every step that names a version names a known one.
LEMMA KnownStep ==
    ASSUME IInv, KnownInv, [Next]_vars
    PROVE  KnownInv'
<1>0. /\ TypeOK /\ Known \subseteq Known' /\ web \in WebType /\ mem \in [Runs -> Doc]
      /\ ver \in [Runs -> MaybeTrv] /\ NoTrv \in Known' /\ Blank.active = NoTrv
      /\ Idle.v = NoTrv /\ Idle.mem.active = NoTrv
  BY KnownGrows DEF IInv, TypeOK, Known, Blank, Idle
<1>1. ASSUME UNCHANGED <<state, web, mem, ver>>
      PROVE  KnownInv'
  BY <1>0, <1>1 DEF KnownInv
<1>2. ASSUME NEW r \in Runs, NEW d \in Doc, Save(r, d), d.active \in Known, ver' = ver
      PROVE  KnownInv'
  <2>1. web'.mem = web.mem /\ web'.v = web.v
    BY <1>0, <1>2 DEF Save, WebType
  <2>2. QED
    BY <1>0, <1>2, <2>1 DEF Save, KnownInv
<1>3. ASSUME NEW r \in Runs, Thread(r), plan' = plan
      PROVE  KnownInv'
  <2>1. CASE Pick(r)
    <3>1. plan[r].choice \in Known
      BY DEF Known
    <3>2. QED
      BY <1>0, <2>1, <3>1 DEF Pick, Go, Fails, KnownInv
  <2>2. CASE Mint(r)
    <3>1. \A q \in Runs : ver'[q] \in Known'
      BY <1>0, <2>2 DEF Mint, KnownInv, Known
    <3>2. QED
      BY <1>0, <2>2, <3>1 DEF Mint, KnownInv
  <2>3. CASE Load(r)
    BY <1>0, <2>3 DEF Load, Fails, KnownInv
  <2>4. CASE SaveSeed(r)
    <3> DEFINE d == WithSeed(Loaded(mem[r]), ver[r], src[r])
    <3>1. ver[r] \in Trvs /\ src[r] \in MaybeTrv /\ Seeds(Loaded(mem[r]), ver[r])
      BY <1>0, <2>4 DEF IInv, TypeOK, SaveSeed, VersionInv, HasVersion, SeedInv
    <3>2. d \in Doc /\ d.active = mem[r].active
      BY <1>0, <3>1, SnapshotFields, WithSeedFields, LoadedFields
    <3>3. QED
      BY <1>2, <2>4, <3>2 DEF SaveSeed, KnownInv
  <2>5. CASE SaveActive(r)
    <3> DEFINE d == WithActive(Loaded(mem[r]), ver[r])
    <3>1. ver[r] \in Trvs
      BY <2>5 DEF IInv, SaveActive, VersionInv, HasVersion
    <3>2. d \in Doc /\ d.active = ver[r]
      BY <3>1, SnapshotFields, WithActiveFields
    <3>3. QED
      BY <1>2, <2>5, <3>2 DEF SaveActive, KnownInv
  <2>6. CASE SaveMap(r)
    <3>1. PICK o \in Overlays : Save(r, WithActiveOverlay(Loaded(mem[r]), o))
      BY <2>6 DEF SaveMap
    <3>2. /\ WithActiveOverlay(Loaded(mem[r]), o) \in Doc
          /\ WithActiveOverlay(Loaded(mem[r]), o).active = mem[r].active
      BY <1>0, SnapshotFields, WithActiveOverlayFields, LoadedFields
    <3>3. QED
      BY <1>2, <2>6, <3>1, <3>2 DEF SaveMap, KnownInv
  <2>7. CASE \/ Transcribe(r) \/ Reuse(r) \/ MapSpeakers(r) \/ Stop(r) \/ AppendIndex(r)
             \/ AppendLookup(r) \/ ReadPrevious(r) \/ Open(r) \/ Work(r)
    BY <1>1, <2>7 DEF Transcribe, Reuse, MapSpeakers, Stop, AppendIndex, AppendLookup,
       ReadPrevious, Open, Work, Fails
  <2>8. QED
    BY <1>3, <2>1, <2>2, <2>3, <2>4, <2>5, <2>6, <2>7 DEF Thread
<1>4. CASE Web
  <2>1. ASSUME NEW op, NEW v \in files, NEW o, Request(op, v, o), UNCHANGED <<state, threads>>
        PROVE  KnownInv'
    <3>1. v \in Known'
      BY <1>0, <2>1 DEF Known
    <3>2. web'.v = v /\ web'.mem = state /\ state # Torn
      BY <2>1 DEF Request, Idle
    <3>3. QED
      BY <1>0, <2>1, <3>1, <3>2 DEF KnownInv, threads
  <2>2. ASSUME NEW v \in Trvs, AskActive(v) \/ (\E o \in MaybeOvr : AskMap(v, o))
        PROVE  KnownInv'
    BY <2>1, <2>2 DEF AskActive, AskMap, Resolvable
  <2>3. CASE AskTitle
    <3>1. web'.v = NoTrv /\ web'.mem = state /\ state # Torn /\ UNCHANGED <<state, threads>>
      BY <2>3 DEF AskTitle, Request, Idle
    <3>2. QED
      BY <1>0, <3>1 DEF KnownInv, threads
  <2>4. CASE SaveAsked
    <3>1. web.mem \in Doc /\ web.v \in Trvs /\ web.o \in MaybeOvr /\ Agrees(web.mem)
      BY <1>0, <2>4 DEF SaveAsked, IInv, WebInv, WebType, PointersAgree
    <3>2. Loaded(web.mem) \in Doc /\ Agrees(Loaded(web.mem)) /\ Loaded(web.mem).active = web.mem.active
      BY <3>1, LoadedFields
    <3>3. state'.active \in {web.v, web.mem.active}
      <4>1. CASE web.op = "active"
        BY <2>4, <3>1, <3>2, <4>1, WithActiveFields DEF SaveAsked
      <4>2. CASE web.op # "active"
        BY <2>4, <3>1, <3>2, <4>2, WithOverlayOfFields DEF SaveAsked
      <4>3. QED
        BY <4>1, <4>2
    <3>4. web' = Idle /\ UNCHANGED threads
      BY <2>4 DEF SaveAsked
    <3>5. QED
      BY <1>0, <3>3, <3>4 DEF KnownInv, threads
  <2>5. CASE TruncateState
    <3>1. /\ state' = Torn /\ web'.mem = web.mem /\ web'.v = web.v /\ UNCHANGED threads
      BY <1>0, <2>5 DEF TruncateState, WebType
    <3>2. QED
      BY <1>0, <3>1 DEF KnownInv, threads
  <2>6. CASE WriteTitle
    <3>1. web.mem \in Doc /\ Agrees(web.mem)
      BY <1>0 DEF IInv, WebType, PointersAgree
    <3>2. [Loaded(web.mem) EXCEPT !.title = TRUE].active = web.mem.active
      BY <3>1, LoadedFields, WithTitleFields
    <3>3. (state' = state \/ state'.active = web.mem.active) /\ web' = Idle /\ UNCHANGED threads
      BY <2>6, <3>2 DEF WriteTitle
    <3>4. QED
      BY <1>0, <3>3 DEF KnownInv, threads
  <2>7. CASE Listing
    <3>1. /\ UNCHANGED <<state, threads>>
          /\ web'.mem \in {web.mem, Idle.mem} /\ web'.v \in {web.v, Idle.v} \cup files'
      BY <1>0, <2>7 DEF Listing, DeleteVersion, AskList, EndList, Backfill, BackfillIndex,
         BackfillLookup, WebType, Idle
    <3>2. files' \subseteq Known'
      BY DEF Known
    <3>3. QED
      BY <1>0, <3>1, <3>2 DEF KnownInv, threads
  <2>8. QED
    BY <1>4, <2>2, <2>3, <2>4, <2>5, <2>6, <2>7 DEF Web, Listing
<1>5. CASE Crash
  BY <1>0, <1>5 DEF Crash, KnownInv
<1>6. CASE UNCHANGED vars
  BY <1>1, <1>6 DEF vars
<1>7. QED
  BY <1>3, <1>4, <1>5, <1>6 DEF Next

\* A session begins with an active version that is there, or none.
LEMMA InitKnown == Init => KnownInv
BY PointersAssumption DEF Init, KnownInv, Known, Idle, Blank, InitDocs, Doc, MaybeTrv, MaybeOvr

-----------------------------------------------------------------------------
\* What is about to be minted is neither there nor listed.
LEMMA Fresh ==
    ASSUME MintedInv, NEW v \in Unminted
    PROVE  v \notin files /\ v \notin rows /\ v \notin lookup
BY DEF MintedInv, Unminted

\* A thread's moves that mint nothing and list nothing.
LEMMA MoveStep ==
    ASSUME TypeOK, ListingInv, NEW r \in Runs,
           UNCHANGED <<files, rows, lookup, maker, raced, cut>>,
           web' = web \/ (web.op \notin AtList /\ web'.op \notin AtList),
           \A q \in Runs \ {r} : pc'[q] = pc[q] /\ ver'[q] = ver[q],
           pc[r] \notin Ended \cup {"index", "lookup"},
           pc'[r] \notin {"index", "lookup"},
           pc[r] \in HasListed => pc'[r] \in Ended \/ (pc'[r] \in HasListed /\ ver'[r] = ver[r])
    PROVE  ListingInv'
<1> USE DEF AtList, AtHand
<1>1. Listed' = Listed /\ Resolvable' = Resolvable
  BY DEF Listed, Resolvable
<1>2. MintedInv'
  BY DEF ListingInv, MintedInv
<1>3. TwinInv'
  <2>1. ASSUME NEW q \in Runs, pc'[q] \notin Ended, NEW w \in Listed, maker[w] = q
        PROVE  q \in raced \/ (ver'[q] = w /\ pc'[q] \in HasListed)
    BY <2>1 DEF ListingInv, TwinInv
  <2>2. ASSUME web'.op \in AtList, NEW q \in Runs \ web'.live
        PROVE  /\ pc'[q] \in Ended
               /\ q \notin web'.have \cup web'.seen => \A w \in Listed : maker[w] # q
    BY <2>2 DEF ListingInv, TwinInv
  <2>3. web'.op = "list_index" =>
           \/ maker[web'.v] \in raced
           \/ maker[web'.v] \notin web'.live /\ \A w \in Listed : maker[w] # maker[web'.v]
    BY DEF ListingInv, TwinInv
  <2>4. QED
    BY <1>1, <2>1, <2>2, <2>3 DEF TwinInv
<1>4. Between \subseteq Between'
  BY DEF Between
<1>5. ListedResolvable' /\ TwinsOnlyRaced'
  BY <1>1, <1>4 DEF ListingInv, ListingTrue, ListedResolvable, TwinsOnlyRaced
<1>6. QED
  BY <1>2, <1>3, <1>5 DEF ListingInv, ListingTrue

\* A new version v of run r has its file and is not listed yet: what is listed and
\* who made it stay as they are.
LEMMA NewFile ==
    ASSUME IInv, ListingInv, NEW r \in Runs, NEW v \in Unminted,
           files' = files \cup {v}, maker' = [maker EXCEPT ![v] = r],
           UNCHANGED <<rows, lookup>>
    PROVE  /\ Listed' = Listed /\ Resolvable' = Resolvable /\ v \notin Listed
           /\ maker'[v] = r /\ \A w \in Trvs \ {v} : maker'[w] = maker[w]
           /\ Listed \subseteq Trvs
           /\ \A w \in files' \cup rows' \cup lookup' : maker'[w] # NoRun
           /\ \A q \in Runs : pc[q] \in {"index", "lookup"} =>
                  ver[q] # v /\ maker'[ver[q]] = q
           /\ web.op \in AtHand => web.v # v
           /\ raced \subseteq raced' => TwinsOnlyRaced'
<1>1. /\ maker \in [Trvs -> Runs \cup {NoRun}] /\ v \in Trvs /\ NoRun \notin Runs
      /\ files \in SUBSET Trvs /\ rows \in SUBSET Trvs /\ lookup \in SUBSET Trvs
      /\ maker[v] = NoRun
  BY PointersAssumption DEF IInv, TypeOK, Unminted
<1>2. v \notin files /\ v \notin rows /\ v \notin lookup
  BY Fresh DEF ListingInv
<1>3. /\ Listed' = Listed /\ Resolvable' = Resolvable /\ v \notin Listed
      /\ maker'[v] = r /\ \A w \in Trvs \ {v} : maker'[w] = maker[w]
      /\ Listed \subseteq Trvs
  BY <1>1, <1>2 DEF Listed, Resolvable
<1>4. \A w \in files' \cup rows' \cup lookup' : maker'[w] # NoRun
  BY <1>1 DEF ListingInv, MintedInv
<1>5. ASSUME NEW q \in Runs, pc[q] \in {"index", "lookup"}
      PROVE  ver[q] # v /\ maker'[ver[q]] = q
  <2>1. maker[ver[q]] = q /\ ver[q] \in Trvs
    BY <1>5 DEF ListingInv, MintedInv, IInv, VersionInv, HasVersion
  <2>2. QED
    BY <1>1, <2>1
<1>6. web.op \in AtHand => web.v # v
  BY <1>1 DEF ListingInv, MintedInv, IInv, TypeOK, WebType
<1>7. ASSUME raced \subseteq raced' PROVE TwinsOnlyRaced'
  <2>1. \A u, w \in Listed : u # w /\ maker[u] = maker[w] => maker[u] \in raced
    BY DEF ListingInv, ListingTrue, TwinsOnlyRaced
  <2>2. \A w \in Listed : maker'[w] = maker[w]
    BY <1>3
  <2>3. QED
    BY <1>3, <1>7, <2>1, <2>2 DEF TwinsOnlyRaced
<1>8. QED
  BY <1>3, <1>4, <1>5, <1>6, <1>7

\* The file of a new version is there; it is not listed yet.
LEMMA MintListing ==
    ASSUME IInv, ListingInv, NEW r \in Runs, Mint(r)
    PROVE  ListingInv'
<1>1. PICK v \in Unminted : /\ files' = files \cup {v}
                            /\ maker' = [maker EXCEPT ![v] = r]
                            /\ ver' = [ver EXCEPT ![r] = v]
  BY DEF Mint
<1>2. /\ pc[r] = "mint" /\ pc' = [pc EXCEPT ![r] = "index"]
      /\ UNCHANGED <<rows, lookup, web, raced, cut>>
  BY DEF Mint, Go, history
<1>3. /\ pc \in [Runs -> Labels] /\ ver \in [Runs -> MaybeTrv] /\ v \in Trvs
  BY DEF IInv, TypeOK, Unminted
<1>4. /\ Listed' = Listed /\ Resolvable' = Resolvable /\ v \notin Listed
      /\ maker'[v] = r /\ \A w \in Trvs \ {v} : maker'[w] = maker[w]
      /\ Listed \subseteq Trvs
      /\ \A w \in files' \cup rows' \cup lookup' : maker'[w] # NoRun
      /\ \A q \in Runs : pc[q] \in {"index", "lookup"} => ver[q] # v /\ maker'[ver[q]] = q
      /\ web.op \in AtHand => web.v # v
      /\ TwinsOnlyRaced'
  BY <1>1, <1>2, NewFile
<1>5. web.op \in AtHand => maker'[web.v] = maker[web.v]
  BY <1>4 DEF IInv, WebInv, AtHand
<1>6. MintedInv'
  <2>1. ASSUME NEW q \in Runs, pc'[q] \in {"index", "lookup"}
        PROVE  maker'[ver'[q]] = q
    <3>1. CASE q = r
      BY <1>1, <1>3, <1>4, <3>1
    <3>2. CASE q # r
      BY <1>1, <1>2, <1>3, <1>4, <2>1, <3>2
    <3>3. QED
      BY <3>1, <3>2
  <2>2. QED
    BY <1>2, <1>4, <1>5, <2>1 DEF ListingInv, MintedInv
<1>7. TwinInv'
  <2>1. ASSUME NEW q \in Runs, pc'[q] \notin Ended, NEW w \in Listed, maker'[w] = q
        PROVE  q \in raced \/ (ver'[q] = w /\ pc'[q] \in HasListed)
    <3>1. maker[w] = q /\ pc[q] \notin Ended
      BY <1>2, <1>3, <1>4, <2>1 DEF Ended
    <3>2. q \in raced \/ (ver[q] = w /\ pc[q] \in HasListed)
      BY <3>1, <2>1 DEF ListingInv, TwinInv
    <3>3. QED
      BY <1>1, <1>2, <1>3, <3>2 DEF HasListed
  <2>2. ASSUME web.op \in AtList, NEW q \in Runs \ web.live
        PROVE  /\ pc'[q] \in Ended
               /\ q \notin web.have \cup web.seen => \A w \in Listed : maker'[w] # q
    <3>1. /\ pc[q] \in Ended
          /\ q \notin web.have \cup web.seen => \A w \in Listed : maker[w] # q
      BY <2>2 DEF ListingInv, TwinInv
    <3>2. QED
      BY <1>2, <1>3, <1>4, <3>1 DEF Ended
  <2>3. web.op = "list_index" =>
           \/ maker'[web.v] \in raced
           \/ maker'[web.v] \notin web.live /\ \A w \in Listed : maker'[w] # maker'[web.v]
    BY <1>4, <1>5 DEF ListingInv, TwinInv, AtHand
  <2>4. QED
    BY <1>2, <1>4, <2>1, <2>2, <2>3 DEF TwinInv
<1>8. ListedResolvable'
  <2>1. Between \subseteq Between'
    BY <1>1, <1>2, <1>3 DEF Between
  <2>2. QED
    BY <1>2, <1>4, <2>1 DEF ListingInv, ListingTrue, ListedResolvable
<1>9. QED
  BY <1>4, <1>6, <1>7, <1>8 DEF ListingInv, ListingTrue

\* A version is listed: no other of its run is, unless a listing raced the run,
\* and its own thread is the one that makes it resolvable next.
LEMMA IndexListing ==
    ASSUME IInv, ListingInv, NEW r \in Runs, AppendIndex(r)
    PROVE  ListingInv'
<1> DEFINE v == ver[r]
<1>1. /\ pc[r] = "index" /\ pc' = [pc EXCEPT ![r] = "lookup"] /\ rows' = rows \cup {v}
      /\ UNCHANGED <<files, lookup, maker, ver, web, raced, cut>>
  BY DEF AppendIndex, Go, history
<1>2. pc \in [Runs -> Labels] /\ v \in Trvs /\ maker[v] = r /\ NoRun \notin Runs
  BY <1>1, PointersAssumption
     DEF IInv, TypeOK, VersionInv, HasVersion, ListingInv, MintedInv
<1>3. Listed' \subseteq Listed \cup {v} /\ Resolvable' = Resolvable
  BY <1>1 DEF Listed, Resolvable
<1> HIDE DEF v
<1>4. MintedInv'
  BY <1>1, <1>2 DEF ListingInv, MintedInv, v
<1>5. \A w \in Listed : maker[w] = r => r \in raced
  BY <1>1 DEF ListingInv, TwinInv, HasListed, Ended
<1>6. TwinInv'
  <2>1. ASSUME NEW q \in Runs, pc'[q] \notin Ended, NEW w \in Listed', maker[w] = q
        PROVE  q \in raced \/ (ver[q] = w /\ pc'[q] \in HasListed)
    <3>1. CASE q = r
      BY <1>1, <1>2, <1>3, <1>5, <2>1, <3>1 DEF HasListed, v
    <3>2. CASE q # r
      BY <1>1, <1>2, <1>3, <2>1, <3>2 DEF ListingInv, TwinInv
    <3>3. QED
      BY <3>1, <3>2
  <2>2. ASSUME web.op \in AtList, NEW q \in Runs \ web.live
        PROVE  /\ pc'[q] \in Ended /\ q # r
               /\ q \notin web.have \cup web.seen => \A w \in Listed' : maker[w] # q
    <3>1. /\ pc[q] \in Ended
          /\ q \notin web.have \cup web.seen => \A w \in Listed : maker[w] # q
      BY <2>2 DEF ListingInv, TwinInv
    <3>2. q # r
      BY <1>1, <3>1 DEF Ended
    <3>3. QED
      BY <1>1, <1>2, <1>3, <3>1, <3>2
  <2>3. ASSUME web.op = "list_index", maker[web.v] \notin raced
        PROVE  maker[web.v] \notin web.live /\ \A w \in Listed' : maker[w] # maker[web.v]
    <3>1. maker[web.v] \notin web.live /\ \A w \in Listed : maker[w] # maker[web.v]
      BY <2>3 DEF ListingInv, TwinInv
    <3>2. maker[web.v] \in Runs
      BY <2>3 DEF ListingInv, MintedInv, AtHand, IInv, TypeOK, WebType
    <3>3. maker[web.v] # r
      BY <2>2, <2>3, <3>1, <3>2 DEF AtList, AtHand
    <3>4. QED
      BY <1>2, <1>3, <3>1, <3>3
  <2>4. QED
    BY <1>1, <2>1, <2>2, <2>3 DEF TwinInv
<1>7. ListedResolvable'
  <2>1. Between \cup {v} \subseteq Between'
    BY <1>1, <1>2 DEF Between, v
  <2>2. QED
    BY <1>1, <1>3, <2>1 DEF ListingInv, ListingTrue, ListedResolvable
<1>8. TwinsOnlyRaced'
  <2>1. \A u, w \in Listed : u # w /\ maker[u] = maker[w] => maker[u] \in raced
    BY DEF ListingInv, ListingTrue, TwinsOnlyRaced
  <2>2. ASSUME NEW u \in Listed', NEW w \in Listed', u # w, maker[u] = maker[w]
        PROVE  maker[u] \in raced
    <3>1. CASE u = v \/ w = v
      BY <1>2, <1>3, <1>5, <2>2, <3>1
    <3>2. CASE u # v /\ w # v
      BY <1>3, <2>1, <2>2, <3>2
    <3>3. QED
      BY <3>1, <3>2
  <2>3. QED
    BY <1>1, <2>2 DEF TwinsOnlyRaced
<1>9. QED
  BY <1>4, <1>6, <1>7, <1>8 DEF ListingInv, ListingTrue

\* A listed version becomes resolvable.
LEMMA LookupListing ==
    ASSUME IInv, ListingInv, NEW r \in Runs, AppendLookup(r)
    PROVE  ListingInv'
<1>1. /\ pc[r] = "lookup" /\ pc' = [pc EXCEPT ![r] = "previous"]
      /\ lookup' = lookup \cup {ver[r]}
      /\ UNCHANGED <<files, rows, maker, ver, web, raced, cut>>
  BY DEF AppendLookup, Go, history
<1>2. pc \in [Runs -> Labels] /\ maker[ver[r]] = r /\ NoRun \notin Runs
  BY <1>1, PointersAssumption DEF IInv, TypeOK, ListingInv, MintedInv
<1>3. Listed' = Listed
  BY <1>1 DEF Listed
<1>4. MintedInv'
  BY <1>1, <1>2 DEF ListingInv, MintedInv
<1>5. TwinInv'
  <2>1. ASSUME NEW q \in Runs, pc'[q] \notin Ended, NEW w \in Listed, maker[w] = q
        PROVE  q \in raced \/ (ver[q] = w /\ pc'[q] \in HasListed)
    <3>1. q \in raced \/ (ver[q] = w /\ pc[q] \in HasListed)
      BY <1>1, <1>2, <2>1 DEF ListingInv, TwinInv, Ended
    <3>2. QED
      BY <1>1, <1>2, <3>1 DEF HasListed
  <2>2. ASSUME web.op \in AtList, NEW q \in Runs \ web.live
        PROVE  /\ pc'[q] \in Ended
               /\ q \notin web.have \cup web.seen => \A w \in Listed : maker[w] # q
    BY <1>1, <1>2, <2>2 DEF ListingInv, TwinInv, Ended
  <2>3. QED
    BY <1>1, <1>3, <2>1, <2>2 DEF TwinInv, ListingInv
<1>6. ListedResolvable'
  <2>1. Between \subseteq Between' \cup {ver[r]}
    BY <1>1, <1>2 DEF Between
  <2>2. Listed' \ Resolvable' \subseteq (Listed \ Resolvable) \ {ver[r]}
    BY <1>1 DEF Listed, Resolvable
  <2>3. QED
    BY <1>1, <2>1, <2>2 DEF ListingInv, ListingTrue, ListedResolvable
<1>7. TwinsOnlyRaced'
  BY <1>1, <1>3 DEF ListingInv, ListingTrue, TwinsOnlyRaced
<1>8. QED
  BY <1>4, <1>5, <1>6, <1>7 DEF ListingInv, ListingTrue

\* A listing goes through run r, and writes the file of a version for it: r has none
\* listed if it had ended before, and is noted if it had not.
LEMMA BackfillListing ==
    ASSUME IInv, ListingInv, NEW r \in Runs, Backfill(r)
    PROVE  ListingInv'
<1> USE DEF AtList, AtHand
<1>1. /\ web.op = "list" /\ r \notin web.seen /\ web \in WebType
      /\ UNCHANGED <<rows, lookup, pc, ver, cut>>
  BY DEF Backfill, threads, IInv, TypeOK
<1>2. CASE ~NeedsVersion(r)
  <2>1. /\ web'.op = "list" /\ web'.seen = web.seen \cup {r} /\ web'.have = web.have
        /\ web'.live = web.live /\ UNCHANGED <<files, maker, raced>>
    BY <1>1, <1>2 DEF Backfill, WebType
  <2>2. MintedInv' /\ TwinInv' /\ TwinsOnlyRaced'
    BY <1>1, <2>1 DEF ListingInv, MintedInv, TwinInv, ListingTrue, TwinsOnlyRaced, Listed
  <2>3. ListedResolvable'
    BY <1>1, <2>1 DEF ListingInv, ListingTrue, ListedResolvable, Listed, Resolvable, Between
  <2>4. QED
    BY <2>2, <2>3 DEF ListingInv, ListingTrue
<1>3. CASE NeedsVersion(r)
  <2>1. PICK v \in Unminted :
            /\ files' = files \cup {v} /\ maker' = [maker EXCEPT ![v] = r]
            /\ raced' = IF r \in web.live THEN raced \cup {r} ELSE raced
            /\ web' = [web EXCEPT !.seen = web.seen \cup {r}, !.op = "list_index", !.v = v]
    BY <1>3 DEF Backfill
  <2>2. /\ web'.op = "list_index" /\ web'.seen = web.seen \cup {r}
        /\ web'.have = web.have /\ web'.live = web.live /\ web'.v = v
    BY <1>1, <2>1 DEF WebType
  <2>3. raced \subseteq raced' /\ (r \in web.live => r \in raced')
    BY <2>1
  <2>4. /\ Listed' = Listed /\ Resolvable' = Resolvable /\ v \notin Listed
        /\ maker'[v] = r /\ \A w \in Trvs \ {v} : maker'[w] = maker[w]
        /\ Listed \subseteq Trvs
        /\ \A w \in files' \cup rows' \cup lookup' : maker'[w] # NoRun
        /\ \A q \in Runs : pc[q] \in {"index", "lookup"} => ver[q] # v /\ maker'[ver[q]] = q
        /\ TwinsOnlyRaced'
    BY <1>1, <2>1, <2>3, NewFile
  <2>5. \A w \in Listed : maker'[w] = maker[w]
    BY <2>4
  <2>6. MintedInv'
    BY <1>1, <2>2, <2>4 DEF MintedInv
  <2>7. TwinInv'
    <3>1. ASSUME NEW q \in Runs, pc[q] \notin Ended, NEW w \in Listed, maker[w] = q
          PROVE  q \in raced' \/ (ver[q] = w /\ pc[q] \in HasListed)
      BY <2>3, <3>1 DEF ListingInv, TwinInv
    <3>2. ASSUME NEW q \in Runs \ web.live
          PROVE  /\ pc[q] \in Ended
                 /\ q \notin web.have \cup web.seen => \A w \in Listed : maker[w] # q
      BY <1>1 DEF ListingInv, TwinInv
    <3>3. r \notin web.live => \A w \in Listed : maker[w] # r
      BY <1>1, <1>3, <3>2 DEF NeedsVersion
    <3>4. QED
      BY <1>1, <2>2, <2>3, <2>4, <2>5, <3>1, <3>2, <3>3 DEF TwinInv
  <2>8. ListedResolvable'
    <3>1. Between \subseteq Between'
      BY <1>1 DEF Between
    <3>2. QED
      BY <1>1, <2>4, <3>1 DEF ListingInv, ListingTrue, ListedResolvable
  <2>9. QED
    BY <2>4, <2>6, <2>7, <2>8 DEF ListingInv, ListingTrue
<1>4. QED
  BY <1>2, <1>3

\* The version at hand is listed: no other of its run is, unless the listing raced it.
LEMMA BackfillIndexListing ==
    ASSUME IInv, ListingInv, BackfillIndex
    PROVE  ListingInv'
<1> USE DEF AtList, AtHand
<1> DEFINE x == maker[web.v]
<1>1. /\ web.op = "list_index" /\ web \in WebType
      /\ rows' = rows \cup {web.v} /\ UNCHANGED <<files, lookup, maker, pc, ver, raced, cut>>
  BY DEF BackfillIndex, threads, history, IInv, TypeOK
<1>2. /\ web'.op = "list_lookup" /\ web'.v = web.v /\ web'.seen = web.seen
      /\ web'.have = web.have /\ web'.live = web.live
  BY <1>1 DEF BackfillIndex, WebType
<1>3. x \in web.seen /\ x \in Runs /\ NoRun \notin Runs
  BY <1>1, PointersAssumption DEF ListingInv, MintedInv, WebType
<1>4. Listed' \subseteq Listed \cup {web.v} /\ Resolvable' = Resolvable
  BY <1>1 DEF Listed, Resolvable
<1>5. x \in raced \/ (x \notin web.live /\ \A w \in Listed : maker[w] # x)
  BY <1>1 DEF ListingInv, TwinInv
<1>6. ASSUME NEW q \in Runs \ web.live
      PROVE  /\ pc[q] \in Ended
             /\ q \notin web.have \cup web.seen => \A w \in Listed : maker[w] # q
  BY <1>1 DEF ListingInv, TwinInv
<1>7. x \in raced \/ pc[x] \in Ended
  BY <1>3, <1>5, <1>6
<1>8. MintedInv'
  BY <1>1, <1>2, <1>3 DEF ListingInv, MintedInv
<1>9. TwinInv'
  <2>1. ASSUME NEW q \in Runs, pc[q] \notin Ended, NEW w \in Listed', maker[w] = q
        PROVE  q \in raced \/ (ver[q] = w /\ pc[q] \in HasListed)
    <3>1. CASE w = web.v
      BY <1>7, <2>1, <3>1
    <3>2. CASE w # web.v
      BY <1>4, <2>1, <3>2 DEF ListingInv, TwinInv
    <3>3. QED
      BY <3>1, <3>2
  <2>2. ASSUME NEW q \in Runs \ web.live, q \notin web.have \cup web.seen, NEW w \in Listed'
        PROVE  maker[w] # q
    BY <1>3, <1>4, <1>6, <2>2
  <2>3. QED
    BY <1>1, <1>2, <1>6, <2>1, <2>2 DEF TwinInv
<1>10. ListedResolvable'
  <2>1. Between \cup {web.v} \subseteq Between'
    BY <1>1, <1>2 DEF Between
  <2>2. QED
    BY <1>1, <1>4, <2>1 DEF ListingInv, ListingTrue, ListedResolvable
<1>11. TwinsOnlyRaced'
  <2>1. \A u, w \in Listed : u # w /\ maker[u] = maker[w] => maker[u] \in raced
    BY DEF ListingInv, ListingTrue, TwinsOnlyRaced
  <2>2. ASSUME NEW u \in Listed', NEW w \in Listed', u # w, maker[u] = maker[w]
        PROVE  maker[u] \in raced
    <3>1. CASE u = web.v \/ w = web.v
      BY <1>4, <1>5, <2>2, <3>1
    <3>2. CASE u # web.v /\ w # web.v
      BY <1>4, <2>1, <2>2, <3>2
    <3>3. QED
      BY <3>1, <3>2
  <2>3. QED
    BY <1>1, <2>2 DEF TwinsOnlyRaced
<1>12. QED
  BY <1>8, <1>9, <1>10, <1>11 DEF ListingInv, ListingTrue

\* The version at hand becomes resolvable, and the listing goes on.
LEMMA BackfillLookupListing ==
    ASSUME IInv, ListingInv, BackfillLookup
    PROVE  ListingInv'
<1> USE DEF AtList, AtHand
<1>1. /\ web.op = "list_lookup" /\ web \in WebType /\ lookup' = lookup \cup {web.v}
      /\ UNCHANGED <<files, rows, maker, pc, ver, raced, cut>>
  BY DEF BackfillLookup, threads, history, IInv, TypeOK
<1>2. /\ web'.op = "list" /\ web'.seen = web.seen
      /\ web'.have = web.have /\ web'.live = web.live
  BY <1>1 DEF BackfillLookup, WebType
<1>3. maker[web.v] # NoRun
  BY <1>1, PointersAssumption DEF ListingInv, MintedInv, WebType
<1>4. Listed' = Listed
  BY <1>1 DEF Listed
<1>5. MintedInv'
  BY <1>1, <1>2, <1>3 DEF ListingInv, MintedInv
<1>6. TwinInv' /\ TwinsOnlyRaced'
  BY <1>1, <1>2, <1>4 DEF ListingInv, TwinInv, ListingTrue, TwinsOnlyRaced
<1>7. ListedResolvable'
  <2>1. Between \subseteq Between' \cup {web.v}
    BY <1>1 DEF Between
  <2>2. Listed' \ Resolvable' \subseteq (Listed \ Resolvable) \ {web.v}
    BY <1>1 DEF Listed, Resolvable
  <2>3. QED
    BY <1>1, <2>1, <2>2 DEF ListingInv, ListingTrue, ListedResolvable
<1>8. QED
  BY <1>5, <1>6, <1>7 DEF ListingInv, ListingTrue

\* Other requests begin and end beside the versions, or take one away.
LEMMA RequestListing ==
    ASSUME IInv, ListingInv, Web, \A r \in Runs : ~Backfill(r),
           ~BackfillIndex, ~BackfillLookup
    PROVE  ListingInv'
<1> USE DEF AtList, AtHand
<1>0. /\ UNCHANGED <<rows, lookup, maker, pc, ver, raced, cut>>
      /\ web.op # "list_lookup"
  BY DEF Web, AskActive, DeleteVersion, AskMap, Request, SaveAsked, AskTitle, TruncateState,
     WriteTitle, AskList, EndList, disk, threads, history
<1>1. Between \subseteq Between'
  BY <1>0 DEF Between
<1>2. ASSUME UNCHANGED files, web'.op \notin AtList
      PROVE  ListingInv'
  <2>1. Listed' = Listed /\ Resolvable' = Resolvable
    BY <1>0, <1>2 DEF Listed, Resolvable
  <2>2. QED
    BY <1>0, <1>1, <1>2, <2>1 DEF ListingInv, MintedInv, TwinInv, ListingTrue,
       ListedResolvable, TwinsOnlyRaced
<1>3. ASSUME NEW v \in Trvs, DeleteVersion(v)
      PROVE  ListingInv'
  <2>1. files' = files \ {v} /\ web' = web /\ web.op = "idle"
    BY <1>3 DEF DeleteVersion
  <2>2. /\ Listed' \subseteq Listed /\ files' \subseteq files
        /\ Listed' \ Resolvable' \subseteq Listed \ Resolvable
    BY <1>0, <2>1 DEF Listed, Resolvable
  <2>3. MintedInv' /\ TwinInv'
    BY <1>0, <2>1, <2>2 DEF ListingInv, MintedInv, TwinInv
  <2>4. ListedResolvable' /\ TwinsOnlyRaced'
    BY <1>0, <1>1, <2>2 DEF ListingInv, ListingTrue, ListedResolvable, TwinsOnlyRaced
  <2>5. QED
    BY <2>3, <2>4 DEF ListingInv, ListingTrue
<1>4. CASE AskList
  <2>1. UNCHANGED files
    BY <1>4 DEF AskList, disk
  <2>2. Listed' = Listed /\ Resolvable' = Resolvable
    BY <1>0, <2>1 DEF Listed, Resolvable
  <2>3. /\ web'.have = Represented /\ web'.live = {r \in Runs : pc[r] \notin Ended}
        /\ web'.op = "list"
    BY <1>4 DEF AskList, Idle
  <2>4. TwinInv'
    BY <1>0, <2>2, <2>3 DEF ListingInv, TwinInv, Represented
  <2>5. QED
    BY <1>0, <1>1, <2>1, <2>2, <2>3, <2>4 DEF ListingInv, MintedInv, ListingTrue,
       ListedResolvable, TwinsOnlyRaced
<1>5. ASSUME NEW op, NEW v, NEW o, op \notin AtList, Request(op, v, o)
      PROVE  web'.op \notin AtList
  BY <1>5 DEF Request, Idle
<1>6. CASE \/ AskTitle \/ SaveAsked \/ TruncateState \/ WriteTitle \/ EndList
           \/ \E v \in Trvs : AskActive(v) \/ \E o \in MaybeOvr : AskMap(v, o)
  <2>1. UNCHANGED files
    BY <1>6 DEF AskActive, AskMap, SaveAsked, AskTitle, TruncateState, WriteTitle, EndList,
       disk
  <2>2. web'.op \notin AtList
    <3>1. CASE AskTitle \/ \E v \in Trvs : AskActive(v) \/ \E o \in MaybeOvr : AskMap(v, o)
      BY <1>5, <3>1 DEF AskTitle, AskActive, AskMap
    <3>2. CASE SaveAsked \/ WriteTitle \/ EndList
      BY <3>2, IdleFields DEF SaveAsked, WriteTitle, EndList
    <3>3. CASE TruncateState
      BY <3>3 DEF TruncateState, IInv, TypeOK, WebType
    <3>4. QED
      BY <1>6, <3>1, <3>2, <3>3
  <2>3. QED
    BY <1>2, <2>1, <2>2
<1>7. QED
  BY <1>3, <1>4, <1>6 DEF Web

\* A crash leaves a version whose second index line is missing for each writer that
\* was between the two; they are noted.
LEMMA CrashListing ==
    ASSUME IInv, ListingInv, Crash
    PROVE  ListingInv'
<1>1. /\ UNCHANGED <<files, rows, lookup, maker, ver, raced>> /\ web'.op = "idle"
      /\ pc' = [r \in Runs |-> IF pc[r] \in Ended \cup {"start"} THEN pc[r] ELSE "lost"]
      /\ cut' = cut \cup Between
  BY IdleFields DEF Crash, disk
<1>2. Listed' = Listed /\ Resolvable' = Resolvable
  BY <1>1 DEF Listed, Resolvable
<1>3. MintedInv'
  BY <1>1 DEF ListingInv, MintedInv, Ended, AtHand
<1>4. TwinInv'
  BY <1>1, <1>2 DEF ListingInv, TwinInv, HasListed, Ended, AtList, AtHand
<1>5. ListedResolvable' /\ TwinsOnlyRaced'
  BY <1>1, <1>2 DEF ListingInv, ListingTrue, ListedResolvable, TwinsOnlyRaced
<1>6. QED
  BY <1>3, <1>4, <1>5 DEF ListingInv, ListingTrue

\* All steps of a thread.
LEMMA ThreadListing ==
    ASSUME IInv, ListingInv, NEW r \in Runs, Thread(r)
    PROVE  ListingInv'
<1>1. CASE Mint(r)
  BY <1>1, MintListing
<1>2. CASE AppendIndex(r)
  BY <1>2, IndexListing
<1>3. CASE AppendLookup(r)
  BY <1>3, LookupListing
<1>4. CASE ~Mint(r) /\ ~AppendIndex(r) /\ ~AppendLookup(r)
  <2>1. TypeOK /\ pc \in [Runs -> Labels] /\ ver \in [Runs -> MaybeTrv] /\ web \in WebType
    BY DEF IInv, TypeOK
  <2>2. /\ UNCHANGED <<files, rows, lookup, maker, raced, cut>>
        /\ \A q \in Runs \ {r} : pc'[q] = pc[q] /\ ver'[q] = ver[q]
    BY <1>4, <2>1 DEF Thread, Transcribe, Pick, Reuse, MapSpeakers, Stop, ReadPrevious, Load,
       SaveSeed, SaveActive, SaveMap, Open, Work, Go, Fails, disk, history
  <2>3. /\ pc[r] \notin Ended \cup {"index", "lookup"}
        /\ pc'[r] \notin {"index", "lookup"}
        /\ pc[r] \in HasListed =>
               pc'[r] \in Ended \/ (pc'[r] \in HasListed /\ ver'[r] = ver[r])
    BY <1>4, <2>1 DEF Thread, Transcribe, Pick, Reuse, MapSpeakers, Stop, ReadPrevious, Load,
       SaveSeed, SaveActive, SaveMap, Open, Work, Go, Fails, Ended, HasListed, AfterLoad
  <2>4. web' = web \/ (web.op \notin AtList /\ web'.op \notin AtList)
    BY <1>4, <2>1 DEF Thread, Transcribe, Pick, Reuse, MapSpeakers, Stop, ReadPrevious, Load,
       SaveSeed, SaveActive, SaveMap, Open, Work, Save, WebType, AtList, AtHand
  <2>5. QED
    BY <2>1, <2>2, <2>3, <2>4, MoveStep
<1>5. QED
  BY <1>1, <1>2, <1>3, <1>4

\* At most one version is there at first, listed and resolvable, and of a run that ended.
LEMMA InitListing == Init => ListingInv
<1> SUFFICES ASSUME Init PROVE ListingInv
  OBVIOUS
<1>1. /\ rows = files /\ lookup = files /\ files \in SUBSET Trvs
      /\ \A u, w \in files : u = w
      /\ \A v \in files : maker[v] # NoRun /\ maker[v] \in text
      /\ web.op \notin AtList \cup AtHand
  BY IdleFields DEF Init, AtList, AtHand
<1>2. /\ \A r \in text : pc[r] = "done"
      /\ \A r \in Runs : pc[r] \in {"start", "done"}
  BY DEF Init
<1>3. QED
  BY <1>1, <1>2 DEF ListingInv, MintedInv, TwinInv, ListingTrue, ListedResolvable,
     TwinsOnlyRaced, Listed, Resolvable, Ended, AtList, AtHand

\* The three invariants together.
LEMMA AlwaysKnownAndListed == Spec => [](IInv /\ KnownInv /\ ListingInv)
<1>1. Init => IInv /\ KnownInv /\ ListingInv
  BY InitInv, InitKnown, InitListing
<1>2. IInv /\ KnownInv /\ ListingInv /\ [Next]_vars => (IInv /\ KnownInv /\ ListingInv)'
  <2> SUFFICES ASSUME IInv, KnownInv, ListingInv, [Next]_vars
               PROVE  (IInv /\ KnownInv /\ ListingInv)'
    OBVIOUS
  <2>1. IInv' /\ KnownInv'
    BY NextInv, KnownStep
  <2>2. ListingInv'
    <3>1. CASE \E r \in Runs : Thread(r)
      BY <3>1, ThreadListing
    <3>2. CASE Web
      BY <3>2, BackfillListing, BackfillIndexListing, BackfillLookupListing,
         RequestListing
    <3>3. CASE Crash
      BY <3>3, CrashListing
    <3>4. CASE UNCHANGED vars
      BY <3>4 DEF vars, ListingInv, MintedInv, TwinInv, ListingTrue, ListedResolvable,
         TwinsOnlyRaced, Listed, Resolvable, Between
    <3>5. QED
      BY <3>1, <3>2, <3>3, <3>4 DEF Next
  <2>3. QED
    BY <2>1, <2>2
<1>3. QED
  BY <1>1, <1>2, PTL DEF Spec

\* However threads and handlers overwrite each other's pointers, the active
\* version is one that was minted (and deleted perhaps) or that a plan named
\* (session_state.py: set_active_transcript_version; job_runner.py).
THEOREM ActiveAlwaysExists == Spec => []ActiveExists
<1>1. KnownInv => ActiveExists
  BY DEF KnownInv, Known, ActiveExists
<1>2. QED
  BY <1>1, AlwaysKnownAndListed, PTL

\* For any number of runs, listings, deletions and restarts: what is listed can
\* be opened but for the version whose writer, a run or a listing, is between the
\* two index lines or was cut off there, and no run has two versions unless a
\* listing raced it (transcript_versions.py).
THEOREM ListingAlwaysTrue == Spec => []ListingTrue
BY AlwaysKnownAndListed, PTL DEF ListingInv
=============================================================================
