----------------------------- MODULE SearchIndex -----------------------------
(***************************************************************************)
(* The SQLite index (index/sqlite_fts.py) as a value: which sessions and   *)
(* runs have rows, and what each transaction of ingest.py and sqlite_fts.py*)
(* makes of them.  A transaction is one step: SQLite serialises writers,   *)
(* and a transaction that raises leaves the index as it was.               *)
(***************************************************************************)
EXTENDS FiniteSets, Integers

CONSTANTS
    Sessions, Runs,
    SessionOf,      \* the session of each run
    Made,           \* created_ts of sessions and runs, for the orders of the lists
    NoRow           \* the absence of a row

RunStatuses == {"queued", "running", "succeeded", "failed"}
Sources == {"aligned", "json", "txt"}

ASSUME NoRowAssumption == NoRow \notin RunStatuses \cup Sources
ASSUME SessionOfAssumption == SessionOf \in [Runs -> Sessions]
ASSUME MadeAssumption == Made \in [Sessions \cup Runs -> Nat]

RunsOf(s) == {r \in Runs : SessionOf[r] = s}

\* The tables: sessions, runs (with status), segments (with the kind of file they
\* were read from), segments_fts, and speaker_maps.
Index == [sessions : SUBSET Sessions,
          status : [Runs -> RunStatuses \cup {NoRow}],
          segs : [Runs -> Sources \cup {NoRow}],
          fts : SUBSET Runs,
          maps : SUBSET Runs]

Indexed(ix) == {r \in Runs : ix.status[r] # NoRow}
Segmented(ix) == {r \in Runs : ix.segs[r] # NoRow}

\* The transcript a run is indexed from: what run.json records if it is there, and
\* otherwise the first of the conventional names.
TranscriptSource(recorded, files) ==
    CASE "aligned" \in recorded \cap files -> "aligned"
      [] "json" \in recorded \cap files -> "json"
      [] OTHER -> IF "aligned" \in files THEN "aligned"
                  ELSE IF "json" \in files THEN "json"
                  ELSE IF "txt" \in files THEN "txt" ELSE NoRow

\* ingest_run: replace the rows of the session and of the run, with the status the
\* manifest had when it was read; `named': the overlay it found maps a speaker.
Ingested(ix, r, status, source, named) ==
    [ix EXCEPT !.sessions = @ \cup {SessionOf[r]},
               !.status[r] = status,
               !.segs[r] = source,
               !.fts = @ \cup {r},
               !.maps = IF named THEN @ \cup {r} ELSE @ \ {r}]

\* refresh_speaker_maps_for_transcript: new names for the run of a version.
RefreshedKeeping(ix, r, named) ==           \* mutant: names that were removed stay
    [ix EXCEPT !.sessions = @ \cup {SessionOf[r]},
               !.status[r] = "succeeded",
               !.maps = IF named THEN @ \cup {r} ELSE @]
Refreshed(ix, r, named) ==
    [ix EXCEPT !.sessions = @ \cup {SessionOf[r]},
               !.status[r] = "succeeded",
               !.maps = IF named THEN @ \cup {r} ELSE @ \ {r}]

\* delete_run_rows, and delete_transcript_version_rows for several runs.
WithoutRunsButFts(ix, rs) ==                \* mutant: the full text stays
    [ix EXCEPT !.status = [r \in Runs |-> IF r \in rs THEN NoRow ELSE @[r]],
               !.segs = [r \in Runs |-> IF r \in rs THEN NoRow ELSE @[r]],
               !.maps = @ \ rs]
WithoutRuns(ix, rs) ==
    [ix EXCEPT !.status = [r \in Runs |-> IF r \in rs THEN NoRow ELSE @[r]],
               !.segs = [r \in Runs |-> IF r \in rs THEN NoRow ELSE @[r]],
               !.fts = @ \ rs,
               !.maps = @ \ rs]

\* delete_session_rows.
WithoutSession(ix, s) ==
    [WithoutRuns(ix, RunsOf(s)) EXCEPT !.sessions = @ \ {s}]

-----------------------------------------------------------------------------
(* What the doors read from it.                                            *)

Newest(xs) == {x \in xs : \A y \in xs : Made[y] <= Made[x]}

\* search and fetch_segments: the runs with a hit; the pointers are joined.
SearchHits(ix) == {[run |-> r, source |-> ix.segs[r]] : r \in ix.fts}

\* list_sessions, and list_sessions_by_attendee where `named' is set: the sessions
\* with their latest run and its status.
ListedSessions(ix, named) ==
    {[session |-> s, latest |-> Newest({r \in Indexed(ix) : SessionOf[r] = s})] :
        s \in {x \in ix.sessions : named => RunsOf(x) \cap ix.maps # {}}}

\* Every row has the rows its foreign keys refer to; the full-text table, which
\* SQLite has no foreign keys for, has the runs that segments has.
ForeignKeysHold(ix) ==
    /\ Segmented(ix) \cup ix.maps \subseteq Indexed(ix)
    /\ \A r \in Indexed(ix) : SessionOf[r] \in ix.sessions
TablesAgree(ix) == ix.fts = Segmented(ix)
=============================================================================
