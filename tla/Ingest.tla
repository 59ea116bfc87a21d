------------------------------- MODULE Ingest -------------------------------
(***************************************************************************)
(* The ingest loop (worker/ingest.py over jobs/ingest.py): claim the       *)
(* oldest available INGEST_PENDING job and keep its row locked while the   *)
(* audio is downloaded and put in object storage; then the songs row,      *)
(* READY and the playback_queue row commit together.  The object is put    *)
(* before that commit, so a crash between the two leaves it behind for the *)
(* next claim to find.                                                     *)
(***************************************************************************)
EXTENDS Semaphore, Sequences

CONSTANT Ingesters    \* one ingest loop per worker process

ASSUME IngestAssumption == IsFiniteSet(Ingesters)

VARIABLES
  ing,        \* ing[i]: where loop i is, the job it holds, its enqueue pre-check
  storage,    \* keys in object storage
  songs,      \* the songs table: one row per ingested conversion
  playback    \* the playback_queue table, in insertion order

ingestVars == <<ing, storage, songs, playback>>

IdleIngest == [pc |-> "idle", job |-> NoJob, enqueue |-> FALSE]
IngestPCs == {"idle", "claimed", "put", "finalize", "commit", "release"}

\* song_id = conversion_id_1, one per task: the key of the object and of the row.
Song(j, t) == <<j, t>>
Songs == Jobs \X Tasks

IngestInit ==
  /\ ing = [i \in Ingesters |-> IdleIngest]
  /\ storage = {} /\ songs = {} /\ playback = <<>>

IngestTypeOK ==
  /\ ing \in [Ingesters -> [pc : IngestPCs, job : Jobs \cup {NoJob}, enqueue : BOOLEAN]]
  /\ storage \subseteq Songs /\ songs \subseteq Songs
  /\ playback \in Seq([job : Jobs, song : Songs])

\* Loop i's transaction holds its job's row.
HoldsRow(i) == ing[i].pc \in {"claimed", "put", "finalize", "commit"}

MySong(i) == Song(ing[i].job, row[ing[i].job].task_id)
GotoIngest(i, pc) == ing' = [ing EXCEPT ![i].pc = pc]

Pending == {j \in InState({"INGEST_PENDING"}) : row[j].available}

\* claim_next_ingest_job: no commit, so the row stays locked.
IngestClaim(i) ==
  /\ ing[i].pc = "idle"
  /\ \E j \in Jobs :
       /\ Claims(j, Pending)
       /\ locked' = locked \cup {j}
       /\ ing' = [ing EXCEPT ![i] = [pc |-> "claimed", job |-> j, enqueue |-> FALSE]]
  /\ UNCHANGED <<row, calls, faults, slotVars, storage, songs, playback>>

\* Mutated: the check for an object from an earlier attempt is the wrong way round.
FetchInverted(i) ==
  /\ ing[i].pc = "claimed"
  /\ GotoIngest(i, IF MySong(i) \in storage THEN "put" ELSE "finalize")
  /\ UNCHANGED <<storeVars, slotVars, storage, songs, playback>>

\* Self-heal when the object is there already, else download with one refresh.
IngestFetch(i) ==
  /\ ing[i].pc = "claimed"
  /\ GotoIngest(i, IF MySong(i) \in storage THEN "finalize" ELSE "put")
  /\ UNCHANGED <<storeVars, slotVars, storage, songs, playback>>

\* storage.put
IngestPut(i) ==
  /\ ing[i].pc = "put"
  /\ storage' = storage \cup {MySong(i)}
  /\ GotoIngest(i, "finalize")
  /\ UNCHANGED <<storeVars, slotVars, songs, playback>>

\* Mutated: no pre-check, every finalize enqueues.
FinalizeUnchecked(i) ==
  /\ ing[i].pc = "finalize"
  /\ ing' = [ing EXCEPT ![i].pc = "commit", ![i].enqueue = TRUE]
  /\ UNCHANGED <<storeVars, slotVars, storage, songs, playback>>

\* _finalize_ready: stage the rows; enqueue unless the job has a playback row.
IngestFinalize(i) ==
  /\ ing[i].pc = "finalize"
  /\ ing' = [ing EXCEPT ![i].pc = "commit",
               ![i].enqueue = \A k \in DOMAIN playback : playback[k].job # ing[i].job]
  /\ UNCHANGED <<storeVars, slotVars, storage, songs, playback>>

\* The commit of what _finalize_ready staged.
IngestCommit(i) ==
  LET j == ing[i].job IN
  /\ ing[i].pc = "commit"
  /\ songs' = songs \cup {MySong(i)}
  /\ row' = [row EXCEPT ![j].state = "READY", ![j].song_id = row[j].task_id]
  /\ playback' = IF ing[i].enqueue
                 THEN Append(playback, [job |-> j, song |-> MySong(i)])
                 ELSE playback
  /\ locked' = locked \ {j}
  /\ GotoIngest(i, "release")
  /\ UNCHANGED <<calls, faults, slotVars, storage>>

\* _requeue_or_fail
RequeueOrFail(r) ==
  LET attempts == r.ingest_attempts + 1 IN
  IF attempts >= IngestMaxAttempts
  THEN [r EXCEPT !.ingest_attempts = attempts, !.state = "FAILED"]
  ELSE [r EXCEPT !.ingest_attempts = attempts, !.available = FALSE]

\* Nothing to download (an empty conversion_id_1, no audio_url): FAILED at once.
\* Download and refresh both failed: requeue or give up.  Only FAILED frees a slot.
IngestGiveUp(i) ==
  LET j == ing[i].job IN
  /\ ing[i].pc = "claimed"
  /\ MySong(i) \notin storage
  /\ \E r \in {RequeueOrFail(row[j]), [row[j] EXCEPT !.state = "FAILED"]} :
       /\ row' = [row EXCEPT ![j] = r]
       /\ ing' = [ing EXCEPT ![i] = IF r.state = "FAILED"
                                    THEN [@ EXCEPT !.pc = "release"] ELSE IdleIngest]
  /\ locked' = locked \ {j}
  /\ UNCHANGED <<calls, faults, slotVars, storage, songs, playback>>

\* _safe_release_semaphore, after the commit.
IngestRelease(i) ==
  /\ ing[i].pc = "release"
  /\ SafeRelease(Owner[ing[i].job])
  /\ ing' = [ing EXCEPT ![i] = IdleIngest]
  /\ UNCHANGED <<row, locked, calls, storage, songs, playback>>

\* The process dies, or a step raises: the transaction rolls back and the row is
\* as before the claim.  (The catch-all's own bookkeeping is lost as well: after
\* session.rollback() the job's attributes are expired, and reading
\* ingest_attempts outside an await raises in an AsyncSession.)
IngestCrash(i) ==
  /\ ing[i].pc # "idle"
  /\ Fault
  /\ locked' = IF HoldsRow(i) THEN locked \ {ing[i].job} ELSE locked
  /\ ing' = [ing EXCEPT ![i] = IdleIngest]
  /\ UNCHANGED <<row, calls, slotVars, storage, songs, playback>>

IngestStep(i) ==
  \/ IngestClaim(i) \/ IngestFetch(i) \/ IngestPut(i) \/ IngestFinalize(i)
  \/ IngestCommit(i) \/ IngestGiveUp(i) \/ IngestRelease(i)
=============================================================================
