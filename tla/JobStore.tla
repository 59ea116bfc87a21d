------------------------------ MODULE JobStore ------------------------------
(***************************************************************************)
(* The `jobs` table of Postgres (models.Job): one row per accepted create, *)
(* ordered by its `seq` column, and the row locks that transactions hold   *)
(* across several steps of a handler.  Every other component of the        *)
(* pipeline reads and writes these rows.                                   *)
(*                                                                         *)
(* Time is abstract: a row's age only decides whether a sweep MAY pick it, *)
(* and `available` stands for  available_at <= now.                        *)
(***************************************************************************)
EXTENDS Integers, FiniteSets

CONSTANTS
  JobCount,   \* how many creates the run accepts
  Users,      \* the identities that own jobs
  Owner,      \* Owner[j] is the user_id of job j
  IngestMaxAttempts,   \* setting ingest_max_attempts, read by ingest and watchdog
  MaxCalls,   \* bound: tasks the generation API may create for one job
  MaxFaults   \* bound: crashes, dropped connections and Redis errors in a run

Jobs == 1..JobCount      \* a job is named by its seq
NoJob == 0
NoTask == 0              \* task_id IS NULL (and song_id IS NULL)
Tasks == 1..MaxCalls     \* the k-th task the API created for a job

ASSUME JobStoreAssumption ==
  /\ JobCount \in Nat
  /\ IngestMaxAttempts \in Nat \ {0}
  /\ MaxCalls \in Nat
  /\ MaxFaults \in Nat
  /\ Owner \in [Jobs -> Users]

VARIABLES
  row,      \* row[j]: the committed row of job j
  locked,   \* the rows some open transaction holds FOR UPDATE or has flushed
  calls,    \* calls[j]: tasks the generation API has created for job j
  faults    \* faults injected so far (bounded by MaxFaults)

storeVars == <<row, locked, calls, faults>>

ActiveStates == {"SUBMITTING", "WAITING_FOR_WEBHOOK", "INGEST_PENDING"}
NonTerminalStates == ActiveStates \cup {"QUEUED"}
TerminalStates == {"READY", "FAILED"}
\* "ABSENT" is a job whose create has not been committed yet.
States == NonTerminalStates \cup TerminalStates \cup {"ABSENT"}

Row == [state : States,
        task_id : Tasks \cup {NoTask},
        song_id : Tasks \cup {NoTask},
        ingest_attempts : Nat,
        available : BOOLEAN,
        failure_handled : BOOLEAN]

NewRow == [state |-> "ABSENT", task_id |-> NoTask, song_id |-> NoTask,
           ingest_attempts |-> 0, available |-> TRUE, failure_handled |-> FALSE]

\* `SELECT ... ORDER BY seq LIMIT 1 FOR UPDATE SKIP LOCKED` returns j among S.
Claims(j, S) == j \in S \ locked /\ \A k \in S \ locked : j <= k

InState(S) == {j \in Jobs : row[j].state \in S}

\* count_active_jobs, and the same query grouped by user_id.
ActiveJobs == InState(ActiveStates)
ActiveCount == Cardinality(ActiveJobs)
ActiveCountByUser == [u \in Users |-> Cardinality({j \in ActiveJobs : Owner[j] = u})]

\* One more fault happens; every bounded failure of the model goes through here.
Fault == faults < MaxFaults /\ faults' = faults + 1

StoreInit ==
  /\ row = [j \in Jobs |-> NewRow]
  /\ locked = {}
  /\ calls = [j \in Jobs |-> 0]
  /\ faults = 0

StoreTypeOK ==
  /\ row \in [Jobs -> Row]
  /\ locked \subseteq Jobs
  /\ calls \in [Jobs -> 0..MaxCalls]
  /\ faults \in 0..MaxFaults

(***************************************************************************)
(* POST /create: the row is committed QUEUED before anything else happens. *)
(* (The quota check and charge around it are outside this module.)         *)
(***************************************************************************)
CreateJob(j) ==
  /\ row[j].state = "ABSENT"
  /\ \A k \in Jobs : k < j => row[k].state # "ABSENT"
  /\ row' = [row EXCEPT ![j].state = "QUEUED"]
  /\ UNCHANGED <<locked, calls, faults>>

\* The clock reaches available_at of a row that was requeued with backoff.
BackoffElapses(j) ==
  /\ ~row[j].available
  /\ j \notin locked
  /\ row' = [row EXCEPT ![j].available = TRUE]
  /\ UNCHANGED <<locked, calls, faults>>
=============================================================================
