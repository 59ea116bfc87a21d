---------------------------- MODULE JobLifecycle ----------------------------
(***************************************************************************)
(* What the pipeline promises about a job, without loops, locks, slots or  *)
(* crashes: it is accepted once, is put on the station's queue in the step *)
(* that makes it ready, and is refunded at most once, after its failure    *)
(* was noticed.  Ready and failed are final.  A job that misses its        *)
(* deadline while the generation API is still being asked for it is only   *)
(* lapsed: the answer may bring it back.  JobPipeline implements this      *)
(* while the SUBMITTING lease outlasts every live dispatch.                *)
(***************************************************************************)
EXTENDS Sequences

CONSTANT Jobs

VARIABLES
  phase,      \* phase[j]: what becomes of the job
  station,    \* the jobs queued for airing, oldest first
  noticed,    \* the jobs whose failure was noticed
  refunded    \* the jobs whose quota was given back

lifecycleVars == <<phase, station, noticed, refunded>>

LifecycleInit ==
  /\ phase = [j \in Jobs |-> "none"]
  /\ station = <<>>
  /\ noticed = {}
  /\ refunded = {}

\* Job j goes from phase `from` to phase `to`.
Turn(j, from, to) ==
  phase[j] = from /\ phase' = [phase EXCEPT ![j] = to]

Deliver(j) ==
  /\ Turn(j, "pending", "ready")
  /\ station' = Append(station, j)
  /\ UNCHANGED <<noticed, refunded>>

\* Acceptance, failure, a missed deadline during the call, and how that ends.
Proceed(j) ==
  /\ \/ Turn(j, "none", "pending")
     \/ Turn(j, "pending", "failed")
     \/ Turn(j, "pending", "lapsed")
     \/ Turn(j, "lapsed", "failed")
     \/ Turn(j, "lapsed", "pending")
  /\ UNCHANGED <<station, noticed, refunded>>

Notice(j) ==
  /\ phase[j] \in {"failed", "lapsed"}
  /\ j \notin noticed
  /\ noticed' = noticed \cup {j}
  /\ UNCHANGED <<phase, station, refunded>>

Refund(j) ==
  /\ j \in noticed \ refunded
  /\ refunded' = refunded \cup {j}
  /\ UNCHANGED <<phase, station, noticed>>

LifecycleNext == \E j \in Jobs : Deliver(j) \/ Proceed(j) \/ Notice(j) \/ Refund(j)

LifecycleSpec == LifecycleInit /\ [][LifecycleNext]_lifecycleVars
=============================================================================
