------------------------------- MODULE MCWeb --------------------------------
(***************************************************************************)
(* The parts around the pipeline on small instances: the web tier, its     *)
(* page, and the watchdog's first drain row by row.  They share no         *)
(* variable, so a state of one beside every state of another would show    *)
(* nothing of either: `focus`, chosen at the start, says which part moves. *)
(***************************************************************************)
EXTENDS Quota, PointerFanout, Page, Player, Drain

CONSTANTS r1, r2, k1, k2, w1, w2   \* model values

VARIABLE focus

webVars == <<quotaVars, fanoutVars, pageVars, playerVars, drainVars, focus>>

OneAddress == [i \in Identities |-> "ip"]

WebInit ==
  /\ focus \in {"quota", "fanout", "page", "player", "drain"}
  /\ QuotaInit /\ FanoutInit /\ PageInit /\ PlayerInit /\ DrainInit
  /\ focus # "page" => jar = Nobody

WebNext ==
  /\ UNCHANGED focus
  /\ focus # "quota" => UNCHANGED quotaVars
  /\ focus # "fanout" => UNCHANGED fanoutVars
  /\ focus # "page" => UNCHANGED pageVars
  /\ focus # "player" => UNCHANGED playerVars
  /\ focus # "drain" => UNCHANGED drainVars
  /\ \/ focus = "quota" /\ QuotaNext
     \/ focus = "fanout" /\ FanoutNext
     \/ focus = "page" /\ PageNext
     \/ focus = "player" /\ PlayerNext
     \/ focus = "drain" /\ DrainNext

WebSpec == WebInit /\ [][WebNext]_webVars

(***************************************************************************)
(* The type invariants, in one.                                            *)
(***************************************************************************)
\* Every variable keeps its type: counters stay natural, queues within their bound,
\* what is in flight is something that was sent.
WebTypeOK ==
  QuotaTypeOK /\ FanoutTypeOK /\ PageTypeOK /\ PlayerTypeOK /\ DrainTypeOK

(***************************************************************************)
(* The liveness of each part under the fairness of that part.              *)
(***************************************************************************)
\* Every song change reaches the connected players, or was lost by Redis or by a
\* full queue (pointer_broadcaster.py, events.py).
FairPush == focus = "fanout" /\ FanoutFairness => PushReachesListeners

\* GET /now-playing is right in the end, whatever stale answers were written back
\* (pointer_cache.py).
FairNowPlaying == focus = "fanout" /\ FanoutFairness => NowPlayingHeals

\* The progress bar ends, whatever was lost (progress.ts, RadioApp.tsx).
FairBar == focus = "page" /\ PageFairness => BarEnds

\* The watchdog's tick gets past its first drain (worker/watchdog.py).
FairDrain == focus = "drain" /\ DrainFairness => DrainEnds
=============================================================================
