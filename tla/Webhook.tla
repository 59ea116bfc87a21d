------------------------------ MODULE Webhook -------------------------------
(***************************************************************************)
(* POST /api/generation/webhook (web/routes/webhook.py).  Deliveries can   *)
(* be late, duplicated, lost or sent before dispatch has stored the task's *)
(* id: a delivery is an action that may happen at any time after the API   *)
(* created the task, any number of times, or never.                        *)
(***************************************************************************)
EXTENDS Semaphore

VARIABLE hookOwes   \* jobs a handler has failed and whose slot it still has to free

WebhookInit == hookOwes = {}
WebhookTypeOK == hookOwes \subseteq Jobs

\* Mutated: a delivery for a known task is taken in any state of its job.
DeliverableAnyState(j, t) ==
  /\ t <= calls[j]
  /\ row[j].task_id = t
  /\ j \notin locked

\* The row the delivery for task t finds: by task_id, FOR UPDATE.  An unknown
\* task and a row that is not waiting any more are answered 200 and ignored, as
\* is the early callback without audio: none of them changes anything.
Deliverable(j, t) ==
  /\ t <= calls[j]
  /\ row[j].task_id = t
  /\ j \notin locked
  /\ row[j].state = "WAITING_FOR_WEBHOOK"

\* The callback that carries conversion_path.
WebhookAudio(j) ==
  /\ \E t \in Tasks : Deliverable(j, t)
  /\ row' = [row EXCEPT ![j].state = "INGEST_PENDING"]
  /\ UNCHANGED <<locked, calls, faults, slots, userSlots, hookOwes>>

\* success: false.  FAILED is committed; the slot is freed afterwards.
WebhookFailure(j) ==
  /\ \E t \in Tasks : Deliverable(j, t)
  /\ row' = [row EXCEPT ![j].state = "FAILED"]
  /\ hookOwes' = hookOwes \cup {j}
  /\ UNCHANGED <<locked, calls, faults, slots, userSlots>>

\* _safe_release_semaphore, after the commit.
WebhookRelease(j) ==
  /\ j \in hookOwes
  /\ hookOwes' = hookOwes \ {j}
  /\ SafeRelease(Owner[j])
  /\ UNCHANGED <<row, locked, calls>>

WebhookDelivery(j) == WebhookAudio(j) \/ WebhookFailure(j)
=============================================================================
