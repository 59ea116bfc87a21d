-------------------------------- MODULE Page --------------------------------
(***************************************************************************)
(* A visitor's page (RadioApp.tsx, Composer.tsx, lib/progress.ts) and what *)
(* it hears of its own jobs.  It reads GET /quota, which may give the      *)
(* browser its identity cookie, then opens GET /events under whatever the  *)
(* cookie jar holds; POST /create makes a job for the identity its request *)
(* carried; the workers publish job-progress, job-ready and job-failed on  *)
(* that identity's channel (radio/user_events.py) and the instance's relay *)
(* puts them into the bounded queues of that identity's streams.           *)
(*                                                                         *)
(* An identity is named after the request that minted it.  Job j is the    *)
(* page's own, or of another tab of the same browser.                      *)
(***************************************************************************)
EXTENDS Integers, Sequences, FiniteSets

CONSTANTS
  OwnJobs,       \* the jobs this page may create
  TabJobs,       \* the jobs of another tab
  FrameQueue,    \* _QUEUE_MAXSIZE, plus the frame whose get() is pending
  PageFaults     \* bound: failed requests and publications, broken streams

Jobs == OwnJobs \cup TabJobs

ASSUME PageAssumption ==
  /\ IsFiniteSet(Jobs) /\ OwnJobs \cap TabJobs = {}
  /\ "quota" \notin Jobs /\ "nobody" \notin Jobs /\ "returning" \notin Jobs
  /\ FrameQueue \in Nat \ {0} /\ PageFaults \in Nat

VARIABLES
  jar,          \* the identity in the browser's cookie jar
  quotaRead,    \* the page's first GET /quota
  quotaCookie,  \* the cookie that request carried
  stream,       \* GET /events: whether it is open, and under which identity
  post,         \* post[j]: the POST /create that makes j
  owner,        \* owner[j]: Job.user_id
  job,          \* job[j]: the row, as far as its events go
  news,         \* news[j]: what became of its job-ready or job-failed
  frame,        \* the frames queued for the stream
  bar,          \* GenerationProgress
  overtaken,    \* history: a POST was sent before the quota read was answered
  pageFaults

cookies == <<jar, quotaRead, quotaCookie, overtaken>>
jobs == <<post, owner, job>>
pageVars == <<cookies, stream, jobs, news, frame, bar, pageFaults>>

Nobody == "nobody"
Identity == Jobs \cup {"quota", "returning", Nobody}
NoJob == "none"

PageFault == pageFaults < PageFaults /\ pageFaults' = pageFaults + 1
NoPageFault == UNCHANGED pageFaults

IdleBar == [status |-> "idle", job |-> NoJob, eta |-> FALSE]
Generating(j) == bar.status = "generating" /\ bar.job = j

\* A visitor comes for the first time, or with the cookie of an earlier visit.
PageInit ==
  /\ jar \in {Nobody, "returning"}
  /\ quotaRead = "asked" /\ quotaCookie = jar /\ overtaken = FALSE
  /\ stream = [open |-> FALSE, identity |-> Nobody]
  /\ post = [j \in Jobs |-> "unsent"]
  /\ owner = [j \in Jobs |-> Nobody]
  /\ job = [j \in Jobs |-> "none"]
  /\ news = [j \in Jobs |-> "none"]
  /\ frame = <<>> /\ bar = IdleBar
  /\ pageFaults = 0

(***************************************************************************)
(* Identity: resolve_identity reuses the request's cookie or mints one.    *)
(***************************************************************************)
Resolved(cookie, minted) == IF cookie = Nobody THEN minted ELSE cookie
\* The response sets the cookie only when the identity was minted.
Stored(cookie, minted) == IF cookie = Nobody THEN minted ELSE jar

QuotaAnswered ==
  /\ quotaRead = "asked"
  /\ jar' = Stored(quotaCookie, "quota")
  /\ quotaRead' = "read"
  /\ NoPageFault
  /\ UNCHANGED <<quotaCookie, overtaken, stream, jobs, news, frame, bar>>

\* refreshQuota swallows the error and the page goes on.
QuotaFails ==
  /\ quotaRead = "asked"
  /\ quotaRead' = "failed"
  /\ PageFault
  /\ UNCHANGED <<jar, quotaCookie, overtaken, stream, jobs, news, frame, bar>>

\* Mutated: the stream is opened without waiting for the quota read.
MayOpenAtOnce == TRUE

\* EventSource opens once the quota read is over, or connects again.  A request
\* without a cookie is given an identity nobody else ever has.
MayOpen == quotaRead \in {"read", "failed"}

OpenStream ==
  /\ ~stream.open /\ MayOpen
  /\ stream' = [open |-> TRUE, identity |-> jar]
  /\ NoPageFault
  /\ UNCHANGED <<cookies, jobs, news, frame, bar>>

\* What is queued for a stream is lost with it, and so is the news in it.
Unsent(j) == news[j] = "queued"

BreakStream ==
  /\ stream.open
  /\ stream' = [stream EXCEPT !.open = FALSE]
  /\ frame' = <<>>
  /\ news' = [j \in Jobs |-> IF Unsent(j) THEN "lost" ELSE news[j]]
  /\ PageFault
  /\ UNCHANGED <<cookies, jobs, bar>>

(***************************************************************************)
(* POST /create.                                                           *)
(***************************************************************************)
\* Composer: one POST at a time, and none while the bar is generating.
CanCreate == /\ bar.status # "generating"
             /\ \A j \in OwnJobs : post[j] \notin {"sent", "made"}

Submit(j) ==
  /\ post[j] = "unsent"
  /\ j \in OwnJobs => CanCreate
  /\ post' = [post EXCEPT ![j] = "sent"]
  /\ owner' = [owner EXCEPT ![j] = Resolved(jar, j)]
  /\ overtaken' = (overtaken \/ quotaRead = "asked")
  /\ NoPageFault
  /\ UNCHANGED <<jar, quotaRead, quotaCookie, stream, job, news, frame, bar>>

\* The row is committed, or the request is turned down (403, 422, 429).
MakeJob(j) ==
  /\ post[j] = "sent"
  /\ \/ /\ post' = [post EXCEPT ![j] = "made"]
        /\ job' = [job EXCEPT ![j] = "running"]
     \/ post' = [post EXCEPT ![j] = "refused"] /\ UNCHANGED job
  /\ NoPageFault
  /\ UNCHANGED <<cookies, stream, owner, news, frame, bar>>

\* The response: the minted cookie, and `started` for the page's own job.
Answer(j) ==
  /\ post[j] = "made"
  /\ post' = [post EXCEPT ![j] = "answered"]
  /\ jar' = IF owner[j] = j THEN j ELSE jar
  /\ bar' = IF j \in OwnJobs
            THEN [status |-> "generating", job |-> j, eta |-> FALSE] ELSE bar
  /\ NoPageFault
  /\ UNCHANGED <<quotaRead, quotaCookie, overtaken, stream, owner, job, news, frame>>

\* NOTIFY fails after the commit, or the response is lost: an error for the page,
\* no cookie, and a job that runs all the same.
LoseAnswer(j) ==
  /\ post[j] = "made"
  /\ post' = [post EXCEPT ![j] = "errored"]
  /\ PageFault
  /\ UNCHANGED <<cookies, stream, owner, job, news, frame, bar>>

(***************************************************************************)
(* The job's events.                                                       *)
(***************************************************************************)
Ends == {"ready", "failed"}

\* The relay: frames go to the streams of the identity they were published for.
Hears(j) == stream.open /\ stream.identity = owner[j]
HasRoomFor(j) == Hears(j) /\ Len(frame) < FrameQueue

\* Best effort: nobody listens, Redis fails or the queue is full, and it is lost.
Progress(j) ==
  /\ job[j] = "running" /\ HasRoomFor(j)
  /\ frame' = Append(frame, [type |-> "progress", job |-> j])
  /\ NoPageFault
  /\ UNCHANGED <<cookies, stream, jobs, news, bar>>

\* The ingest loop commits READY; a watchdog stamps FAILED and refunds.
EndJob(j) ==
  /\ job[j] = "running"
  /\ \E end \in Ends : job' = [job EXCEPT ![j] = end]
  /\ NoPageFault
  /\ UNCHANGED <<cookies, stream, post, owner, news, frame, bar>>

PublishEnd(j) ==
  /\ job[j] \in Ends /\ news[j] = "none"
  /\ \/ /\ HasRoomFor(j)
        /\ frame' = Append(frame, [type |-> job[j], job |-> j])
        /\ news' = [news EXCEPT ![j] = "queued"]
        /\ NoPageFault
     \/ /\ ~HasRoomFor(j)
        /\ news' = [news EXCEPT ![j] = "lost"]
        /\ NoPageFault /\ UNCHANGED frame
     \/ /\ news' = [news EXCEPT ![j] = "lost"]
        /\ PageFault /\ UNCHANGED frame
  /\ UNCHANGED <<cookies, stream, jobs, bar>>

(***************************************************************************)
(* The progress bar.                                                       *)
(***************************************************************************)
StatusOf(type) == IF type = "ready" THEN "finished" ELSE "failed"

\* Mutated: a frame of any job counts.
TrackedAnyJob(f) == bar.status = "generating"

\* reduceProgress: only the tracked job counts, and only while it is generating.
Tracked(f) == Generating(f.job)

Reduced(f) ==
  IF ~Tracked(f) THEN bar
  ELSE IF f.type = "progress" THEN [bar EXCEPT !.eta = TRUE]
  ELSE [bar EXCEPT !.status = StatusOf(f.type), !.eta = FALSE]

Deliver ==
  LET f == Head(frame)
  IN  /\ frame # <<>>
      /\ frame' = Tail(frame)
      /\ bar' = Reduced(f)
      /\ news' = IF f.type = "progress" THEN news
                 ELSE [news EXCEPT ![f.job] = IF Generating(f.job) THEN "shown" ELSE "ignored"]
      /\ NoPageFault
      /\ UNCHANGED <<cookies, stream, jobs>>

\* Mutated: a job-progress frame disarms the timer.
TimerRunsUnheard == bar.status = "generating" /\ ~bar.eta

\* PROGRESS_TIMEOUT_MS covers the job's deadline, a watchdog tick and a grace
\* period: the news of the job has been published and delivered, or lost.
TimerRuns == bar.status = "generating"
TimerFires ==
  /\ TimerRuns
  /\ \E j \in OwnJobs : Generating(j) /\ news[j] \in {"lost", "ignored"}
  /\ bar' = [bar EXCEPT !.status = "timedout", !.eta = FALSE]
  /\ NoPageFault
  /\ UNCHANGED <<cookies, stream, jobs, news, frame>>

PageNext ==
  \/ QuotaAnswered \/ QuotaFails \/ OpenStream \/ BreakStream
  \/ \E j \in Jobs : \/ Submit(j) \/ MakeJob(j) \/ Answer(j) \/ LoseAnswer(j)
                     \/ Progress(j) \/ EndJob(j) \/ PublishEnd(j)
  \/ Deliver \/ TimerFires

PageSpec == PageInit /\ [][PageNext]_pageVars

\* The pipeline ends every job (module JobPipeline) and its workers publish, the
\* stream is resumed, and the browser's timers fire.
PageFairness ==
  /\ \A j \in Jobs : WF_pageVars(EndJob(j)) /\ WF_pageVars(PublishEnd(j))
  /\ WF_pageVars(Deliver) /\ WF_pageVars(TimerFires)

FairPageSpec == PageSpec /\ PageFairness

(***************************************************************************)
(* Properties.                                                             *)
(***************************************************************************)
PageTypeOK ==
  /\ {jar, quotaCookie} \subseteq Identity /\ overtaken \in BOOLEAN
  /\ quotaRead \in {"asked", "read", "failed"}
  /\ stream \in [open : BOOLEAN, identity : Identity]
  /\ post \in [Jobs -> {"unsent", "sent", "made", "refused", "answered", "errored"}]
  /\ owner \in [Jobs -> Identity]
  /\ job \in [Jobs -> {"none", "running"} \cup Ends]
  /\ news \in [Jobs -> {"none", "queued", "lost", "shown", "ignored"}]
  /\ frame \in Seq([type : {"progress"} \cup Ends, job : Jobs]) /\ Len(frame) <= FrameQueue
  /\ bar \in [status : {"idle", "generating", "finished", "failed", "timedout"},
              job : OwnJobs \cup {NoJob}, eta : BOOLEAN]
  /\ pageFaults \in 0..PageFaults

\* The bar never tells of one job what happened to another, of this page or of
\* another tab, and never calls a job finished or failed that is not.
BarTellsTruth ==
  /\ bar.status = "finished" => job[bar.job] = "ready"
  /\ bar.status = "failed" => job[bar.job] = "failed"

\* The bar never says "Generating" forever, whatever frames were lost.
BarEnds == (bar.status = "generating") ~> (bar.status # "generating")

\* RadioApp waits for the quota read before it opens the stream: a page that sent
\* no POST before that read was answered tracks only jobs its stream hears of.
StreamHearsOwnJobs ==
  quotaRead = "read" /\ ~overtaken /\ stream.open /\ bar.status = "generating" =>
    stream.identity = owner[bar.job]
=============================================================================
