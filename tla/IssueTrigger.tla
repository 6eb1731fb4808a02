---------------------------- MODULE IssueTrigger ----------------------------
(***************************************************************************)
(* A labelled GitLab issue becomes a run (gitlab/webhook-server.js,        *)
(* gitlab/issue-trigger.js) and, where publishing is on, a draft merge     *)
(* request (publishRun, gitlab/publisher.js).  GitLab may send a delivery  *)
(* more than once, the receiver may die anywhere, every call to GitLab may *)
(* fail, and the project's own pipeline has its say afterwards.            *)
(*                                                                         *)
(* The queue is the one of WorkflowQueue.tla, reduced to what the receiver *)
(* sees of it: a row per delivery, the status of that row, and a lease     *)
(* that is lost with its process.  Texts, titles and addresses are left    *)
(* out; so is what the run itself does (ProjectRun.tla).                   *)
(***************************************************************************)
EXTENDS Naturals, FiniteSets

CONSTANTS
  Deliveries,         \* webhook-id of the deliveries GitLab sends
  Issues, IssueOf,    \* the issue each of them is about
  FailFast,           \* workflow.failFast
  Publishing,         \* git.issueTrigger.publish
  AwaitPipeline,      \* git.issueTrigger.awaitPipeline
  PublishOnConflict,  \* git.publishOnConflict
  MaxSends,           \* bound: times GitLab sends something
  MaxMishaps          \* bound: calls to GitLab that fail, crashes, cancels and forced resumes

VARIABLES
  sent,      \* requests the receiver was sent
  mishaps,
  handling,  \* deliveries whose row is stored and whose answer is not written yet
  told,      \* the last answer to each delivery
  job,       \* its row in the queue
  at,        \* where its executor stands
  result,    \* what the run of its current attempt came to
  started,   \* attempts whose run was started
  resumed,   \* forced resumes
  pushed,    \* attempts whose branch is on GitLab
  opened,    \* attempts with a merge request
  verdict,   \* what GitLab shows on the commit, per issue: state and the delivery that set it
  noted,     \* what the issue was told by each delivery
  ci         \* the pipeline of the delivery's branch

asks    == <<sent, handling, told>>
gitlab  == <<pushed, opened, verdict, noted, ci>>
vars    == <<asks, mishaps, job, at, result, started, resumed, gitlab>>

NoSummary == [status |-> "none", clean |-> TRUE]

(* Where a pipeline may end: canceled, skipped and manual count as success *)
(* does, only "failed" is told apart.                                      *)
Settled == {"over", "failed"}

(* How a request can be wrong, in the order the handler looks: method and  *)
(* path, size, authentication, delivery id, JSON, and the trigger's own    *)
(* filters.                                                                *)
Requests == {"health", "elsewhere", "large", "unsigned", "forged", "stale",
             "nameless", "garbled", "unwanted", "wanted"}

Init ==
  /\ sent = 0 /\ mishaps = 0 /\ handling = {}
  /\ told = [d \in Deliveries |-> "nothing"]
  /\ job = [d \in Deliveries |-> "absent"]
  /\ at = [d \in Deliveries |-> "idle"]
  /\ result = [d \in Deliveries |-> NoSummary]
  /\ started = [d \in Deliveries |-> 0] /\ resumed = [d \in Deliveries |-> 0]
  /\ pushed = {} /\ opened = {}
  /\ verdict = [i \in Issues |-> [state |-> "none", by |-> "none"]]
  /\ noted = [d \in Deliveries |-> {}]
  /\ ci = [d \in Deliveries |-> "none"]

Mishap == mishaps < MaxMishaps /\ mishaps' = mishaps + 1

-----------------------------------------------------------------------------
(* The receiver.                                                           *)

(* A signature, once there, decides alone: no falling back to the token.   *)
VerifiedSignature(r) == r \notin {"forged", "stale"}
Authenticated(r) == r # "unsigned" /\ VerifiedSignature(r)
HasDeliveryId(r) == r # "nameless"
Matches(r) == r = "wanted"

Receive(r) == sent < MaxSends /\ sent' = sent + 1

(* Everything that is answered without touching the queue.                 *)
Refuse(d, r) ==
  /\ Receive(r)
  /\ \/ r \in {"health", "elsewhere", "large"}
     \/ ~Authenticated(r)
     \/ ~HasDeliveryId(r) \/ r = "garbled"
     \/ ~Matches(r)
  /\ told' = IF r \in {"health", "elsewhere", "nameless"} THEN told
             ELSE [told EXCEPT ![d] = "refused"]
  /\ UNCHANGED <<mishaps, handling, job, at, result, started, resumed, gitlab>>

SlipEnqueue(d) == job' = [job EXCEPT ![d] = "queued"]

(* enqueue: an insert that a row with the same delivery id turns away.     *)
Enqueue(d) == job' = [job EXCEPT ![d] = IF @ = "absent" THEN "queued" ELSE @]

Deliver(d, r) ==
  /\ Receive(r) /\ Authenticated(r) /\ HasDeliveryId(r) /\ Matches(r)
  /\ Enqueue(d)
  /\ handling' = handling \cup {<<d, job[d] = "absent">>}
  /\ UNCHANGED <<told, mishaps, at, result, started, resumed, gitlab>>

Respond(d, fresh) ==
  /\ <<d, fresh>> \in handling
  /\ handling' = handling \ {<<d, fresh>>}
  /\ told' = [told EXCEPT ![d] = IF fresh THEN "accepted" ELSE "duplicate"]
  /\ UNCHANGED <<sent, mishaps, job, at, result, started, resumed, gitlab>>

(* The receiver dies: requests and executors are gone, and a lease that    *)
(* ran out makes its job orphaned, never queued again.                     *)
Crash ==
  /\ Mishap
  /\ handling' = {}
  /\ job' = [d \in Deliveries |-> IF job[d] \in {"running", "cancel_requested"} THEN "orphaned" ELSE job[d]]
  /\ at' = [d \in Deliveries |-> "idle"]
  /\ UNCHANGED <<sent, told, result, started, resumed, gitlab>>

Cancel(d) ==
  /\ Mishap
  /\ job[d] \in {"queued", "running"}
  /\ job' = [job EXCEPT ![d] = IF @ = "queued" THEN "canceled" ELSE "cancel_requested"]
  /\ UNCHANGED <<asks, at, result, started, resumed, gitlab>>

(* queue resume --force: a person looked, and wants it run again.          *)
Resume(d) ==
  /\ Mishap
  /\ job[d] \in {"failed", "canceled", "orphaned"} /\ at[d] = "idle"
  /\ job' = [job EXCEPT ![d] = "queued"]
  /\ resumed' = [resumed EXCEPT ![d] = @ + 1]
  /\ UNCHANGED <<asks, at, result, started, gitlab>>

-----------------------------------------------------------------------------
(* What is told to GitLab.  setCommitStatus tries three times where GitLab *)
(* answers 409; whatever else goes wrong is reported to onError and        *)
(* forgotten, whether GitLab took the call or not.                         *)
SyncStatus(d, state) ==
  \/ /\ verdict' = [verdict EXCEPT ![IssueOf[d]] = [state |-> state, by |-> d]]
     /\ UNCHANGED mishaps
  \/ Mishap /\ UNCHANGED verdict

Comment(d, what) ==
  \/ noted' = [noted EXCEPT ![d] = @ \cup {what}] /\ UNCHANGED mishaps
  \/ Mishap /\ UNCHANGED noted

Goes(d, from, to) == at[d] = from /\ at' = [at EXCEPT ![d] = to]

(* A checkpoint throws when the job is no longer this worker's to run.     *)
Checkpoint(d, from, to, thrown) ==
  Goes(d, from, IF job[d] = "running" THEN to ELSE thrown)

Claim(d) ==
  /\ job[d] = "queued"
  /\ Goes(d, "idle", "fetch")
  /\ job' = [job EXCEPT ![d] = "running"]
  /\ result' = [result EXCEPT ![d] = NoSummary]
  /\ UNCHANGED <<asks, mishaps, started, resumed, gitlab>>

(* The target branch is fetched, or else the local HEAD is taken, and the  *)
(* commit is marked as being worked on.                                    *)
Begin(d) ==
  /\ Goes(d, "fetch", "begun")
  /\ SyncStatus(d, "running")
  /\ UNCHANGED <<asks, job, result, started, resumed, pushed, opened, noted, ci>>

(* The first checkpoint is outside the try: where it throws, nobody takes  *)
(* the "running" back.                                                     *)
Begun(d) ==
  /\ Checkpoint(d, "begun", "starting", "thrown")
  /\ UNCHANGED <<asks, mishaps, job, result, started, resumed, gitlab>>

Starting(d) ==
  /\ Checkpoint(d, "starting", "run", "caught")
  /\ started' = [started EXCEPT ![d] = IF job[d] = "running" THEN @ + 1 ELSE @]
  /\ UNCHANGED <<asks, mishaps, job, result, resumed, gitlab>>

-----------------------------------------------------------------------------
(* The run, and its publishing.                                            *)

SlipMayPublish(r) == Publishing /\ (r.clean \/ PublishOnConflict)

(* publishRun: never a failed workflow, never a branch that conflicts with *)
(* its target unless the project says so.                                  *)
MayPublish(r) ==
  /\ Publishing
  /\ r.status = "succeeded"
  /\ r.clean \/ PublishOnConflict

(* runProject throws, or returns a summary.  With failFast the engine      *)
(* throws for a failed step; without it the failed summary is returned.    *)
RunReturns(d) ==
  \E status \in IF FailFast THEN {"succeeded"} ELSE {"succeeded", "failed"}, clean \in BOOLEAN :
    LET r == [status |-> status, clean |-> clean] IN
    /\ Goes(d, "run", IF MayPublish(r) THEN "publish" ELSE "returned")
    /\ result' = [result EXCEPT ![d] = r]
    /\ UNCHANGED <<asks, mishaps, job, started, resumed, gitlab>>

RunThrows(d) ==
  /\ Goes(d, "run", "caught")
  /\ UNCHANGED <<asks, mishaps, job, result, started, resumed, gitlab>>

(* The remote is another project, there is nothing to publish, a commit or *)
(* the push is refused: nothing is on GitLab.                              *)
PublishRefused(d) ==
  /\ Mishap
  /\ Goes(d, "publish", "caught")
  /\ UNCHANGED <<asks, job, result, started, resumed, gitlab>>

Push(d) ==
  /\ Goes(d, "publish", "pushed")
  /\ pushed' = pushed \cup {<<d, started[d]>>}
  /\ UNCHANGED <<asks, mishaps, job, result, started, resumed, opened, verdict, noted, ci>>

CreateMergeRequest(d) ==
  \/ /\ Goes(d, "pushed", "returned")
     /\ opened' = opened \cup {<<d, started[d]>>}
     /\ UNCHANGED <<asks, mishaps, job, result, started, resumed, pushed, verdict, noted, ci>>
  \/ /\ Mishap /\ Goes(d, "pushed", "caught")
     /\ UNCHANGED <<asks, job, result, started, resumed, gitlab>>

-----------------------------------------------------------------------------
(* What follows a run that returned.                                       *)

HasRequest(d) == <<d, started[d]>> \in opened

(* The checkpoint "workflow-completed".                                    *)
Returned(d) ==
  /\ Checkpoint(d, "returned", IF AwaitPipeline /\ HasRequest(d) THEN "waiting" ELSE "judging", "caught")
  /\ UNCHANGED <<asks, mishaps, job, result, started, resumed, gitlab>>

(* The project's pipeline: it may be slow, or never be.                    *)
PipelineMoves(d) ==
  /\ HasRequest(d) /\ ci[d] \notin Settled
  /\ \E s \in {"running"} \cup Settled : s # ci[d] /\ ci' = [ci EXCEPT ![d] = s]
  /\ UNCHANGED <<asks, mishaps, job, at, result, started, resumed, pushed, opened, verdict, noted>>

(* waitForPipeline ends when the newest pipeline has settled, when the     *)
(* time is over, or with an error, which is forgotten.                     *)
Waited(d) ==
  /\ ci[d] \in Settled
  /\ Goes(d, "waiting", "judging")
  /\ UNCHANGED <<asks, mishaps, job, result, started, resumed, gitlab>>

StateOf(d) == IF AwaitPipeline /\ HasRequest(d) /\ ci[d] = "failed" THEN "failed" ELSE "success"

(* Not waited for any longer: what was seen last is not a failure.         *)
WaitedEnough(d) ==
  /\ Goes(d, "waiting", "judging-unsettled") /\ ci[d] \notin Settled
  /\ UNCHANGED <<asks, mishaps, job, result, started, resumed, gitlab>>

Judge(d) ==
  /\ \/ Goes(d, "judging", "commenting") /\ SyncStatus(d, StateOf(d))
     \/ Goes(d, "judging-unsettled", "commenting") /\ SyncStatus(d, "success")
  /\ UNCHANGED <<asks, job, result, started, resumed, pushed, opened, noted, ci>>

Tell(d) ==
  /\ Goes(d, "commenting", "noted")
  /\ Comment(d, "completed")
  /\ UNCHANGED <<asks, job, result, started, resumed, pushed, opened, verdict, ci>>

(* The checkpoint "gitlab-finalized", and the worker's complete.           *)
Finalize(d) ==
  /\ \/ job[d] = "running" /\ Goes(d, "noted", "idle") /\ job' = [job EXCEPT ![d] = "succeeded"]
     \/ job[d] # "running" /\ Goes(d, "noted", "caught") /\ UNCHANGED job
  /\ UNCHANGED <<asks, mishaps, result, started, resumed, gitlab>>

Caught(d) ==
  /\ Goes(d, "caught", "apologizing")
  /\ SyncStatus(d, "failed")
  /\ UNCHANGED <<asks, job, result, started, resumed, pushed, opened, noted, ci>>

Apologize(d) ==
  /\ Goes(d, "apologizing", "thrown")
  /\ Comment(d, "failed")
  /\ UNCHANGED <<asks, job, result, started, resumed, pushed, opened, verdict, ci>>

(* The worker records the failure, or the cancelation it was after.        *)
Thrown(d) ==
  /\ Goes(d, "thrown", "idle")
  /\ job' = [job EXCEPT ![d] = IF @ = "running" THEN "failed" ELSE "canceled"]
  /\ UNCHANGED <<asks, mishaps, result, started, resumed, gitlab>>

Execute(d) ==
  \/ Claim(d) \/ Begin(d) \/ Begun(d) \/ Starting(d)
  \/ RunReturns(d) \/ RunThrows(d) \/ PublishRefused(d) \/ Push(d) \/ CreateMergeRequest(d)
  \/ Returned(d) \/ Waited(d) \/ WaitedEnough(d) \/ Judge(d) \/ Tell(d) \/ Finalize(d)
  \/ Caught(d) \/ Apologize(d) \/ Thrown(d)

Next ==
  \/ \E d \in Deliveries :
       \/ \E r \in Requests : Refuse(d, r) \/ Deliver(d, r)
       \/ \E fresh \in BOOLEAN : Respond(d, fresh)
       \/ Cancel(d) \/ Resume(d) \/ PipelineMoves(d) \/ Execute(d)
  \/ Crash

Spec == Init /\ [][Next]_vars

-----------------------------------------------------------------------------
(* Where an executor stands once the run of its attempt has returned.      *)
AfterRun == {"publish", "pushed", "returned", "waiting", "judging", "judging-unsettled",
             "commenting", "noted"}
Stations == AfterRun \cup {"idle", "fetch", "begun", "starting", "run", "caught", "apologizing",
                           "thrown"}

TypeOK ==
  /\ sent \in 0..MaxSends /\ mishaps \in 0..MaxMishaps
  /\ handling \subseteq Deliveries \X BOOLEAN
  /\ told \in [Deliveries -> {"nothing", "accepted", "duplicate", "refused"}]
  /\ job \in [Deliveries -> {"absent", "queued", "running", "cancel_requested", "succeeded", "failed",
                             "canceled", "orphaned"}]
  /\ at \in [Deliveries -> Stations]
  /\ result \in [Deliveries -> [status : {"none", "succeeded", "failed"}, clean : BOOLEAN]]
  /\ started \in [Deliveries -> Nat] /\ resumed \in [Deliveries -> Nat]
  /\ verdict \in [Issues -> [state : {"none", "running", "success", "failed"},
                            by : Deliveries \cup {"none"}]]
  /\ ci \in [Deliveries -> {"none", "running"} \cup Settled]

(* However often GitLab sends a delivery, and wherever the receiver dies,  *)
(* a delivery that was told "accepted" or "duplicate" is in the queue, and *)
(* is run once, and once more for each time a person resumed it.           *)
RunOncePerDelivery ==
  \A d \in Deliveries :
    /\ told[d] \in {"accepted", "duplicate"} => job[d] # "absent"
    /\ started[d] <= 1 + resumed[d]

(* A merge request has its branch; and where an attempt past its run has   *)
(* one, the workflow succeeded and the branch merged cleanly or was wanted *)
(* in spite of it.  (A later attempt may stop before its run and find the  *)
(* request of an earlier one.)                                             *)
PublishedIsReviewed ==
  /\ opened \subseteq pushed
  /\ \A d \in Deliveries : HasRequest(d) /\ at[d] \in AfterRun =>
       /\ result[d].status = "succeeded"
       /\ result[d].clean \/ PublishOnConflict

(* The two together: a delivery is run once and what it publishes has      *)
(* passed its review, however often it is sent and whatever fails.         *)
DeliveriesHold == RunOncePerDelivery /\ PublishedIsReviewed

(* The commit status of an issue says success only where the delivery that *)
(* set it has a run that succeeded.                                        *)
SuccessIsEarned ==
  \A i \in Issues : verdict[i].state = "success" /\ at[verdict[i].by] \in {"commenting", "noted"} =>
    result[verdict[i].by].status = "succeeded"
=============================================================================
