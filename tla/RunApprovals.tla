---------------------------- MODULE RunApprovals -----------------------------
(***************************************************************************)
(* Asking a person: Harness.#approve with its run-scoped grants, the two   *)
(* handlers that wait for a decision (the inbox's own and the one that     *)
(* also reads GitLab comments), and the reviewers who decide from other    *)
(* processes while the run may be stopped or may read outside text.        *)
(*                                                                         *)
(* A request is an operation the policy leaves to a person.  Of an         *)
(* operation only the scope it would be granted under is kept; a person    *)
(* who approves for the run grants that scope.                             *)
(***************************************************************************)
CONSTANTS
  Requests,       \* operations a policy leaves to a person
  Invocations,    \* agent invocations (Harness.run), each with a runId of its own
  InvocationOf,   \* InvocationOf[r]: the invocation that asks
  WorkflowOf,     \* WorkflowOf[i]: metadata.workflowRunId, or i outside a workflow
  Scopes,
  ScopeOf,        \* ScopeOf[r]: the scope of the operation
  Reviewers,
  Door            \* "inbox", or "gitlab" when comments on the issue decide as well

ASSUME ApprovalAssumption ==
  /\ InvocationOf \in [Requests -> Invocations]
  /\ ScopeOf \in [Requests -> Scopes]
  /\ Invocations \subseteq DOMAIN WorkflowOf
  /\ Door \in {"inbox", "gitlab"}

VARIABLES
  record,         \* record[r]: status of the request's row; "absent" before create
  overdue,        \* requests whose expires_at has passed
  wait,           \* wait[r]: where the handler of r is suspended
  got,            \* got[r]: status of the handler's record when it left the loop
  cut,            \* requests whose wait the signal ended
  answer,         \* answer[r]: what the operation is told
  covered,        \* history: requests that an earlier grant answered
  grants,         \* #grants: run-scoped yeses <<key, scope>>
  tainted,        \* #tainted: keys
  outside,        \* history: invocations that read text from outside
  aborted,        \* the run's signal
  comment,        \* comment[r]: newest decision an approver wrote on the issue
  deciding        \* decisions <<reviewer, request, decision>> between SELECT and UPDATE

inboxVars    == <<record, overdue>>
handlerVars  == <<wait, got, cut, answer>>
harnessVars  == <<covered, grants, tainted, outside>>
vars         == <<inboxVars, handlerVars, harnessVars, aborted, comment, deciding>>

Decisions == {"approved", "rejected", "approved-for-run"}
Granted   == {"approved", "approved-for-run"}
Closed    == Decisions \cup {"expired"}

Keys == Invocations \cup {WorkflowOf[i] : i \in Invocations}

TypeOK ==
  /\ record \in [Requests -> {"absent", "pending"} \cup Closed]
  /\ overdue \subseteq Requests
  /\ wait \in [Requests -> {"none", "announcing", "sleeping", "fetching", "resolving", "over"}]
  /\ got \in [Requests -> {"absent", "pending"} \cup Closed]
  /\ cut \subseteq Requests
  /\ answer \in [Requests -> {"none", "approve", "reject", "error"}]
  /\ \A r \in Requests : (wait[r] = "over") = (answer[r] # "none")
  /\ covered \subseteq Requests
  /\ grants \subseteq Keys \X Scopes
  /\ tainted \subseteq Keys
  /\ outside \subseteq Invocations
  /\ aborted \in BOOLEAN
  /\ comment \in [Requests -> {"none", "approved", "rejected"}]
  /\ deciding \subseteq Reviewers \X Requests \X Decisions

Init ==
  /\ record = [r \in Requests |-> "absent"] /\ overdue = {}
  /\ wait = [r \in Requests |-> "none"]
  /\ got = [r \in Requests |-> "absent"]
  /\ cut = {}
  /\ answer = [r \in Requests |-> "none"]
  /\ covered = {} /\ grants = {} /\ tainted = {} /\ outside = {}
  /\ aborted = FALSE
  /\ comment = [r \in Requests |-> "none"]
  /\ deciding = {}

-----------------------------------------------------------------------------
(* The inbox: the table approvals, one operator per statement that changes *)
(* it.  Several processes have the database open - the one whose run       *)
(* waits, the command line, the terminal and the page - and every          *)
(* statement is atomic.                                                    *)

\* create
Create(r) == /\ record[r] = "absent"
             /\ record' = [record EXCEPT ![r] = "pending"]
             /\ UNCHANGED overdue

\* Time passes expires_at.
BecomeOverdue(r) == /\ record[r] = "pending" /\ r \notin overdue
                    /\ overdue' = overdue \cup {r}
                    /\ UNCHANGED record

\* expire: every access to the inbox begins with this statement.
Swept == [r \in Requests |-> IF record[r] = "pending" /\ r \in overdue THEN "expired" ELSE record[r]]

\* (Slip...: a faulty variant of the definition that follows it.)
SlipReplaces(rows, r, decision) == [rows EXCEPT ![r] = decision]

\* The UPDATE of decide: WHERE id = ? AND status = 'pending'.
Decided(rows, r, decision) == IF rows[r] = "pending" THEN [rows EXCEPT ![r] = decision] ELSE rows

-----------------------------------------------------------------------------
Goto(r, where) == wait' = [wait EXCEPT ![r] = where]

\* (Slip...: faulty variants of the definitions that follow them.)
SlipSilent(r, what) == Goto(r, "over") /\ UNCHANGED answer

Tell(r, what) == Goto(r, "over") /\ answer' = [answer EXCEPT ![r] = what]

-----------------------------------------------------------------------------
(* The harness.                                                            *)

\* #approve passes { runId, agent, queueJobId, workspace }: no workflowRunId.
GrantKey(r) == InvocationOf[r]

\* context.taint uses metadata.workflowRunId ?? runId.
TaintKey(i) == WorkflowOf[i]

SlipAnyScope(r) == GrantKey(r) \notin tainted /\ \E s \in Scopes : <<GrantKey(r), s>> \in grants

\* #coveringGrant
Covering(r) == GrantKey(r) \notin tainted /\ <<GrantKey(r), ScopeOf[r]>> \in grants

AskCovered(r) ==
  /\ wait[r] = "none" /\ Covering(r)
  /\ Tell(r, "approve")
  /\ covered' = covered \cup {r}
  /\ UNCHANGED <<inboxVars, got, cut, grants, tainted, outside, aborted, comment, deciding>>

AskPerson(r) ==
  /\ wait[r] = "none" /\ ~Covering(r)
  /\ Create(r)
  /\ Goto(r, "announcing")
  /\ UNCHANGED <<got, cut, answer, harnessVars, aborted, comment, deciding>>

\* #grant
Grant(r) == grants' = IF GrantKey(r) \in tainted THEN grants
                      ELSE grants \cup {<<GrantKey(r), ScopeOf[r]>>}

\* markTainted, when a tool of invocation i brings in text from outside.
Taint(i) ==
  /\ tainted' = tainted \cup {TaintKey(i)}
  /\ grants' = {g \in grants : g[1] # TaintKey(i)}
  /\ outside' = outside \cup {i}
  /\ UNCHANGED <<inboxVars, handlerVars, covered, aborted, comment, deciding>>

-----------------------------------------------------------------------------
(* The handlers.                                                           *)

\* The handler leaves its loop with the row as it now is.
Leave(r, rows) == Goto(r, "resolving") /\ got' = [got EXCEPT ![r] = rows[r]]

\* inbox.get: leave with a decision, or sleep until the next poll.
Look(r, next) ==
  /\ record' = Swept
  /\ IF Swept[r] = "pending" THEN Goto(r, next) /\ UNCHANGED got ELSE Leave(r, Swept)
  /\ UNCHANGED <<overdue, cut, answer>>

\* onPending, the notifier and the comment that announces the request are over. The
\* inbox handler looks at once, the other one sleeps first.
Announced(r) ==
  /\ wait[r] = "announcing"
  /\ \/ Door = "inbox" /\ Look(r, "sleeping")
     \/ Door = "gitlab" /\ Goto(r, "sleeping") /\ UNCHANGED <<inboxVars, got, cut, answer>>
  /\ UNCHANGED <<harnessVars, aborted, comment, deciding>>

\* A checkpoint throws when the job is no longer this worker's to run.
LeaseLost(r) ==
  /\ wait[r] \in {"announcing", "resolving"}
  /\ Tell(r, "error")
  /\ UNCHANGED <<inboxVars, got, cut, harnessVars, aborted, comment, deciding>>

SlipDeaf(r) ==
  /\ wait[r] = "sleeping"
  /\ Look(r, IF Door = "gitlab" THEN "fetching" ELSE "sleeping")
  /\ UNCHANGED <<harnessVars, aborted, comment, deciding>>

Poll(r) ==
  /\ wait[r] = "sleeping" /\ ~aborted
  /\ Look(r, IF Door = "gitlab" THEN "fetching" ELSE "sleeping")
  /\ UNCHANGED <<harnessVars, aborted, comment, deciding>>

\* The comments arrive, or the request for them fails; a decision found in them goes
\* through decide, and a decision that was there first wins.
Fetched(r) ==
  /\ wait[r] = "fetching"
  /\ \/ Goto(r, "sleeping") /\ UNCHANGED <<inboxVars, got>>
     \/ /\ comment[r] # "none"
        /\ record' = Decided(Swept, r, comment[r])
        /\ Leave(r, record')
        /\ UNCHANGED overdue
  /\ UNCHANGED <<cut, answer, harnessVars, aborted, comment, deciding>>

SlipWalksAway(r) ==
  /\ wait[r] = "sleeping" /\ aborted
  /\ record' = Swept
  /\ Leave(r, record')
  /\ cut' = cut \cup {r}
  /\ UNCHANGED <<overdue, answer, harnessVars, aborted, comment, deciding>>

\* The signal ends the sleep: reject, unless somebody has decided.
Cut(r) ==
  /\ wait[r] = "sleeping" /\ aborted
  /\ record' = Decided(Swept, r, "rejected")
  /\ Leave(r, record')
  /\ cut' = cut \cup {r}
  /\ UNCHANGED <<overdue, answer, harnessVars, aborted, comment, deciding>>

SlipOnceOnly(r) == r \notin cut /\ got[r] = "approved"

SlipUnlessRejected(r) == r \notin cut /\ got[r] # "rejected"

\* What the handler makes of its record: the GitLab one knows "approved" only.
Yes(r) == r \notin cut /\ got[r] \in (IF Door = "gitlab" THEN {"approved"} ELSE Granted)

\* onResolved is over.
Answer(r) ==
  /\ wait[r] = "resolving"
  /\ Tell(r, IF Yes(r) THEN "approve" ELSE "reject")
  /\ IF Yes(r) /\ got[r] = "approved-for-run" THEN Grant(r) ELSE UNCHANGED grants
  /\ UNCHANGED <<inboxVars, got, cut, covered, tainted, outside, aborted, comment, deciding>>

-----------------------------------------------------------------------------
(* People, and the clock.                                                  *)

\* decide: its expire and SELECT ...
Consider(v, r, decision) ==
  /\ \A d \in deciding : d[1] # v
  /\ Swept[r] = "pending"
  /\ record' = Swept
  /\ deciding' = deciding \cup {<<v, r, decision>>}
  /\ UNCHANGED <<overdue, handlerVars, harnessVars, aborted, comment>>

\* ... and its UPDATE, which may find the row decided.
Decide(d) ==
  /\ record' = Decided(record, d[2], d[3])
  /\ deciding' = deciding \ {d}
  /\ UNCHANGED <<overdue, handlerVars, harnessVars, aborted, comment>>

\* list, on every refresh of a screen.
Refresh ==
  /\ record' = Swept
  /\ UNCHANGED <<overdue, handlerVars, harnessVars, aborted, comment, deciding>>

\* An approver comments on the issue.
Comment(r, decision) ==
  /\ Door = "gitlab" /\ wait[r] \in {"sleeping", "fetching"}
  /\ comment' = [comment EXCEPT ![r] = decision]
  /\ UNCHANGED <<inboxVars, handlerVars, harnessVars, aborted, deciding>>

\* The run is stopped, its job is cancelled, or the service shuts down.
Abort ==
  /\ ~aborted
  /\ aborted' = TRUE
  /\ UNCHANGED <<inboxVars, handlerVars, harnessVars, comment, deciding>>

Tick(r) == BecomeOverdue(r) /\ UNCHANGED <<handlerVars, harnessVars, aborted, comment, deciding>>

-----------------------------------------------------------------------------

Handler(r) == Announced(r) \/ LeaseLost(r) \/ Poll(r) \/ Fetched(r) \/ Cut(r) \/ Answer(r)

Next ==
  \/ \E r \in Requests : AskCovered(r) \/ AskPerson(r) \/ Handler(r) \/ Tick(r)
  \/ \E i \in Invocations : Taint(i)
  \/ \E v \in Reviewers, r \in Requests, decision \in Decisions : Consider(v, r, decision)
  \/ \E d \in deciding : Decide(d)
  \/ \E r \in Requests, decision \in {"approved", "rejected"} : Comment(r, decision)
  \/ Refresh \/ Abort

Spec == Init /\ [][Next]_vars

\* The waiting process lives on: its timers fire and its requests return or time out.
\* Nothing is assumed of people, and time need not reach any deadline.
Fairness == \A r \in Requests : WF_vars(Handler(r))

FairSpec == Spec /\ Fairness
-----------------------------------------------------------------------------
(* Properties.                                                             *)

\* docs/approval-inbox.md: "A second decision for the same request fails instead of
\* replacing the first decision" - whether it comes from another process, from a
\* comment, from the clock, or from the run being stopped.
DecisionFinal == [][\A r \in Requests : record[r] \in Closed => record'[r] = record[r]]_vars

\* Nothing goes ahead that no person approved: an operation that is let through was
\* approved itself, or an operation of the same invocation and the same scope was
\* approved for the run. Expiry, a stop and a lost race never turn into a yes.
OnlyWhatWasApproved ==
  \A r \in Requests : answer[r] = "approve" =>
    \/ record[r] \in Granted
    \/ \E q \in Requests : /\ InvocationOf[q] = InvocationOf[r] /\ ScopeOf[q] = ScopeOf[r]
                           /\ record[q] = "approved-for-run"

\* Whoever approves is obeyed: a refusal reaches the operation only if the request was
\* rejected or expired, or the run was stopped.
DecisionCounts ==
  \A r \in Requests : answer[r] = "reject" => record[r] \in {"rejected", "expired"} \/ aborted

\* docs/approval-inbox.md: "Queue cancellation or service shutdown rejects an active
\* wait." A wait that is over leaves no request behind that asks for a decision in vain.
NoneLeftPending ==
  \A r \in Requests : wait[r] = "resolving" \/ answer[r] \in {"approve", "reject"} =>
    record[r] \in Closed \/ r \in covered

\* harness.js:452-454: "once a run has pulled in text nobody here wrote, every run-scoped yes in
\* it falls back to asking again" - also a yes that was being given at that moment. (Grants are
\* kept under the invocation, the mark under its workflow: a run expects this violated.)
AsksAgain ==
  [][\A r \in covered' \ covered : InvocationOf[r] \notin outside]_vars

\* Nobody is kept waiting in vain: a stopped run does not wait for an answer any more, and a
\* request that nobody answers stops waiting once its time is up.
WaitsInVain(r) == (aborted \/ r \in overdue) /\ wait[r] \notin {"none", "over"}
WaitsEnd == \A r \in Requests : WaitsInVain(r) ~> ~WaitsInVain(r)
=============================================================================
