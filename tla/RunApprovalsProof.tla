--------------------------- MODULE RunApprovalsProof --------------------------
(***************************************************************************)
(* Theorems about RunApprovals, for any number of requests, invocations,   *)
(* scopes and reviewers, and for either door.                              *)
(***************************************************************************)
EXTENDS RunApprovals, TLAPS

Statuses == {"absent", "pending"} \cup Closed
Waiting  == {"announcing", "sleeping", "fetching", "resolving"}

\* A request of the same invocation and scope was approved for the run.
ForTheRun(key, scope) ==
  \E q \in Requests : GrantKey(q) = key /\ ScopeOf[q] = scope /\ record[q] = "approved-for-run"

\* What a handler knows of its request, and what the operation was told, is what the row says.
WaitFit ==
  \A r \in Requests :
    /\ wait[r] \in Waiting => record[r] # "absent" /\ r \notin covered
    /\ wait[r] = "resolving" => got[r] = record[r] /\ record[r] \in Closed
    /\ wait[r] = "none" => r \notin covered
    /\ r \in covered => answer[r] = "approve"

AnswerFit ==
  \A r \in Requests :
    /\ answer[r] = "approve" => record[r] \in Granted \/ r \in covered
    /\ answer[r] = "reject" => /\ record[r] \in Closed
                               /\ Door = "inbox" => record[r] \in {"rejected", "expired"} \/ aborted

\* Every yes for the run was given by a person, for its invocation and scope.
GrantsFit ==
  /\ \A g \in grants : ForTheRun(g[1], g[2])
  /\ \A r \in covered : ForTheRun(GrantKey(r), ScopeOf[r])

\* Only the run's signal ends a wait; who read text from outside is marked.
SignalFit == cut # {} => aborted
TaintFit  == \A i \in outside : TaintKey(i) \in tainted

Fit == TypeOK /\ WaitFit /\ AnswerFit /\ GrantsFit /\ SignalFit /\ TaintFit

-----------------------------------------------------------------------------
(* Rows.                                                                   *)

\* A row that is decided, by whomever, stays as it is; and no row is taken away.
RowsKept(rows) ==
  /\ rows \in [Requests -> Statuses]
  /\ \A r \in Requests : /\ record[r] \in Closed => rows[r] = record[r]
                         /\ record[r] # "absent" => rows[r] # "absent"

LEMMA SweptKept ==
  ASSUME record \in [Requests -> Statuses]
  PROVE  RowsKept(Swept) /\ RowsKept(record)
  BY DEF RowsKept, Swept, Statuses, Closed, Decisions

LEMMA DecidedKept ==
  ASSUME record \in [Requests -> Statuses], NEW rows, RowsKept(rows),
         NEW r \in Requests, NEW decision \in Decisions
  PROVE  /\ RowsKept(Decided(rows, r, decision))
         /\ rows[r] # "absent" => Decided(rows, r, decision)[r] \in Closed
  BY DEF RowsKept, Decided, Statuses, Closed, Decisions

LEMMA LookKept ==
  ASSUME TypeOK, NEW r \in Requests, NEW next, Look(r, next)
  PROVE  record' = Swept /\ RowsKept(record')
  BY SweptKept DEF Look, TypeOK, Statuses

\* Every step of whichever process keeps the rows.
LEMMA NextKeepsRows ==
  ASSUME TypeOK, [Next]_vars
  PROVE  RowsKept(record')
<1>0. record \in [Requests -> Statuses]
  BY DEF TypeOK, Statuses
<1>1. ASSUME record' = record \/ record' = Swept PROVE RowsKept(record')
  BY <1>0, <1>1, SweptKept
<1>2. ASSUME NEW r \in Requests, AskPerson(r) PROVE RowsKept(record')
  BY <1>0, <1>2 DEF AskPerson, Create, RowsKept, Statuses, Closed, Decisions
<1>3. ASSUME NEW r \in Requests, Fetched(r) PROVE RowsKept(record')
  <2>1. comment[r] # "none" => comment[r] \in Decisions
    BY DEF TypeOK, Decisions
  <2>2. CASE comment[r] # "none" /\ record' = Decided(Swept, r, comment[r])
    BY <1>0, <2>1, <2>2, SweptKept, DecidedKept
  <2> QED
    BY <1>1, <1>3, <2>2 DEF Fetched, inboxVars
<1>4. ASSUME NEW r \in Requests, Cut(r) PROVE RowsKept(record')
  BY <1>0, <1>4, SweptKept, DecidedKept DEF Cut, Decisions
<1>5. ASSUME NEW d \in deciding, Decide(d) PROVE RowsKept(record')
  <2>1. d[2] \in Requests /\ d[3] \in Decisions
    BY DEF TypeOK
  <2> QED
    BY <1>0, <1>5, <2>1, SweptKept, DecidedKept DEF Decide
<1>6. ASSUME NEW r \in Requests, AskCovered(r) \/ Announced(r) \/ LeaseLost(r) \/ Poll(r) \/ Answer(r) \/ Tick(r)
      PROVE  RowsKept(record')
  BY <1>1, <1>6, LookKept
     DEF AskCovered, Announced, LeaseLost, Poll, Answer, Tick, BecomeOverdue, inboxVars
<1>7. CASE \/ \E i \in Invocations : Taint(i)
           \/ \E v \in Reviewers, r \in Requests, decision \in Decisions : Consider(v, r, decision)
           \/ \E r \in Requests, decision \in {"approved", "rejected"} : Comment(r, decision)
           \/ Refresh \/ Abort \/ UNCHANGED vars
  BY <1>1, <1>7 DEF Taint, Consider, Comment, Refresh, Abort, vars, inboxVars
<1> QED
  BY <1>2, <1>3, <1>4, <1>5, <1>6, <1>7 DEF Next, Handler

-----------------------------------------------------------------------------
(* Types.                                                                  *)

Places  == {"none", "over"} \cup Waiting
Answers == {"none", "approve", "reject", "error"}

\* The handlers' part of the types.
HandlersTyped ==
  /\ wait \in [Requests -> Places] /\ got \in [Requests -> Statuses] /\ cut \subseteq Requests
  /\ answer \in [Requests -> Answers]
  /\ \A r \in Requests : (wait[r] = "over") = (answer[r] # "none")

LEMMA TypeParts ==
  TypeOK <=> /\ record \in [Requests -> Statuses] /\ overdue \subseteq Requests
             /\ HandlersTyped
             /\ covered \subseteq Requests /\ grants \subseteq Keys \X Scopes
             /\ tainted \subseteq Keys /\ outside \subseteq Invocations /\ aborted \in BOOLEAN
             /\ comment \in [Requests -> {"none", "approved", "rejected"}]
             /\ deciding \subseteq Reviewers \X Requests \X Decisions
  BY DEF TypeOK, HandlersTyped, Statuses, Places, Waiting, Answers

\* A wait that goes on, and one that is over, stay typed.
LEMMA GoneOnTyped ==
  ASSUME HandlersTyped, NEW r \in Requests, wait[r] \in {"none"} \cup Waiting,
         NEW where \in Waiting, Goto(r, where), UNCHANGED answer,
         got' \in [Requests -> Statuses], cut' \subseteq Requests
  PROVE  HandlersTyped'
  BY DEF HandlersTyped, Goto, Places, Waiting

LEMMA ToldTyped ==
  ASSUME HandlersTyped, NEW r \in Requests, NEW what \in {"approve", "reject", "error"},
         Tell(r, what), UNCHANGED <<got, cut>>
  PROVE  HandlersTyped'
  BY DEF HandlersTyped, Tell, Goto, Places, Answers

LEMMA LookTyped ==
  ASSUME TypeOK, NEW r \in Requests, wait[r] \in Waiting, NEW next \in Waiting, Look(r, next)
  PROVE  HandlersTyped'
<1>1. RowsKept(Swept)
  BY SweptKept, TypeParts
<1>2. CASE Swept[r] = "pending"
  BY <1>2, GoneOnTyped, TypeParts DEF Look, HandlersTyped
<1>3. CASE Swept[r] # "pending"
  <2>1. got' \in [Requests -> Statuses]
    BY <1>1, <1>3, TypeParts DEF Look, Leave, HandlersTyped, RowsKept
  <2> QED
    BY <1>3, <2>1, GoneOnTyped, TypeParts DEF Look, Leave, HandlersTyped, Waiting
<1> QED
  BY <1>2, <1>3

LEMMA HandlersStayTyped ==
  ASSUME TypeOK, [Next]_vars
  PROVE  HandlersTyped'
<1>0. HandlersTyped /\ RowsKept(record') /\ RowsKept(Swept) /\ RowsKept(record)
  BY TypeParts, NextKeepsRows, SweptKept
<1>1. ASSUME UNCHANGED handlerVars PROVE HandlersTyped'
  BY <1>0, <1>1 DEF HandlersTyped, handlerVars
<1>2. ASSUME NEW r \in Requests, Leave(r, record'), UNCHANGED answer, wait[r] \in Waiting,
             cut' \subseteq Requests
      PROVE  HandlersTyped'
  <2>1. got' \in [Requests -> Statuses]
    BY <1>0, <1>2 DEF Leave, RowsKept, HandlersTyped
  <2> QED
    BY <1>0, <1>2, <2>1, GoneOnTyped DEF Leave, Waiting
<1>3. ASSUME NEW r \in Requests, AskCovered(r) \/ AskPerson(r) \/ Tick(r) PROVE HandlersTyped'
  <2>1. CASE AskCovered(r)
    BY <1>0, <2>1, ToldTyped DEF AskCovered
  <2>2. CASE AskPerson(r)
    BY <1>0, <2>2, GoneOnTyped DEF AskPerson, Waiting, HandlersTyped
  <2>3. CASE Tick(r)
    BY <1>1, <2>3 DEF Tick
  <2> QED
    BY <1>3, <2>1, <2>2, <2>3
<1>4. ASSUME NEW r \in Requests, Announced(r) \/ Poll(r) PROVE HandlersTyped'
  <2>1. CASE Look(r, "sleeping") \/ Look(r, "fetching")
    BY <1>4, <2>1, LookTyped DEF Announced, Poll, Waiting
  <2>2. CASE Goto(r, "sleeping") /\ UNCHANGED <<got, cut, answer>>
    BY <1>0, <1>4, <2>2, GoneOnTyped DEF Announced, Poll, Waiting, HandlersTyped
  <2> QED
    BY <1>4, <2>1, <2>2 DEF Announced, Poll
<1>5. ASSUME NEW r \in Requests, Fetched(r) PROVE HandlersTyped'
  <2>1. CASE Goto(r, "sleeping") /\ UNCHANGED got
    BY <1>0, <1>5, <2>1, GoneOnTyped DEF Fetched, Waiting, HandlersTyped
  <2>2. CASE Leave(r, record')
    BY <1>0, <1>2, <1>5, <2>2 DEF Fetched, Waiting, HandlersTyped
  <2> QED
    BY <1>5, <2>1, <2>2 DEF Fetched
<1>6. ASSUME NEW r \in Requests, Cut(r) PROVE HandlersTyped'
  BY <1>0, <1>2, <1>6 DEF Cut, Waiting, HandlersTyped
<1>7. ASSUME NEW r \in Requests, LeaseLost(r) \/ Answer(r) PROVE HandlersTyped'
  BY <1>0, <1>7, ToldTyped DEF LeaseLost, Answer
<1>8. CASE \/ \E i \in Invocations : Taint(i)
           \/ \E v \in Reviewers, r \in Requests, decision \in Decisions : Consider(v, r, decision)
           \/ \E d \in deciding : Decide(d)
           \/ \E r \in Requests, decision \in {"approved", "rejected"} : Comment(r, decision)
           \/ Refresh \/ Abort \/ UNCHANGED vars
  BY <1>1, <1>8 DEF Taint, Consider, Decide, Comment, Refresh, Abort, vars
<1> QED
  BY <1>3, <1>4, <1>5, <1>6, <1>7, <1>8 DEF Next, Handler

LEMMA NextTyped ==
  ASSUME TypeOK, [Next]_vars
  PROVE  TypeOK'
<1>0. HandlersTyped' /\ record' \in [Requests -> Statuses]
  BY HandlersStayTyped, NextKeepsRows DEF RowsKept
<1>1. /\ overdue \subseteq Requests /\ covered \subseteq Requests /\ grants \subseteq Keys \X Scopes
      /\ tainted \subseteq Keys /\ outside \subseteq Invocations
      /\ deciding \subseteq Reviewers \X Requests \X Decisions
      /\ comment \in [Requests -> {"none", "approved", "rejected"}]
  BY DEF TypeOK
<1>2. overdue' \subseteq Requests
  BY <1>1 DEF Next, Handler, AskCovered, AskPerson, Create, Announced, LeaseLost, Poll, Fetched,
     Cut, Answer, Tick, BecomeOverdue, Taint, Consider, Decide, Comment, Refresh, Abort, Look, vars,
     inboxVars
<1>3. covered' \subseteq Requests /\ tainted' \subseteq Keys /\ outside' \subseteq Invocations
  BY <1>1 DEF Next, Handler, AskCovered, AskPerson, Announced, LeaseLost, Poll, Fetched, Cut,
     Answer, Tick, Taint, TaintKey, Keys, Consider, Decide, Comment, Refresh, Abort, vars,
     harnessVars
<1>4. grants' \subseteq Keys \X Scopes
  <2>1. ASSUME NEW r \in Requests, Grant(r) PROVE grants' \subseteq Keys \X Scopes
    <3>1. GrantKey(r) \in Keys /\ ScopeOf[r] \in Scopes
      BY ApprovalAssumption DEF GrantKey, Keys
    <3> QED
      BY <1>1, <2>1, <3>1 DEF Grant
  <2>2. ASSUME NEW r \in Requests, Answer(r) PROVE grants' \subseteq Keys \X Scopes
    BY <1>1, <2>1, <2>2 DEF Answer
  <2> QED
    BY <1>1, <2>2 DEF Next, Handler, AskCovered, AskPerson, Announced, LeaseLost, Poll, Fetched,
       Cut, Tick, Taint, Consider, Decide, Comment, Refresh, Abort, vars, harnessVars
<1>5. aborted' \in BOOLEAN /\ comment' \in [Requests -> {"none", "approved", "rejected"}]
  <2>1. aborted \in BOOLEAN
    BY DEF TypeOK
  <2> QED
    BY <1>1, <2>1 DEF Next, Handler, AskCovered, AskPerson, Announced, LeaseLost, Poll, Fetched,
       Cut, Answer, Tick, Taint, Consider, Decide, Comment, Refresh, Abort, vars
<1>6. deciding' \subseteq Reviewers \X Requests \X Decisions
  BY <1>1 DEF Next, Handler, AskCovered, AskPerson, Announced, LeaseLost, Poll, Fetched, Cut,
     Answer, Tick, Taint, Consider, Decide, Comment, Refresh, Abort, vars
<1> QED
  BY <1>0, <1>2, <1>3, <1>4, <1>5, <1>6
     DEF TypeOK, HandlersTyped, Statuses, Places, Waiting, Answers

-----------------------------------------------------------------------------
(* The invariant.                                                          *)

LEMMA InitFits == Init => Fit
<1> SUFFICES ASSUME Init PROVE Fit
  OBVIOUS
<1>1. TypeOK
  BY Zenon DEF Init, TypeOK
<1>2. WaitFit /\ AnswerFit /\ GrantsFit /\ SignalFit /\ TaintFit
  BY DEF Init, WaitFit, AnswerFit, GrantsFit, SignalFit, TaintFit, Waiting
<1> QED
  BY <1>1, <1>2 DEF Fit

\* Grants and coverings stand on rows that are kept.
LEMMA GrantsStay ==
  ASSUME Fit, RowsKept(record'), grants' \subseteq grants, covered' = covered
  PROVE  GrantsFit'
<1>1. ASSUME NEW k, NEW s, ForTheRun(k, s) PROVE ForTheRun(k, s)'
  <2>1. PICK q \in Requests : GrantKey(q) = k /\ ScopeOf[q] = s /\ record[q] = "approved-for-run"
    BY <1>1 DEF ForTheRun
  <2>2. record'[q] = "approved-for-run"
    BY <2>1 DEF RowsKept, Closed, Decisions
  <2> QED
    BY <2>1, <2>2 DEF ForTheRun, GrantKey
<1> QED
  BY <1>1 DEF Fit, GrantsFit, GrantKey

\* One who only touches rows, comments or the signal leaves everybody else's knowledge true.
LEMMA OthersFit ==
  ASSUME Fit, RowsKept(record'), UNCHANGED <<handlerVars, harnessVars>>, aborted => aborted'
  PROVE  WaitFit' /\ AnswerFit' /\ GrantsFit' /\ SignalFit' /\ TaintFit'
<1> USE DEF handlerVars, harnessVars
<1>1. GrantsFit'
  BY GrantsStay
<1>2. WaitFit'
  BY DEF Fit, WaitFit, RowsKept, Waiting
<1>3. AnswerFit'
  BY DEF Fit, AnswerFit, RowsKept, Closed, Decisions, Granted
<1>4. SignalFit' /\ TaintFit'
  BY DEF Fit, SignalFit, TaintFit, TaintKey
<1> QED
  BY <1>1, <1>2, <1>3, <1>4

\* A handler that sleeps, asks GitLab or leaves its loop with a row that is decided.
LEMMA WaitersFit ==
  ASSUME Fit, RowsKept(record'), NEW r \in Requests, wait[r] \in Waiting, NEW where \in Waiting,
         Goto(r, where), UNCHANGED <<answer, harnessVars, aborted>>,
         \/ where # "resolving" /\ UNCHANGED got
         \/ got' = [got EXCEPT ![r] = record'[r]] /\ record'[r] \in Closed,
         cut' \subseteq cut \cup {r}, cut' # {} => aborted
  PROVE  WaitFit' /\ AnswerFit' /\ GrantsFit' /\ SignalFit' /\ TaintFit'
<1> USE DEF harnessVars
<1>0. /\ wait \in [Requests -> Places] /\ got \in [Requests -> Statuses]
      /\ record \in [Requests -> Statuses]
  BY TypeParts DEF Fit, HandlersTyped
<1>1. WaitFit'
  BY <1>0 DEF Fit, WaitFit, RowsKept, Waiting, Goto
<1>2. AnswerFit'
  BY DEF Fit, AnswerFit, RowsKept, Closed, Decisions, Granted
<1>3. SignalFit' /\ TaintFit' /\ GrantsFit'
  BY GrantsStay DEF Fit, SignalFit, TaintFit, TaintKey
<1> QED
  BY <1>1, <1>2, <1>3

LEMMA LookFits ==
  ASSUME Fit, NEW r \in Requests, wait[r] \in Waiting, NEW next \in {"sleeping", "fetching"},
         Look(r, next), UNCHANGED <<harnessVars, aborted>>
  PROVE  WaitFit' /\ AnswerFit' /\ GrantsFit' /\ SignalFit' /\ TaintFit'
<1>1. RowsKept(record') /\ record' = Swept
  BY LookKept DEF Fit
<1>2. Swept[r] # "absent" /\ Swept[r] \in Statuses
  BY <1>1 DEF Fit, WaitFit, RowsKept
<1>3. /\ UNCHANGED <<answer, cut>> /\ cut' \subseteq cut \cup {r}
      /\ cut' # {} => aborted
  BY DEF Look, Fit, SignalFit
<1>4. CASE Swept[r] = "pending"
  BY <1>1, <1>3, <1>4, WaitersFit DEF Look, Waiting
<1>5. CASE Swept[r] # "pending"
  <2>1. Swept[r] \in Closed
    BY <1>2, <1>5 DEF Statuses
  <2> QED
    BY <1>1, <1>3, <1>5, <2>1, WaitersFit DEF Look, Leave, Waiting
<1> QED
  BY <1>4, <1>5

\* The invariant without its types.
Sound == WaitFit /\ AnswerFit /\ GrantsFit /\ SignalFit /\ TaintFit

\* An operation that is covered is answered at once, by a grant that stands on a row.
LEMMA CoveredFits ==
  ASSUME Fit, NEW r \in Requests, AskCovered(r)
  PROVE  Sound'
<1>0. /\ wait \in [Requests -> Places] /\ answer \in [Requests -> Answers]
      /\ <<GrantKey(r), ScopeOf[r]>> \in grants
  BY TypeParts DEF Fit, HandlersTyped, AskCovered, Covering
<1>1. ForTheRun(GrantKey(r), ScopeOf[r])
  BY <1>0 DEF Fit, GrantsFit
<1>2. GrantsFit'
  BY <1>1 DEF AskCovered, Fit, GrantsFit, ForTheRun, GrantKey, inboxVars
<1>3. WaitFit'
  BY <1>0 DEF AskCovered, Tell, Goto, Fit, WaitFit, Waiting, inboxVars
<1>4. AnswerFit'
  BY <1>0 DEF AskCovered, Tell, Fit, AnswerFit, inboxVars
<1>5. SignalFit' /\ TaintFit'
  BY DEF AskCovered, Fit, SignalFit, TaintFit, TaintKey
<1> QED
  BY <1>2, <1>3, <1>4, <1>5 DEF Sound

\* What is told at the end of a wait is what the row says, and a yes for the run is one.
LEMMA AnswerFits ==
  ASSUME Fit, NEW r \in Requests, Answer(r)
  PROVE  Sound'
<1>0. /\ wait \in [Requests -> Places] /\ answer \in [Requests -> Answers] /\ record' = record
      /\ got[r] = record[r] /\ record[r] \in Closed /\ r \notin covered
      /\ UNCHANGED <<got, cut, covered, tainted, outside, aborted>>
      /\ wait' = [wait EXCEPT ![r] = "over"]
      /\ answer' = [answer EXCEPT ![r] = IF Yes(r) THEN "approve" ELSE "reject"]
  BY TypeParts DEF Fit, HandlersTyped, WaitFit, Waiting, Answer, Tell, Goto, inboxVars
<1>1. WaitFit'
  BY <1>0 DEF Fit, WaitFit, Waiting
<1>2. AnswerFit'
  <2>1. Yes(r) => record[r] \in Granted
    BY <1>0 DEF Yes, Granted
  <2>2. ~Yes(r) /\ Door = "inbox" => record[r] \in {"rejected", "expired"} \/ aborted
    BY <1>0 DEF Yes, Granted, Closed, Decisions, Fit, SignalFit
  <2> QED
    BY <1>0, <2>1, <2>2 DEF Fit, AnswerFit
<1>3. GrantsFit'
  <2>1. CASE grants' = grants
    BY <1>0, <2>1, GrantsStay, SweptKept, TypeParts DEF Fit
  <2>2. CASE got[r] = "approved-for-run" /\ grants' = grants \cup {<<GrantKey(r), ScopeOf[r]>>}
    <3>1. ForTheRun(GrantKey(r), ScopeOf[r])
      BY <1>0, <2>2 DEF ForTheRun
    <3> QED
      BY <1>0, <2>2, <3>1 DEF Fit, GrantsFit, ForTheRun, GrantKey
  <2> QED
    BY <2>1, <2>2 DEF Answer, Grant
<1>4. SignalFit' /\ TaintFit'
  BY <1>0 DEF Fit, SignalFit, TaintFit, TaintKey
<1> QED
  BY <1>1, <1>2, <1>3, <1>4 DEF Sound

LEMMA NextFits ==
  ASSUME Fit, [Next]_vars
  PROVE  Fit'
<1>0. /\ TypeOK' /\ RowsKept(record')
      /\ wait \in [Requests -> Places] /\ answer \in [Requests -> Answers]
      /\ record \in [Requests -> Statuses] /\ RowsKept(Swept)
  BY NextTyped, NextKeepsRows, SweptKept, TypeParts DEF Fit, HandlersTyped
<1>1. ASSUME UNCHANGED <<handlerVars, harnessVars>>, aborted => aborted' PROVE Sound'
  BY <1>0, <1>1, OthersFit DEF Sound
<1>2. ASSUME NEW r \in Requests, AskPerson(r) PROVE Sound'
  <2>1. record' = [record EXCEPT ![r] = "pending"] /\ wait[r] = "none"
    BY <1>2 DEF AskPerson, Create
  <2>2. WaitFit'
    BY <1>0, <1>2, <2>1 DEF AskPerson, Goto, harnessVars, Fit, WaitFit, Waiting, Closed, Decisions
  <2>3. AnswerFit'
    BY <1>0, <1>2, <2>1 DEF AskPerson, Create, harnessVars, Fit, AnswerFit, Granted, Closed, Decisions
  <2>4. GrantsFit' /\ SignalFit' /\ TaintFit'
    BY <1>0, <1>2, GrantsStay DEF AskPerson, harnessVars, Fit, SignalFit, TaintFit, TaintKey
  <2> QED
    BY <2>2, <2>3, <2>4 DEF Sound
<1>3. ASSUME NEW r \in Requests, Announced(r) \/ Poll(r) PROVE Sound'
  <2>1. CASE Look(r, "sleeping") \/ Look(r, "fetching")
    BY <1>3, <2>1, LookFits DEF Announced, Poll, Waiting, Sound
  <2>2. CASE Goto(r, "sleeping") /\ UNCHANGED <<inboxVars, got, cut, answer>>
    <3>1. cut' \subseteq cut \cup {r} /\ (cut' # {} => aborted)
      BY <2>2 DEF Fit, SignalFit
    <3> QED
      BY <1>0, <1>3, <2>2, <3>1, WaitersFit DEF Announced, Poll, Waiting, Sound
  <2> QED
    BY <1>3, <2>1, <2>2 DEF Announced, Poll
<1>4. ASSUME NEW r \in Requests, Fetched(r) PROVE Sound'
  <2>1. wait[r] \in Waiting /\ UNCHANGED <<cut, answer, harnessVars, aborted>>
    BY <1>4 DEF Fetched, Waiting
  <2>2. cut' \subseteq cut \cup {r} /\ (cut' # {} => aborted)
    BY <2>1 DEF Fit, SignalFit
  <2>3. CASE Goto(r, "sleeping") /\ UNCHANGED got
    BY <1>0, <2>1, <2>2, <2>3, WaitersFit DEF Waiting, Sound
  <2>4. CASE comment[r] # "none" /\ record' = Decided(Swept, r, comment[r]) /\ Leave(r, record')
    <3>1. comment[r] \in Decisions
      BY <2>4 DEF Fit, TypeOK, Decisions
    <3>2. record'[r] \in Closed
      BY <1>0, <2>1, <2>4, <3>1, DecidedKept DEF Fit, WaitFit, RowsKept
    <3> QED
      BY <1>0, <2>1, <2>2, <2>4, <3>2, WaitersFit DEF Leave, Waiting, Sound
  <2> QED
    BY <1>4, <2>3, <2>4 DEF Fetched
<1>5. ASSUME NEW r \in Requests, Cut(r) PROVE Sound'
  <2>1. wait[r] \in Waiting
    BY <1>5 DEF Cut, Waiting
  <2>2. record'[r] \in Closed
    BY <1>0, <1>5, <2>1, DecidedKept DEF Cut, Fit, WaitFit, RowsKept, Decisions
  <2> QED
    BY <1>0, <1>5, <2>1, <2>2, WaitersFit DEF Cut, Leave, Waiting, Sound
<1>6. ASSUME NEW r \in Requests, LeaseLost(r) PROVE Sound'
  <2>1. WaitFit' /\ AnswerFit'
    BY <1>0, <1>6 DEF LeaseLost, Tell, Goto, inboxVars, harnessVars, Fit, WaitFit, AnswerFit, Waiting
  <2>2. GrantsFit' /\ SignalFit' /\ TaintFit'
    BY <1>0, <1>6, GrantsStay DEF LeaseLost, harnessVars, Fit, SignalFit, TaintFit, TaintKey
  <2> QED
    BY <2>1, <2>2 DEF Sound
<1>7. ASSUME NEW i \in Invocations, Taint(i) PROVE Sound'
  <2>1. GrantsFit'
    BY <1>0, <1>7, GrantsStay DEF Taint
  <2>2. WaitFit' /\ AnswerFit' /\ SignalFit' /\ TaintFit'
    BY <1>7 DEF Taint, inboxVars, handlerVars, Fit, WaitFit, AnswerFit, SignalFit, TaintFit, TaintKey
  <2> QED
    BY <2>1, <2>2 DEF Sound
<1>8. ASSUME \/ \E r \in Requests : Tick(r)
             \/ \E v \in Reviewers, r \in Requests, decision \in Decisions : Consider(v, r, decision)
             \/ \E d \in deciding : Decide(d)
             \/ \E r \in Requests, decision \in {"approved", "rejected"} : Comment(r, decision)
             \/ Refresh \/ Abort \/ UNCHANGED vars
      PROVE  Sound'
  BY <1>1, <1>8 DEF Tick, Consider, Decide, Comment, Refresh, Abort, vars
<1>9. ASSUME NEW r \in Requests, AskCovered(r) \/ Answer(r) PROVE Sound'
  BY <1>9, CoveredFits, AnswerFits
<1>10. Sound'
  BY <1>2, <1>3, <1>4, <1>5, <1>6, <1>7, <1>8, <1>9 DEF Next, Handler
<1> QED
  BY <1>0, <1>10, Zenon DEF Fit, Sound

\* What the invariant says of the operations, of the desk and of those who were asked.
LEMMA FitMeans ==
  ASSUME Fit
  PROVE  OnlyWhatWasApproved /\ NoneLeftPending /\ (Door = "inbox" => DecisionCounts)
<1>1. OnlyWhatWasApproved
  BY DEF Fit, AnswerFit, GrantsFit, ForTheRun, OnlyWhatWasApproved, GrantKey
<1>2. NoneLeftPending
  BY DEF Fit, AnswerFit, WaitFit, NoneLeftPending, Waiting, Granted, Closed, Decisions
<1>3. Door = "inbox" => DecisionCounts
  BY DEF Fit, AnswerFit, DecisionCounts
<1> QED
  BY <1>1, <1>2, <1>3

\* Outside a workflow, a mark and a yes for the run are kept under the same id.
LEMMA CoversUnmarked ==
  ASSUME \A i \in Invocations : WorkflowOf[i] = i, Fit, [Next]_vars
  PROVE  \A r \in covered' \ covered : InvocationOf[r] \notin outside
<1> SUFFICES ASSUME NEW r \in covered' \ covered
             PROVE  InvocationOf[r] \notin outside
  OBVIOUS
<1>1. r \in Requests /\ AskCovered(r)
  BY DEF Next, Handler, AskCovered, AskPerson, Announced, LeaseLost, Poll, Fetched, Cut, Answer,
     Tick, Taint, Consider, Decide, Comment, Refresh, Abort, vars, harnessVars
<1>2. InvocationOf[r] \notin tainted
  BY <1>1 DEF AskCovered, Covering, GrantKey
<1>3. \A i \in outside : i \in Invocations /\ i \in tainted
  BY DEF Fit, TypeOK, TaintFit, TaintKey
<1> QED
  BY <1>2, <1>3

-----------------------------------------------------------------------------
(* The theorems.                                                           *)

\* The model stays within its types: rows, waits, grants, marks and decisions under way.
THEOREM TypeCorrect == Spec => []TypeOK
<1>1. Init => TypeOK
  BY InitFits DEF Fit
<1>2. TypeOK /\ [Next]_vars => TypeOK'
  BY NextTyped
<1> QED
  BY <1>1, <1>2, PTL DEF Spec

\* docs/approval-inbox.md: "A second decision for the same request fails instead of replacing
\* the first decision", wherever it comes from: another process, a comment, the clock or a stop.
THEOREM DecidedOnce == Spec => DecisionFinal
<1>1. TypeOK /\ [Next]_vars =>
        [\A r \in Requests : record[r] \in Closed => record'[r] = record[r]]_vars
  BY NextKeepsRows DEF RowsKept
<1> QED
  BY <1>1, TypeCorrect, PTL DEF Spec, DecisionFinal

\* No operation is let through that was not approved, itself or by a yes for the run that was
\* given in the same invocation and for the same scope (harness.js, #approve).
THEOREM ApprovedOnly == Spec => []OnlyWhatWasApproved
<1>1. Fit => OnlyWhatWasApproved
  BY FitMeans
<1> QED
  BY <1>1, InitFits, NextFits, PTL DEF Spec

\* A wait that is over leaves no request on the desk that asks in vain (approval-inbox.js).
THEOREM DeskCleared == Spec => []NoneLeftPending
<1>1. Fit => NoneLeftPending
  BY FitMeans
<1> QED
  BY <1>1, InitFits, NextFits, PTL DEF Spec

\* At the inbox a person who approves is obeyed: a refusal was one, or the time was up, or the
\* run was stopped. (On GitLab a yes for the run, given at the inbox, counts as a refusal.)
THEOREM Obeyed == ASSUME Door = "inbox" PROVE Spec => []DecisionCounts
<1>1. Fit => DecisionCounts
  BY FitMeans
<1> QED
  BY <1>1, InitFits, NextFits, PTL DEF Spec

\* Outside a workflow, where an invocation is marked under its own id, no earlier yes answers
\* for it once it has read text from outside (harness.js, #coveringGrant and markTainted).
THEOREM AskedAgain ==
  ASSUME \A i \in Invocations : WorkflowOf[i] = i
  PROVE  Spec => AsksAgain
<1>1. Fit /\ [Next]_vars => [\A r \in covered' \ covered : InvocationOf[r] \notin outside]_vars
  BY CoversUnmarked
<1> QED
  BY <1>1, InitFits, NextFits, PTL DEF Spec, AsksAgain
=============================================================================
