----------------------------- MODULE ContentLock -----------------------------
(***************************************************************************)
(* What a run may use: the files under .etnpilot/, the lock a person wrote *)
(* after reading them, the page's review of both (runtime/project-content, *)
(* ui/client/project) and the runs that hold the files against the lock    *)
(* (content/provenance). A capture reads one file after the other, and     *)
(* anybody may write between two of them.                                  *)
(***************************************************************************)
EXTENDS Naturals, Sequences, FiniteSets

CONSTANTS Kind,     \* a sequence: the kind of each file, in the order of a capture
          Texts,    \* what a file may hold
          MaxAtOnce, \* bound: readers at work at the same time
          MaxEdits  \* bound: how often the files or the lock are changed by others

VARIABLES disk,     \* what each file is: "absent", a text, or what a capture refuses
          lock,     \* the lock file
          job,      \* a reader -> what it does, and what it has captured so far
          shown,    \* contentData: the review the page has
          dialog,   \* the question if what was reviewed is to be locked is on the screen
          used,     \* what the run loaded
          edits,
          touched,  \* history: files changed between the two reads of a lock from the page
          sealed    \* history: all that was ever locked

vars == <<disk, lock, job, shown, dialog, used, edits, touched, sealed>>

Files == DOMAIN Kind
Readers == {"review", "page", "cli", "run"}
Refused == {"link", "bare"}
NoLock == [is |-> "none", entries |-> <<>>]
Idle == [at |-> "idle", seen |-> <<>>, want |-> <<>>, lock |-> NoLock]

-----------------------------------------------------------------------------
(* One file of a capture: a rule below instructions, a skill's SKILL.md,   *)
(* which has to be there, and the manifests and prompts of one directory.  *)
CaptureInstructions(c) == c # "link"
CaptureSkills(c) == c \notin Refused
CaptureFlatDirectory(c) == c \notin Refused  \* an agent with no name

Readable(f) == CASE Kind[f] = "instruction" -> CaptureInstructions(disk[f])
                 [] Kind[f] = "skill"       -> CaptureSkills(disk[f])
                 [] OTHER                   -> CaptureFlatDirectory(disk[f])

Next1(r) == Len(job[r].seen) + 1
Captured(r) == Next1(r) \notin Files
Capturing(r) == job[r].at \notin {"idle", "work", "succeeded"}
MayStart == Cardinality({r \in Readers : Capturing(r)}) < MaxAtOnce

ReadSafeContentFile(r) ==
  /\ Capturing(r) /\ ~Captured(r) /\ Readable(Next1(r))
  /\ job' = [job EXCEPT ![r].seen = Append(@, disk[Next1(r)])]
  /\ UNCHANGED <<disk, lock, shown, dialog, used, edits, touched, sealed>>

Start(r, at, want) == MayStart /\ job' = [job EXCEPT ![r] = [Idle EXCEPT !.at = at, !.want = want,
                                                     !.lock = IF at = "review" THEN lock ELSE NoLock]]
Again(r, at) == job' = [job EXCEPT ![r] = [@ EXCEPT !.at = at, !.seen = <<>>]]
Ends(r) == job' = [job EXCEPT ![r] = Idle]

(* A capture that throws: the page is told the problem, the rest fails.    *)
CaptureFails(r) ==
  /\ Capturing(r) /\ ~Captured(r) /\ ~Readable(Next1(r))
  /\ Ends(r) /\ used' = IF r = "run" THEN <<>> ELSE used
  /\ shown' = IF r = "review" \/ job[r].at = "again" THEN [manifest |-> <<>>, can |-> FALSE] ELSE shown
  /\ dialog' = IF r = "page" THEN FALSE ELSE dialog
  /\ UNCHANGED <<disk, lock, edits, touched, sealed>>

-----------------------------------------------------------------------------
(* The lock as a run reads it: there, a regular file, and whole.           *)
ReadSafeLock == lock.is \in {"whole", "broken"}
ParseLock == lock.is = "whole"

(* A plausible fault: files that the lock does not name are passed over.   *)
SlipMatches(seen) == \A f \in Files : lock.entries[f] # "absent" => seen[f] = lock.entries[f]

AssertManifestMatches(seen) == seen = lock.entries

Pinned(seen) == ReadSafeLock /\ ParseLock /\ AssertManifestMatches(seen)

(* The review: what differs from the lock as it was read before.           *)
Review(r) == [manifest |-> job[r].seen,
              can |-> job[r].lock.is = "none" \/ job[r].seen # job[r].lock.entries]

LoadProjectViews ==
  /\ job["review"] = Idle /\ Start("review", "review", <<>>)
  /\ UNCHANGED <<disk, lock, shown, dialog, used, edits, touched, sealed>>

Reviewed ==
  /\ job["review"].at = "review" /\ Captured("review")
  /\ shown' = Review("review") /\ Ends("review")
  /\ UNCHANGED <<disk, lock, dialog, used, edits, touched, sealed>>

-----------------------------------------------------------------------------
OpenLockDialog ==
  /\ ~dialog /\ shown.can /\ dialog' = TRUE
  /\ UNCHANGED <<disk, lock, job, shown, used, edits, touched, sealed>>

(* The digest that is sent is that of the review the page has by then.     *)
ConfirmLock ==
  /\ dialog /\ job["page"] = Idle
  /\ Start("page", "check", shown.manifest) /\ touched' = {}
  /\ UNCHANGED <<disk, lock, shown, dialog, used, edits, sealed>>

(* A plausible fault: the digest the request came with is not looked at.   *)
SlipSame == TRUE

SameAsShown == job["page"].seen = job["page"].want

LockReviewedContent ==
  /\ job["page"].at = "check" /\ Captured("page")
  /\ IF SameAsShown THEN Again("page", "write") /\ UNCHANGED dialog
                    ELSE Ends("page") /\ dialog' = FALSE
  /\ UNCHANGED <<disk, lock, shown, used, edits, touched, sealed>>

ContentLockCommand ==
  /\ job["cli"] = Idle /\ Start("cli", "write", <<>>)
  /\ UNCHANGED <<disk, lock, shown, dialog, used, edits, touched, sealed>>

(* The lock is written from a capture of its own.                          *)
WriteContentLock(r) ==
  /\ job[r].at = "write" /\ Captured(r)
  /\ IF lock.is = "link" THEN Ends(r) /\ UNCHANGED <<lock, sealed>>
     ELSE /\ lock' = [is |-> "whole", entries |-> job[r].seen]
          /\ sealed' = sealed \cup {job[r].seen}
          /\ IF r = "page"
             THEN job' = [job EXCEPT ![r] = [@ EXCEPT !.at = "again", !.seen = <<>>, !.lock = lock']]
             ELSE Ends(r)
  /\ dialog' = IF r = "page" /\ lock.is = "link" THEN FALSE ELSE dialog
  /\ UNCHANGED <<disk, shown, used, edits, touched>>

Locked ==
  /\ job["page"].at = "again" /\ Captured("page")
  /\ shown' = Review("page") /\ dialog' = FALSE /\ Ends("page")
  /\ UNCHANGED <<disk, lock, used, edits, touched, sealed>>

-----------------------------------------------------------------------------
(* A run: loads, works, and looks again before it counts as a success.     *)
StartRun ==
  /\ job["run"].at \in {"idle", "succeeded"} /\ Start("run", "load", <<>>)
  /\ used' = <<>>
  /\ UNCHANGED <<disk, lock, shown, dialog, edits, touched, sealed>>

LoadPinnedProjectContent ==
  /\ job["run"].at = "load" /\ Captured("run")
  /\ IF Pinned(job["run"].seen)
     THEN used' = job["run"].seen /\ job' = [job EXCEPT !["run"] = [Idle EXCEPT !.at = "work"]]
     ELSE Ends("run") /\ UNCHANGED used
  /\ UNCHANGED <<disk, lock, shown, dialog, edits, touched, sealed>>

WorkEnds ==
  /\ job["run"].at = "work" /\ MayStart /\ Again("run", "verify")
  /\ UNCHANGED <<disk, lock, shown, dialog, used, edits, touched, sealed>>

VerifyProjectContent ==
  /\ job["run"].at = "verify" /\ Captured("run")
  /\ LET same == Pinned(job["run"].seen) /\ job["run"].seen = used
     IN  /\ job' = [job EXCEPT !["run"] = [Idle EXCEPT !.at = IF same THEN "succeeded" ELSE "idle"]]
         /\ used' = IF same THEN used ELSE <<>>
  /\ UNCHANGED <<disk, lock, shown, dialog, edits, touched, sealed>>

-----------------------------------------------------------------------------
(* Others write: people, agents, git.                                      *)
BetweenReads(f) ==
  \/ job["page"].at = "check" /\ f \in DOMAIN job["page"].seen
  \/ job["page"].at = "write" /\ f \notin DOMAIN job["page"].seen

Edit ==
  /\ edits < MaxEdits /\ edits' = edits + 1
  /\ \/ \E f \in Files : /\ \E c \in ({"absent"} \cup Texts \cup Refused) \ {disk[f]} :
                              disk' = [disk EXCEPT ![f] = c]
                         /\ touched' = IF BetweenReads(f) THEN touched \cup {f} ELSE touched
                         /\ UNCHANGED lock
     \/ \E is \in {"none", "broken", "link"} :
          lock' = [NoLock EXCEPT !.is = is] /\ UNCHANGED <<disk, touched>>
  /\ UNCHANGED <<job, shown, dialog, used, sealed>>

Init == /\ disk \in [Files -> {"absent", CHOOSE t \in Texts : TRUE}] /\ lock = NoLock
        /\ job = [r \in Readers |-> Idle] /\ shown = [manifest |-> <<>>, can |-> FALSE]
        /\ dialog = FALSE /\ used = <<>>
        /\ edits = 0 /\ touched = {} /\ sealed = {}

Next == \/ \E r \in Readers : ReadSafeContentFile(r) \/ CaptureFails(r)
        \/ LoadProjectViews \/ Reviewed
        \/ OpenLockDialog \/ ConfirmLock \/ LockReviewedContent \/ ContentLockCommand
        \/ WriteContentLock("page") \/ WriteContentLock("cli") \/ Locked
        \/ StartRun \/ LoadPinnedProjectContent \/ WorkEnds \/ VerifyProjectContent
        \/ Edit

Spec == Init /\ [][Next]_vars

-----------------------------------------------------------------------------
TypeOK == /\ \A f \in Files : disk[f] \in {"absent"} \cup Texts \cup Refused
          /\ lock.is \in {"none", "whole", "broken", "link"}
          /\ \A r \in Readers : /\ Len(job[r].seen) <= Len(Kind)
                                /\ job[r].at \in {"idle", "review", "check", "write", "again",
                                                  "load", "work", "verify", "succeeded"}
          /\ edits \in 0..MaxEdits /\ touched \subseteq Files

(* "A run uses exactly the content you locked" (client/project.js 574):    *)
(* what a run works with is, file by file and no file more, a capture that *)
(* somebody locked.                                                        *)
UsedIsLocked ==
  job["run"].at \in {"work", "verify", "succeeded"} => used \in sealed

(* "If the content is not the same now, nothing is locked"                 *)
(* (project-content.js 122-123) - now being when it is compared.  It is    *)
(* read again to be locked: the page's lock differs from the review it was *)
(* asked for only in files changed between these two reads, which the      *)
(* sentence does not say.                                                  *)
LocksTheReview ==
  \A f \in Files : WriteContentLock("page") /\ lock' # lock /\ lock'.entries[f] # job["page"].want[f]
                     => f \in touched

(* The same, with no exception for what is changed in the meantime.        *)
LocksWhatWasShown ==
  WriteContentLock("page") /\ lock' # lock => lock'.entries = job["page"].want
=============================================================================
