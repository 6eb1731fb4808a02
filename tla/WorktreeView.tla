----------------------------- MODULE WorktreeView -----------------------------
(***************************************************************************)
(* The worktrees of a project: what git says of them and their removal     *)
(* (git/worktrees.js, runtime/project-state.js), and the view in which a   *)
(* person opens one, reads what it holds and removes it                    *)
(* (ui/client/worktrees.js, runs.js).  A worktree holds nothing, files     *)
(* that ETNPilot wrote into it ("index"), a person's or an agent's work    *)
(* that is not committed ("work"), or both.                                *)
(***************************************************************************)
EXTENDS Requests

CONSTANTS Trees,
          Managed,    \* those a run made
          MaxWrites,  \* bound: files written
          None

VARIABLES
  disk,     \* what each worktree holds; "deleted" is registered but not there, "gone" neither
  said,     \* the answer to a request for the list, as far as it has been put together
  list,     \* the list the page has
  changes,  \* the worktree that is open on the page, and what it is said to hold
  diff,     \* the worktree and file whose lines are on the page
  writes,
  lost,     \* history: the worktrees that were removed with work in them
  late      \* history: those in which work was written while a forced removal was on its way

vars == <<flight, disk, said, list, changes, diff, writes, lost, late>>
page == <<list, changes, diff>>

Holds == {"nothing", "index", "work", "both"}
Work == {"work", "both"}
NoList == [t \in Trees |-> "gone"]
Shut == [tree |-> None, says |-> "nothing"]

-----------------------------------------------------------------------------
(* git, and the server.                                                    *)

(* WorktreeManager.list: what is registered.                               *)
Listed == [t \in Trees |-> IF disk[t] = "gone" THEN "gone" ELSE "listed"]

(* #inspect: a directory that is gone is still worth listing.              *)
Inspect(t) == IF disk[t] \in Holds THEN disk[t] ELSE "deleted"

Describe(i) ==
  /\ flight[i].kind = "list"
  /\ \/ Asked(i) /\ Answer(i, "inspecting") /\ said' = [said EXCEPT ![i] = Listed]
     \/ /\ flight[i].ans = "inspecting"
        /\ IF \E t \in Trees : said[i][t] = "listed"
           THEN /\ \E t \in Trees : /\ said[i][t] = "listed"
                                    /\ said' = [said EXCEPT ![i][t] = Inspect(t)]
                /\ UNCHANGED flight
           ELSE Answer(i, "described") /\ UNCHANGED said
  /\ UNCHANGED <<disk, page, writes, lost, late>>

(* worktreeChanges, and the entries of changesAt.                          *)
ChangesAt(i) ==
  /\ flight[i].kind = "changes" /\ Asked(i)
  /\ LET t == flight[i].arg
     IN  Answer(i, IF disk[t] = "gone" THEN "error" ELSE Inspect(t))
  /\ UNCHANGED <<disk, said, page, writes, lost, late>>

(* The file must be one that the worktree itself reports as changed.       *)
FileIn(file, holds) == holds \in {file, "both"}

WorktreeDiff(i) ==
  /\ flight[i].kind = "diff" /\ Asked(i)
  /\ LET r == flight[i].arg IN Answer(i, IF FileIn(r.file, disk[r.tree]) THEN "changed" ELSE "error")
  /\ UNCHANGED <<disk, said, page, writes, lost, late>>

DiffAt(i) ==
  /\ flight[i].kind = "diff" /\ flight[i].ans = "changed"
  /\ LET r == flight[i].arg
     IN  Answer(i, IF disk[r.tree] \notin Holds THEN "error"
                   ELSE IF FileIn(r.file, disk[r.tree]) THEN "lines" ELSE "empty")
  /\ UNCHANGED <<disk, said, page, writes, lost, late>>

(* A plausible fault: what git does not track yet is not counted as work.  *)
SlipBlocking(holds) == FALSE

Blocking(holds) == holds \in Work

(* removeIfClean: the status is read, and git is told to remove - with     *)
(* --force when only ETNPilot's own files are in the way.  Without it git  *)
(* refuses by itself what is not clean.                                    *)
CheckClean(i) ==
  /\ flight[i].kind \in {"remove", "elsewhere"} /\ Asked(i)
  /\ LET holds == disk[flight[i].arg]
     IN  Answer(i, IF holds \notin Holds THEN "error"
                   ELSE IF Blocking(holds) THEN "kept"
                   ELSE IF holds = "nothing" THEN "plain" ELSE "forced")
  /\ UNCHANGED <<disk, said, page, writes, lost, late>>

(* git worktree prune clears the others that are not there any more.       *)
Without(t) == [o \in Trees |-> IF o = t \/ disk[o] = "deleted" THEN "gone" ELSE disk[o]]

RemoveIfClean(i) ==
  /\ flight[i].ans \in {"plain", "forced"}
  /\ LET t == flight[i].arg
     IN  IF disk[t] = "gone" \/ (flight[i].ans = "plain" /\ disk[t] \in Holds \ {"nothing"})
         THEN Answer(i, "error") /\ UNCHANGED <<disk, lost>>
         ELSE /\ Answer(i, "removed") /\ disk' = Without(t)
              /\ lost' = IF disk[t] \in Work THEN lost \cup {t} ELSE lost
  /\ UNCHANGED <<said, page, writes, late>>

Lose(i) == Fails(i) /\ UNCHANGED <<disk, said, page, writes, lost, late>>

\* A removal that was found clean but for ETNPilot's own files: git is told to force it.
Removing(t) == \E i \in Slots : flight[i].ans = "forced" /\ flight[i].arg = t

(* A person, an agent or a run works in a worktree.                        *)
Writes(t) ==
  /\ writes < MaxWrites /\ writes' = writes + 1 /\ disk[t] \in Holds
  /\ \E holds \in Holds : /\ disk[t] = "nothing" \/ holds = "both"
                          /\ holds # disk[t] /\ disk' = [disk EXCEPT ![t] = holds]
  /\ late' = IF disk'[t] \in Work /\ Removing(t) THEN late \cup {t} ELSE late
  /\ UNCHANGED <<flight, said, page, lost>>

Commits(t) ==
  /\ disk[t] \in Work
  /\ disk' = [disk EXCEPT ![t] = IF @ = "both" THEN "index" ELSE "nothing"]
  /\ UNCHANGED <<flight, said, page, writes, lost, late>>

DeletedByHand(t) ==
  /\ writes < MaxWrites /\ writes' = writes + 1
  /\ t \in Managed /\ disk[t] \in Holds /\ disk' = [disk EXCEPT ![t] = "deleted"]
  /\ UNCHANGED <<flight, said, page, lost, late>>

-----------------------------------------------------------------------------
(* The page.                                                               *)

LoadWorktrees == Ask("list", None) /\ UNCHANGED <<disk, said, page, writes, lost, late>>

(* A worktree that is no longer listed does not stay open.                 *)
WorktreesLoaded(i) ==
  /\ flight[i].kind = "list" /\ flight[i].ans \in {"described", "error"} /\ Read(i)
  /\ list' = IF Failed(i) THEN NoList ELSE said[i]
  /\ IF ~Failed(i) /\ changes # Shut /\ said[i][changes.tree] = "gone"
     THEN changes' = Shut /\ diff' = Shut ELSE UNCHANGED <<changes, diff>>
  /\ said' = [said EXCEPT ![i] = NoList]
  /\ UNCHANGED <<disk, writes, lost, late>>

OpenChanges(t) ==
  /\ list[t] # "gone" /\ Ask("changes", t)
  /\ UNCHANGED <<disk, said, page, writes, lost, late>>

ChangesOpened(i) ==
  /\ flight[i].kind = "changes" /\ Answered(i) /\ Read(i)
  /\ IF Failed(i) THEN UNCHANGED <<changes, diff>>
     ELSE changes' = [tree |-> flight[i].arg, says |-> flight[i].ans] /\ diff' = Shut
  /\ UNCHANGED <<disk, said, list, writes, lost, late>>

OpenDiff(file) ==
  /\ changes # Shut /\ FileIn(file, changes.says)
  /\ Ask("diff", [tree |-> changes.tree, file |-> file])
  /\ UNCHANGED <<disk, said, page, writes, lost, late>>

DiffOpened(i) ==
  /\ flight[i].kind = "diff" /\ flight[i].ans \in {"lines", "empty", "error"} /\ Read(i)
  /\ diff' = IF Failed(i) THEN diff ELSE [tree |-> flight[i].arg.tree, says |-> flight[i].arg.file]
  /\ UNCHANGED <<disk, said, list, changes, writes, lost, late>>

Close == /\ changes # Shut /\ changes' = Shut /\ diff' = Shut
         /\ UNCHANGED <<flight, disk, said, list, writes, lost, late>>

CloseDiff == /\ diff # Shut /\ diff' = Shut
             /\ UNCHANGED <<flight, disk, said, list, changes, writes, lost, late>>

(* Only a run's own worktree with nothing unsaved is offered.              *)
WorktreeActions(t) ==
  /\ t \in Managed /\ list[t] \in {"nothing", "index"} /\ Ask("remove", t)
  /\ UNCHANGED <<disk, said, page, writes, lost, late>>

Removed(i) ==
  /\ flight[i].kind = "remove" /\ flight[i].ans \in {"removed", "kept", "error"}
  /\ IF Failed(i) THEN Read(i) ELSE Follow(i, "list", None)
  /\ UNCHANGED <<disk, said, page, writes, lost, late>>

(* A terminal, or a run that has ended, removes a run's worktree.          *)
Elsewhere(t) ==
  /\ t \in Managed /\ Ask("elsewhere", t)
  /\ UNCHANGED <<disk, said, page, writes, lost, late>>

ElsewhereEnds(i) ==
  /\ flight[i].kind = "elsewhere" /\ flight[i].ans \in {"removed", "kept", "error"} /\ Read(i)
  /\ UNCHANGED <<disk, said, page, writes, lost, late>>

-----------------------------------------------------------------------------
Init == /\ NoneAsked /\ disk = [t \in Trees |-> IF t \in Managed THEN "index" ELSE "nothing"]
        /\ said = [i \in Slots |-> NoList]
        /\ list = NoList /\ changes = Shut /\ diff = Shut /\ writes = 0 /\ lost = {} /\ late = {}

Next ==
  \/ \E i \in Slots : \/ Describe(i) \/ ChangesAt(i) \/ WorktreeDiff(i) \/ DiffAt(i)
                      \/ CheckClean(i) \/ RemoveIfClean(i) \/ Lose(i) \/ WorktreesLoaded(i) \/ ChangesOpened(i)
                      \/ DiffOpened(i) \/ Removed(i) \/ ElsewhereEnds(i)
  \/ \E t \in Trees : \/ Writes(t) \/ Commits(t) \/ DeletedByHand(t) \/ OpenChanges(t)
                      \/ WorktreeActions(t) \/ Elsewhere(t)
  \/ \E file \in {"index", "work"} : OpenDiff(file)
  \/ LoadWorktrees \/ Close \/ CloseDiff

Spec == Init /\ [][Next]_vars

-----------------------------------------------------------------------------
TypeOK == /\ \A t \in Trees : disk[t] \in Holds \cup {"deleted", "gone"}
          /\ \A t \in Trees : list[t] \in Holds \cup {"deleted", "gone"}
          /\ changes.tree \in Trees \cup {None} /\ diff.tree \in Trees \cup {None}
          /\ writes \in 0..MaxWrites

(* "The removal itself checks again, so the screen and the removal cannot  *)
(* disagree" (worktrees.js 197-198): however old the list is the button    *)
(* was drawn from, and whoever else removes or writes meanwhile, the only  *)
(* work a removal throws away is work written between its own check and    *)
(* git's removal, and only where git was told to force that removal.       *)
RemovalSpares == lost \subseteq late

(* Not so: the lines under an open worktree are that worktree's. A diff    *)
(* that is answered after another worktree was opened is put under it.     *)
DiffBelongs == diff # Shut => diff.tree = changes.tree
=============================================================================
