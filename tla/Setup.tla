------------------------------- MODULE Setup -------------------------------
(***************************************************************************)
(* Making a project: `initializeProject` (src/config/init.js) writes what  *)
(* is missing, brings along the instructions, agents and skills of other   *)
(* coding agents (src/config/migrate.js), lets AgentsForge add what fits   *)
(* (src/forge/forge.js) and wires the starter orchestrator to the result.  *)
(* The page looks first (`describeProject`, the same import as a dry run)  *)
(* and creates on a click; a terminal may create at the same time; people  *)
(* edit files, and a process may end at any point.                         *)
(*                                                                         *)
(* The import's `dry` is a variable of migrate.js, so of the process: the  *)
(* page's look and the page's create share it.  What a file says is        *)
(* abstracted to who wrote it.                                             *)
(***************************************************************************)
EXTENDS Naturals, Sequences, SequencesExt

CONSTANTS Together,     \* bound: callers that may be under way at once
          Found,        \* agents other tools left in the repository
          Proposed,     \* agents AgentsForge's answer may name
          MaxEdits,     \* bound: files people write
          MaxCrashes    \* bound: processes that end half way

VARIABLES file,      \* who wrote each file under .etnpilot, "none" when absent
          at,        \* where each caller is
          todo,      \* what its import or its plan still has to write
          read,      \* the orchestrator's prompt as its wiring read it
          dry,       \* migrate.js: `dry`, one for each process
          opened,    \* the server has a project open (server.js: `state`)
          mixed,     \* history: the agents written while the process's `dry` was another caller's
          looked,    \* files a look has written
          edits, crashes

vars == <<file, at, todo, read, dry, opened, mixed, looked, edits, crashes>>


Callers == {"look", "page", "terminal"}
Host(c) == IF c = "terminal" THEN "terminal" ELSE "server"
Names == Found \cup Proposed

Manifest(n) == <<"manifest", n>>
Prompt(n) == <<"prompt", n>>
Config == <<"config", "project">>
Starter == {Config, Manifest("orchestrator"), Prompt("orchestrator")}
Skill == <<"skill", "one">>
Rules(by) == <<"rules", by>>
Files == Starter \cup {Manifest(n) : n \in Names} \cup {Prompt(n) : n \in Names}
           \cup {Skill, Rules("imported"), Rules("forged")}
Item == [what : {"agent", "skill", "rules"}, name : Names \cup {"one"},
         by : {"imported", "forged"}]

There(f) == file[f] # "none"

TypeOK ==
    /\ file \in [Files -> {"none", "starter", "wired", "imported", "forged", "person"}]
    /\ at \in [Callers -> {"idle", "begun", "skeleton", "import", "plan", "prompt", "manifest",
                           "copy", "copyDry", "asked", "wire", "rewrite", "rewritePrompt"}]
    /\ todo \in [Callers -> Seq(Item)]
    /\ read \in [Callers -> {"none", "starter", "wired", "person"}]
    /\ dry \in [{"server", "terminal"} -> BOOLEAN]
    /\ opened \in BOOLEAN /\ mixed \subseteq Names
    /\ looked \subseteq Files
    /\ edits \in 0..MaxEdits /\ crashes \in 0..MaxCrashes

Init ==
    /\ file = [f \in Files |-> "none"]
    /\ at = [c \in Callers |-> "idle"]
    /\ todo = [c \in Callers |-> <<>>]
    /\ read = [c \in Callers |-> "none"]
    /\ dry = [h \in {"server", "terminal"} |-> FALSE]
    /\ opened = FALSE /\ mixed = {}
    /\ looked = {}
    /\ edits = 0 /\ crashes = 0

Goto(c, l) == at' = [at EXCEPT ![c] = l]
Still == UNCHANGED <<edits, crashes>>
----------------------------------------------------------------------------
(* What an import and a plan consist of, in the order they are written.    *)

Imports ==
    <<[what |-> "rules", name |-> "one", by |-> "imported"]>>
      \o SetToSeq({[what |-> "agent", name |-> n, by |-> "imported"] : n \in Found})
      \o <<[what |-> "skill", name |-> "one", by |-> "imported"]>>

Forged(what, n) == [what |-> what, name |-> n, by |-> "forged"]

\* A usable answer: each name once, and at least one thing in it.
Plans ==
    {<<Forged("skill", "one")>> \o SetToSeq({Forged("agent", n) : n \in agents})
       \o <<Forged("rules", "one")>> : agents \in SUBSET Proposed}

\* writeNew: a file that is there stays as it is.
SlipWritten(f, by) == [file EXCEPT ![f] = by]
Written(f, by) == IF There(f) THEN file ELSE [file EXCEPT ![f] = by]

\* What a writeNew of `c` does: nothing on disk while the import's `dry` is
\* set; AgentsForge has a writeNew of its own, without that flag.
WriteNew(c, f) ==
    LET by == Head(todo[c]).by
        real == by = "forged" \/ ~dry[Host(c)]
    IN /\ file' = IF real THEN Written(f, by) ELSE file
       /\ looked' = IF real /\ c = "look" /\ ~There(f) THEN looked \cup {f} ELSE looked
----------------------------------------------------------------------------
(* Who begins.                                                             *)

MayBegin(c) ==
    /\ at[c] = "idle"
    /\ \E group \in Together : {d \in Callers : at[d] # "idle"} \cup {c} \subseteq group

\* describeProject: is there a project?  The look goes on after a git command.
Look == /\ MayBegin("look")
        /\ ~There(Config)
        /\ Goto("look", "begun")
        /\ UNCHANGED <<file, todo, read, dry, opened, mixed, looked>> /\ Still

Begin(c) == /\ MayBegin(c)
            /\ Goto(c, "skeleton")
            /\ UNCHANGED <<file, todo, read, dry, opened, mixed, looked>> /\ Still

\* POST /api/project/create: only while the server has no project open.
PageCreates == ~opened /\ Begin("page")

\* 'etnpilot init', or Enter on the terminal's first screen; a second time too.
TerminalCreates == Begin("terminal")

\* writeIfAbsent, in any order.
WriteStarter(c) ==
    /\ at[c] = "skeleton"
    /\ \E f \in Starter : ~There(f) /\ file' = [file EXCEPT ![f] = "starter"]
    /\ UNCHANGED <<at, todo, read, dry, opened, mixed, looked>> /\ Still

\* importExistingProject: it sets the process's `dry` to what its caller wants.
StartImport(c) ==
    /\ \/ at[c] = "begun"
       \/ at[c] = "skeleton" /\ \A f \in Starter : There(f)
    /\ Goto(c, "import")
    /\ todo' = [todo EXCEPT ![c] = Imports]
    /\ dry' = [dry EXCEPT ![Host(c)] = (c = "look")]
    /\ UNCHANGED <<file, read, opened, mixed, looked>> /\ Still

\* Its `finally`.
EndImport(c) ==
    /\ at[c] = "import" /\ todo[c] = <<>>
    /\ dry' = [dry EXCEPT ![Host(c)] = FALSE]
    /\ Goto(c, IF c = "look" THEN "idle" ELSE "asked")
    /\ UNCHANGED <<file, todo, read, opened, mixed, looked>> /\ Still
----------------------------------------------------------------------------
(* Writing what was found or proposed, one item after the other.           *)

Rest(c) == todo' = [todo EXCEPT ![c] = Tail(todo[c])]
Turn(c, what) ==
    at[c] \in {"import", "plan"} /\ todo[c] # <<>> /\ Head(todo[c]).what = what
Back(c) == Goto(c, IF Head(todo[c]).by = "imported" THEN "import" ELSE "plan")

TakeRules(c) ==
    /\ Turn(c, "rules")
    /\ WriteNew(c, Rules(Head(todo[c]).by))
    /\ Rest(c)
    /\ UNCHANGED <<at, read, dry, opened, mixed>> /\ Still

\* An agent that has either of its files here already is skipped.
TakeAgent(c) ==
    /\ Turn(c, "agent")
    /\ LET n == Head(todo[c]).name
       IN IF There(Manifest(n)) \/ There(Prompt(n))
          THEN Rest(c) /\ UNCHANGED at
          ELSE Goto(c, "prompt") /\ UNCHANGED todo
    /\ UNCHANGED <<file, read, dry, opened, mixed, looked>> /\ Still

\* An import writes by the flag its process has at that moment, whoever set it.
Mixes(c) ==
    mixed' = IF Head(todo[c]).by = "imported" /\ dry[Host(c)] # (c = "look")
             THEN mixed \cup {Head(todo[c]).name} ELSE mixed

SlipWriteAgent(c) ==
    /\ at[c] \in {"prompt", "manifest"}
    /\ LET n == Head(todo[c]).name
       IN \/ /\ at[c] = "prompt"
             /\ WriteNew(c, Manifest(n))
             /\ Goto(c, "manifest") /\ UNCHANGED todo
          \/ /\ at[c] = "manifest"
             /\ WriteNew(c, Prompt(n))
             /\ Back(c) /\ Rest(c)
    /\ Mixes(c)
    /\ UNCHANGED <<read, dry, opened>> /\ Still

\* The prompt first, then the manifest that names it.
WriteAgent(c) ==
    /\ at[c] \in {"prompt", "manifest"}
    /\ LET n == Head(todo[c]).name
       IN \/ /\ at[c] = "prompt"
             /\ WriteNew(c, Prompt(n))
             /\ Goto(c, "manifest") /\ UNCHANGED todo
          \/ /\ at[c] = "manifest"
             /\ WriteNew(c, Manifest(n))
             /\ Back(c) /\ Rest(c)
    /\ Mixes(c)
    /\ UNCHANGED <<read, dry, opened>> /\ Still

\* A skill: an import asks whether its directory exists and copies the tree,
\* with `dry` as it is at that moment; a plan writes its SKILL.md.
TakeSkill(c) ==
    /\ Turn(c, "skill")
    /\ \/ Head(todo[c]).by = "forged" /\ WriteNew(c, Skill) /\ Rest(c) /\ UNCHANGED at
       \/ /\ Head(todo[c]).by = "imported"
          /\ UNCHANGED <<file, looked>>
          /\ IF There(Skill) THEN Rest(c) /\ UNCHANGED at
             ELSE Goto(c, IF dry[Host(c)] THEN "copyDry" ELSE "copy") /\ UNCHANGED todo
    /\ UNCHANGED <<read, dry, opened, mixed>> /\ Still

\* copyTree: a file that appeared meanwhile is an error, which ends the import
\* and with it the creation; a look swallows it.
CopySkill(c) ==
    /\ at[c] \in {"copy", "copyDry"}
    /\ IF at[c] = "copy" /\ There(Skill)
       THEN /\ Goto(c, "idle")
            /\ todo' = [todo EXCEPT ![c] = <<>>]
            /\ dry' = [dry EXCEPT ![Host(c)] = FALSE]
            /\ UNCHANGED <<file, looked>>
       ELSE /\ Back(c) /\ Rest(c)
            /\ IF at[c] = "copyDry" THEN UNCHANGED <<file, looked>>
               ELSE /\ file' = [file EXCEPT ![Skill] = "imported"]
                    /\ looked' = IF c = "look" THEN looked \cup {Skill} ELSE looked
            /\ UNCHANGED dry
    /\ UNCHANGED <<read, opened, mixed>> /\ Still
----------------------------------------------------------------------------
(* AgentsForge and the wiring.                                             *)

\* No key, no usable answer, nothing missing, or all of it written.
EndForge(c) ==
    /\ \/ at[c] = "asked"
       \/ at[c] = "plan" /\ todo[c] = <<>>
    /\ Goto(c, "wire")
    /\ UNCHANGED <<file, todo, read, dry, opened, mixed, looked>> /\ Still

\* A plan is written by the same steps as an import, then comes the wiring.
Forge(c) ==
    /\ at[c] = "asked"
    /\ \E plan \in Plans : todo' = [todo EXCEPT ![c] = plan]
    /\ Goto(c, "plan")
    /\ UNCHANGED <<file, read, dry, opened, mixed, looked>> /\ Still

MadeHere == {n \in Names : file[Manifest(n)] \in {"imported", "forged"}}

\* wireOrchestrator: only a manifest that is still the starter's is completed.
Wire(c) ==
    /\ at[c] = "wire"
    /\ Goto(c, IF MadeHere # {} /\ file[Manifest("orchestrator")] = "starter"
               THEN "rewrite" ELSE "idle")
    /\ opened' = (opened \/ (c = "page" /\ at'[c] = "idle"))
    /\ UNCHANGED <<file, todo, read, dry, mixed, looked>> /\ Still

Rewrite(c) ==
    /\ at[c] = "rewrite"
    /\ file' = [file EXCEPT ![Manifest("orchestrator")] = "wired"]
    /\ read' = [read EXCEPT ![c] = file[Prompt("orchestrator")]]
    /\ Goto(c, "rewritePrompt")
    /\ UNCHANGED <<todo, dry, opened, mixed, looked>> /\ Still

RewritePrompt(c) ==
    /\ at[c] = "rewritePrompt"
    /\ file' = IF read[c] = "starter" THEN [file EXCEPT ![Prompt("orchestrator")] = "wired"]
               ELSE file
    /\ Goto(c, "idle")
    /\ read' = [read EXCEPT ![c] = "none"]
    /\ opened' = (opened \/ c = "page")
    /\ UNCHANGED <<todo, dry, mixed, looked>> /\ Still

\* Somebody writes a file of their own, or changes one that is there.
Edit ==
    /\ edits < MaxEdits
    /\ edits' = edits + 1
    /\ \E f \in Files : file' = [file EXCEPT ![f] = "person"]
    /\ UNCHANGED <<at, todo, read, dry, opened, mixed, looked, crashes>>

\* A process ends; the server opens what is there when it starts again.
Crash(h) ==
    /\ crashes < MaxCrashes
    /\ crashes' = crashes + 1
    /\ at' = [c \in Callers |-> IF Host(c) = h THEN "idle" ELSE at[c]]
    /\ todo' = [c \in Callers |-> IF Host(c) = h THEN <<>> ELSE todo[c]]
    /\ dry' = [dry EXCEPT ![h] = FALSE]
    /\ opened' = IF h = "server" THEN There(Config) ELSE opened
    /\ UNCHANGED <<file, read, mixed, looked, edits>>

Work(c) ==
    \/ WriteStarter(c) \/ StartImport(c) \/ EndImport(c)
    \/ TakeRules(c) \/ TakeAgent(c) \/ WriteAgent(c) \/ TakeSkill(c) \/ CopySkill(c)
    \/ EndForge(c) \/ Forge(c) \/ Wire(c) \/ Rewrite(c) \/ RewritePrompt(c)

Next ==
    \/ Look \/ PageCreates \/ TerminalCreates
    \/ \E c \in Callers : Work(c)
    \/ Edit
    \/ \E h \in {"server", "terminal"} : Crash(h)

Spec == Init /\ [][Next]_vars
----------------------------------------------------------------------------
(* An agent this program made has its prompt, whatever ended half way and  *)
(* whoever worked at the same time.  Not so for an agent that an import    *)
(* had in its hands while the `dry` of its process was another caller's    *)
(* (migrate.js:353): of that one a manifest without a prompt may be left.  *)
AgentsAreWhole ==
    \A n \in Names \ mixed :
       file[Manifest(n)] \in {"imported", "forged"} => There(Prompt(n))

(* What a person has written stays theirs: an import, a plan, a second     *)
(* creation and a repeat after a crash write around it.  The two files of  *)
(* the orchestrator are rewritten after they were read, in two steps.      *)
PeopleKeepTheirFiles ==
    \A f \in Files \ {Manifest("orchestrator"), Prompt("orchestrator")} :
       file[f] = "person" => file'[f] = "person"

(* src/config/migrate.js:77-78: "With 'dryRun' nothing is written".        *)
LookWritesNothing == looked = {}
============================================================================
