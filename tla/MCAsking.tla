------------------------------- MODULE MCAsking -------------------------------
(* What a person is asked, and what happens then. A behaviour is that of   *)
(* the component that `part` names: the approvals of a run, at the inbox   *)
(* (the constants of the configuration) or on GitLab as well; the tools in *)
(* a workspace; the layers of the settings; the trust in a project.        *)
EXTENDS RunApprovals, Naturals, Sequences, FiniteSets

CONSTANTS
  Anything, None,
  Agents, Policies, Files, Hosts, Commands, Hook, MaxRedirects, MaxWrites,  \* of the tools
  Trusting, Asking, MaxVersions, MaxRevokes   \* of the trust: its projects and its commands

ASSUME AskingAssumption ==
  /\ None \notin Agents /\ MaxWrites \in Nat \ {0} /\ MaxRedirects \in Nat
  /\ MaxVersions \in Nat \ {0} /\ MaxRevokes \in Nat

VARIABLES
  part,   \* the component whose behaviour this is
  policy, disk, writes, call, did, toolCrossed, landed,
  declares, layers, writing, changes,
  version, trusted, at, project, known, seen, revokes, agreed, raced, trustCrossed,
  withdrawn

\* Two operations of one invocation, under two scopes; or all under one.
TwoScopes == [r \in Requests |-> IF r = 2 THEN "scope2" ELSE "scope1"]
OneScope  == [r \in Requests |-> "scope1"]
OneAsks   == [r \in Requests |-> "first"]

\* Every run hands the id of its workflow to the invocations it makes (project-runner.js:323).
InAWorkflow == [i \in Invocations |-> "workflow"]

Rule(id, effect, kinds, agents, paths, hosts, commands) ==
  [id |-> id, effect |-> effect, kinds |-> kinds, agents |-> agents, paths |-> paths,
   hosts |-> hosts, commands |-> commands]

\* What `etnpilot init` writes; and one whose rules name commands, agents, paths and hosts.
Generated ==
  [default |-> "deny",
   rules |-> {Rule("read", "allow", {"read"}, Anything, {"f", "g", "."}, Anything, Anything),
              Rule("secrets", "deny", {"read", "write"}, Anything, {"g"}, Anything, Anything),
              Rule("ask", "human", {"write", "shell", "network"}, Anything, Anything, Anything,
                   Anything)}]
Named ==
  [default |-> "human",
   rules |-> {Rule("files", "allow", {"read", "write"}, Anything, {"f", "."}, Anything, Anything),
              Rule("shell", "human", {"shell"}, Anything, Anything, Anything, Anything),
              Rule("tests", "allow", {"shell"}, Anything, Anything, Anything, {"test"}),
              Rule("format", "deny", {"shell"}, Anything, Anything, Anything, {"fmt"}),
              Rule("both", "allow", Anything, Anything, Anything, Anything, {"fmt", "test"}),
              Rule("a2", "deny", {"shell"}, {"a2"}, Anything, Anything, Anything),
              Rule("host", "deny", Anything, Anything, Anything, {"i"}, Anything)}]

\* Committed layers: loose ones, ones that are strict already, ones that declare their modes.
For(id, effect, kinds, commands) ==
  Rule(id, effect, kinds, Anything, Anything, Anything, commands)
AskShell == For("ask", "human", {"shell"}, Anything)
NoWrite  == For("no", "deny", {"write"}, Anything)
Tests    == For("tests", "allow", Anything, {"test"})
Never    == For("never", "deny", Anything, {"test"})
Leaf(k, v) == [key |-> k, value |-> v]
Loose ==
  [declares |-> FALSE, data |-> <<Leaf("default", "allow"), Leaf("rules", {AskShell, NoWrite}),
                                  Leaf("requireHuman", {"write"}), Leaf("provenance", "enforce")>>]
Strict ==
  [declares |-> FALSE, data |-> <<Leaf("default", "human"), Leaf("rules", {Tests}),
                                  Leaf("allow", {"read"}), Leaf("sandbox", TRUE)>>]
Declared ==
  [declares |-> TRUE, data |-> <<Leaf("hooks", "none"), Leaf("default", "deny")>>]
SettingValues ==
  [default |-> {"allow", "human", "deny"}, rules |-> {{AskShell}, {Tests}, {Never}},
   requireHuman |-> {{}, {"write"}}, allow |-> {{}, {"read"}}, sandbox |-> BOOLEAN,
   hooks |-> {"none", "one"}, provenance |-> {"off", "enforce"}]
By(kind, command) ==
  [kinds |-> kind, agents |-> "a1", paths |-> None, hosts |-> None, commands |-> command]

\* The same requests under one scope, decided in the inbox or by comments on the issue.
GitLab == INSTANCE RunApprovals WITH
  Scopes <- {"scope1"}, ScopeOf <- OneScope, Reviewers <- {"cli"}, Door <- "gitlab"

\* The same requests under one scope at the inbox, where a yes for the run covers both.
Sharing == INSTANCE RunApprovals WITH
  Scopes <- {"scope1"}, ScopeOf <- OneScope, Reviewers <- {"cli"}

Both == {Generated, Named}

Tools == INSTANCE WorkspaceTools WITH crossed <- toolCrossed

Layers == INSTANCE Settings WITH
  Projects <- {Loose, Strict, Declared}, Values <- SettingValues,
  Operations <- {By("write", None), By("shell", "test"), By("shell", "other")},
  Surfaces <- {"page", "cli"}, MaxChanges <- 2

Guard == INSTANCE Trust WITH
  Projects <- Trusting, Commands <- Asking, crossed <- trustCrossed

deskVars == <<record, overdue, wait, got, cut, answer, covered, grants, tainted, outside,
              aborted, comment, deciding>>
toolsVars == <<policy, disk, writes, call, did, toolCrossed, landed>>
settingsVars == <<declares, layers, writing, changes>>
trustVars == <<version, trusted, at, project, known, seen, revokes, agreed, raced,
               trustCrossed, withdrawn>>
askingVars == <<part, deskVars, toolsVars, settingsVars, trustVars>>

Parts == {"desk", "gitlab", "sharing", "tools", "settings", "trust"}

\* The others rest in an initial state, one and the same.
AskingInit ==
  /\ part \in Parts
  /\ CASE part = "gitlab" -> GitLab!Init [] part = "sharing" -> Sharing!Init [] OTHER -> Init
  /\ Tools!Init
  /\ part # "tools" => policy = Generated /\ \A f \in Files : disk[f] = 0
  /\ Layers!Init
  /\ part # "settings" => layers["project"] = Loose.data
  /\ Guard!Init

DeskStep ==
  /\ part = "desk" /\ Next
  /\ UNCHANGED <<part, toolsVars, settingsVars, trustVars>>

GitLabStep ==
  /\ part = "gitlab" /\ GitLab!Next
  /\ UNCHANGED <<part, toolsVars, settingsVars, trustVars>>

SharingStep ==
  /\ part = "sharing" /\ Sharing!Next
  /\ UNCHANGED <<part, toolsVars, settingsVars, trustVars>>

ToolsStep ==
  /\ part = "tools" /\ Tools!Next
  /\ UNCHANGED <<part, deskVars, settingsVars, trustVars>>

LayersStep ==
  /\ part = "settings" /\ Layers!Next
  /\ UNCHANGED <<part, deskVars, toolsVars, trustVars>>

GuardStep ==
  /\ part = "trust" /\ Guard!Next
  /\ UNCHANGED <<part, deskVars, toolsVars, settingsVars>>

AskingNext ==
  \/ DeskStep \/ GitLabStep \/ SharingStep \/ ToolsStep \/ LayersStep \/ GuardStep

AskingSpec == AskingInit /\ [][AskingNext]_askingVars
-----------------------------------------------------------------------------
\* The component at work stays within the states and values its module names.
WellTyped ==
  /\ part = "desk" => TypeOK
  /\ part = "gitlab" => GitLab!TypeOK
  /\ part = "sharing" => Sharing!TypeOK
  /\ part = "tools" => Tools!TypeOK
  /\ part = "settings" => Layers!TypeOK
  /\ part = "trust" => Guard!TypeOK

\* Nothing happens that needs a yes and has none: an operation let through was approved, or
\* covered by a yes for the run; every effect of a tool - a file found by a search, a redirect,
\* the command after a write - is allowed or was approved, and what is written replaces what
\* the person was shown (harness.js, approval-inbox.js, workspace-tools.js, policy/engine.js).
AsApproved ==
  /\ part = "desk" => OnlyWhatWasApproved
  /\ part = "gitlab" => GitLab!OnlyWhatWasApproved
  /\ part = "sharing" => Sharing!OnlyWhatWasApproved
  /\ part = "tools" => Tools!NothingUnasked /\ Tools!WrittenAsShown

\* What a person decides at the inbox reaches the operation, and whichever door is open, no
\* request is left on the desk once its wait is over (approval-inbox.js, approvals.js;
\* DecisionFinal, which the run checks as well, says that the decision stands).
DecisionsHold ==
  /\ part = "desk" => DecisionCounts /\ NoneLeftPending
  /\ part = "sharing" => Sharing!DecisionCounts /\ Sharing!NoneLeftPending
  /\ part = "gitlab" => GitLab!NoneLeftPending

\* A project that may act was agreed to as it is, and not revoked since (trust.js).
OnlyWhatWasAgreed == Guard!OnlyWhatWasAgreed

\* Whatever the user's own files say, a committed denial stands, no operation gets less than
\* the weaker of the committed rules and the committed default, and what a surface saves can be
\* loaded (layers.js, settings.js).
NeverQuieter == [](part = "settings" => Layers!NeverQuieter) /\ Layers!SavedIsLoadable
==============================================================================
