------------------------------ MODULE MCSurfaces ------------------------------
(* What people work with: pages and the files they change. A behaviour is  *)
(* that of the component `part` names: the stored login of a service (the  *)
(* constants of the configuration), or one of those instantiated here.     *)
EXTENDS Logins, Sequences, FiniteSets

VARIABLES
  part,   \* the component whose behaviour this is
  panelFlight, taken, open, verdict, plan, checking,
  dialogFlight, checkout, modal, ready, boxed, disabled, runs,
  contentDisk, contentLock, job, contentShown, dialog, used, contentEdits, touched,
  contentSealed,
  agents, prompts, agentFlows, request, asked, crossed,
  saved, settingHeld, settingList, row, editor, saving, settingReading, settingChanges,
  told,
  treeFlight, treeDisk, said, treeList, treeChanges, diff, writes, treeLost, late,
  accountFlight, code, accountFlows, stored, box, timer, busy, accountShown,
  text, texts, people, drafts, draftShown, records, actor, draftLost, raced,
  there, born, snap, view, cursor, detail, answering, syncing, windowHeld, windowReading,
  screen, acted,
  setupFile, at, todo, read, dry, opened, mixed, looked, setupEdits, crashes

Panel == INSTANCE ReceiptPanel WITH
  Receipts <- {"r1", "r2"}, Intact <- {"r1"}, Resumable <- {"r2"}, Checks <- {"c1", "c2"},
  MaxFlight <- 2, flight <- panelFlight

Dialog == INSTANCE RunDialog WITH
  MaxFlight <- 2, flight <- dialogFlight

Review == INSTANCE ContentLock WITH
  Kind <- <<"instruction", "skill">>, Texts <- {"t"}, MaxEdits <- 1, MaxAtOnce <- 2,
  disk <- contentDisk, lock <- contentLock, shown <- contentShown, edits <- contentEdits,
  sealed <- contentSealed

Editor == INSTANCE AgentFiles WITH
  Names <- {"a", "b", "c"}, Flows <- {"w"}, Configured <- {"a"}, Pages <- {1, 2},
  MaxAsked <- 3, flows <- agentFlows

Row == INSTANCE SettingsPage WITH
  Models <- {"m", "n"}, Priced <- {"n"}, MaxChanges <- 1, held <- settingHeld,
  list <- settingList, reading <- settingReading, changes <- settingChanges

Trees == INSTANCE WorktreeView WITH
  Trees <- {"w"}, Managed <- {"w"}, MaxWrites <- 1, MaxFlight <- 2, flight <- treeFlight,
  disk <- treeDisk, list <- treeList, changes <- treeChanges, lost <- treeLost

SignIn == INSTANCE AccountsPage WITH
  Services <- {"gitlab"}, Ids <- <<"f1", "f2">>, MaxFlows <- 2, MaxFlight <- 2,
  flight <- accountFlight, flows <- accountFlows, shown <- accountShown

Drafts == INSTANCE Authoring WITH
  Actors <- {"page", "terminal"}, MaxTexts <- 2, MaxKept <- 1, Keep <- 1,
  shown <- draftShown, lost <- draftLost

\* The page alone, with room for a text that a person changes again while its draft is shown.
PageDrafts == INSTANCE Authoring WITH
  Actors <- {"page"}, MaxTexts <- 3, MaxKept <- 1, Keep <- 1,
  shown <- draftShown, lost <- draftLost

Window == INSTANCE TerminalWindow WITH
  Lists <- {"approvals", "runs", "queue", "worktrees"}, MaxItems <- 2, held <- windowHeld,
  reading <- windowReading

FirstRun == INSTANCE Setup WITH
  Together <- {{"look"}, {"page", "terminal"}}, Found <- {"a"}, Proposed <- {"a"},
  MaxEdits <- 1, MaxCrashes <- 1, file <- setupFile, edits <- setupEdits

receiptVars == <<panelFlight, taken, open, verdict, plan, checking>>
dialogVars == <<dialogFlight, checkout, modal, ready, boxed, disabled, runs>>
contentVars == <<contentDisk, contentLock, job, contentShown, dialog, used, contentEdits,
                 touched, contentSealed>>
agentsVars == <<agents, prompts, agentFlows, request, asked, crossed>>
settingsVars == <<saved, settingHeld, settingList, row, editor, saving, settingReading,
                  settingChanges, told>>
worktreesVars == <<treeFlight, treeDisk, said, treeList, treeChanges, diff, writes,
                   treeLost, late>>
loginsVars == <<file, lock, service, vault, sealed, proc, refused, mishaps, torn>>
accountsVars == <<accountFlight, code, accountFlows, stored, box, timer, busy,
                  accountShown>>
authorVars == <<text, texts, people, drafts, draftShown, records, actor, draftLost, raced>>
windowVars == <<there, born, snap, view, cursor, detail, answering, syncing, windowHeld,
                windowReading, screen, acted>>
setupVars == <<setupFile, at, todo, read, dry, opened, mixed, looked, setupEdits, crashes>>
surfacesVars == <<part, receiptVars, dialogVars, contentVars, agentsVars, settingsVars,
                  worktreesVars, loginsVars, accountsVars, authorVars, windowVars,
                  setupVars>>

Parts == {"receipt", "dialog", "content", "agents", "settings", "worktrees", "logins",
          "accounts", "author", "pageAuthor", "window", "setup"}

\* The others rest in an initial state, one and the same.
SurfacesInit ==
  /\ part \in Parts
  /\ Panel!Init
  /\ Dialog!Init
  /\ part # "dialog" => checkout = [inside |-> TRUE, committed |-> FALSE, locked |-> FALSE]
  /\ Review!Init
  /\ part # "content" => contentDisk = [f \in Review!Files |-> "t"]
  /\ part = "content" => contentDisk[1] = "t"
  /\ Editor!Init
  /\ part # "agents" => DOMAIN agents = {"a"}
  /\ part = "agents" => DOMAIN agents = {"a", "b", "c"}
  /\ Row!Init
  /\ part # "settings" => saved.model = "m"
  /\ Trees!Init
  /\ Init
  /\ SignIn!Init
  /\ IF part = "pageAuthor" THEN PageDrafts!Init ELSE Drafts!Init
  /\ Window!Init
  /\ FirstRun!Init

PanelStep ==
  /\ part = "receipt" /\ Panel!Next
  /\ UNCHANGED <<part, dialogVars, contentVars, agentsVars, settingsVars, worktreesVars,
                 loginsVars, accountsVars, authorVars, windowVars, setupVars>>

DialogStep ==
  /\ part = "dialog" /\ Dialog!Next
  /\ UNCHANGED <<part, receiptVars, contentVars, agentsVars, settingsVars, worktreesVars,
                 loginsVars, accountsVars, authorVars, windowVars, setupVars>>

ReviewStep ==
  /\ part = "content" /\ Review!Next
  /\ UNCHANGED <<part, receiptVars, dialogVars, agentsVars, settingsVars, worktreesVars,
                 loginsVars, accountsVars, authorVars, windowVars, setupVars>>

EditorStep ==
  /\ part = "agents" /\ Editor!Next
  /\ UNCHANGED <<part, receiptVars, dialogVars, contentVars, settingsVars, worktreesVars,
                 loginsVars, accountsVars, authorVars, windowVars, setupVars>>

RowStep ==
  /\ part = "settings" /\ Row!Next
  /\ UNCHANGED <<part, receiptVars, dialogVars, contentVars, agentsVars, worktreesVars,
                 loginsVars, accountsVars, authorVars, windowVars, setupVars>>

TreesStep ==
  /\ part = "worktrees" /\ Trees!Next
  /\ UNCHANGED <<part, receiptVars, dialogVars, contentVars, agentsVars, settingsVars,
                 loginsVars, accountsVars, authorVars, windowVars, setupVars>>

StoreStep ==
  /\ part = "logins" /\ Next
  /\ UNCHANGED <<part, receiptVars, dialogVars, contentVars, agentsVars, settingsVars,
                 worktreesVars, accountsVars, authorVars, windowVars, setupVars>>

SignInStep ==
  /\ part = "accounts" /\ SignIn!Next
  /\ UNCHANGED <<part, receiptVars, dialogVars, contentVars, agentsVars, settingsVars,
                 worktreesVars, loginsVars, authorVars, windowVars, setupVars>>

DraftsStep ==
  /\ \/ part = "author" /\ Drafts!Next
     \/ part = "pageAuthor" /\ PageDrafts!Next
  /\ UNCHANGED <<part, receiptVars, dialogVars, contentVars, agentsVars, settingsVars,
                 worktreesVars, loginsVars, accountsVars, windowVars, setupVars>>

WindowStep ==
  /\ part = "window" /\ Window!Next
  /\ UNCHANGED <<part, receiptVars, dialogVars, contentVars, agentsVars, settingsVars,
                 worktreesVars, loginsVars, accountsVars, authorVars, setupVars>>

FirstRunStep ==
  /\ part = "setup" /\ FirstRun!Next
  /\ UNCHANGED <<part, receiptVars, dialogVars, contentVars, agentsVars, settingsVars,
                 worktreesVars, loginsVars, accountsVars, authorVars, windowVars>>

SurfacesNext ==
  \/ PanelStep \/ DialogStep \/ ReviewStep \/ EditorStep \/ RowStep
  \/ TreesStep \/ StoreStep \/ SignInStep \/ DraftsStep \/ WindowStep
  \/ FirstRunStep

SurfacesSpec == SurfacesInit /\ [][SurfacesNext]_surfacesVars
-----------------------------------------------------------------------------
\* The component at work stays within the states and values its module names.
WellTyped ==
  /\ part = "receipt" => Panel!TypeOK
  /\ part = "dialog" => Dialog!TypeOK
  /\ part = "content" => Review!TypeOK
  /\ part = "agents" => Editor!TypeOK
  /\ part = "settings" => Row!TypeOK
  /\ part = "worktrees" => Trees!TypeOK
  /\ part = "logins" => TypeOK
  /\ part = "accounts" => SignIn!TypeOK
  /\ part = "author" => Drafts!TypeOK
  /\ part = "pageAuthor" => PageDrafts!TypeOK
  /\ part = "window" => Window!TypeOK
  /\ part = "setup" => FirstRun!TypeOK

\* What the page shows belongs to what it is shown of: the verdict to the open receipt, the
\* model to the settings as saved, the poll to the code on the screen, a key to the row that
\* is drawn; and a button that was disabled for a request comes back (client/runs.js,
\* client/worktrees.js, client/accounts.js, tui/app.js, client/shell.js).
ShownBelongs ==
  /\ part = "receipt" => Panel!VerdictBelongs /\ Panel!SignsHaveRequests
  /\ part = "dialog" => Dialog!ButtonComesBack
  /\ part = "settings" => Row!RowsTellTheTruth
  /\ part = "accounts" => SignIn!CodeIsWatched
  /\ part = "window" => Window!ActsOnWhatIsDrawn

\* Agents, reviewed content and what people wrote outlast the requests of two surfaces, edits
\* by hand and crashes in between (provenance.js, project-content.js, git/worktrees.js,
\* author-undo.js, migrate.js, first-run.js).  Not all of it: the code checks and then acts
\* without holding anything, and each part spares everything but what came into its window.
\* - Content that is used is always content that was locked.  A lock is of what the page was
\*   shown, save for a file that changed between the two reads of that one lock.
\* - A prompt is missing, or agents hand over in a circle, only through an agent that a request
\*   wrote or removed on a check which another request's write had made old.
\* - A removal loses only work that came after its check, and only where it was forced.
\* - A draft or an undo overwrites only what was written after it had looked at that file.
\* - An agent made here lacks its prompt only if it was imported under another caller's `dry`;
\*   a person's file is never written over, but for the orchestrator's two.
FilesStayWhole ==
  /\ [](/\ part = "content" => Review!UsedIsLocked
        /\ part = "agents" => Editor!WholeUnlessRaced
        /\ part = "worktrees" => Trees!RemovalSpares
        /\ part = "author" => Drafts!PeopleKeepTheirText
        /\ part = "pageAuthor" => PageDrafts!PeopleKeepTheirText
        /\ part = "setup" => FirstRun!AgentsAreWhole)
  /\ [][/\ part = "content" => Review!LocksTheReview
        /\ part = "setup" => FirstRun!PeopleKeepTheirFiles]_surfacesVars

\* The run also checks LoginsKept, which is stated in Logins.
==============================================================================
