------------------------------- MODULE Trust -------------------------------
(***************************************************************************)
(* The gate in front of every command that acts on a project's             *)
(* configuration (trust/trust.js, cli/trust.js): what can act is           *)
(* fingerprinted, compared with what this machine was told to trust, and   *)
(* shown with a question when the two differ.  The answer is remembered in *)
(* one file for all projects, which every process reads whole and writes   *)
(* whole; `etnpilot trust --revoke` takes a project out of it.             *)
(*                                                                         *)
(* A fingerprint is the number of the version it is of.                    *)
(***************************************************************************)
EXTENDS Naturals

CONSTANTS Projects,     \* directories with a project in them
          Commands,     \* processes, each in one project at a time
          MaxVersions,  \* bound: versions of what can act, in one project
          MaxRevokes    \* bound: revocations

VARIABLES version,   \* what can act in each project now
          trusted,   \* the file: the fingerprint of each project, 0 for none
          at,        \* where each command is
          project,   \* the project it is in
          known,     \* the file as it has read it
          seen,      \* the fingerprint it has taken
          revokes,
          agreed,    \* fingerprints somebody said yes to, in each project
          raced,     \* projects whose authority changed between the question and its record
          crossed,   \* two writers of the file had both read it before either wrote
          withdrawn  \* projects revoked, and not recorded since

file == <<version, trusted>>
command == <<at, project, known, seen>>
history == <<agreed, raced, crossed, withdrawn>>
vars == <<file, command, revokes, history>>

Versions == 1..MaxVersions
Nothing == [p \in Projects |-> 0]
Nowhere == "none"

TypeOK ==
    /\ version \in [Projects -> Versions] /\ trusted \in [Projects -> 0..MaxVersions]
    /\ at \in [Commands -> {"idle", "guard", "shown", "keep", "record", "revoke"}]
    /\ project \in [Commands -> Projects \cup {Nowhere}]
    /\ known \in [Commands -> [Projects -> 0..MaxVersions]]
    /\ seen \in [Commands -> 0..MaxVersions]
    /\ revokes \in 0..MaxRevokes
    /\ agreed \in [Projects -> SUBSET Versions]
    /\ raced \subseteq Projects /\ crossed \in BOOLEAN /\ withdrawn \subseteq Projects

Init ==
    /\ version = [p \in Projects |-> 1] /\ trusted = Nothing
    /\ at = [c \in Commands |-> "idle"]
    /\ project = [c \in Commands |-> Nowhere]
    /\ known = [c \in Commands |-> Nothing] /\ seen = [c \in Commands |-> 0]
    /\ revokes = 0
    /\ agreed = [p \in Projects |-> {}] /\ raced = {} /\ crossed = FALSE /\ withdrawn = {}

Goes(c, from, to) == at[c] = from /\ at' = [at EXCEPT ![c] = to]
Here(c) == project[c]

\* The command goes on to what it is for, or gives up.
Leaves(c, from) ==
    /\ Goes(c, from, "idle")
    /\ project' = [project EXCEPT ![c] = Nowhere]
    /\ known' = [known EXCEPT ![c] = Nothing] /\ seen' = [seen EXCEPT ![c] = 0]

ReadTrusted(c) == known' = [known EXCEPT ![c] = trusted]
ProjectAuthority(c, p) == seen' = [seen EXCEPT ![c] = version[p]]
----------------------------------------------------------------------------
(* requireTrust.                                                           *)

GuardProject(c, p) ==
    /\ Goes(c, "idle", "guard")
    /\ project' = [project EXCEPT ![c] = p]
    /\ ReadTrusted(c) /\ ProjectAuthority(c, p)
    /\ UNCHANGED <<file, revokes, history>>

SlipTrusts(c) == known[c][Here(c)] # 0

\* trustState: what is remembered is what is there.
Trusts(c) == known[c][Here(c)] = seen[c]

Passes(c) ==
    /\ Leaves(c, "guard") /\ Trusts(c)
    /\ UNCHANGED <<file, revokes, history>>

Shows(c) ==
    /\ Goes(c, "guard", "shown") /\ ~Trusts(c)
    /\ UNCHANGED <<file, project, known, seen, revokes, history>>

\* No, or nobody to ask: TrustError.
Refuses(c) ==
    /\ Leaves(c, "shown")
    /\ UNCHANGED <<file, revokes, history>>

\* Yes: trustProject reads the file again ...
Agrees(c) ==
    /\ Goes(c, "shown", "keep")
    /\ ReadTrusted(c)
    /\ agreed' = [agreed EXCEPT ![Here(c)] = @ \cup {seen[c]}]
    /\ UNCHANGED <<file, project, seen, revokes, raced, crossed, withdrawn>>

\* ... and takes the fingerprint again, of what is there by now.
Keeps(c) ==
    /\ Goes(c, "keep", "record")
    /\ ProjectAuthority(c, Here(c))
    /\ raced' = IF version[Here(c)] \in agreed[Here(c)] THEN raced ELSE raced \cup {Here(c)}
    /\ UNCHANGED <<file, project, known, revokes, agreed, crossed, withdrawn>>

\* Somebody else about to write has read the file before this write.
Crosses(c) == \E d \in Commands \ {c} : at[d] \in {"keep", "record", "revoke"}

SlipRecord(c) == [known[c] EXCEPT ![Here(c)] = version[Here(c)]]
\* The whole map as it was read, with this project's entry.
Record(c) == [known[c] EXCEPT ![Here(c)] = seen[c]]

\* A temporary file of this process, renamed over the other.
TrustProject(c) ==
    /\ Leaves(c, "record")
    /\ trusted' = Record(c)
    /\ crossed' = (crossed \/ Crosses(c))
    /\ withdrawn' = withdrawn \ {Here(c)}
    /\ UNCHANGED <<version, revokes, agreed, raced>>
----------------------------------------------------------------------------
(* etnpilot trust --revoke.                                                *)

Revoke(c, p) ==
    /\ revokes < MaxRevokes /\ revokes' = revokes + 1
    /\ Goes(c, "idle", "revoke")
    /\ project' = [project EXCEPT ![c] = p]
    /\ ReadTrusted(c)
    /\ UNCHANGED <<file, seen, history>>

\* Nothing is written where the project was not in the file.
RevokeTrust(c) ==
    /\ Leaves(c, "revoke")
    /\ trusted' = IF known[c][Here(c)] = 0 THEN trusted ELSE [known[c] EXCEPT ![Here(c)] = 0]
    /\ crossed' = (crossed \/ Crosses(c))
    /\ withdrawn' = withdrawn \cup {Here(c)}
    /\ UNCHANGED <<version, revokes, agreed, raced>>
----------------------------------------------------------------------------
\* The configuration or the code of a plugin changes.
Changes(p) ==
    /\ version[p] < MaxVersions
    /\ version' = [version EXCEPT ![p] = @ + 1]
    /\ UNCHANGED <<trusted, command, revokes, history>>

Next ==
    \/ \E c \in Commands :
          \/ Passes(c) \/ Shows(c) \/ Refuses(c) \/ Agrees(c) \/ Keeps(c)
          \/ TrustProject(c) \/ RevokeTrust(c)
          \/ \E p \in Projects : GuardProject(c, p) \/ Revoke(c, p)
    \/ \E p \in Projects : Changes(p)

Spec == Init /\ [][Next]_vars
----------------------------------------------------------------------------
Agreed(p, v) == crossed \/ p \in raced \/ v \in agreed[p]

(* What this machine trusts is what somebody looked at and said yes to,    *)
(* and is gone with a revocation; and a command goes on only with what was *)
(* agreed to: however commands in this and in other projects interleave,   *)
(* where nothing changed while the question stood and no two writers of    *)
(* the file crossed.                                                       *)
OnlyWhatWasAgreed ==
    /\ [](\A p \in Projects : trusted[p] # 0 => Agreed(p, trusted[p]))
    /\ [](\A p \in withdrawn : crossed \/ trusted[p] = 0)
    /\ [][\A c \in Commands : at[c] = "guard" /\ at'[c] = "idle" => Agreed(Here(c), seen[c])]_vars
=============================================================================
