------------------------------- MODULE Settings -------------------------------
(***************************************************************************)
(* The layers a project's settings come in (config/layers.js) and the two  *)
(* ways they change: through a surface, which tries a change against the   *)
(* layers before it writes it (config/settings.js writeSetting), and by    *)
(* hand.  A run loads the layers, or refuses to start (config/load.js).    *)
(*                                                                         *)
(* A layer is the sequence of its leaves, in the order of the file; one    *)
(* setting stands for each way a setting may be narrowed.                  *)
(***************************************************************************)
EXTENDS PolicyEngine, Sequences, SequencesExt

CONSTANTS Projects,   \* the committed files: [declares, data]
          Values,     \* a setting -> what it may be set to
          Operations, \* the facts of an operation
          Surfaces, MaxChanges

VARIABLES
  declares, \* the committed file declares its own modes
  layers,   \* "project", "user-global", "user-local" -> leaves
  writing,  \* a surface -> the change it makes and how far it is
  changes   \* how often the files were changed, at most MaxChanges

vars == <<declares, layers, writing, changes>>

Keys == DOMAIN Values
Sources == {"project", "user-global", "user-local"}

-----------------------------------------------------------------------------
(* Modes are the committed file's; what starts a process stays locked      *)
(* underneath modes the project declares.                                  *)

DefaultModes == [k \in Keys |-> IF k \in {"hooks", "provenance"} THEN "locked" ELSE "stricter-only"]
ModeFor(k) == IF declares THEN IF k = "hooks" THEN "locked" ELSE "open"
              ELSE DefaultModes[k]

Has(leaves, k) == \E n \in DOMAIN leaves : leaves[n].key = k
GetIn(leaves, k) == leaves[CHOOSE n \in DOMAIN leaves : leaves[n].key = k].value
SetIn(leaves, k, v) ==
  IF Has(leaves, k)
  THEN [n \in DOMAIN leaves |-> IF leaves[n].key = k THEN [key |-> k, value |-> v] ELSE leaves[n]]
  ELSE Append(leaves, [key |-> k, value |-> v])
DeleteIn(leaves, k) == SelectSeq(leaves, LAMBDA l : l.key # k)

-----------------------------------------------------------------------------
(* What may be narrowed, and to what.                                      *)

Effect(config) == IF Has(config, "default") THEN GetIn(config, "default") ELSE "deny"
Entries(config, k) == IF Has(config, k) THEN GetIn(config, k) ELSE {}

StricterEffect(config, v) == Priority[v] >= Priority[Effect(config)]

(* A plausible fault: any rule may be added.                               *)
SlipAppendRules(config, v) == \A r \in v : r.id \notin {q.id : q \in Entries(config, "rules")}

AppendRules(config, v) ==
  \A r \in v : /\ r.id \notin {q.id : q \in Entries(config, "rules")}
               /\ Priority[r.effect] >= Priority[Effect(config)]

SupersetOnly(config, v) == Entries(config, "requireHuman") \subseteq v
SubsetOnly(config, v) == v \subseteq Entries(config, "allow")
OnlyEnable(config, v) == v \/ ~(Has(config, "sandbox") /\ GetIn(config, "sandbox"))

Narrows(config, k, v) ==
  CASE k = "default" -> StricterEffect(config, v)
    [] k = "rules" -> AppendRules(config, v)
    [] k = "requireHuman" -> SupersetOnly(config, v)
    [] k = "allow" -> SubsetOnly(config, v)
    [] k = "sandbox" -> OnlyEnable(config, v)
    [] OTHER -> FALSE

(* One leaf of a later layer, over what is merged so far.                  *)
MergeLeaf(merged, leaf) ==
  LET narrowed == IF leaf.key = "rules" /\ ModeFor("rules") = "stricter-only"
                  THEN Entries(merged.config, "rules") \cup leaf.value ELSE leaf.value
  IN  IF \/ ModeFor(leaf.key) = "locked"
         \/ ModeFor(leaf.key) = "stricter-only" /\ ~Narrows(merged.config, leaf.key, leaf.value)
      THEN [merged EXCEPT !.refused = TRUE]
      ELSE [merged EXCEPT !.config = SetIn(merged.config, leaf.key, narrowed)]

MergeLayers(stack) ==
  FoldLeft(MergeLeaf, [config |-> stack["project"], refused |-> FALSE],
           stack["user-global"] \o stack["user-local"])

(* A stack with a refusal stops the next run.                              *)
Accepted(stack) == ~MergeLayers(stack).refused

-----------------------------------------------------------------------------
(* writeSetting: the file is read, the change is tried against the layers  *)
(* as they are then, and the file is written.                              *)

Idle == [at |-> "idle", source |-> "none", leaves |-> <<>>, seen |-> <<>>]

Proposals(leaves) ==
  UNION {{SetIn(leaves, k, v) : v \in Values[k]} \cup {DeleteIn(leaves, k)} : k \in Keys}

ReadFile(s) ==
  /\ writing[s] = Idle /\ changes < MaxChanges
  /\ changes' = changes + 1
  /\ \E source \in Sources : \E leaves \in Proposals(layers[source]) :
       /\ leaves # layers[source]
       /\ writing' = [writing EXCEPT ![s] = [Idle EXCEPT !.at = "read", !.source = source, !.leaves = leaves]]
  /\ UNCHANGED <<declares, layers>>

(* A plausible fault: a change is tried against the committed file alone.  *)
SlipProposed(s) == [q \in Sources |-> IF q = writing[s].source THEN writing[s].leaves
                                      ELSE IF q = "project" THEN layers[q] ELSE <<>>]

Proposed(s) == [layers EXCEPT ![writing[s].source] = writing[s].leaves]

TryChange(s) ==
  /\ writing[s].at = "read"
  /\ writing' = [writing EXCEPT ![s] =
                   IF Accepted(Proposed(s)) THEN [@ EXCEPT !.at = "tried", !.seen = <<layers>>] ELSE Idle]
  /\ UNCHANGED <<declares, layers, changes>>

WriteFile(s) ==
  /\ writing[s].at = "tried"
  /\ layers' = [layers EXCEPT ![writing[s].source] = writing[s].leaves]
  /\ writing' = [writing EXCEPT ![s] = Idle]
  /\ UNCHANGED <<declares, changes>>

(* The committed file arrives with a checkout, a user's own is edited.     *)
EditByHand ==
  /\ changes < MaxChanges /\ changes' = changes + 1
  /\ \E source \in Sources : \E leaves \in Proposals(layers[source]) :
       layers' = [layers EXCEPT ![source] = leaves]
  /\ UNCHANGED <<declares, writing>>

Init == \E p \in Projects :
          /\ declares = p.declares
          /\ layers = [q \in Sources |-> IF q = "project" THEN p.data ELSE <<>>]
          /\ writing = [s \in Surfaces |-> Idle] /\ changes = 0

Next == \/ \E s \in Surfaces : ReadFile(s) \/ TryChange(s) \/ WriteFile(s)
        \/ EditByHand

Spec == Init /\ [][Next]_vars

-----------------------------------------------------------------------------
TypeOK == /\ \A q \in Sources : \A m, n \in DOMAIN layers[q] :
               layers[q][m].key \in Keys /\ (m # n => layers[q][m].key # layers[q][n].key)
          /\ changes \in 0..MaxChanges /\ declares \in BOOLEAN

Decides(config, facts) == Decide([default |-> Effect(config), rules |-> Entries(config, "rules")], facts)

(* A user can make the harness stricter, never quieter: whatever stands in *)
(* the user's layers, a stack that loads gives no operation less than the  *)
(* weaker of what the committed rules and the committed default give it,   *)
(* lets every committed deny stand, asks a person at least as often, and   *)
(* keeps what is locked (layers.js 8-11, 212-215).                         *)
NeverQuieter ==
  LET merged == MergeLayers(layers).config
      project == layers["project"]
      kept(k) == ModeFor(k) = "locked" =>
                   /\ Has(merged, k) = Has(project, k)
                   /\ Has(merged, k) => GetIn(merged, k) = GetIn(project, k)
      weaker(facts) == Priority[Decides(merged, facts)] < Priority[Decides(project, facts)]
  IN  Accepted(layers) =>
        /\ \A k \in Keys : kept(k)
        /\ ~declares =>
             /\ \A facts \in Operations : weaker(facts) =>
                  /\ Decides(project, facts) # "deny"
                  /\ Priority[Decides(merged, facts)] >= Priority[Effect(project)]
             /\ Entries(project, "requireHuman") \subseteq Entries(merged, "requireHuman")
             /\ Entries(merged, "allow") \subseteq Entries(project, "allow")
             /\ Has(project, "sandbox") /\ GetIn(project, "sandbox") => GetIn(merged, "sandbox")

(* A change that was tried against the layers as they are when it is       *)
(* written leaves files the next run accepts (settings.js 153-154).        *)
SavedIsLoadable ==
  [][\A s \in Surfaces : WriteFile(s) /\ writing[s].seen = <<layers>> => Accepted(layers')]_vars
=============================================================================
