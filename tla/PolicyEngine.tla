---------------------------- MODULE PolicyEngine -----------------------------
(***************************************************************************)
(* Which effect the policy gives an operation: the rules of a section, the *)
(* facts of an operation, and the rule that decides.  A pattern is the set *)
(* of the values it matches.                                               *)
(***************************************************************************)
EXTENDS Naturals

CONSTANTS Anything, None   \* a matcher the rule does not have; a fact there is none of

Matchers == {"kinds", "agents", "paths", "hosts", "commands"}

Effects == {"allow", "human", "deny"}

Priority == [allow |-> 1, human |-> 2, deny |-> 3]

\* normalizeSection: what it throws for is not loaded.
Loads(section) ==
  /\ section.default \in Effects
  /\ \A r \in section.rules :
       /\ r.effect \in Effects
       /\ \E m \in Matchers : r[m] # Anything
       /\ \A s \in section.rules : r.id = s.id => r = s

\* A path outside the workspace would be no fact; the tools refuse it before they ask.
PathFact(op) == IF op.kind \in {"read", "write"} THEN op.what ELSE None

\* evaluateOperation: a command counts as one in a shell request only.
Facts(agent, op) ==
  [kinds |-> op.kind, agents |-> agent, paths |-> PathFact(op),
   hosts |-> IF op.kind = "network" THEN op.what ELSE None,
   commands |-> IF op.kind = "shell" THEN op.what ELSE None]

Fits(patterns, fact) == fact \in patterns

Matches(rule, facts) == \A m \in Matchers : rule[m] = Anything \/ Fits(rule[m], facts[m])

Strictest(rules) ==
  LET strongest == CHOOSE r \in rules : \A s \in rules : Priority[s.effect] <= Priority[r.effect]
  IN  strongest.effect

SlipNamedFirst(section, facts) ==
  LET matching == {r \in section.rules : Matches(r, facts)}
      named    == {r \in matching : r.commands # Anything}
  IN  IF matching = {} THEN section.default ELSE Strictest(IF named = {} THEN matching ELSE named)

\* selectDecision: a deny always stands; otherwise rules that name the command decide.
Decide(section, facts) ==
  LET matching == {r \in section.rules : Matches(r, facts)}
      named    == {r \in matching : r.commands # Anything}
  IN  IF matching = {} THEN section.default
      ELSE IF Strictest(matching) = "deny" \/ named = {} THEN Strictest(matching)
      ELSE Strictest(named)
=============================================================================
