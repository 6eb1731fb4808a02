------------------------------- MODULE Authoring -------------------------------
(***************************************************************************)
(* Drafting an agent, or a better text of one, with a model's help         *)
(* (forge/author.js): nothing is written until a person has seen the       *)
(* draft, and the last thing written can be taken back                     *)
(* (forge/author-undo.js).  The page keeps its drafts at the server        *)
(* (ui/author-routes.js, ui/client/author.js); a terminal has its own.     *)
(* Meanwhile people edit the same files.                                   *)
(***************************************************************************)
EXTENDS Naturals, SequencesExt

CONSTANTS Actors,   \* who writes drafts and takes them back: the page, a terminal
          MaxTexts, \* bound: texts drafted, and written by people
          MaxKept,  \* drafts the server keeps
          Keep      \* records that are kept to be taken back

VARIABLES
  text,    \* what each file holds: the number of a text, 0 where there is none
  texts,   \* how many texts there are
  people,  \* those that people wrote
  drafts,  \* the drafts the server keeps, oldest first
  shown,   \* the number of the draft that is on the page
  records, \* what can be taken back, newest first
  actor,   \* what the page's server and the terminal are doing
  lost,    \* history: people's texts that were written over, or removed
  raced    \* history: texts that came to be in a file after another one looked at it to
           \* write it, or to list what it wrote

vars == <<text, texts, people, drafts, shown, records, actor, lost, raced>>
history == <<lost, raced>>

Files == {"manifest", "prompt"}
Present == {f \in Files : text[f] # 0}
Idle == [op |-> "idle", edits |-> <<>>, todo |-> {}, known |-> {}, rest |-> <<>>]

Begins(a, op, edits) ==
  actor' = [actor EXCEPT ![a] = [Idle EXCEPT !.op = op, !.edits = edits, !.todo = DOMAIN edits,
                                             !.known = Present]]
Turns(a, op) == actor' = [actor EXCEPT ![a].op = op, ![a].todo = DOMAIN actor[a].edits]
Ends(a) == actor' = [actor EXCEPT ![a] = Idle]

(* a has looked at the file, and has yet to act on what it saw.            *)
Looked(a, f) ==
  \/ actor[a].op \in {"check", "compare"} /\ f \in DOMAIN actor[a].edits \ actor[a].todo
  \/ actor[a].op \in {"write", "restore"} /\ f \in actor[a].todo
  \/ actor[a].op \in {"create", "list"} /\ f \notin actor[a].known

(* Text n is in the file from now on; a's person saw what was there.       *)
Puts(a, f, n, seen) ==
  /\ text' = [text EXCEPT ![f] = n]
  /\ lost' = IF text[f] \in people \ {seen, n} THEN lost \cup {<<f, text[f]>>} ELSE lost
  /\ raced' = IF \E b \in Actors \ {a} : Looked(b, f) THEN raced \cup {<<f, n>>} ELSE raced

-----------------------------------------------------------------------------
(* Drafts.  A new agent is two files; what is improved is read before the  *)
(* model is asked.                                                         *)
DraftNew == [f \in Files |-> [before |-> 0, after |-> texts + 1]]

DraftImprovement(fs) == [f \in fs |-> [before |-> text[f], after |-> texts + 1]]

Kept(ds) == IF Len(ds) < MaxKept THEN ds ELSE SubSeq(ds, Len(ds) - MaxKept + 2, Len(ds))

Number(d) == d.edits[CHOOSE f \in DOMAIN d.edits : TRUE].after
Mode(edits) == IF \A f \in DOMAIN edits : edits[f].before = 0 THEN "new" ELSE "improve"

Drafts == {DraftNew} \cup {DraftImprovement(fs) : fs \in SUBSET Present \ {{}}}

Without(n) == SelectSeq(drafts, LAMBDA d : Number(d) # n)

(* Asked for anew, or changed as the person wishes (refineDraft): made     *)
(* from what is on disk now.                                               *)
RequestDraft ==
  /\ texts < MaxTexts /\ texts' = texts + 1 /\ shown' = texts + 1 /\ actor["page"] = Idle
  /\ \E edits \in Drafts, kept \in {drafts, Without(shown)} :
       drafts' = Append(Kept(kept), [edits |-> edits])
  /\ UNCHANGED <<text, people, records, actor, history>>

DiscardDraft == /\ shown # 0 /\ shown' = 0 /\ drafts' = Without(shown)
                /\ UNCHANGED <<text, texts, people, records, actor, history>>

-----------------------------------------------------------------------------
(* Writing one.                                                            *)
Writes(a, edits) == Begins(a, IF Mode(edits) = "new" THEN "create" ELSE "check", edits)

AcceptDraft ==
  /\ shown # 0 /\ actor["page"] = Idle
  /\ \E d \in ToSet(drafts) : Number(d) = shown /\ Writes("page", d.edits)
  /\ UNCHANGED <<text, texts, people, drafts, shown, records, history>>

TerminalAccepts ==
  /\ "terminal" \in Actors
  /\ actor["terminal"] = Idle /\ texts < MaxTexts /\ texts' = texts + 1
  /\ \E edits \in Drafts : Writes("terminal", edits)
  /\ UNCHANGED <<text, people, drafts, shown, records, history>>

(* A plausible fault: only the manifest is compared with the draft's.      *)
SlipUnchanged(f, e) == f = "manifest" => text[f] = e.before

Unchanged(f, e) == text[f] = e.before

(* Every file must still be what the draft was made from, before any is    *)
(* written.                                                                *)
CheckEdit(a, f) ==
  /\ actor[a].op = "check" /\ f \in actor[a].todo
  /\ IF ~Unchanged(f, actor[a].edits[f]) THEN Ends(a)
     ELSE IF actor[a].todo = {f} THEN Turns(a, "write")
     ELSE actor' = [actor EXCEPT ![a].todo = @ \ {f}]
  /\ UNCHANGED <<text, texts, people, drafts, shown, records, history>>

Next1(a, f, then) == actor' = [actor EXCEPT ![a].todo = @ \ {f}, ![a].op = IF actor[a].todo = {f} THEN then ELSE @]

WriteEdit(a, f) ==
  /\ actor[a].op = "write" /\ f \in actor[a].todo
  /\ Puts(a, f, actor[a].edits[f].after, actor[a].edits[f].before) /\ Next1(a, f, "record")
  /\ UNCHANGED <<texts, people, drafts, shown, records>>

(* writePlan: a new file is never written over one that exists.            *)
Create(a, f) ==
  /\ actor[a].op = "create" /\ f \in actor[a].todo
  /\ IF text[f] = 0 THEN Puts(a, f, actor[a].edits[f].after, 0) ELSE UNCHANGED <<text, history>>
  /\ Next1(a, f, "list")
  /\ UNCHANGED <<texts, people, drafts, shown, records>>

(* Whatever is new on disk now is what this wrote.                         *)
ListContentFiles(a) ==
  /\ actor[a].op = "list"
  /\ LET made == Present \ actor[a].known
     IN  IF made = {} THEN Ends(a) \* nothing was written: nothing is recorded
         ELSE actor' = [actor EXCEPT ![a].op = "record",
                          ![a].edits = [f \in made |-> [before |-> 0, after |-> text[f]]]]
  /\ UNCHANGED <<text, texts, people, drafts, shown, records, history>>

(* A write that is recorded is done: the page's draft is dropped.          *)
RecordWrites(a) ==
  /\ \/ /\ actor[a].op = "record" /\ UNCHANGED <<records, drafts, shown>>
        /\ actor' = [actor EXCEPT ![a].op = "recorded", ![a].rest = records]
     \/ /\ actor[a].op = "recorded" /\ Ends(a)
        /\ LET all == <<actor[a].edits>> \o actor[a].rest
           IN  records' = SubSeq(all, 1, IF Len(all) > Keep THEN Keep ELSE Len(all))
        /\ IF a = "page" THEN shown' = 0 /\ drafts' = Without(shown) ELSE UNCHANGED <<drafts, shown>>
  /\ UNCHANGED <<text, texts, people, history>>

-----------------------------------------------------------------------------
(* Taking the last one back.                                               *)
UndoLastWrite(a) ==
  /\ actor[a] = Idle /\ records # <<>>
  /\ actor' = [actor EXCEPT ![a] = [Idle EXCEPT !.op = "compare", !.edits = records[1],
                                      !.todo = DOMAIN records[1], !.rest = Tail(records)]]
  /\ UNCHANGED <<text, texts, people, drafts, shown, records, history>>

(* A plausible fault: a file that is gone is not what was written, but one *)
(* that is there is taken for it.                                          *)
SlipStillOurs(f, e) == text[f] # 0

StillOurs(f, e) == text[f] = e.after

Compare(a, f) ==
  /\ actor[a].op = "compare" /\ f \in actor[a].todo
  /\ IF ~StillOurs(f, actor[a].edits[f]) THEN Ends(a)
     ELSE IF actor[a].todo = {f} THEN Turns(a, "restore")
     ELSE actor' = [actor EXCEPT ![a].todo = @ \ {f}]
  /\ UNCHANGED <<text, texts, people, drafts, shown, records, history>>

Restore(a, f) ==
  /\ actor[a].op = "restore" /\ f \in actor[a].todo
  /\ Puts(a, f, actor[a].edits[f].before, 0) /\ Next1(a, f, "forget")
  /\ UNCHANGED <<texts, people, drafts, shown, records>>

Forget(a) ==
  /\ actor[a].op = "forget" /\ records' = actor[a].rest /\ Ends(a)
  /\ UNCHANGED <<text, texts, people, drafts, shown, history>>

(* The server, or the terminal's program, ends.                            *)
Crash(a) ==
  /\ actor[a] # Idle /\ Ends(a)
  /\ drafts' = IF a = "page" THEN <<>> ELSE drafts
  /\ UNCHANGED <<text, texts, people, shown, records, history>>

Edit(f) ==
  /\ texts < MaxTexts /\ texts' = texts + 1
  /\ text' = [text EXCEPT ![f] = texts + 1] /\ people' = people \cup {texts + 1}
  /\ raced' = IF \E a \in Actors : Looked(a, f) THEN raced \cup {<<f, texts + 1>>} ELSE raced
  /\ UNCHANGED <<drafts, shown, records, actor, lost>>

-----------------------------------------------------------------------------
Init == /\ text = [f \in Files |-> 0] /\ texts = 0 /\ people = {} /\ drafts = <<>> /\ shown = 0
        /\ records = <<>> /\ actor = [a \in Actors |-> Idle] /\ lost = {} /\ raced = {}

Next ==
  \/ \E a \in Actors :
       \/ \E f \in Files : CheckEdit(a, f) \/ WriteEdit(a, f) \/ Create(a, f) \/ Compare(a, f) \/ Restore(a, f)
       \/ ListContentFiles(a) \/ RecordWrites(a) \/ UndoLastWrite(a) \/ Forget(a) \/ Crash(a)
  \/ RequestDraft \/ DiscardDraft \/ AcceptDraft \/ TerminalAccepts
  \/ \E f \in Files : Edit(f)

Spec == Init /\ [][Next]_vars

-----------------------------------------------------------------------------
TypeOK == /\ \A f \in Files : text[f] \in 0..MaxTexts
          /\ texts \in 0..MaxTexts /\ people \subseteq 1..MaxTexts
          /\ Len(drafts) <= MaxKept /\ Len(records) <= Keep
          /\ shown \in 0..MaxTexts

(* A text that a person wrote is only lost where the draft that was        *)
(* accepted showed that very text as what it replaces, or where it came to *)
(* be there after a write or an undo had looked at the file and before it  *)
(* acted on that: "only if that file has not changed since"                *)
(* (author.js:302-304, author-undo.js:5-9) is compared once, for all files *)
(* before the first is written.                                            *)
PeopleKeepTheirText == lost \subseteq raced
=============================================================================
