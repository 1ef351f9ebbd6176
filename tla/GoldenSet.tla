------------------------------ MODULE GoldenSet ------------------------------
(***************************************************************************)
(* How evaluation questions come to be: generate-candidates writes a       *)
(* review file, review-candidates records a person's decision on each      *)
(* question and rewrites the file, promote-candidates appends the decided  *)
(* ones to the golden set (evals.cli over candidates, review, promote,     *)
(* golden).  Both files are JSON lines; a command that dies while it       *)
(* writes leaves the first bytes of what it was writing.  The person has   *)
(* one command at work on the review file at a time, and edits it by hand  *)
(* between commands.                                                       *)
(***************************************************************************)
EXTENDS Naturals, FiniteSets, SequencesExt

CONSTANTS
  TypeOf,      \* TypeOf[i]: question_type of the i-th of SEED_QUESTIONS
  PoolOf,      \* PoolOf[i]: the chunks retrieved for it, its candidate_pool
  MaxCrashes,  \* bound: commands that die while they write
  MaxEdits     \* bound: items edited by hand

\* SEED_QUESTIONS: cand-001, cand-002, ..., each id once.
Seeds == DOMAIN TypeOf
OutOfScope(q) == TypeOf[q] = "out_of_scope"

ASSUME SeedAssumption ==
  /\ TypeOf \in Seq({"factual_lookup", "role_scoped", "cross_reference", "out_of_scope"})
  /\ DOMAIN PoolOf = Seeds
  /\ MaxCrashes \in Nat /\ MaxEdits \in Nat

VARIABLES
  file,     \* candidates_for_review.jsonl
  golden,   \* golden_set.jsonl
  items,    \* what the review session holds in memory
  pending,  \* the positions it has still to ask about, in their order
  decided,  \* history: by question, the last decision that was accepted
  lossy,    \* history: a command died while writing the review file
  crashes,
  edits

vars == <<file, golden, items, pending, decided, lossy, crashes, edits>>

Chunks == UNION {PoolOf[q] : q \in Seeds}
Notes  == {"", "none", "dropped"}

Decisions == [verified : BOOLEAN, ids : SUBSET Chunks, notes : Notes]
Items     == [id : Seeds, verified : BOOLEAN, ids : SUBSET Chunks, notes : Notes]

\* A golden item; its notes are history: those of the candidate promoted.
Lines     == [id : Seeds, ids : SUBSET Chunks, notes : Notes]

Blank == [verified |-> FALSE, ids |-> {}, notes |-> ""]
DecisionOn(item) == [verified |-> item.verified, ids |-> item.ids, notes |-> item.notes]
Item(q, d) == [id |-> q, verified |-> d.verified, ids |-> d.ids, notes |-> d.notes]

TypeOK ==
  /\ file \in [there : BOOLEAN, lines : Seq(Items), torn : BOOLEAN]
  /\ golden \in [lines : Seq(Lines), tail : {"ended", "unended", "broken"}]
  /\ items \in Seq(Items)
  /\ pending \subseteq Seeds
  /\ decided \in [Seeds -> Decisions]
  /\ lossy \in BOOLEAN
  /\ crashes \in 0..MaxCrashes /\ edits \in 0..MaxEdits

Init ==
  /\ file = [there |-> FALSE, lines |-> <<>>, torn |-> FALSE]
  /\ golden = [lines |-> <<>>, tail |-> "ended"]
  /\ items = <<>> /\ pending = {}
  /\ decided = [q \in Seeds |-> Blank]
  /\ lossy = FALSE
  /\ crashes = 0 /\ edits = 0

----------------------------------------------------------------------------
\* Files

\* load_candidates and load_golden_set raise on a malformed line.
Loads == file.there /\ ~file.torn
GoldenLoads == golden.tail # "broken"

Whole(ls) == [there |-> TRUE, lines |-> ls, torn |-> FALSE]

\* _dump_jsonl opens with "w": the old contents are gone before the first
\* of the new is written.
Partial(ls) ==
  {[there |-> TRUE, lines |-> SubSeq(ls, 1, n), torn |-> t] :
     n \in 0..Len(ls), t \in BOOLEAN} \ {[there |-> TRUE, lines |-> ls, torn |-> TRUE]}

\* append_golden_items: on a last line that has no newline the first new one
\* is glued to it, and neither is JSON any more.  Of a broken file, lines
\* says what it had before.
Glued  == golden.tail = "unended"
Broken == [golden EXCEPT !.tail = "broken"]

Grown(ls, n, tail) == [lines |-> golden.lines \o SubSeq(ls, 1, n), tail |-> tail]

Appended(ls) == IF Glued THEN Broken ELSE Grown(ls, Len(ls), "ended")

Crash == crashes < MaxCrashes /\ crashes' = crashes + 1

----------------------------------------------------------------------------
\* generate-candidates

FreshItems == [q \in Seeds |-> Item(q, Blank)]

\* Mutant: only a selection counts as progress.
HasSelections(ls) == \E i \in DOMAIN ls : ls[i].ids # {}

HasReviewProgress(ls) ==
  \E i \in DOMAIN ls : ls[i].verified \/ ls[i].ids # {} \/ ls[i].notes # ""

\* write_candidates: the file is read only without --force, and a torn line
\* is an error unless a line before it shows progress, which is one too.
MayWrite(force) ==
  ~file.there \/ force \/ (~file.torn /\ ~HasReviewProgress(file.lines))

Forget(force) ==
  decided' = IF force \/ lossy THEN [q \in Seeds |-> Blank] ELSE decided

Generate(force) ==
  /\ pending = {}
  /\ MayWrite(force)
  /\ Forget(force)
  /\ \/ file' = Whole(FreshItems) /\ lossy' = FALSE /\ UNCHANGED crashes
     \/ Crash /\ file' \in Partial(FreshItems) /\ lossy' = TRUE
  /\ UNCHANGED <<golden, items, pending, edits>>

----------------------------------------------------------------------------
\* review-candidates

\* Mutant: any verified item is done with.
NeedsVerification(item) == ~item.verified

\* Also the verified in-scope item with no selection and no notes.
NeedsDecision(item) ==
  \/ ~item.verified
  \/ ~OutOfScope(item.id) /\ item.ids = {} /\ item.notes = ""

\* Up to the first prompt; with nothing to ask the command ends at once.
Review ==
  /\ pending = {}
  /\ Loads
  /\ items' = file.lines
  /\ pending' = {i \in DOMAIN file.lines : NeedsDecision(file.lines[i])}
  /\ pending' # {}
  /\ UNCHANGED <<file, golden, decided, lossy, crashes, edits>>

\* apply_decision.
Skip(item) == [item EXCEPT !.verified = TRUE, !.ids = {}, !.notes = "dropped"]
None(item) == [item EXCEPT !.verified = TRUE, !.ids = {},
                           !.notes = IF OutOfScope(item.id) THEN "" ELSE "none"]
Select(item, ids) == [item EXCEPT !.verified = TRUE, !.ids = ids]

Answers(item) ==
  {Skip(item), None(item)} \cup
  {Select(item, ids) : ids \in (SUBSET PoolOf[item.id]) \ {{}}}

\* One answer that parses, and the save of the whole list that follows it.
Decide ==
  /\ pending # {}
  /\ \E answer \in Answers(items[Min(pending)]) :
       LET list == [items EXCEPT ![Min(pending)] = answer]
       IN  /\ decided' = [decided EXCEPT ![answer.id] = DecisionOn(answer)]
           /\ \/ /\ file' = Whole(list)
                 /\ items' = list /\ pending' = pending \ {Min(pending)}
                 /\ UNCHANGED <<lossy, crashes>>
              \/ /\ Crash /\ file' \in Partial(list) /\ lossy' = TRUE
                 /\ items' = <<>> /\ pending' = {}
  /\ UNCHANGED <<golden, edits>>

\* "quit", or Ctrl-C at the prompt.
Quit ==
  /\ pending # {}
  /\ items' = <<>> /\ pending' = {}
  /\ UNCHANGED <<file, golden, decided, lossy, crashes, edits>>

----------------------------------------------------------------------------
\* promote-candidates

\* Mutant: everything that was verified is promoted.
Verified(item) == item.verified

Promotable(item) ==
  item.ids # {} \/ (OutOfScope(item.id) /\ item.verified)

\* Mutant: ids already in the golden set are not skipped.
NoneExist == {}

ExistingIds == {golden.lines[i].id : i \in DOMAIN golden.lines}

IsNew(item) == Promotable(item) /\ item.id \notin ExistingIds
Line(item)  == [id |-> item.id, ids |-> item.ids, notes |-> item.notes]

NewLines ==
  LET upTo[n \in 0..Len(file.lines)] ==
        IF n = 0 THEN <<>>
        ELSE IF IsNew(file.lines[n]) THEN Append(upTo[n - 1], Line(file.lines[n]))
        ELSE upTo[n - 1]
  IN  upTo[Len(file.lines)]

\* What an append that dies leaves: some whole lines, and of the next one
\* nothing, all but the newline, or a part.
Cut(ls) ==
  IF Glued
    THEN {golden, Broken}
    ELSE {Grown(ls, n, "ended") : n \in 0..Len(ls)} \cup
         {Grown(ls, n, "unended") : n \in 1..Len(ls)} \cup
         {Grown(ls, n, "broken") : n \in 0..Len(ls) - 1}

\* May be run while a review session waits at its prompt.
Promote ==
  /\ Loads /\ GoldenLoads
  /\ NewLines # <<>>
  /\ \/ golden' = Appended(NewLines) /\ UNCHANGED crashes
     \/ Crash /\ golden' \in Cut(NewLines)
  /\ UNCHANGED <<file, items, pending, decided, lossy, edits>>

----------------------------------------------------------------------------
\* The person fills in an item by hand, or deletes a torn line.
Edit ==
  /\ pending = {}
  /\ edits < MaxEdits /\ edits' = edits + 1
  /\ \E i \in DOMAIN file.lines, v \in BOOLEAN, ids \in SUBSET Chunks :
       LET item == [file.lines[i] EXCEPT !.verified = v, !.ids = ids]
       IN  /\ ids \subseteq PoolOf[item.id]
           /\ file' = [file EXCEPT !.lines[i] = item]
           /\ decided' = [decided EXCEPT ![item.id] = DecisionOn(item)]
  /\ UNCHANGED <<golden, items, pending, lossy, crashes>>

Mend ==
  /\ file.torn
  /\ file' = [file EXCEPT !.torn = FALSE]
  /\ UNCHANGED <<golden, items, pending, decided, lossy, crashes, edits>>

Next ==
  \/ \E force \in BOOLEAN : Generate(force)
  \/ Review \/ Decide \/ Quit
  \/ Promote
  \/ Edit \/ Mend

Spec == Init /\ [][Next]_vars

----------------------------------------------------------------------------
(***************************************************************************)
(* No decision is lost or altered by the tools: each item of the review    *)
(* file carries the last decision accepted for its question, and all       *)
(* questions are there unless a command died while writing, which costs a  *)
(* tail of the file (run_interactive_review, write_candidates).            *)
(***************************************************************************)
DecisionsStand ==
  /\ \A i \in DOMAIN file.lines :
       file.lines[i].id = i /\ DecisionOn(file.lines[i]) = decided[i]
  /\ file.there /\ ~lossy => DOMAIN file.lines = Seeds /\ ~file.torn

(***************************************************************************)
(* The golden set has no question twice, however often promotion is run or *)
(* dies half-way, and only an out-of-scope question has no relevant chunk: *)
(* an in-scope one that nothing answers is kept out, as it would be scored *)
(* as outside the corpus.  It loads, with its last line whole and ended,   *)
(* unless a command died (promotable_candidates, promote_to_golden_set,    *)
(* append_golden_items).                                                   *)
(***************************************************************************)
GoldenSound ==
  LET ls == golden.lines
  IN  /\ \A i, j \in DOMAIN ls : ls[i].id = ls[j].id => i = j
      /\ \A i \in DOMAIN ls : /\ ls[i].ids = {} => OutOfScope(ls[i].id)
                              /\ ls[i].ids \subseteq PoolOf[ls[i].id]
      /\ golden.tail # "ended" => crashes > 0

(***************************************************************************)
(* A question that is not settled is asked about: what a review session    *)
(* leaves aside either can be promoted, is in a person's hands as          *)
(* confirmed none, or was dropped; also the corrupted state that           *)
(* needs_decision is there to find is never left aside.                    *)
(***************************************************************************)
NothingLeftAside ==
  \A i \in DOMAIN file.lines :
    LET item == file.lines[i]
    IN  pending # {} /\ i \notin pending =>
          Promotable(item) \/ item.notes \in {"none", "dropped"}

(***************************************************************************)
(* promotable_candidates' docstring: dropped items are silently excluded.  *)
(***************************************************************************)
DroppedStaysOut ==
  \A i \in DOMAIN golden.lines : golden.lines[i].notes # "dropped"
=============================================================================
