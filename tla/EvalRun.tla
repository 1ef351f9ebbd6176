------------------------------- MODULE EvalRun -------------------------------
(***************************************************************************)
(* The commands that score the system on the golden set (evals.cli):       *)
(* run-retrieval ranks chunks for each question; run-generation-eval runs  *)
(* the graph on each and has a model judge the answers; judge-agreement-   *)
(* report lists the judge's verdicts for a person.  A graph run or a judge *)
(* call that fails costs that item or that metric, anything else ends the  *)
(* command without a report.                                               *)
(***************************************************************************)
EXTENDS RankMetrics, SequencesExt

CONSTANTS
  Golden,    \* the golden set: out_of_scope and relevant_chunk_ids per item
  Corpus,    \* the chunk ids of a table that is full
  Ghost,     \* a chunk id the model made up
  KValues,   \* --k
  Samples,   \* --sample in use
  Pool,      \* bound: the chunks a graph run may find
  MaxCited   \* bound: citations of one answer

ASSUME EvalAssumption ==
  /\ IsFiniteSet(Corpus)
  /\ Golden \in Seq([out_of_scope : BOOLEAN, relevant : SUBSET Corpus])
  /\ Ghost \notin Corpus
  /\ KValues # {} /\ KValues \subseteq 1..Len(Gain)
  /\ Samples \subseteq 1..Len(Golden) /\ Pool \subseteq Corpus
  /\ MaxCited \in Nat

Commands == {"run-retrieval", "run-generation-eval", "judge-agreement-report"}

VARIABLES
  command,
  selected,  \* how many items, the first ones, are to be scored
  at,        \* what is awaited next
  item,      \* the golden items dealt with
  ranked,    \* per_item of the retrieval scorecard, with what was retrieved
  results,   \* what run_golden_set_through_graph returns
  valid,     \* citation_validity's counter
  score,     \* the scores of the result being judged
  scores,    \* per_item of the generation scorecard, the sections of the report
  verdicts,  \* history: by result, what became of its citations, in order
  failures   \* history: the metrics whose judge call failed, by result

vars == <<command, selected, at, item, ranked, results, valid, score, scores, verdicts, failures>>
judging == <<valid, score, scores, verdicts, failures>>

\* A float or None, as the set of the values there are.
None == {}

Results == [item : DOMAIN Golden, shown : SUBSET Pool,
            citations : SeqOf(Pool \cup {Ghost}, MaxCited), abstained : BOOLEAN]

Scores == [validity : SUBSET Nat, faithfulness : SUBSET {0, 1}, relevancy : SUBSET {0, 1}]
Unscored == [validity |-> None, faithfulness |-> None, relevancy |-> None]

TypeOK ==
  /\ command \in Commands
  /\ selected \in 0..Len(Golden)
  /\ at \in {"retrieve", "graph", "cite", "faithful", "relevant", "report", "failed"}
  /\ item \in 0..Len(Golden)
  /\ ranked \in Seq([item : DOMAIN Golden, scored : BOOLEAN, ranking : Seq(Corpus)])
  /\ results \in Seq(Results)
  /\ valid \in Nat
  /\ score \in Scores /\ scores \in Seq(Scores)
  /\ verdicts \in Seq(Seq({"supports", "rejects", "skipped", "failed"}))
  /\ failures \in SUBSET (Nat \X {"faithfulness", "relevancy"})

\* _select_sample; run-retrieval takes all.
Init ==
  /\ command \in Commands
  /\ selected \in IF command = "run-retrieval" THEN {Len(Golden)} ELSE Samples
  /\ at = IF command = "run-retrieval" THEN "retrieve" ELSE "graph"
  /\ item = 0
  /\ ranked = <<>> /\ results = <<>>
  /\ valid = 0 /\ score = Unscored /\ scores = <<>>
  /\ verdicts = <<>> /\ failures = {}

----------------------------------------------------------------------------
\* run-retrieval

MaxK == Max(KValues)

\* LIMIT max(k): distinct rows, fewer when the table has no more; an ingestion
\* that stopped, or is under way, leaves any part of the corpus in it.  A wider
\* pool reordered by the reranker and cut again gives one of these too.
Retrieved ==
  {r \in SeqOf(Corpus, MaxK) : \A i, j \in DOMAIN r : r[i] = r[j] => i = j}

\* Mutant: only the tag decides.
HasTag(g) == ~g.out_of_scope

\* An item whose tag and ground truth disagree is excluded too.
IsScored(g) == ~g.out_of_scope /\ g.relevant # {}

ScoreRetrieval ==
  /\ at = "retrieve"
  /\ item < selected
  /\ item' = item + 1
  /\ LET g == Golden[item']
     IN  IF IsScored(g)
           THEN \E r \in Retrieved :
                  ranked' = Append(ranked, [item |-> item', scored |-> TRUE, ranking |-> r])
           ELSE ranked' = Append(ranked, [item |-> item', scored |-> FALSE, ranking |-> <<>>])
  /\ UNCHANGED <<command, selected, at, results, judging>>

FinishRetrieval ==
  /\ at = "retrieve" /\ item = selected
  /\ at' = "report"
  /\ UNCHANGED <<command, selected, item, ranked, results, judging>>

----------------------------------------------------------------------------
\* run_golden_set_through_graph

\* What the graph leaves in its state: with nothing shown it abstains, and a
\* citation that was not shown makes an abstention that keeps it.
Outcomes ==
  {x \in Results :
     /\ x.item = item + 1
     /\ x.shown = {} => x.citations = <<>> /\ x.abstained
     /\ ToSet(x.citations) \subseteq x.shown \/ x.abstained}

RunGraph ==
  /\ at = "graph"
  /\ item < selected
  /\ item' = item + 1
  /\ \/ \E x \in Outcomes : results' = Append(results, x)
     \/ UNCHANGED results
  /\ UNCHANGED <<command, selected, at, ranked, judging>>

----------------------------------------------------------------------------
\* Judging, one result after another

This == results[Len(scores) + 1]

StartJudging ==
  /\ at = "graph" /\ item = selected
  /\ IF results = <<>>
       THEN at' = "report" /\ UNCHANGED verdicts
       ELSE at' = "cite" /\ verdicts' = <<<<>>>>
  /\ UNCHANGED <<command, selected, item, ranked, results, valid, score, scores, failures>>

Note(what) == verdicts' = [verdicts EXCEPT ![Len(verdicts)] = Append(@, what)]

Cited == This.citations[Len(Last(verdicts)) + 1]
AllCited == Len(Last(verdicts)) = Len(This.citations)

\* The scorecard judges a citation only against a text it has; the report
\* asks about every one.
Judgeable == command = "judge-agreement-report" \/ Cited \in Corpus \cap This.shown

\* Mutant: a call that failed counts as a score of zero.
FailedIsZero == {0}

\* _safe_judge_call, _safe.
FailedScore == None

JudgeCitation ==
  /\ at = "cite" /\ ~AllCited
  /\ \/ /\ ~Judgeable
        /\ Note("skipped")
        /\ UNCHANGED <<at, valid, score>>
     \/ /\ Judgeable
        /\ \/ Note("supports") /\ valid' = valid + 1
           \/ Note("rejects") /\ UNCHANGED valid
        /\ UNCHANGED <<at, score>>
     \/ /\ Judgeable
        /\ Note("failed")
        /\ UNCHANGED valid
        /\ IF command = "judge-agreement-report"
             THEN UNCHANGED <<at, score>>
             ELSE at' = "faithful" /\ score' = [score EXCEPT !.validity = FailedScore]
  /\ UNCHANGED <<command, selected, item, ranked, results, scores, failures>>

\* Over the number of citations; None when there are none.  The report has
\* no such score.
CitationValidity ==
  /\ at = "cite" /\ AllCited
  /\ score' = [score EXCEPT !.validity =
       IF This.citations = <<>> \/ command = "judge-agreement-report" THEN None ELSE {valid}]
  /\ at' = "faithful"
  /\ UNCHANGED <<command, selected, item, ranked, results, valid, scores, verdicts, failures>>

\* A metric of deepeval, whose judge calls go through the gateway.
Measure(metric, applies, v) ==
  \/ ~applies /\ v = None /\ UNCHANGED failures
  \/ applies /\ v \in {{0}, {1}} /\ UNCHANGED failures
  \/ applies /\ v = FailedScore /\ failures' = failures \cup {<<Len(scores) + 1, metric>>}

Faithfulness ==
  /\ at = "faithful"
  /\ \E v \in SUBSET {0, 1} :
       /\ Measure("faithfulness", ~This.abstained /\ This.shown # {}, v)
       /\ score' = [score EXCEPT !.faithfulness = v]
  /\ at' = "relevant"
  /\ UNCHANGED <<command, selected, item, ranked, results, valid, scores, verdicts>>

AnswerRelevancy ==
  /\ at = "relevant"
  /\ \E v \in SUBSET {0, 1} :
       /\ Measure("relevancy", ~This.abstained, v)
       /\ scores' = Append(scores, [score EXCEPT !.relevancy = v])
  /\ score' = Unscored /\ valid' = 0
  /\ IF Len(scores') < Len(results)
       THEN at' = "cite" /\ verdicts' = Append(verdicts, <<>>)
       ELSE at' = "report" /\ UNCHANGED verdicts
  /\ UNCHANGED <<command, selected, item, ranked, results>>

\* Retrieval, the database or the disk fails, or the person interrupts.
Abort ==
  /\ at \notin {"report", "failed"}
  /\ at' = "failed"
  /\ UNCHANGED <<command, selected, item, ranked, results, judging>>

Done == at \in {"report", "failed"} /\ UNCHANGED vars

Next ==
  \/ ScoreRetrieval \/ FinishRetrieval
  \/ RunGraph \/ StartJudging
  \/ JudgeCitation \/ CitationValidity \/ Faithfulness \/ AnswerRelevancy
  \/ Abort \/ Done

Spec == Init /\ [][Next]_vars

----------------------------------------------------------------------------
\* The reports

ScoredItems == Cardinality({n \in DOMAIN ranked : ranked[n].scored})
Excluded    == Cardinality({n \in DOMAIN ranked : ~ranked[n].scored})

OutOfScope(x) == Golden[x.item].out_of_scope

\* appropriate_abstention.
Correct ==
  Cardinality({n \in DOMAIN results : OutOfScope(results[n]) = results[n].abstained})
FalseAbstention ==
  Cardinality({n \in DOMAIN results : ~OutOfScope(results[n]) /\ results[n].abstained})
FalseAnswer ==
  Cardinality({n \in DOMAIN results : OutOfScope(results[n]) /\ ~results[n].abstained})

\* Over Cardinality(x.shown), None when nothing was shown.
ContextPrecision(x) == Cardinality(x.shown \cap Golden[x.item].relevant)

\* _mean_or_none: the positions a mean is taken over.
MeanOver(values) == {n \in DOMAIN values : values[n] # None}

(***************************************************************************)
(* The scores of one ranking tell one story: recall and reciprocal rank    *)
(* grow with k; there is a hit by all three or by none; nDCG is at most 1, *)
(* and 1 exactly when the first ranks are all relevant ones, as many as    *)
(* there can be (_score_item over recall_at_k, reciprocal_rank, ndcg_at_k).*)
(***************************************************************************)
MetricsAgree ==
  \A p \in ToSet(ranked) : p.scored =>
    \A k \in KValues :
      LET r == p.ranking
          rel == Golden[p.item].relevant
          ideal == Min({k, Cardinality(rel)})
      IN  /\ RecallHits(r, rel, k) <= ideal
          /\ RecallHits(r, rel, k) > 0 <=> FirstHit(r, rel, k) > 0
          /\ RecallHits(r, rel, k) > 0 <=> DCG(r, rel, k) > 0
          /\ DCG(r, rel, k) <= IDCG(rel, k)
          /\ DCG(r, rel, k) = IDCG(rel, k) <=>
               ideal <= Len(r) /\ \A i \in 1..ideal : r[i] \in rel
          /\ \A l \in KValues : l > k =>
               /\ RecallHits(r, rel, k) <= RecallHits(r, rel, l)
               /\ FirstHit(r, rel, k) \in {0, FirstHit(r, rel, l)}

(***************************************************************************)
(* A report accounts for every item and never makes up a score.  Retrieval *)
(* items are scored or excluded, and the ones scored have ground truth.    *)
(* Of a generation run, the items whose graph run failed are absent; every *)
(* other is right or wrong in abstaining in one way; a mean is taken over  *)
(* exactly the results it applies to and whose judge answered; and a       *)
(* citation counts as valid only if the judge saw its text and agreed.     *)
(***************************************************************************)
ReportExact ==
  at = "report" =>
    /\ command = "run-retrieval" =>
         /\ ScoredItems + Excluded = Len(Golden)
         /\ \A p \in ToSet(ranked) : p.scored => Golden[p.item].relevant # {}
    /\ Len(scores) = Len(results)
    /\ \A m, n \in DOMAIN results : m < n => results[m].item < results[n].item
    /\ Correct + FalseAbstention + FalseAnswer = Len(results)
    /\ \A n \in DOMAIN results :
         LET x == results[n]
             supported == {i \in DOMAIN verdicts[n] : verdicts[n][i] = "supports"}
         IN  /\ ContextPrecision(x) <= Cardinality(x.shown)
             /\ n \in MeanOver([j \in DOMAIN scores |-> scores[j].faithfulness]) <=>
                  ~x.abstained /\ x.shown # {} /\ <<n, "faithfulness">> \notin failures
             /\ n \in MeanOver([j \in DOMAIN scores |-> scores[j].relevancy]) <=>
                  ~x.abstained /\ <<n, "relevancy">> \notin failures
             /\ command = "run-generation-eval" =>
                  /\ scores[n].validity =
                       IF x.citations = <<>> \/ "failed" \in ToSet(verdicts[n])
                         THEN None ELSE {Cardinality(supported)}
                  /\ \A i \in supported : x.citations[i] \in x.shown
             /\ command = "judge-agreement-report" =>
                  /\ Len(verdicts[n]) = Len(x.citations)
                  /\ "skipped" \notin ToSet(verdicts[n])
=============================================================================
