------------------------------- MODULE Ingest -------------------------------
(***************************************************************************)
(* apps/ingest: ingest-corpus fetches each document through a disk cache,  *)
(* parses it, cuts it into chunks and upserts them into the table that     *)
(* retrieval reads, one transaction per document.  The command may die at  *)
(* any point and be run again; the publisher may issue a new edition.      *)
(*                                                                         *)
(* A text is its <div>s in document order: chapters, sections, articles,   *)
(* recitals.  What a chunk says is the place it was cut from.              *)
(***************************************************************************)
EXTENDS Naturals, FiniteSets, SequencesExt

CONSTANTS
  Documents,  \* DOCUMENTS, a sequence of slugs
  Editions,   \* Editions[d]: the texts the publisher issues, one after another
  Caps        \* the values of --max-items in use, and NoCap
NoCap == 1000

Slugs == {Documents[i] : i \in DOMAIN Documents}

\* up: the position of the <div> this one lies in, 0 for none.
\* paras: of an article, the numbers of its paragraph <div>s, 0 where the id
\* has none that matches; an article may have no such <div>.
Divs == [kind : {"chapter", "section", "article", "recital"}, no : Nat \ {0},
         up : Nat, paras : Seq(Nat)]

\* The id of a <div> occurs once in a text: so do the numbers of the articles, of
\* the recitals, and of the paragraphs of an article.
Identified(divs) ==
  /\ \A i, j \in DOMAIN divs :
       /\ divs[i].kind \in {"article", "recital"}
       /\ divs[i].kind = divs[j].kind /\ divs[i].no = divs[j].no
       => i = j
  /\ \A i \in DOMAIN divs : \A k, l \in DOMAIN divs[i].paras :
       divs[i].paras[k] = divs[i].paras[l] /\ divs[i].paras[k] # 0 => k = l

\* The <div>s of a document in document order: one comes after the one it lies
\* in, and whatever stands between the two lies in that one as well.  A section is
\* part of a chapter; an article lies in a section, in a chapter or in neither.
Nested(divs) ==
  \A i \in DOMAIN divs :
    LET u == divs[i].up
    IN  /\ u < i
        /\ \A j \in u + 1 .. i - 1 : divs[j].up >= u
        /\ divs[i].kind = "chapter" => u = 0
        /\ divs[i].kind = "section" => u # 0 /\ divs[u].kind = "chapter"
        /\ divs[i].kind = "article" => u = 0 \/ divs[u].kind \in {"chapter", "section"}

ASSUME IngestAssumption ==
  /\ Documents \in Seq(Slugs) \ {<<>>}
  /\ Editions \in [Slugs -> Seq(Seq(Divs)) \ {<<>>}]
  /\ \A d \in Slugs : \A e \in DOMAIN Editions[d] :
       Identified(Editions[d][e]) /\ Nested(Editions[d][e])
  /\ Caps \subseteq Nat

VARIABLES
  upstream,  \* the edition CELLAR serves
  cache,     \* <slug>.xhtml on disk, Absent or what was written
  rows,      \* the table chunks, committed
  at,        \* what the command does next
  doc,       \* the document it is at, by position
  force, cap,
  text,      \* the XHTML of that document
  todo,      \* the chunks still to be upserted
  tx,        \* the document's rows as the open transaction sees them
  cut,       \* history: the cache file was cut short as it was written
  last       \* history: the text committed last, its cap, whether it was cut

command == <<at, doc, force, cap, text, todo, tx>>
vars == <<upstream, cache, rows, command, cut, last>>

Absent == [edition |-> 0, divs |-> <<>>]
TextOf(d, e) == [edition |-> e, divs |-> Editions[d][e]]

Texts == [edition : Nat, divs : Seq(Divs)]

\* para 0: the whole article, or a recital.  part: the position of the
\* paragraph in its article.
Chunks == [kind : {"article", "recital"}, no : Nat, para : Nat, chapter : Nat,
           section : Nat, edition : Nat, div : Nat, part : Nat]

Current == Documents[doc]

TypeOK ==
  /\ upstream \in [Slugs -> Nat \ {0}]
  /\ cache \in [Slugs -> Texts]
  /\ rows \in [Slugs -> SUBSET Chunks]
  /\ at \in {"idle", "fetch", "write", "upsert", "commit"}
  /\ doc \in DOMAIN Documents
  /\ force \in BOOLEAN /\ cap \in Caps
  /\ text \in Texts
  /\ todo \in Seq(Chunks) /\ tx \in SUBSET Chunks
  /\ cut \in [Slugs -> BOOLEAN]
  /\ last \in [Slugs -> [text : Texts, cap : Nat, cut : BOOLEAN]]

----------------------------------------------------------------------------
\* parse_document

\* Mutant: a new chapter leaves the section of the one before standing.
EnterChapterOnly(c, no) == [c EXCEPT !.chapter = no]

EnterChapter(c, no) == [chapter |-> no, section |-> 0]

\* The chapter and section in force after the first n <div>s, 0 for None.
Context(divs) ==
  LET after[n \in 0..Len(divs)] ==
        IF n = 0 THEN [chapter |-> 0, section |-> 0]
        ELSE LET d == divs[n]
             IN  CASE d.kind = "chapter" -> EnterChapter(after[n - 1], d.no)
                   [] d.kind = "section" -> [after[n - 1] EXCEPT !.section = d.no]
                   [] OTHER -> after[n - 1]
  IN  after

\* _parse_article_paragraphs: with no paragraph <div> the body is one.
Paragraphs(div) == IF div.paras = <<>> THEN <<0>> ELSE div.paras

\* The places of the <div>s of a kind, the first ones under a cap (_truncate).
Kept(divs, kind, n) ==
  {i \in DOMAIN divs : /\ divs[i].kind = kind
                       /\ Cardinality({j \in 1..i : divs[j].kind = kind}) <= n}

----------------------------------------------------------------------------
\* build_chunks

Chunk(t, i, para, part) ==
  LET c == IF t.divs[i].kind = "article" THEN Context(t.divs)[i]
                                         ELSE [chapter |-> 0, section |-> 0]
  IN  [kind |-> t.divs[i].kind, no |-> t.divs[i].no, para |-> para,
       chapter |-> c.chapter, section |-> c.section,
       edition |-> t.edition, div |-> i, part |-> part]

\* Mutant: every leaf is named by its position, counted from zero.
PositionFromZero(div, part) == part - 1

\* Its own number, else its position.
ParaNumber(div, part) ==
  IF Paragraphs(div)[part] # 0 THEN Paragraphs(div)[part] ELSE part

\* The parent, and a leaf for each paragraph when there are several.
ArticleChunks(t, i) ==
  LET n == Len(Paragraphs(t.divs[i]))
  IN  <<Chunk(t, i, 0, 0)>> \o
      [part \in 1..(IF n > 1 THEN n ELSE 0) |->
         Chunk(t, i, ParaNumber(t.divs[i], part), part)]

BuildChunks(t, n) ==
  LET articles == Kept(t.divs, "article", n)
      recitals == Kept(t.divs, "recital", n)
  IN  FlattenSeq([i \in DOMAIN t.divs |->
                    IF i \in articles THEN ArticleChunks(t, i) ELSE <<>>]) \o
      FlattenSeq([i \in DOMAIN t.divs |->
                    IF i \in recitals THEN <<Chunk(t, i, 0, 0)>> ELSE <<>>])

ChunkId(c) == <<c.kind, c.no, c.para>>

\* INSERT ... ON CONFLICT (chunk_id) DO UPDATE.
Upserted(table, c) == {r \in table : ChunkId(r) # ChunkId(c)} \cup {c}

----------------------------------------------------------------------------
Init ==
  /\ upstream = [d \in Slugs |-> 1]
  /\ cache = [d \in Slugs |-> Absent]
  /\ rows = [d \in Slugs |-> {}]
  /\ at = "idle" /\ doc = 1 /\ force = FALSE /\ cap \in Caps
  /\ text = Absent /\ todo = <<>> /\ tx = {}
  /\ cut = [d \in Slugs |-> FALSE]
  /\ last = [d \in Slugs |-> [text |-> Absent, cap |-> 0, cut |-> FALSE]]

\* The process is over: an open transaction is rolled back.
Stop ==
  /\ at' = "idle" /\ doc' = 1 /\ force' = FALSE
  /\ text' = Absent /\ todo' = <<>> /\ tx' = {}
  /\ UNCHANGED cap

IngestCorpus(f, n) ==
  /\ at = "idle"
  /\ at' = "fetch" /\ doc' = 1 /\ force' = f /\ cap' = n
  /\ UNCHANGED <<upstream, cache, rows, text, todo, tx, cut, last>>

NextDocument ==
  IF doc < Len(Documents)
    THEN /\ at' = "fetch" /\ doc' = doc + 1
         /\ text' = Absent /\ todo' = <<>> /\ tx' = {}
         /\ UNCHANGED <<force, cap>>
    ELSE Stop

\* Parse, cut, embed; without a chunk nothing is written.
Prepare(t) ==
  IF BuildChunks(t, cap) = <<>>
    THEN NextDocument
    ELSE /\ at' = "upsert" /\ text' = t
         /\ todo' = BuildChunks(t, cap)
         /\ tx' = rows[Current]
         /\ UNCHANGED <<doc, force, cap>>

\* The cached copy is taken as it is.
FromCache ==
  /\ at = "fetch"
  /\ ~force /\ cache[Current] # Absent
  /\ Prepare(cache[Current])
  /\ UNCHANGED <<upstream, cache, rows, cut, last>>

Download ==
  /\ at = "fetch"
  /\ force \/ cache[Current] = Absent
  /\ at' = "write" /\ text' = TextOf(Current, upstream[Current])
  /\ UNCHANGED <<upstream, cache, rows, doc, force, cap, todo, tx, cut, last>>

WriteCache ==
  /\ at = "write"
  /\ cache' = [cache EXCEPT ![Current] = text]
  /\ cut' = [cut EXCEPT ![Current] = FALSE]
  /\ Prepare(text)
  /\ UNCHANGED <<upstream, rows, last>>

\* The first bytes of a text: some <div>s, the last perhaps with fewer of its
\* paragraphs, or none.  The XML parser recovers what is there.
FewerParas(div, k) == [div EXCEPT !.paras = SubSeq(@, 1, k)]

Beginnings(t) ==
  {[t EXCEPT !.divs = SubSeq(@, 1, n)] : n \in 0..Len(t.divs) - 1} \cup
  UNION {{[t EXCEPT !.divs = Append(SubSeq(@, 1, n - 1), FewerParas(t.divs[n], k))] :
            k \in 0..Len(t.divs[n].paras) - 1} : n \in DOMAIN t.divs}

\* The process dies while it writes the cache file.
WriteCut ==
  /\ at = "write"
  /\ \E t \in Beginnings(text) : cache' = [cache EXCEPT ![Current] = t]
  /\ cut' = [cut EXCEPT ![Current] = TRUE]
  /\ Stop
  /\ UNCHANGED <<upstream, rows, last>>

\* Mutant: each statement commits itself.
Autocommitted == [rows EXCEPT ![Current] = Upserted(tx, Head(todo))]

Uncommitted == rows

Upsert ==
  /\ at = "upsert"
  /\ tx' = Upserted(tx, Head(todo))
  /\ rows' = Uncommitted
  /\ todo' = Tail(todo)
  /\ at' = IF Len(todo) = 1 THEN "commit" ELSE "upsert"
  /\ UNCHANGED <<upstream, cache, doc, force, cap, text, cut, last>>

Commit ==
  /\ at = "commit"
  /\ rows' = [rows EXCEPT ![Current] = tx]
  /\ last' = [last EXCEPT ![Current] = [text |-> text, cap |-> cap, cut |-> cut[Current]]]
  /\ NextDocument
  /\ UNCHANGED <<upstream, cache, cut>>

\* A failing request, embedder or database ends the command, as a kill does.
Die ==
  /\ at # "idle"
  /\ Stop
  /\ UNCHANGED <<upstream, cache, rows, cut, last>>

Publish(d) ==
  /\ upstream[d] < Len(Editions[d])
  /\ upstream' = [upstream EXCEPT ![d] = @ + 1]
  /\ UNCHANGED <<cache, rows, command, cut, last>>

Next ==
  \/ \E f \in BOOLEAN, n \in Caps : IngestCorpus(f, n)
  \/ FromCache \/ Download \/ WriteCache \/ WriteCut
  \/ Upsert \/ Commit \/ Die
  \/ \E d \in Slugs : Publish(d)

Spec == Init /\ [][Next]_vars

----------------------------------------------------------------------------
\* One leaf takes the id of another: their article numbers the paragraph of one of
\* them as the other, which has no number, is placed.
Hides(t, r, c) ==
  LET paras == t.divs[c.div].paras
  IN  /\ r.div = c.div /\ r.part # 0 /\ c.part # 0 /\ ChunkId(r) = ChunkId(c)
      /\ (paras[r.part] = 0) # (paras[c.part] = 0)

(***************************************************************************)
(* What retrieval reads of a document, at every moment, while a later      *)
(* command works on it or after that died: every id once; every part of    *)
(* the text committed last, or in its place the one other leaf of that     *)
(* text that may take its id; and whatever else is left there of earlier   *)
(* texts is never newer than that one.  The text committed last is an      *)
(* edition, or the beginning of one if its cache file was cut short        *)
(* (_upsert_chunks, fetch_document_xhtml).                                 *)
(***************************************************************************)
DocumentWhole ==
  \A d \in Slugs :
    LET t      == last[d].text
        chunks == ToSet(BuildChunks(t, last[d].cap))
    IN  /\ \A r, s \in rows[d] : ChunkId(r) = ChunkId(s) => r = s
        /\ \A c \in chunks : c \in rows[d] \/ \E r \in chunks \cap rows[d] : Hides(t, r, c)
        /\ \A r \in rows[d] : r.edition <= t.edition
        /\ t # Absent => \/ t = TextOf(d, t.edition)
                         \/ last[d].cut /\ t \in Beginnings(TextOf(d, t.edition))

(***************************************************************************)
(* docs/case-study.md:76 has it that re-running after a source change is   *)
(* safe: once a run has committed a whole text, retrieval reads that text  *)
(* and nothing of an edition before it.  No row is ever deleted            *)
(* (_upsert_chunks): the ids the new edition dropped keep their old text.  *)
(***************************************************************************)
SafeToRerun ==
  \A d \in Slugs :
    last[d].cap = NoCap /\ ~last[d].cut =>
      \A r \in rows[d] : r.edition = last[d].text.edition

\* The nearest enclosing <div> of a kind, by nesting; 0 for none.
Enclosing(divs, i, kind) ==
  LET up[k \in 0..Len(divs)] ==
        IF k = 0 THEN 0 ELSE IF divs[k].kind = kind THEN divs[k].no ELSE up[divs[k].up]
  IN  up[divs[i].up]

\* What the <div> at i is said to lie in of a kind: what it lies in, and if that is
\* nothing, the last one that was closed before it.
SaidToLieIn(divs, i, kind, no) ==
  \/ no = Enclosing(divs, i, kind)
  \/ /\ Enclosing(divs, i, kind) = 0
     /\ \E j \in 1..i - 1 : /\ divs[j].kind = kind /\ divs[j].no = no
                             /\ \A k \in j + 1..i - 1 : divs[k].kind # kind

(***************************************************************************)
(* Every row says where its article lies, also once editions and cut texts *)
(* lie over one another, although parse_document infers it from order by a *)
(* flat scan: its chapter and its section if it lies in one, and the last  *)
(* one closed before it otherwise, never a section of another chapter; and *)
(* a leaf has its parent's row beside it (_paragraph_chunks).              *)
(***************************************************************************)
ChunksFaithful ==
  \A d \in Slugs : \A r \in rows[d] :
    LET divs == Editions[d][r.edition]
    IN  /\ r.kind = "article" =>
             /\ SaidToLieIn(divs, r.div, "chapter", r.chapter)
             /\ SaidToLieIn(divs, r.div, "section", r.section)
             /\ r.section # 0 => \E j \in 1..r.div - 1 :
                  /\ divs[j].kind = "section" /\ divs[j].no = r.section
                  /\ Enclosing(divs, j, "chapter") = r.chapter
        /\ r.para # 0 => \E p \in rows[d] : p.para = 0 /\ p.kind = r.kind /\ p.no = r.no
=============================================================================
