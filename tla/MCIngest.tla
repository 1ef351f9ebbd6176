------------------------------ MODULE MCIngest ------------------------------
(* Two documents.  The second edition of the first drops the recital and a  *)
(* chapter, inserts a paragraph without a number into one article and       *)
(* leaves the other, which now follows the section of its chapter, without  *)
(* any.  The second document has one article.                               *)
EXTENDS Ingest

Div(kind, no, up, paras) == [kind |-> kind, no |-> no, up |-> up, paras |-> paras]

MCDocuments == <<"eu_ai_act", "gdpr">>
MCEditions  == [d \in {"eu_ai_act", "gdpr"} |->
  IF d = "gdpr"
    THEN << <<Div("chapter", 1, 0, <<>>), Div("article", 1, 1, <<>>)>> >>
    ELSE << <<Div("recital", 1, 0, <<>>),
              Div("chapter", 1, 0, <<>>), Div("section", 1, 2, <<>>),
              Div("article", 1, 3, <<1, 2>>),
              Div("chapter", 2, 0, <<>>), Div("article", 2, 5, <<0, 0>>)>>,
            <<Div("chapter", 1, 0, <<>>), Div("section", 1, 1, <<>>),
              Div("article", 1, 2, <<1, 0, 2>>), Div("article", 2, 1, <<>>)>> >>]
MCCaps == {1, NoCap}

\* For a re-run after a source change: the second edition has no recital.
MCChanged  == [d \in {"gdpr"} |->
  << <<Div("recital", 1, 0, <<>>), Div("article", 1, 0, <<>>)>>,
     <<Div("article", 1, 0, <<>>)>> >>]
MCOne      == <<"gdpr">>
MCUncapped == {NoCap}
=============================================================================
