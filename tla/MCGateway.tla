----------------------------- MODULE MCGateway -----------------------------
(***************************************************************************)
(* An instance of Gateway: the default registry's shape with short chains  *)
(* and small token numbers.                                                *)
(***************************************************************************)
EXTENDS Gateway

CONSTANTS c1, c2

Entry(provider, limit) ==
  [provider |-> provider, limit |-> limit, tracked |-> FALSE, soft |-> 0]

Tracked(provider, limit, soft) ==
  [provider |-> provider, limit |-> limit, tracked |-> TRUE, soft |-> soft]

\* Two tiers that share both providers, with other limits and in another
\* order of use; the last provider watches its own daily limit.  Requests of
\* two sizes, one too large to serve and one carrying uploaded content.
MCRequests == {"chat", "think", "huge", "upload"}
MCTierOf   == [r \in MCRequests |-> IF r \in {"chat", "upload"} THEN "fast" ELSE "reason"]
MCEstimateOf == [r \in MCRequests |-> CASE r = "huge"  -> 4
                                        [] r = "think" -> 3
                                        [] OTHER       -> 1]
MCChain ==
  [t \in {"fast", "reason", "local"} |->
     CASE t = "fast"   -> <<Entry("deepseek", 2), Tracked("gemini", 1, 1)>>
       [] t = "reason" -> <<Tracked("gemini", 1, 1), Entry("deepseek", 1)>>
       [] t = "local"  -> <<Entry("ollama", 1)>>]
=============================================================================
