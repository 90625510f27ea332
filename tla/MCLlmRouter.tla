---------------------------- MODULE MCLlmRouter ----------------------------
EXTENDS LlmRouter

CONSTANTS d1, d2, d3, A, B, C, x, y, req

MCRank == [z \in {x, y} |-> IF z = x THEN 1 ELSE 2]

Sequential(strategy, list) ==
  [strategy |-> strategy, preferred |-> list, n |-> 0, request |-> req,
   max_attempts |-> 2]
Consensus(list, n) ==
  [strategy |-> "consensus", preferred |-> list, n |-> n, request |-> req,
   max_attempts |-> 1]

\* Either two dispatches of one request walk the same two entries, one by
\* quality, one by latency, with no fault of the system or of the ledger; or
\* one consensus over the first three of four entries, one of them repeated.
MCRoutes == [d \in {d1, d2, d3} |->
  CASE d = d1 -> Sequential("quality", <<A, B>>)
    [] d = d2 -> Sequential("latency", <<A, B>>)
    [] d = d3 -> Consensus(<<A, B, A, C>>, 3)]
MCScenarios == {{d1, d2}, {d3}}
=============================================================================
