------------------------------ MODULE MCRetrieval ------------------------------
(* The configurations on which TLC checks retrieval. *)
EXTENDS RetrievalProperties

Lexical == [key |-> <<"a">>, enabled |-> TRUE, hasQuery |-> TRUE, hasFallback |-> FALSE,
            maxRetries |-> 1, minMatches |-> 1, minScore |-> 1, failOnError |-> TRUE]
Dense   == [Lexical EXCEPT !.key = <<"b">>, !.hasFallback = TRUE, !.maxRetries = 0,
               !.minMatches = 2, !.failOnError = FALSE]
Again   == [Lexical EXCEPT !.maxRetries = 0, !.minScore = 2]

Base == [byNode |-> FALSE, strategy |-> "single", speculative |-> FALSE, failOnError |-> TRUE,
         failOnEmpty |-> FALSE, minMatches |-> 1, topK |-> 2, preferred |-> <<"a", 2>>,
         retrievers |-> <<Lexical, Dense>>]

\* Every strategy, side by side or in turn, failing or not, with two retrievers; a
\* third one with a key that was seen; one without a query; a disabled one.
Some(strategies) ==
    {[Base EXCEPT !.strategy = s, !.speculative = p, !.failOnError = f] :
        s \in strategies, p \in BOOLEAN, f \in BOOLEAN}

Odd ==
    {[Base EXCEPT !.strategy = "merge", !.speculative = TRUE,
         !.retrievers = <<Lexical, Dense, Again>>],
     [Base EXCEPT !.strategy = "adaptive", !.retrievers = <<Dense, Lexical, Again>>,
         !.preferred = <<"a">>],
     [Base EXCEPT !.strategy = "first-non-empty", !.speculative = TRUE,
         !.retrievers = <<Dense, Lexical>>],
     [Base EXCEPT !.strategy = "merge", !.failOnError = FALSE,
         !.retrievers = <<[Dense EXCEPT !.hasQuery = FALSE], Lexical>>],
     [Base EXCEPT !.retrievers = <<[Lexical EXCEPT !.hasQuery = FALSE],
                                   [Again EXCEPT !.enabled = FALSE]>>]}

ByNode ==
    {[Base EXCEPT !.byNode = TRUE, !.strategy = s, !.failOnError = f, !.failOnEmpty = ~f,
         !.preferred = <<"b">>] : s \in Strategies, f \in BOOLEAN}

AllConfigs == Some(Strategies) \union Odd \union ByNode

TwoChunks == {<<>>, <<[chunk |-> 1, score |-> 1]>>,
              <<[chunk |-> 1, score |-> 2], [chunk |-> 2, score |-> 1]>>}
==============================================================================
