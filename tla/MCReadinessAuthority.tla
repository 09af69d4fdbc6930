------------------------ MODULE MCReadinessAuthority ------------------------
EXTENDS ReadinessAuthority

\* A critical, single-valued requirement and one that is not critical.
MCRequirements ==
    <<[critical |-> TRUE, review |-> FALSE, single |-> TRUE, accepts |-> {"OBSERVED"}],
      [critical |-> FALSE, review |-> FALSE, single |-> FALSE, accepts |-> {"OBSERVED"}]>>

Observed(r, v, from, to) ==
    [requirement |-> r, value |-> v, provenance |-> "OBSERVED", onBase |-> TRUE,
     captured |-> from, until |-> to]

\* Evidence of the first that expires, and evidence of the second from a clock that
\* is ahead, which makes the whole set invalid until the others catch up.
MCSignals ==
    {Observed(1, "a", 0, 2), Observed(2, "a", 1, MaxTime + 1)}
=============================================================================
