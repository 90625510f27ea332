----------------------------- MODULE MCLlmCache -----------------------------
EXTENDS LlmCache, TLC

\* Two tasks, two keys, two completions.

CONSTANTS t1, t2, k1, k2, x1, x2

MCTasks == {t1, t2}
MCKeys == {k1, k2}
MCTexts == {x1, x2}

\* Tasks, keys and completions are interchangeable.
Interchange ==
  Permutations(MCTasks) \cup Permutations(MCKeys) \cup Permutations(MCTexts)
=============================================================================
