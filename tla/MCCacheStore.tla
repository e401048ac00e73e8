---------------------------- MODULE MCCacheStore ----------------------------
EXTENDS CacheStore, TLC

\* Put tasks and get calls are interchangeable, and so are the keys other than
\* the one that Blank picks.
Symmetry ==
  Permutations(Stores) \cup Permutations(Gets) \cup Permutations(Keys \ {Blank.key})
=============================================================================
