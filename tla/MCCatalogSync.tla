---------------------------- MODULE MCCatalogSync ----------------------------
EXTENDS CatalogSync, TLC
CONSTANTS c1, c2, s1, s2, h1, h2, h3
Symmetry == Permutations(Handlers) \cup Permutations(Courses) \cup Permutations(Subscriptions)
==============================================================================
