---------------------------- MODULE MCCourseSync ----------------------------
EXTENDS CourseSync, TLC
CONSTANTS a, b, c, h1, h2

Plain == {<<a>>, <<b>>}
\* Only b is taught in the current term.
PlainCatalog == <<{<<b>>}, {}, Plain>>
PlainSchedule == Plain \cup {<<a, b>>, <<c>>}

\* "a/b" is one course of the catalog
CrossListed == {<<a, b>>, <<c>>}
CrossListedCatalog == <<CrossListed, {}, CrossListed>>

Symmetry == Permutations(Requests)
==============================================================================
