------------------------------ MODULE MCOtinish ------------------------------
EXTENDS Otinish, TLC
CONSTANTS u1, u2, u3, h1, h2

\* Members of the ministry chat who cannot link an account differ in nothing.
RaceSymmetry ==
    {p @@ q : p \in Permutations(Handlers), q \in Permutations(Inbox \ Students)}
==============================================================================
