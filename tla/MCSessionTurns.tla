---------------------------- MODULE MCSessionTurns ----------------------------
\* Two turns on a session, of up to two rounds of tools and of one; a model asks for
\* one call or for two.
EXTENDS SessionTurns

CONSTANTS r1, r2, c1, c2

MCRunIds == {r1, r2}
MCCallSets == {{c1}, {c1, c2}}
MCMaxRounds == [r \in MCRunIds |-> IF r = r1 THEN 2 ELSE 1]
=============================================================================
