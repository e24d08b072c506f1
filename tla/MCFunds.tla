------------------------------- MODULE MCFunds -------------------------------
\* One pair of addresses; a caller may ask for nothing.
EXTENDS PaychFunds

CONSTANTS r1, r2, r3

Two == {r1, r2}
TwoAmounts == [r \in Two |-> IF r = r1 THEN 1 ELSE 2]
Three == {r1, r2, r3}
ThreeAmounts == [r \in Three |-> CASE r = r1 -> 1 [] r = r2 -> 2 [] r = r3 -> 0]
=============================================================================
