------------------------------- MODULE MCMarket -------------------------------
\* Two clients query one provider, which has two asks.
EXTENDS Market

CONSTANTS c1, c2, c3

TwoCalls == {c1, c2}
TwoNodes == [c \in TwoCalls |-> c]
ThreeCalls == {c1, c2, c3}
ThreeNodes == [c \in ThreeCalls |-> IF c = c1 THEN c1 ELSE c2]
Cheap == [price |-> 1, interval |-> 2, increase |-> 1]
Dear == [price |-> 2, interval |-> 1, increase |-> 0]
TwoAsks == {Cheap, Dear}
=============================================================================
