------------------------ MODULE MCPositionProtection ------------------------
\* Small instances of PositionProtection for TLC.
EXTENDS PositionProtection

\* R is 20 points, 40 with two steps of volume: 108 is a peak below the arming point,
\* and 112 one past the first step of the ladder, from which a fall to 108 loses
\* enough for the lock of the best profit and not enough for a close.  A restart or a
\* blind query learns the risk again, from the stop it finds, which brings the higher
\* tiers and the full trigger of the lock into reach.
Bids == {95, 100, 108, 112}
ByHand == {102}
Nobody == {}
Tenths == {12}
AllFaults == {"refuse", "reply", "blind"}
NoFaults == {}
=============================================================================
