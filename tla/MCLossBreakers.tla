--------------------------- MODULE MCLossBreakers ---------------------------
\* Small instances of LossBreakers for TLC.
EXTENDS LossBreakers

\* With budgets of 10% and 15%: 100 to 95 spends neither, 100 to 85 the day's only,
\* 85 to 82 the day's budget of a day that opened at 85 not, the week's from 100.
Levels == {82, 85, 95, 100}
TwoLevels == {85, 100}
=============================================================================
