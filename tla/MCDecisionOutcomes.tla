------------------------- MODULE MCDecisionOutcomes -------------------------
\* Small instances of DecisionOutcomes for TLC.
EXTENDS DecisionOutcomes, TLC

CONSTANTS d1

OneDecision == {d1}
=============================================================================
