--------------------------- MODULE MCEngineControl ---------------------------
\* Small instances of EngineControl for TLC.
EXTENDS EngineControl

CONSTANTS first, second

TwoLoops == {first, second}
=============================================================================
