-------------------------- MODULE MCSessionRestart --------------------------
\* Small instances of SessionRestart for TLC.
EXTENDS SessionRestart, TLC
=============================================================================
