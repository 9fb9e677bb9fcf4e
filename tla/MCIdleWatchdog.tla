--------------------------- MODULE MCIdleWatchdog ---------------------------
EXTENDS IdleWatchdog
=============================================================================
