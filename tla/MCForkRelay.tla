---------------------------- MODULE MCForkRelay ----------------------------
EXTENDS ForkRelay
=============================================================================
