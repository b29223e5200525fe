--------------------------- MODULE MCForkRemoteApp ---------------------------
EXTENDS ForkRemoteApp
=============================================================================
