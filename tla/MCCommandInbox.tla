---------------------------- MODULE MCCommandInbox ----------------------------
EXTENDS CommandInbox

Ids == Permutations(Command)
=============================================================================
