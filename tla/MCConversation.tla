---------------------------- MODULE MCConversation ----------------------------
EXTENDS ConversationSync

\* A restart of the runtime together with a lost frame; or any two others.
Faults ==
  {{"recycle", "lose"}, {"lose", "repeat", "saturate", "rehydrate", "stale", "close"}}
Restarts == {{"recycle"}}
=============================================================================
