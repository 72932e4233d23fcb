------------------------ MODULE MCConversationManager ------------------------
(* Constants for TLC's run of ConversationManager with two sends. *)
EXTENDS ConversationManager

CONSTANTS s1, s2, conv1, conv2, hello, more

\* Conversations and texts are interchangeable, so what s1 asks can be fixed.
MCInit == Init /\ asked[s1] = [conv |-> conv1, text |-> hello]
MCFairSpec == MCInit /\ [][Next]_vars /\ Fairness
=============================================================================
