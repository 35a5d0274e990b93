----------------------------- MODULE WebChatMC -----------------------------
EXTENDS WebChat
CONSTANTS c1, c2, c3, ann, bob
\* Ann sends two messages, Bob one.
MCPersonOf == [c \in Chats |-> IF c = c3 THEN bob ELSE ann]
=============================================================================
