---------------------------- MODULE MCChatSession ----------------------------
(***************************************************************************)
(* Small instances of ChatSession for TLC.                                 *)
(***************************************************************************)
EXTENDS ChatSession, TLC

\* Conversations are interchangeable (safety runs only).
Symmetry == Permutations(Conversation)
=============================================================================
