---------------------------- MODULE MCConversations ----------------------------
(***************************************************************************)
(* Small instances of Conversations for TLC: two transcripts for the sweep *)
(* to choose between, and two requests that overlap on one.                *)
(***************************************************************************)
EXTENDS Conversations, TLC

RequestSymmetry == Permutations(Requests)
=============================================================================
