---------------------------- MODULE MCChatStore -----------------------------
(***************************************************************************)
(* Two conversations, each of which may have had a turn, and one request.  *)
(***************************************************************************)
EXTENDS ChatStore, TLC

CONSTANTS c1, c2, t1

\* Of a conversation whose deletion was crossed nothing is said any more.
NotAllCrossed == crossed # Sessions

Swap == Permutations(Sessions)
=============================================================================
