---------------------------- MODULE MCFeedIngestion ----------------------------
(* A ladder of two rungs for TLC. *)
EXTENDS FeedIngestion

ShortLadder == <<1, 2>>
=============================================================================
