---------------------------- MODULE MCOutboxRelay ----------------------------
(***************************************************************************)
(* Small instances of OutboxRelay, with chunks of three words that overlap *)
(* by one.  The first thread has one chunk, two after one post, and after  *)
(* another post three of which two are equal.  Twins are threads with the  *)
(* same text.                                                              *)
(***************************************************************************)
EXTENDS OutboxRelay

CONSTANTS w1, w2

MCOneThread ==
  [i \in {1} \X (0 .. MaxPosts) |->
     CASE i[2] = 0 -> <<"a", "b", "c">>
       [] i[2] = 1 -> <<"a", "b", "a", "c">>
       [] OTHER -> <<"a", "b", "a", "b", "a", "c">>]
MCTwins == [i \in IndexEvents \X (0 .. MaxPosts) |-> <<"a", "b", "c">>]
=============================================================================
