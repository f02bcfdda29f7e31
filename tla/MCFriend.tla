------------------------------ MODULE MCFriend ------------------------------
(* For the run of module Friend: two users, one password and two           *)
(* descriptors give a pair of users in both orders, each user with himself *)
(* and every presence.                                                     *)
EXTENDS Friend
=============================================================================
