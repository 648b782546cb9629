---------------------------- MODULE MCPostsView ----------------------------
(***************************************************************************)
(* Instance of PostsView for TLC: the list and up to three taps, enough    *)
(* for a dismissal to be overtaken by a show that is itself dismissed.     *)
(***************************************************************************)
EXTENDS PostsView

=============================================================================
