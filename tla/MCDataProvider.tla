--------------------------- MODULE MCDataProvider ---------------------------
(***************************************************************************)
(* Instance of DataProvider for TLC: two posts of one author.  The ids of  *)
(* users and posts overlap, as the integers of the app do.                 *)
(***************************************************************************)
EXTENDS DataProvider

MCAuthor == [p \in PostIds |-> "1"]
MCPostsOf == [l \in CommentLists |->
                CASE l = "of 1" -> <<"1">> [] l = "of 2" -> <<"2">>
                  [] l = "of 1 and 2" -> <<"1", "2">>]

=============================================================================
