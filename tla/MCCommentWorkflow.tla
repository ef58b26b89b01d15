-------------------------- MODULE MCCommentWorkflow --------------------------
(***************************************************************************)
(* Small instances of CommentWorkflow: see the .cfg files.  Pages of two   *)
(* comments and two attempts stand for pages of a hundred and three.       *)
(***************************************************************************)
EXTENDS CommentWorkflow
=============================================================================
