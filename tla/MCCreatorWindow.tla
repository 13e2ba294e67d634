-------------------------- MODULE MCCreatorWindow --------------------------
(* Model checking CreatorWindow.                                           *)
EXTENDS CreatorWindow
=============================================================================
