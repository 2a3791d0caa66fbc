---------------------------- MODULE MCCreatorWizard ----------------------------
(* One name, and two wizards, opened on the same visit of the page or on two. *)
EXTENDS CreatorWizard
=============================================================================
