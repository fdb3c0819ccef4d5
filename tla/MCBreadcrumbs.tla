---------------------------- MODULE MCBreadcrumbs ----------------------------
(* Model-checking instances of Breadcrumbs, one per cfg. *)
EXTENDS Breadcrumbs
=============================================================================
