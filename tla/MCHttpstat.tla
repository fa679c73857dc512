----------------------------- MODULE MCHttpstat -----------------------------
(***************************************************************************)
(* Instance of Httpstat for TLC; the bound on redirects is given by the    *)
(* configuration.                                                          *)
(***************************************************************************)
EXTENDS Httpstat
=============================================================================
