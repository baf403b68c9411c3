---------------------------- MODULE MCBrowserTab ----------------------------
(***************************************************************************)
(* BrowserTab for every page, form and desk, with two requests of a kind   *)
(* in flight, two filters, two page numbers, two records and two orders;   *)
(* three acts and two writes on a page, three openings of a form and two   *)
(* texts or choices, five clicks at a desk; every page of the application, *)
(* for each of six users.                                                  *)
(***************************************************************************)
EXTENDS BrowserTab, TLC

=============================================================================
