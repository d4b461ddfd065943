------------------------------- MODULE Common -------------------------------
(***************************************************************************)
(* What Library, Portal and ApiKeys have in common: the users table, of    *)
(* which they need no more than who there is, the requests that are served *)
(* at a time, and the value of a row or column that has none.              *)
(***************************************************************************)
CONSTANTS Requests, Users, None
=============================================================================
