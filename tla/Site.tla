-------------------------------- MODULE Site --------------------------------
(***************************************************************************)
(* The parts of the web site that share no state: the portal, the library, *)
(* the API keys, and what is shown, compared or built on a page.  Each may *)
(* step whenever it likes.                                                 *)
(***************************************************************************)
EXTENDS Portal, WatchedLibrary, ApiKeys, Rendering, Comparison, QueryBuilder

SiteSpec ==
    /\ Spec /\ WatchedSpec /\ KeysSpec
    /\ RenderingSpec /\ ComparisonSpec /\ BuilderSpec

SiteTypeOK ==
    /\ TypeOK /\ LibraryTypeOK /\ KeysTypeOK
    /\ RenderingTypeOK /\ BuilderTypeOK
=============================================================================
