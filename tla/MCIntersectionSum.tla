------------------------- MODULE MCIntersectionSum -------------------------
(***************************************************************************)
(* Instances of IntersectionSum for TLC.  The sets of the clients are      *)
(* chosen so that one shares every identifier of the server (a partial     *)
(* result is visible), one shares some and one shares none.                *)
(***************************************************************************)
EXTENDS IntersectionSum, TLC

CONSTANTS c1, c2, c3, ada, ruby, eve

MCIds == {ada, ruby, eve}
MCServerIds == {ada, ruby}

\* Three clients: all of the server's set, part of it, nothing of it.
MCClientIds3 == c1 :> {ada, ruby} @@ c2 :> {ruby, eve} @@ c3 :> {eve}

\* Two clients: all of the server's set, part of it.
MCClientIds2 == c1 :> {ada, ruby} @@ c2 :> {ruby, eve}

\* For overlapping handlers: one shared identifier, one that is not shared.
MCClientIdsOverlap == c1 :> {ada} @@ c2 :> {eve}
=============================================================================
