---------------------------- MODULE MCController ----------------------------
(***************************************************************************)
(* Instances of Controller: arrays of at most two addresses, with and       *)
(* without one that is listed twice.                                        *)
(***************************************************************************)
EXTENDS Controller

CONSTANTS a1, a2

DistinctLists == {<<>>, <<a1>>, <<a2>>, <<a1, a2>>, <<a2, a1>>}
AllLists      == DistinctLists \union {<<a1, a1>>}
OneOrTwoIds   == {<<>>, <<0>>, <<0, 1>>}
=============================================================================
