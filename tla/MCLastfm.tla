------------------------------ MODULE MCLastfm ------------------------------
(* One key of the owner, two posts of which the second may repeat the key  *)
(* of the first, and two requests for different pages.                     *)
EXTENDS Lastfm
CONSTANTS k1, k2, k3, p1, p2, c1, c2, a, b
MCOwner == <<k1>>
MCOffers == [p \in Posts |-> IF p = p1 THEN {k2} ELSE {k2, k3}]
MCFetcher == [c \in Calls |-> "page"]
MCLogin == [c \in Calls |-> "session"]
MCAsks == [c \in Calls |-> IF c = c1 THEN {a} ELSE {a, b}]
=============================================================================
