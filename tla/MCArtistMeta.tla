---------------------------- MODULE MCArtistMeta ----------------------------
(* Two spellings of one artist and a second artist.                        *)
EXTENDS ArtistMeta, TLC

CONSTANTS a1, a2, b1, ka, kb, p1

MCNameKey == (a1 :> ka) @@ (a2 :> ka) @@ (b1 :> kb)
MCAsks == [c \in Pollers \cup Vetoes |-> IF c = p1 THEN {a1, b1} ELSE {a2, b1}]
MCFacts == (ka :> {TRUE}) @@ (kb :> {FALSE})
=============================================================================
