------------------------------ MODULE MCTracks ------------------------------
\* Two seed artists, one of them under two spellings; two artists are
\* similar to them, one of whose tracks is known and one too popular.
EXTENDS Tracks

MCNorm == [a \in {"ann", "anna", "bob", "cy", "dee"} |->
    IF a \in {"ann", "anna"} THEN "ann" ELSE a]
MCWindows == {"week", "all"}
Entry(a, t, w) == [track |-> <<a, t>>, weight |-> w]
MCChart == [w \in MCWindows |->
    IF w = "week" THEN <<Entry("ann", "t1", 300), Entry("bob", "t1", 100)>>
    ELSE <<Entry("anna", "t2", 200), Entry("ann", "t1", 50)>>]
MCSimilar == [a \in DOMAIN MCNorm |->
    CASE a = "ann" -> <<"cy", "bob">> [] a = "bob" -> <<"dee", "cy">> [] OTHER -> << >>]
MCTopTracks == [a \in DOMAIN MCNorm |-> IF a \in {"cy", "dee"} THEN {"t1", "t2"} ELSE {}]
MCArtistTags == [a \in DOMAIN MCNorm |-> IF a = "dee" THEN <<"rock">> ELSE <<"folk", "rock">>]
Track(p, l, s, tags) == [plays |-> p, listeners |-> l, stickiness |-> s, tags |-> tags]
MCInfo == [c \in (DOMAIN MCNorm) \X {"t1", "t2"} |->
    CASE c = <<"cy", "t1">> -> Track(0, 1, 3, <<"jazz">>)
      [] c = <<"cy", "t2">> -> Track(2, 1, 3, << >>)
      [] c = <<"dee", "t1">> -> Track(0, 2, 5, << >>)
      [] c = <<"dee", "t2">> -> Track(0, 9, 5, << >>)
      [] OTHER -> NoTrack]
=============================================================================
