---------------------------- MODULE MCDiscovery ----------------------------
(* Two seeds of three, two of them tied in weight; 8 is another spelling   *)
(* of 4 with a page of its own, 7 resolves to the page of 5, and 9 is the  *)
(* scrobbler's spelling of 1.  6 is a collaboration of 5.                  *)
EXTENDS Discovery

Entry(n, w, p) == [name |-> n, weight |-> w, plays |-> p]
MCChart ==
    [w \in {"w1", "w2", "year"} |->
        CASE w = "w1" -> [total |-> 4, entries |-> <<Entry(1, 250, 8), Entry(2, 250, 4)>>]
          [] w = "w2" -> [total |-> 6, entries |-> <<Entry(3, 250, 6), Entry(9, 50, 3), Entry(2, 40, 1)>>]
          [] w = "year" -> [total |-> 0, entries |-> <<Entry(2, 300, 9), Entry(1, 200, 3)>>]]
MCClean == <<1, 2, 3, 4, 5, 6, 7, 8, 1>>
MCNorm == <<1, 2, 3, 4, 5, 6, 7, 4, 1>>
MCPage == <<1, 2, 3, 4, 5, 6, 5, 8, 1>>
Artist(l, p, st, tags, parts) ==
    [listeners |-> l, plays |-> p, stickiness |-> st, tags |-> tags, parts |-> parts, nonMusic |-> FALSE]
MCInfo == <<Artist(9, 8, 1, <<1, 2>>, {}), Artist(2, 4, 1, <<2, 1>>, {}), Artist(1, 1, 1, <<3>>, {}),
            Artist(2, 0, 2, <<1, 2>>, {}), Artist(1, 1, 3, <<2>>, {}), Artist(3, 0, 3, <<1, 4>>, {5}),
            Artist(1, 0, 1, << >>, {}), Artist(2, 0, 3, <<2, 1, 3>>, {}), Artist(1, 0, 1, << >>, {})>>
MCUserInfo == [artists |-> 4, scrobbles |-> 6]
MCTopTags == <<<<1, 2>>, <<2, 4, 3>>, <<3>>, << >>, << >>, << >>, << >>, << >>, << >>>>
MCTagTop == <<{4, 1}, {6}, {5}, {}>>
MCSimilar == <<<<4, 5, 2>>, <<8, 5, 7>>, <<6>>, << >>, << >>, << >>, << >>, << >>, << >>>>
MCLbSimilar == <<<<6>>, <<5, 6>>, <<6, 4>>, << >>, << >>, << >>, << >>, << >>, << >>>>
MCRefused == {<<"charts", "w0">>, <<"similar", 3>>}

(* The hypothesis under which the reply is determined holds here.          *)
ASSUME InstanceUnambiguous == Unambiguous
=============================================================================
