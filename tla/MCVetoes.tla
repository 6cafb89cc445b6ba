------------------------------ MODULE MCVetoes ------------------------------
\* A small instance of Vetoes: both discoveries rank a star that Deezer
\* knows and a duo with a famous member; "first" also ranks a name with a
\* second page.
EXTENDS Vetoes

MCNames == {"star", "duo", "famous", "friends", "split", "other"}
MCRanked == [d \in {"first", "second"} |->
    IF d = "first" THEN <<"duo", "split", "star">> ELSE <<"star", "duo">>]
MCFans == [n \in MCNames |-> CASE n = "star" -> 9 [] n = "duo" -> 1 [] OTHER -> NoFans]

Artist(name, listeners, tags, mbid) ==
    [name |-> name, listeners |-> listeners, tags |-> tags, mbid |-> mbid]

MCOwn == [n \in MCNames |->
    IF n = "split" THEN Artist(n, 2, {"indie"}, "m1") ELSE Artist(n, 2, {"indie"}, NoMbid)]
MCCredited == [n \in MCNames |-> IF n = "duo" THEN {"famous", "friends"} ELSE {}]
MCAliases == [n \in MCNames |-> IF n = "split" THEN {"other", "split"} ELSE {}]
MCPage == [k \in MCNames \X BOOLEAN |->
    CASE k[1] = "famous" -> Artist("famous", 9, {"indie"}, NoMbid)
      [] k[1] = "other" -> Artist("other", 3, {}, "m1")
      [] OTHER -> NoPage]
=============================================================================
