------------------------------- MODULE MCMapPage -----------------------------
(***************************************************************************)
(* A small instance of the parts of the map pages.                         *)
(***************************************************************************)
EXTENDS MapPage, FiniteSetsExt, TLC

CONSTANTS bukhara, navoi, chust, chust0, nowhere

\* A crossing of at most three steps and three points, on a street that is one
\* longer.
MCRule == "crossing" :> [min_m |-> 1, max_m |-> 3, max_points |-> 3]
\* The centre of a town, and a desert that is nearest to another city.
MCNearestCity == "town" :> bukhara @@ "desert" :> navoi
\* A point without photos, and a line with two, seen as a whole from "near2".
MCViewOfLine == "p2" :> "near2"
MCPhotosOf == "p1" :> 0 @@ "p2" :> 2
\* Two images with a picture in common and one without.
MCPictureOf == "i1" :> "s1" @@ "i2" :> "s1" @@ "i3" :> None
\* Texts with two results, with one that is a mahalla, and with none.
MCResultsOf == "choyxona" :> <<"choyxona", "mahalla">>
            @@ "mahalla" :> <<"mahalla">> @@ "qalampir" :> <<>>
\* Canvases as wide as two menus and narrower than one, clicked at the edges.
MCSizes == {<<100, 90>>, <<48, 82>>}
MCClicks(s) == {0, s[1] - 37, s[1] - 20} \X {s[2] - 33, s[2] - 20, s[2]}
\* A city, another way to write it, and what is not a city.
MCCityOf == chust :> chust @@ chust0 :> chust @@ nowhere :> None

\* Counting the metres of a line adds up its stretches.
ASSUME MetresAddUp ==
    \A n \in 0 .. 3 : \A l \in [1 .. n -> 0 .. MaxPlace] :
        Form!pathLengthMeters(l) =
            SumFunction([i \in 2 .. n |-> Form!metersBetween(l[i - 1], l[i])])
=============================================================================
