---- MODULE MCTabletPages ----
EXTENDS TabletPages

Canvas(g, k, n) == [gs |-> g, kind |-> k, id |-> n]
Button(g, k, n) == [gs |-> g, name |-> k, id |-> n]

\* One tablet with a Music page, whose root may be loaded anew before the old
\* one is unloaded, and the bare root of another tablet.
MCCanvases == {Canvas("g1", "root", 1), Canvas("g1", "root", 2), Canvas("g1", "music", 1),
               Canvas("g2", "root", 1)}
MCButtons == {Button("g1", "content", 1), Button("g1", "music", 1)}
\* One finger opens the Music and the Tools page of the first tablet.
MCKeys == {<<"g1", "left", "MUSIC_TAB">>, <<"g1", "left", "TAB">>}
====
