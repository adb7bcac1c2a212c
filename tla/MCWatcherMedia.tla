--------------------------- MODULE MCWatcherMedia ---------------------------
(* WatcherMedia for TLC: a broadcaster of this library that leaves the    *)
(* rate open, and another that gives one.                                  *)
EXTENDS WatcherMedia, TLC

Settings(rate) == [width |-> 640, height |-> 360, frameRate |-> rate, audioChannels |-> 2,
                   videoDataRate |-> 850, videoFrameRate |-> 24]
OneOfEach == {[source |-> "own", settings |-> Settings(0)], [source |-> "foreign", settings |-> Settings(25)]}

Symmetry == Permutations(Formats)
=============================================================================
