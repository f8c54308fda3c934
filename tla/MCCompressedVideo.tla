------------------------- MODULE MCCompressedVideo -------------------------
(***************************************************************************)
(* Bitstreams and setups for CompressedVideo: what can be opened, with the *)
(* combinations of file reader and decoder the code chooses from.          *)
(***************************************************************************)
EXTENDS CompressedVideo

\* Two groups of pictures. In the open one pictures of the second group are
\* coded after its random access point and displayed before it.
Closed == [coding |-> <<0, 2, 1, 3, 5, 4>>, random |-> {0, 3}, delay |-> 1]
Open == [coding |-> <<0, 2, 1, 4, 3, 5>>, random |-> {0, 4}, delay |-> 1]
Plain == [coding |-> <<0, 1, 2, 3, 4>>, random |-> {0, 2}, delay |-> 0]
Both == Thread
Shown == {"loading"}

Opened(format, engines, stream, threads) ==
    [format |-> format, engines |-> engines, coding |-> stream.coding, random |-> stream.random,
     delay |-> stream.delay, lost |-> {}, threads |-> threads, statistics |-> FALSE, faults |-> 0]
Failing(s, n) == [s EXCEPT !.faults = n]
Cut(s, frames) == [s EXCEPT !.lost = frames]
Analysed(s) == [s EXCEPT !.statistics = TRUE]

MCSetups == {
    Opened("AnnexB", {"Libde265"}, Open, Both),
    Opened("AnnexB", {"VVDec"}, Open, Both),
    Opened("AnnexB", {"VVDec", "VTM"}, Closed, Shown),
    Failing(Opened("AnnexB", {"Libde265"}, Closed, Shown), 2),
    Failing(Opened("AnnexB", {"VTM"}, Closed, Shown), 1),
    Cut(Opened("AnnexB", {"VVDec"}, Plain, Shown), {4}),
    Cut(Opened("AnnexB", {"Libde265"}, Plain, Shown), {4}),
    Analysed(Opened("AnnexB", {"Libde265"}, Closed, Shown)),
    Opened("AnnexB", {"HM"}, Plain, Shown),
    Opened("AnnexB", {"FFMpeg", "VTM"}, Closed, Shown),
    Analysed(Opened("FFmpeg", {"FFMpeg"}, Closed, Shown)),
    Failing(Opened("FFmpeg", {"FFMpeg"}, Plain, Shown), 1),
    Opened("FFmpeg", {"Libde265"}, Closed, Shown),
    Opened("FFmpeg", {"VVDec"}, Closed, Shown),
    Opened("FFmpeg", {"Dav1d"}, Plain, Shown)}

\* Every stream here is one that the frame counting of the item can follow.
ASSUME SetupsCountable == \A s \in MCSetups : Countable(s)

\* One decoder with caching, and the cache may ask for a frame again.
MCCachingSetups == {Opened("AnnexB", {"Libde265"}, Plain, Both)}

\* What ServiceAssumption excludes: each of these setups breaks ServesFrames.
LongOpen == [coding |-> <<0, 2, 1, 4, 3, 6, 5, 7>>, random |-> {0, 4}, delay |-> 1]
RepushSharing == {Opened("AnnexB", {"HM"}, Plain, Both), Opened("FFmpeg", {"FFMpeg"}, Plain, Both)}
CounterSharing == {Opened("AnnexB", {"FFMpeg"}, Plain, Both)}
Undecodable == {Cut(Opened("AnnexB", {"Libde265"}, Plain, Both), {4}),
                Failing(Opened("AnnexB", {"Libde265"}, Plain, Both), 1),
                Opened("FFmpeg", {"Libde265"}, Plain, Both)}
StatisticsWhileCaching == {Analysed(Opened("AnnexB", {"Libde265"}, Closed, Both))}
StatisticsAndFailure == {Failing(Analysed(Opened("FFmpeg", {"FFMpeg"}, Closed, Shown)), 1)}
SeekInDisplayOrder == {Opened("FFmpeg", {"VVDec"}, Open, Shown),
                       Opened("AnnexB", {"FFMpeg"}, LongOpen, Shown)}
BufferKept == {Opened("AnnexB", {"HM"}, Closed, Shown)}
LostInTheMiddle == {Cut(Opened("AnnexB", {"VVDec"}, Plain, Shown), {3})}

MCSeekThreshold == 2
=============================================================================
