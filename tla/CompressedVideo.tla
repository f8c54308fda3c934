--------------------------- MODULE CompressedVideo ---------------------------
(***************************************************************************)
(* playlistItemCompressedVideo: how a frame of a compressed file gets      *)
(* decoded. The item has two decoders and two open files, one for the      *)
(* frames that are shown ("loading") and one for the cache ("caching").    *)
(* loadRawData decides whether to seek, pushes data and takes pictures     *)
(* until the picture of the requested frame comes, and hands it to the     *)
(* video handler in one buffer, rawData, which both threads share. A       *)
(* picture is not addressed: the item counts the pictures that come out    *)
(* since the last seek, and trusts the count.                              *)
(*                                                                         *)
(* A setup says what was opened: the pictures of the file in coding order, *)
(* given by their position in display order, and how it is decoded.        *)
(***************************************************************************)
EXTENDS Decoder, Sequences

CONSTANTS Setup,            \* what can be opened
          SeekThreshold,    \* FORWARD_SEEK_THRESHOLD
          SignalWhileLoading, \* the displayed signal may change during a request
          CachesAgain       \* the cache may ask for the frame it got last again

Thread == {"loading", "caching"}
NoFrame == NoPicture

ASSUME CompressedAssumption ==
    /\ SeekThreshold \in Nat
    /\ {SignalWhileLoading, CachesAgain} \subseteq BOOLEAN
    /\ \A s \in Setup :
        /\ s.format \in {"AnnexB", "FFmpeg"}    \* who reads the file
        /\ s.engines \subseteq Engine           \* possibleDecoders
        /\ s.coding \in Seq(Nat)                \* the pictures in coding order
        /\ s.random \subseteq Nat               \* random access points
        /\ s.lost \subseteq Nat                 \* pictures that cannot be decoded
        /\ s.delay \in Nat                      \* pictures the library holds back
        /\ s.threads \subseteq Thread           \* caching is enabled or not
        /\ s.statistics \in BOOLEAN             \* statistics are shown
        /\ s.faults \in Nat                     \* how often a decoder may fail

\* What a stream is. Its first picture is the first to be displayed, and random
\* access starts there. Every position in display order is that of one picture.
\* A random access picture is displayed after all that are coded before it. Of
\* the pictures coded before another one at most `delay' are displayed after it.
ASSUME StreamAssumption ==
    \A s \in Setup :
        LET n == Len(s.coding)
            Coding == 1..n
        IN  /\ n > 0 /\ s.coding[1] = 0 /\ 0 \in s.random
            /\ \A i \in Coding : s.coding[i] < n
            /\ \A poc \in 0..(n - 1) : \E i \in Coding : s.coding[i] = poc
            /\ \A i, j \in Coding : i # j => s.coding[i] # s.coding[j]
            /\ \A i, j \in Coding :
                i < j /\ s.coding[j] \in s.random => s.coding[i] < s.coding[j]
            /\ \A j \in Coding :
                Cardinality({i \in Coding : i < j /\ s.coding[i] > s.coding[j]}) <= s.delay
            /\ "loading" \in s.threads

VARIABLES setup,
          engine,           \* decoderEngine
          dec,              \* loadingDecoder and cachingDecoder
          file,             \* the input file of each: the next unit, the last one
          item,             \* the members both threads use, see Fresh
          call,             \* the request each thread is working on
          answer,           \* ghost: the last request of each and the picture it got
          faults            \* ghost: failures of decoders left

vars == <<setup, engine, dec, file, item, call, answer, faults>>

Length(s) == Len(s.coding)
N == Length(setup)
AnnexB == setup.format = "AnnexB"
Unit(i) == Coded(setup.coding[i + 1], setup.coding[i + 1] \in setup.random,
                 setup.coding[i + 1] \in setup.lost)

\* The position of a picture in coding order.
CodingIndex(poc) == (CHOOSE i \in 1..N : setup.coding[i] = poc) - 1

\* startEndRange.second: getDecodableFrameLimits counts one frame too many.
LastFrame == IF AnnexB THEN N - 1 ELSE N

Nothing == [frame |-> NoFrame, picture |-> NoPicture]
Idle == [kind |-> "none", frame |-> NoFrame, pc |-> "idle", copy |-> NoPicture]
Fresh == [current |-> [c \in Thread |-> NoFrame], \* currentFrameIdx
          repush |-> FALSE,         \* repushData
          notAfter |-> NoFrame,     \* decodingNotPossibleAfter
          counter |-> -1,           \* readAnnexBFrameCounterCodingOrder
          raw |-> NoPicture, rawIndex |-> NoFrame, \* rawData, rawData_frameIndex
          loaded |-> NoFrame,       \* currentFrameRawData_frameIndex
          statistics |-> FALSE,     \* the loading decoder retrieves statistics
          statFrame |-> NoFrame,    \* the frame index of statisticsData
          enabled |-> TRUE]         \* decodingEnabled
-----------------------------------------------------------------------------
(* Reading. `again' asks for the unit that was returned last.              *)

\* getNextNALUnit; getNextPacket and getNextUnit, which keep the last unit at
\* the end of the file.
AtEnd(f) == f.pos >= N
Read_PastTheEnd(f, again) ==
    IF again THEN f
    ELSE [pos |-> f.pos + 1, last |-> IF AtEnd(f) THEN EmptyData ELSE Unit(f.pos)]
Data(f, again) == IF again THEN f.last ELSE IF AtEnd(f) THEN EmptyData ELSE Unit(f.pos)
Read(f, again) ==
    IF again THEN f
    ELSE IF ~AtEnd(f) THEN [pos |-> f.pos + 1, last |-> Unit(f.pos)]
    ELSE IF AnnexB THEN [f EXCEPT !.last = EmptyData] ELSE f

\* getClosestSeekPoint: the last random access point that is coded before the
\* target and displayed before it, as a position in display order.
ClosestSeekPoint(target) ==
    LET before == {i \in 0..CodingIndex(target) :
                     setup.coding[i + 1] \in setup.random /\ setup.coding[i + 1] < target}
        best == IF before = {} THEN 0 ELSE CHOOSE i \in before : \A j \in before : j <= i
    IN  setup.coding[best + 1]

\* getClosestSeekableFrameBefore: the last key frame not after the target, as
\* a position in coding order.
ClosestSeekableFrameBefore(target) ==
    LET before == {i \in 0..(N - 1) : setup.coding[i + 1] \in setup.random /\ i <= target}
    IN  IF before = {} \/ target = 0 THEN 0 ELSE CHOOSE i \in before : \A j \in before : j <= i

SeekFrame(target) == IF AnnexB THEN ClosestSeekPoint(target) ELSE ClosestSeekableFrameBefore(target)

\* The decision to seek. In a raw bitstream the distance is one of coding
\* order and unsigned: backwards is very far.
MustSeek(it, c, target) ==
    LET cur == it.current[c]
        seekFrame == SeekFrame(target)
        from == IF cur < 0 THEN 0 ELSE cur
        distance == CodingIndex(seekFrame) - CodingIndex(from)
    IN  \/ cur = NoFrame \/ target < cur
        \/ /\ target > cur + SeekThreshold
           /\ IF AnnexB THEN distance < 0 \/ distance > SeekThreshold
              ELSE seekFrame > cur + SeekThreshold

\* seekToPosition: where reading goes on. The seek data of a raw bitstream is
\* known for random access points only.
SeekPosition(frame) ==
    IF ~AnnexB THEN frame
    ELSE IF frame \in setup.random THEN CodingIndex(frame) ELSE 0

\* seekToPosition: the parameter sets are pushed to all decoders but FFmpeg.
Primed(d) == IF d.engine = "FFMpeg" THEN [resetDecoder(d) EXCEPT !.ok = TRUE]
             ELSE pushData(resetDecoder(d), ParameterSet)

\* `d' is the decoder after the reset and after the parameter sets.
Sought_KeepsRepush(it, c, frame, d) ==
    [it EXCEPT !.notAfter = NoFrame, !.counter = frame,
               !.current[c] = IF d.ok THEN frame - 1 ELSE @,
               !.enabled = @ /\ d.ok]

Sought(it, c, frame, d) ==
    [it EXCEPT !.repush = FALSE, !.notAfter = NoFrame, !.counter = frame,
               !.current[c] = IF d.ok THEN frame - 1 ELSE @,
               !.enabled = @ /\ d.ok]
-----------------------------------------------------------------------------
\* What a decoder may do instead of taking data.
MayFail(d) == {d} \cup (IF faults > 0 THEN {Failed(d)} ELSE {})
FaultsAfter(failing) == IF failing THEN faults - 1 ELSE faults

Init ==
    /\ setup \in Setup
    /\ engine \in setup.engines
    /\ dec = [c \in Thread |-> Primed(NewDecoder(engine, setup.delay))]
    /\ file = [c \in Thread |-> [pos |-> 0, last |-> EmptyData]]
    /\ item = Fresh
    /\ call = [c \in Thread |-> Idle]
    /\ answer = [c \in Thread |-> Nothing]
    /\ faults = setup.faults

\* The early returns of loadRawData.
Ignored(it, c, f) ==
    \/ /\ dec[c].state = "Error"
       /\ c = "caching" \/ f >= it.current["loading"]
    \/ f > LastFrame \/ f < 0

\* drawItem shows a message instead of the frame.
NotDecodable(f) == item.notAfter >= 0 /\ f >= item.notAfter

\* loadRawData up to its loop.
Request(c, kind, f, it) ==
    IF Ignored(it, c, f)
    THEN /\ call' = [call EXCEPT ![c] = [kind |-> kind, frame |-> f, pc |-> "reply",
                                         copy |-> it.raw]]
         /\ item' = it
         /\ UNCHANGED <<dec, file, faults>>
    ELSE /\ call' = [call EXCEPT ![c] = [Idle EXCEPT !.kind = kind, !.frame = f, !.pc = "decode"]]
         /\ IF MustSeek(it, c, f)
            THEN \E d \in MayFail(Primed(dec[c])) :
                    /\ dec' = [dec EXCEPT ![c] = d]
                    /\ file' = [file EXCEPT ![c].pos = SeekPosition(SeekFrame(f))]
                    /\ item' = Sought(it, c, SeekFrame(f), d)
                    /\ faults' = FaultsAfter(d # Primed(dec[c]))
            ELSE item' = it /\ UNCHANGED <<dec, file, faults>>

\* A request of the loading thread that has nothing to decode.
Return(kind, f) ==
    /\ call' = [call EXCEPT !["loading"] = [Idle EXCEPT !.kind = kind, !.frame = f, !.pc = "reply"]]
    /\ UNCHANGED <<dec, file, item, faults>>

\* The video handler asks, for the loading thread unless the buffer has the
\* frame or needsLoading rules it out. One at a time: requestDataMutex.
RequestFrame(c) ==
    /\ c \in setup.threads /\ call[c] = Idle
    /\ ~\E t \in Thread : call[t].kind = "video" /\ (t = "loading" \/ call[t].pc # "reply")
    /\ \E f \in 0..LastFrame :
        /\ c = "loading" =>
            /\ item.enabled /\ item.loaded # f
            /\ ~(NotDecodable(f) /\ f >= item.current["loading"])
        /\ c = "caching" => CachesAgain \/ item.current["caching"] # f
        /\ Request(c, "video", f, item)
    /\ answer' = [answer EXCEPT ![c] = Nothing]
    /\ UNCHANGED <<setup, engine>>

LoadStatistics_WithoutDecoding(f) ==
    /\ setup.statistics /\ call["loading"] = Idle
    /\ item.enabled \/ answer["loading"].frame = f
    /\ \/ ~item.statistics /\ Request("loading", "statistics", item.current["loading"],
                                      [item EXCEPT !.statistics = TRUE])
       \/ item.statistics /\ f # item.current["loading"]
            /\ Request("loading", "statistics", f, item)
       \/ item.statistics /\ f = item.current["loading"] /\ Return("statistics", f)
    /\ UNCHANGED <<setup, engine, answer>>

\* loadStatistics(f): the statistics of the frame on the screen are missing. Its
\* picture may have come from the double buffer or from the cache: the decoder may
\* be anywhere. The first request switches the retrieval on and decodes the frame
\* the decoder is at again. A later one decodes f unless the decoder is there. It
\* comes after the picture, in the same loadFrame, also if that has just failed.
\* It does not take requestDataMutex.
LoadStatistics(f) ==
    /\ setup.statistics /\ call["loading"] = Idle
    /\ item.enabled \/ answer["loading"].frame = f
    /\ \/ ~item.statistics /\ Request("loading", "statistics", item.current["loading"],
                    [item EXCEPT !.statistics = TRUE, !.current["loading"] = NoFrame])
       \/ item.statistics /\ f # item.current["loading"]
            /\ Request("loading", "statistics", f, item)
       \/ item.statistics /\ f = item.current["loading"] /\ Return("statistics", f)
    /\ UNCHANGED <<setup, engine, answer>>

Decoding(c) == call[c].pc = "decode" /\ item.current[c] # call[c].frame
-----------------------------------------------------------------------------
(* The inner loop of loadRawData: one unit, by one of four ways.           *)

\* FFmpeg reads and decodes. The loop is left at once when pushing fails.
PushPacket(c) ==
    /\ ~AnnexB /\ engine = "FFMpeg"
    /\ \E d \in MayFail(pushData(dec[c], Data(file[c], item.repush))) :
        LET stop == ~d.ok /\ d.state # "RetrieveFrames"
        IN  /\ dec' = [dec EXCEPT ![c] = d]
            /\ file' = [file EXCEPT ![c] = Read(@, item.repush)]
            /\ item' = [item EXCEPT !.repush = ~d.ok /\ ~stop]
            /\ call' = IF stop THEN [call EXCEPT ![c].pc = "reply", ![c].copy = item.raw] ELSE call
            /\ faults' = FaultsAfter(d.state = "Error")

\* All data of a picture, found by its position in coding order.
PushPicture(c) ==
    /\ AnnexB /\ engine = "FFMpeg"
    /\ LET data == IF item.counter >= N THEN EmptyData ELSE Unit(item.counter)
       IN  \E d \in MayFail(pushData(dec[c], data)) :
            /\ dec' = [dec EXCEPT ![c] = d]
            /\ item' = [item EXCEPT
                 !.counter = IF d.ok THEN @ + 1 ELSE @,
                 !.notAfter = IF ~d.ok /\ d.state # "RetrieveFrames" THEN call[c].frame ELSE @]
            /\ faults' = FaultsAfter(d.state = "Error")
    /\ UNCHANGED <<file, call>>

\* The next NAL unit of the raw bitstream, or of a packet of the container.
PushUnit(c) ==
    /\ engine # "FFMpeg"
    /\ \E d \in MayFail(pushData(dec[c], Data(file[c], item.repush))) :
        /\ dec' = [dec EXCEPT ![c] = d]
        /\ item' = [item EXCEPT !.repush = ~d.ok]
        /\ faults' = FaultsAfter(d.state = "Error")
    /\ file' = [file EXCEPT ![c] = Read(@, item.repush)]
    /\ UNCHANGED call

Push(c) ==
    /\ Decoding(c) /\ dec[c].state = "NeedsMoreData"
    /\ PushPacket(c) \/ PushPicture(c) \/ PushUnit(c)
    /\ UNCHANGED <<setup, engine, answer>>

\* The next picture is taken out and counted.
Retrieve(c) ==
    /\ Decoding(c) /\ dec[c].state = "RetrieveFrames"
    /\ LET d == decodeNextFrame(dec[c])
           now == item.current[c] + 1
           right == d.ok /\ now = call[c].frame
       IN  /\ dec' = [dec EXCEPT ![c] = IF right THEN Buffered(d) ELSE d]
           /\ item' =
                IF right
                THEN [item EXCEPT !.current[c] = now,
                        !.raw = getRawFrameData(d), !.rawIndex = now,
                        !.statFrame = IF c = "loading" /\ item.statistics THEN now ELSE @]
                ELSE IF d.ok THEN [item EXCEPT !.current[c] = now] ELSE item
    /\ UNCHANGED <<setup, engine, file, call, answer, faults>>

\* The end of loadRawData: the frame is there, or the decoder gives up.
Finish(c) ==
    /\ call[c].pc = "decode"
    /\ LET f == call[c].frame
           stuck == Decoding(c)
           notAfter == IF stuck THEN f ELSE item.notAfter
           undecodable == notAfter >= 0 /\ f >= notAfter
       IN  /\ stuck => dec[c].state \in {"EndOfBitstream", "Error"}
           /\ item' =
                [item EXCEPT !.notAfter = notAfter,
                    !.current[c] = IF undecodable THEN f ELSE @,
                    !.rawIndex = IF undecodable THEN f ELSE @,
                    !.enabled = @ /\ (undecodable \/ dec["loading"].state # "Error")]
           /\ call' = [call EXCEPT ![c].pc = "reply", ![c].copy = item.raw]
    /\ UNCHANGED <<setup, engine, dec, file, answer, faults>>

\* The video handler looks at the index of the buffer: the loading thread
\* still has the mutex, the caching thread uses the copy it made. An image of
\* a frame that cannot be decoded is not shown.
Deliver(c) ==
    /\ call[c].pc = "reply"
    /\ LET f == call[c].frame
           there == item.rawIndex = f /\ (c = "loading" => item.raw # NoPicture)
           shown == IF c = "caching" THEN call[c].copy
                    ELSE IF NotDecodable(f) THEN NoPicture ELSE item.raw
       IN  IF call[c].kind = "statistics" THEN UNCHANGED <<item, answer>>
           ELSE /\ answer' = [answer EXCEPT ![c] = [frame |-> f, picture |->
                                                    IF there THEN shown ELSE NoPicture]]
                /\ item' = [item EXCEPT !.loaded = IF there /\ c = "loading" THEN f ELSE @]
    /\ call' = [call EXCEPT ![c] = Idle]
    /\ UNCHANGED <<setup, engine, dec, file, faults>>
-----------------------------------------------------------------------------
(* The controls of the item, in the main thread.                           *)

Invalidated == [item EXCEPT !.current = [c \in Thread |-> NoFrame],
                            !.loaded = NoFrame, !.rawIndex = NoFrame]
Undisturbed == \A c \in Thread : call[c] = Idle

\* displaySignalComboBoxChanged: prediction or residual instead of the picture.
ChangeSignal ==
    /\ engine \in {"Libde265", "Dav1d"} /\ setup.threads = Thread
    /\ SignalWhileLoading \/ Undisturbed
    /\ item.current # Fresh.current \/ item.loaded # NoFrame
    /\ dec' = [c \in Thread |-> resetDecoder(dec[c])]
    /\ item' = Invalidated
    /\ UNCHANGED <<setup, engine, file, call, answer, faults>>

\* decoderComboxBoxChanged.
ChangeDecoder ==
    /\ Undisturbed
    /\ \E e \in setup.engines \ {engine} :
        /\ engine' = e
        /\ dec' = [c \in Thread |-> NewDecoder(e, setup.delay)]
    /\ item' = [Invalidated EXCEPT !.notAfter = NoFrame, !.enabled = TRUE, !.statistics = FALSE]
    /\ UNCHANGED <<setup, file, call, answer, faults>>

Work(c) == Push(c) \/ Retrieve(c) \/ Finish(c) \/ Deliver(c)
Next ==
    \/ \E c \in Thread : RequestFrame(c) \/ Work(c)
    \/ \E f \in 0..LastFrame : LoadStatistics(f)
    \/ ChangeSignal \/ ChangeDecoder

\* The threads that work on a request keep running; nobody has to ask.
Spec == Init /\ [][Next]_vars /\ \A c \in Thread : WF_vars(Work(c))
-----------------------------------------------------------------------------
TypeOK ==
    /\ setup \in Setup /\ engine \in setup.engines
    /\ \A c \in Thread :
        /\ dec[c].engine = engine /\ dec[c].state \in DecoderState
        /\ dec[c].lib.held \subseteq 0..(N - 1)
        /\ file[c].pos \in 0..N
        /\ item.current[c] \in -1..LastFrame
        /\ call[c].kind \in {"none", "video", "statistics"}
        /\ call[c].pc \in {"idle", "decode", "reply"}
    /\ {item.rawIndex, item.loaded, item.notAfter, item.statFrame} \subseteq -1..LastFrame
    /\ item.counter \in -1..N /\ faults \in Nat

\* The frames that nobody can get: those whose data is damaged, the one too many
\* in the range of a container, and those FFmpeg holds back at the end.
Unavailable ==
    {f \in 0..LastFrame :
        \/ f \in setup.lost \/ f >= N
        \/ engine = "FFMpeg" /\ f >= N - Cardinality(setup.lost) - setup.delay}
\* The decoders that never report the end of the bitstream.
Endless == {"HM", "VTM", "Dav1d"}
\* A decoder has failed.
InTrouble ==
    /\ faults < setup.faults
    /\ item.notAfter # NoFrame \/ \E c \in Thread : dec[c].state = "Error"

\* Where the count of the pictures can be trusted. Only the end of a bitstream may
\* be damaged: a picture lost earlier is not missed by the count. FFmpeg, reading or
\* decoding, takes the position to seek to in display order for one in coding order.
\* HM does not drop the last buffer, which shows when two pictures come out at the
\* end. A packet that FFmpeg refuses leaves no trace: the buffer of a frame that had no
\* statistics is then taken for its picture. Both threads share what is pushed again,
\* decoded last and undecodable.
Countable(s) ==
    /\ \E cut \in 0..Length(s) : s.lost = {f \in 0..(Length(s) - 1) : f >= cut}
    /\ s.format = "FFmpeg" \/ "FFMpeg" \in s.engines =>
        \A i \in 1..Length(s) : s.coding[i] \in s.random => s.coding[i] = i - 1
    /\ "HM" \in s.engines => s.delay = 0
    /\ s.format = "FFmpeg" /\ "FFMpeg" \in s.engines /\ s.statistics => s.faults = 0
    /\ "caching" \in s.threads =>
        /\ s.format = "AnnexB" /\ s.engines \subseteq {"Libde265", "VVDec"}
        /\ s.lost = {} /\ s.faults = 0 /\ ~s.statistics
ServiceAssumption ==
    ~SignalWhileLoading /\ ~CachesAgain /\ \A s \in Setup : Countable(s)

Service == INSTANCE FrameService WITH
    Frame <- UNION {0..Length(s) : s \in Setup},
    asked <- [c \in Thread |-> IF call[c].kind = "video" THEN call[c].frame ELSE NoFrame],
    missing <- Unavailable, failed <- InTrouble

\* Every request for a frame is answered, and with the picture of that frame,
\* however the item got to it: forward, after a seek, with pictures held back,
\* refused and pushed again, or after a change of the decoder. There is no
\* picture only if the bitstream has none, after a failure of the decoder, or
\* for the cache.
ServesFrames == Service!Spec

\* No request goes on for ever: the decoder gives the picture, or says that the
\* bitstream has ended, or that it failed. (The decoders that do not say so are
\* asked for ever for a frame that is not there.)
FramesAnswered ==
    \A c \in Thread :
        []<>(call[c] # Idle => engine \in Endless /\ call[c].frame \in Unavailable)

\* The statistics are those of the frame they were asked for, once the request has
\* ended: the one that was decoded for them, or the one the decoder counts as its
\* current one when there is nothing to decode, or, when the retrieval has just been
\* switched on, the one the decoder was at. (Except for a frame that cannot be
\* decoded and after a failure of the decoder.)
StatisticsMatchFrame ==
    [][\A c \in Thread :
        (call[c].kind = "statistics" /\ call'[c] = Idle /\ call[c].frame >= 0
            /\ ~NotDecodable(call[c].frame) /\ dec[c].state # "Error")
        => item.statFrame = call[c].frame]_vars

\* When the retrieval is switched on it is this frame that is decoded again: "The
\* statistics should now be loaded" (loadStatistics). Known to fail, since the decoder
\* may be at another frame than the screen.
FirstStatisticsAreShown ==
    [][\A f \in 0..LastFrame :
        LoadStatistics(f) /\ ~item.statistics => call'["loading"].frame = f]_vars

\* "After the operation the frameToCache should contain the requested frame"
\* (videoHandler::loadFrameForCaching): what goes into the cache for a frame is
\* the picture of that frame.
CacheGetsRequestedFrame ==
    answer["caching"].picture \in {answer["caching"].frame, NoPicture}
=============================================================================
