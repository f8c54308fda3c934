------------------------ MODULE CompressedVideoProofs ------------------------
(***************************************************************************)
(* Theorems about CompressedVideo: its types, and that it implements the   *)
(* abstract service of FrameService. The item trusts the count of the      *)
(* pictures it takes out, so the invariant says for every decoder in use   *)
(* which pictures its library has been given and which one it gives next.  *)
(***************************************************************************)
EXTENDS CompressedVideo, ListsProofs, FiniteSetTheorems, TLAPS

(* What a stream is made of.                                               *)

\* The place in coding order of a picture; a picture as the file has it; what the
\* item may have read; the last frame that can be asked for.
Position(s, poc) == (CHOOSE i \in 1..Length(s) : s.coding[i] = poc) - 1
UnitOf(s, i) ==
    Coded(s.coding[i + 1], s.coding[i + 1] \in s.random, s.coding[i + 1] \in s.lost)
Material(s) == {EmptyData} \cup {UnitOf(s, i) : i \in 0..(Length(s) - 1)}
EndOf(s) == IF s.format = "AnnexB" THEN Length(s) - 1 ELSE Length(s)

(* Types.                                                                  *)

\* A library holds pictures of the stream only, and parses what the file has.
LibraryType(s) ==
    [start : Int, held : SUBSET (0..(Length(s) - 1)), parsing : Material(s),
     drained : BOOLEAN, delay : {s.delay}]
DecoderType(s) ==
    [engine : Engine, state : DecoderState, lib : LibraryType(s), waiting : BOOLEAN,
     ready : BOOLEAN, flushing : BOOLEAN, header : BOOLEAN, shown : Int, buffer : Int,
     ok : BOOLEAN]
FileType(s) == [pos : 0..Length(s), last : Material(s)]
ItemType(s) ==
    [current : [Thread -> -1..EndOf(s)], repush : BOOLEAN, notAfter : -1..EndOf(s),
     counter : -1..Length(s), raw : Int, rawIndex : -1..EndOf(s), loaded : -1..EndOf(s),
     statistics : BOOLEAN, statFrame : -1..EndOf(s), enabled : BOOLEAN]
CallType(s) ==
    [kind : {"none", "video", "statistics"}, frame : -1..EndOf(s),
     pc : {"idle", "decode", "reply"}, copy : Int]

\* The item counts on the decoder: it has sought since the decoder was made.
InUse(c) == item.current[c] # NoFrame \/ call[c].pc = "decode"

\* The types, with what they rest on: all decoders are of the engine that is chosen, a
\* Dav1d decoder in use has its sequence header, nobody counts on a decoder as long as
\* readAnnexBFrameCounterCodingOrder is -1, and whoever is decoding has not gone past
\* the frame that was asked for.
TypeInv ==
    /\ setup \in Setup /\ engine \in setup.engines
    /\ dec \in [Thread -> DecoderType(setup)]
    /\ file \in [Thread -> FileType(setup)]
    /\ item \in ItemType(setup)
    /\ call \in [Thread -> CallType(setup)]
    /\ answer \in [Thread -> [frame : Int, picture : Int]]
    /\ faults \in Nat
    /\ \A c \in Thread :
        /\ dec[c].engine = engine
        /\ engine = "Dav1d" /\ InUse(c) => dec[c].header
        /\ item.counter = -1 => ~InUse(c)
        /\ call[c].pc = "idle" => call[c] = Idle
        /\ call[c].pc = "decode" =>
            /\ call[c].frame >= 0
            /\ item.current[c] <= call[c].frame \/ dec[c].state = "Error"

(* What is served.                                                         *)

\* The library has been given the pictures up to place k in coding order, and the
\* next to come out is e or, if e is lost, the one after it. Before its first picture
\* it waits for a random access picture, and that is e; afterwards it holds all
\* pictures it was given from e on, and there is none before e still to come.
LibraryAt(s, lib, k, e) ==
    /\ lib.delay = s.delay
    /\ k \in 0..Length(s) /\ e \in 0..Length(s)
    /\ lib.drained => k = Length(s)
    /\ IF lib.start = NoPicture
       THEN /\ lib.held = {}
            /\ e \in s.random /\ e < Length(s)
            /\ Position(s, e) <= k
            /\ k = Position(s, e) \/ e \in s.lost
       ELSE /\ lib.start \in 0..e
            /\ lib.held = {p \in e..(Length(s) - 1) : p \notin s.lost /\ Position(s, p) < k}
            /\ \A p \in lib.start..(e - 1) : Position(s, p) < k

\* A picture was taken out of the library that the item has not retrieved yet.
Out(d) ==
    \/ d.waiting
    \/ d.engine = "VVDec" /\ d.state = "RetrieveFrames" /\ ~d.flushing /\ ~d.ready

\* There is nothing left to come out: what is not lost is held back by FFmpeg.
Over(s, g, e) ==
    \A p \in e..(Length(s) - 1) :
        \/ p \in s.lost
        \/ g = "FFMpeg" /\ p >= Length(s) - Cardinality(s.lost) - s.delay

\* The same of a decoder: e is the next picture that getRawFrameData returns. The state,
\* the picture that was taken out and the unit that HM and VTM have not parsed yet
\* agree with the library.
DecoderAt(s, d, k, e) ==
    /\ d.state = "EndOfBitstream" => Over(s, d.engine, e)
    /\ d.state \in {"NeedsMoreData", "RetrieveFrames"} =>
        /\ LibraryAt(s, d.lib, IF d.lib.parsing = EmptyData THEN k ELSE k - 1,
                     IF Out(d) THEN e + 1 ELSE e)
        /\ Out(d) => d.state = "RetrieveFrames" /\ d.shown = e /\ d.buffer = NoPicture
        /\ d.waiting => d.engine \notin {"VVDec", "FFMpeg"}
        /\ d.ready => d.state = "RetrieveFrames" /\ d.engine = "VVDec"
        /\ d.lib.parsing # EmptyData =>
            /\ d.engine \in {"HM", "VTM"} /\ ~d.lib.drained
            /\ k > 0 /\ d.lib.parsing = UnitOf(s, k - 1)
        /\ d.engine = "HM" => d.lib.held = {}
        /\ d.engine = "Dav1d" => d.header
        /\ d.flushing => k = Length(s)
        /\ d.engine \in {"Libde265", "VVDec"} => d.flushing = d.lib.drained
        /\ d.engine \in {"Libde265", "VVDec", "FFMpeg"} /\ d.flushing => d.state = "RetrieveFrames"
        /\ d.engine \in {"HM", "VTM"} => ~d.flushing

\* How many pictures a decoder was given: a unit that was refused is read, not given.
Consumed(c) ==
    IF AnnexB /\ engine = "FFMpeg" THEN item.counter
    ELSE IF item.repush /\ ~dec[c].flushing THEN file[c].pos - 1 ELSE file[c].pos

\* The next picture of the decoder is the one after the current frame, on which
\* retrieveRawData counts; the unit to be pushed again is the last that was read.
OnTrack(c) ==
    /\ DecoderAt(setup, dec[c], Consumed(c), item.current[c] + 1)
    /\ /\ ~(AnnexB /\ engine = "FFMpeg") /\ item.repush /\ ~dec[c].flushing
       /\ dec[c].state \in {"NeedsMoreData", "RetrieveFrames"}
       => file[c].pos > 0 /\ file[c].last = Unit(file[c].pos - 1)

Shared == "caching" \in setup.threads
HasFailed(c) == dec[c].state = "Error"

\* rawData is what rawDataFrameIndex or, if it was copied already, currentFrameIndex
\* says, unless the frame cannot be decoded. A frame whose statistics were asked for
\* may turn out to be such a frame; until the next one is decoded rawData is of another.
BufferOK ==
    /\ item.raw = NoPicture => item.loaded = NoFrame
    /\ ~Shared /\ item.raw # NoPicture /\ item.rawIndex # NoFrame =>
        \/ item.raw = item.rawIndex \/ item.loaded = item.rawIndex
        \/ /\ call["loading"].pc = "reply" /\ call["loading"].kind = "video"
           /\ call["loading"].frame = item.rawIndex /\ NotDecodable(item.rawIndex)
        \/ item.statistics /\ (NotDecodable(item.rawIndex) \/ call["loading"].pc = "decode")

\* A failed decoder, and a frame said to be undecodable, have a reason.
TroubleOK ==
    /\ faults <= setup.faults
    /\ (\E c \in Thread : HasFailed(c)) => faults < setup.faults
    /\ item.notAfter >= 0 =>
        faults < setup.faults \/ \A p \in item.notAfter..LastFrame : p \in Unavailable

\* With a caching thread nothing is pushed again and all frames can be decoded, so it
\* does not matter that both threads share this; and they do not decode at once. Nor are
\* there statistics then.
SharedOK ==
    /\ \A c \in Thread \ setup.threads : call[c] = Idle
    /\ Shared => ~item.repush /\ item.notAfter = NoFrame
    /\ item.statistics => setup.statistics
    /\ ~(Shared /\ call["loading"].pc # "idle" /\ call["caching"].pc = "decode")

\* The loading decoder is at the frame that is loaded or, after a request for statistics,
\* at one whose picture is in the buffer; and the statistics are of that frame.
AtFrame ==
    LET at == item.current["loading"]
    IN  /\ \/ at = item.loaded
           \/ item.raw = NoPicture /\ NotDecodable(at)
           \/ item.statistics /\ item.rawIndex = at /\ (item.raw = at \/ NotDecodable(at))
        /\ item.statistics => at = NoFrame \/ item.statFrame = at \/ NotDecodable(at)

\* Between requests it is.
IdleOK == call["loading"].pc = "idle" /\ ~HasFailed("loading") => AtFrame

\* While a thread decodes: having come to the frame, it has its picture.
DecodeOK(c) ==
    LET f == call[c].frame
    IN  call[c].pc = "decode" =>
        /\ item.current[c] = f =>
            /\ item.raw = f /\ item.rawIndex = f
            /\ item.statistics => item.statFrame = f
        /\ c = "loading" /\ call[c].kind = "video" => f # item.loaded

\* When a thread is to deliver: it has the picture of the frame, or there is none.
ReplyOK(c) ==
    LET f == call[c].frame
    IN  /\ call[c].pc = "reply" /\ c = "caching" => call[c].copy = f /\ f >= 0
        /\ call[c].pc = "reply" /\ c = "loading" /\ call[c].kind = "video" =>
            /\ f # item.loaded /\ f >= 0
            /\ \/ HasFailed(c)
               \/ /\ item.current[c] = f /\ item.rawIndex = f
                  /\ NotDecodable(f) \/ (item.raw = f /\ (item.statistics => item.statFrame = f))
        /\ call[c].pc = "reply" /\ call[c].kind = "statistics" =>
            HasFailed(c) \/ (item.current[c] = f /\ AtFrame)

\* What a thread is doing, and what it holds.
ThreadOK(c) ==
    /\ DecodeOK(c) /\ ReplyOK(c)
    /\ call[c].pc \in {"decode", "reply"} => call[c].kind \in {"video", "statistics"}
    /\ call[c].kind = "statistics" => c = "loading" /\ item.statistics

\* The inductive invariant of the service.
ServiceInv ==
    /\ \A c \in setup.threads : InUse(c) => OnTrack(c)
    /\ BufferOK /\ TroubleOK /\ SharedOK /\ IdleOK
    /\ \A c \in Thread : ThreadOK(c)
-----------------------------------------------------------------------------
(* The stream.                                                             *)

\* What StreamAssumption and CompressedAssumption say of one setup.
LEMMA StreamFacts ==
    ASSUME NEW s \in Setup
    PROVE  /\ Length(s) \in Nat /\ Length(s) > 0
           /\ s.coding \in [1..Length(s) -> 0..(Length(s) - 1)]
           /\ s.coding[1] = 0 /\ 0 \in s.random
           /\ \A i, j \in 1..Length(s) : i # j => s.coding[i] # s.coding[j]
           /\ s.engines \subseteq Engine /\ s.delay \in Nat /\ s.faults \in Nat
           /\ EndOf(s) \in {Length(s) - 1, Length(s)}
           /\ s.random \subseteq Nat /\ s.threads \subseteq Thread
<1>1. /\ s.coding \in Seq(Nat) /\ s.engines \subseteq Engine /\ s.delay \in Nat
      /\ s.faults \in Nat /\ s.random \subseteq Nat /\ s.threads \subseteq Thread
  BY CompressedAssumption
<1>2. /\ Length(s) > 0 /\ s.coding[1] = 0 /\ 0 \in s.random
      /\ \A i \in 1..Length(s) : s.coding[i] < Length(s)
      /\ \A i, j \in 1..Length(s) : i # j => s.coding[i] # s.coding[j]
  BY StreamAssumption DEF Length
<1>3. Length(s) \in Nat /\ s.coding \in [1..Length(s) -> Nat]
  BY <1>1 DEF Length
<1>4. s.coding \in [1..Length(s) -> 0..(Length(s) - 1)]
  BY <1>2, <1>3
<1>5. QED
  BY <1>1, <1>2, <1>3, <1>4 DEF EndOf

\* Every picture has one position in coding order.
LEMMA PositionFacts ==
    ASSUME NEW s \in Setup
    PROVE  /\ \A p \in 0..(Length(s) - 1) :
                Position(s, p) \in 0..(Length(s) - 1) /\ s.coding[Position(s, p) + 1] = p
           /\ \A i \in 0..(Length(s) - 1) : Position(s, s.coding[i + 1]) = i
<1> USE StreamFacts
<1>1. ASSUME NEW p \in 0..(Length(s) - 1)
      PROVE  Position(s, p) \in 0..(Length(s) - 1) /\ s.coding[Position(s, p) + 1] = p
  <2>1. \E i \in 1..Length(s) : s.coding[i] = p
    BY StreamAssumption DEF Length
  <2> DEFINE j == CHOOSE i \in 1..Length(s) : s.coding[i] = p
  <2>2. j \in 1..Length(s) /\ s.coding[j] = p
    BY <2>1
  <2>3. Position(s, p) = j - 1
    BY DEF Position
  <2> HIDE DEF j
  <2>4. QED
    BY <2>2, <2>3
<1>2. ASSUME NEW i \in 0..(Length(s) - 1)
      PROVE  Position(s, s.coding[i + 1]) = i
  <2>1. i + 1 \in 1..Length(s)
    OBVIOUS
  <2>2. s.coding[i + 1] \in 0..(Length(s) - 1)
    BY <2>1
  <2> DEFINE q == Position(s, s.coding[i + 1])
  <2>3. q \in 0..(Length(s) - 1) /\ s.coding[q + 1] = s.coding[i + 1]
    BY <1>1, <2>2
  <2> HIDE DEF q
  <2>4. q + 1 \in 1..Length(s) /\ (q + 1 # i + 1 => s.coding[q + 1] # s.coding[i + 1])
    BY <2>1, <2>3
  <2>5. q = i
    BY <2>3, <2>4
  <2>6. QED
    BY <2>5 DEF q
<1>3. QED
  BY <1>1, <1>2

\* Units are pictures, and there are no others in the stream.
LEMMA UnitFacts ==
    ASSUME NEW s \in Setup
    PROVE  /\ \A i \in 0..(Length(s) - 1) :
                /\ UnitOf(s, i) \in Material(s)
                /\ UnitOf(s, i).kind = "picture" /\ UnitOf(s, i).poc = s.coding[i + 1]
                /\ UnitOf(s, i).poc \in 0..(Length(s) - 1)
           /\ EmptyData \in Material(s) /\ EmptyData.kind = "empty" /\ ParameterSet.kind = "parameters"
           /\ \A u \in Material(s) :
                u = EmptyData \/ (u.kind = "picture" /\ u.poc \in 0..(Length(s) - 1))
<1>1. ASSUME NEW i \in 0..(Length(s) - 1)
      PROVE  /\ UnitOf(s, i) \in Material(s)
             /\ UnitOf(s, i).kind = "picture" /\ UnitOf(s, i).poc = s.coding[i + 1]
             /\ UnitOf(s, i).poc \in 0..(Length(s) - 1)
  BY StreamFacts DEF UnitOf, Coded, Material
<1>2. EmptyData \in Material(s) /\ EmptyData.kind = "empty" /\ ParameterSet.kind = "parameters"
  BY DEF EmptyData, ParameterSet, Material
<1>3. QED
  BY <1>1, <1>2 DEF Material

\* The definitions of the model are those of the setup that was opened.
LEMMA OfSetup ==
    /\ N = Length(setup) /\ LastFrame = EndOf(setup)
    /\ \A i : Unit(i) = UnitOf(setup, i)
    /\ \A p : CodingIndex(p) = Position(setup, p)
  BY DEF N, Length, LastFrame, EndOf, AnnexB, Unit, UnitOf, CodingIndex, Position

-----------------------------------------------------------------------------
(* The types of the decoders.                                              *)

\* A set of numbers has a least one.
LEMMA LeastHeld ==
    ASSUME NEW S, S \subseteq Nat, S # {}
    PROVE  Min(S) \in S /\ \A m \in S : Min(S) <= m
<1>1. \E n \in S : \A m \in S : n <= m
  BY LeastNumber
<1>2. QED
  BY <1>1 DEF Min

\* The library and the decoder after a picture was taken out.
Taken(lib) == [lib EXCEPT !.held = @ \ {Min(lib.held)}]
Alike(o, d) ==
    /\ o.engine = d.engine /\ o.ready = d.ready /\ o.flushing = d.flushing
    /\ o.header = d.header /\ o.waiting = d.waiting

\* A picture came out, none came out.
Gives(o, d) ==
    o.lib = Taken(d.lib) /\ o.shown = Min(d.lib.held) /\ o.buffer = NoPicture /\ o.ok
Lacks(o, d) == o.lib = d.lib /\ o.buffer = d.buffer /\ ~o.ok

\* The library after a picture was taken out.
LEMMA TakenType ==
    ASSUME NEW s \in Setup, NEW lib \in LibraryType(s), HasPicture(lib)
    PROVE  /\ Taken(lib) \in LibraryType(s) /\ Min(lib.held) \in Int
           /\ Min(lib.held) \in lib.held /\ \A m \in lib.held : Min(lib.held) <= m
           /\ Taken(lib).held = lib.held \ {Min(lib.held)}
           /\ Taken(lib).start = lib.start /\ Taken(lib).parsing = lib.parsing
           /\ Taken(lib).drained = lib.drained /\ Taken(lib).delay = lib.delay
<1>1. lib.held \subseteq 0..(Length(s) - 1) /\ lib.held # {}
  BY DEF LibraryType, HasPicture
<1>2. /\ Min(lib.held) \in lib.held /\ \A m \in lib.held : Min(lib.held) <= m
      /\ Min(lib.held) \in Int
  BY <1>1, LeastHeld, StreamFacts
<1>3. QED
  BY <1>1, <1>2 DEF LibraryType, Taken

\* The decoder after a picture was taken out of its library.
LEMMA TakeType ==
    ASSUME NEW s \in Setup, NEW d \in DecoderType(s), HasPicture(d.lib)
    PROVE  LET o == TakePicture(d)
           IN  /\ o \in DecoderType(s) /\ Alike(o, d)
               /\ o.lib = Taken(d.lib) /\ o.shown = Min(d.lib.held)
               /\ o.state = d.state /\ o.buffer = d.buffer /\ o.ok = d.ok
<1>1. d.lib \in LibraryType(s)
  BY DEF DecoderType
<1>2. Taken(d.lib) \in LibraryType(s) /\ Min(d.lib.held) \in Int
  BY <1>1, TakenType
<1>3. TakePicture(d) = [d EXCEPT !.shown = Min(d.lib.held), !.lib = Taken(d.lib)]
  BY <1>1 DEF TakePicture, DecoderType, LibraryType, Taken
<1> HIDE DEF Taken
<1>4. [d EXCEPT !.shown = Min(d.lib.held), !.lib = Taken(d.lib)] \in DecoderType(s)
  BY <1>2, Zenon DEF DecoderType
<1>5. QED
  BY <1>3, <1>4 DEF DecoderType, Alike

\* Values that are assigned, with their types.
LEMMA TypedValues ==
    /\ NoPicture \in Int /\ NoPicture = -1 /\ TRUE \in BOOLEAN /\ FALSE \in BOOLEAN
    /\ {"NeedsMoreData", "RetrieveFrames", "EndOfBitstream", "Error"} \subseteq DecoderState
BY DEF NoPicture, DecoderState

\* The decoder after a picture was taken out, in the forms in which the classes
\* return it, and the one that has none.
LEMMA GiveType ==
    ASSUME NEW s \in Setup, NEW d \in DecoderType(s), HasPicture(d.lib)
    PROVE  /\ LET o == [TakePicture(d) EXCEPT !.state = "RetrieveFrames", !.buffer = NoPicture, !.ok = TRUE]
              IN  o \in DecoderType(s) /\ Alike(o, d) /\ Gives(o, d) /\ o.state = "RetrieveFrames"
           /\ LET o == [TakePicture(d) EXCEPT !.buffer = NoPicture, !.ok = TRUE]
              IN  o \in DecoderType(s) /\ Alike(o, d) /\ Gives(o, d) /\ o.state = d.state
           /\ LET o == [TakePicture(d) EXCEPT !.ok = TRUE]
              IN  /\ o \in DecoderType(s) /\ Alike(o, d) /\ o.lib = Taken(d.lib)
                  /\ o.shown = Min(d.lib.held) /\ o.ok /\ o.state = d.state
           /\ LET o == [TakePicture(d) EXCEPT !.state = "RetrieveFrames", !.buffer = NoPicture]
              IN  /\ o \in DecoderType(s) /\ Alike(o, d) /\ o.state = "RetrieveFrames"
                  /\ d.ok => Gives(o, d)
<1> DEFINE t == TakePicture(d)
<1>1. /\ t \in DecoderType(s) /\ Alike(t, d)
      /\ t.lib = Taken(d.lib) /\ t.shown = Min(d.lib.held)
      /\ t.state = d.state /\ t.ok = d.ok
  BY TakeType
<1> HIDE DEF t
<1>2. NoPicture \in Int /\ TRUE \in BOOLEAN /\ "RetrieveFrames" \in DecoderState
  BY TypedValues
<1>3. [t EXCEPT !.state = "RetrieveFrames", !.buffer = NoPicture, !.ok = TRUE] \in DecoderType(s)
  BY <1>1, <1>2, Zenon DEF DecoderType
<1>4. [t EXCEPT !.buffer = NoPicture, !.ok = TRUE] \in DecoderType(s)
  BY <1>1, <1>2, Zenon DEF DecoderType
<1>5. [t EXCEPT !.ok = TRUE] \in DecoderType(s)
  BY <1>1, <1>2, Zenon DEF DecoderType
<1>6. [t EXCEPT !.state = "RetrieveFrames", !.buffer = NoPicture] \in DecoderType(s)
  BY <1>1, <1>2, Zenon DEF DecoderType
<1>7. LET o == [t EXCEPT !.state = "RetrieveFrames", !.buffer = NoPicture, !.ok = TRUE]
      IN  o \in DecoderType(s) /\ Alike(o, d) /\ Gives(o, d) /\ o.state = "RetrieveFrames"
  BY <1>1, <1>3 DEF DecoderType, Alike, Gives
<1>8. LET o == [t EXCEPT !.buffer = NoPicture, !.ok = TRUE]
      IN  o \in DecoderType(s) /\ Alike(o, d) /\ Gives(o, d) /\ o.state = d.state
  BY <1>1, <1>4 DEF DecoderType, Alike, Gives
<1>9. LET o == [t EXCEPT !.ok = TRUE]
      IN  /\ o \in DecoderType(s) /\ Alike(o, d) /\ o.lib = Taken(d.lib)
          /\ o.shown = Min(d.lib.held) /\ o.ok /\ o.state = d.state
  BY <1>1, <1>5 DEF DecoderType, Alike
<1>10. LET o == [t EXCEPT !.state = "RetrieveFrames", !.buffer = NoPicture]
       IN  /\ o \in DecoderType(s) /\ Alike(o, d) /\ o.state = "RetrieveFrames"
           /\ d.ok => Gives(o, d)
  BY <1>1, <1>6 DEF DecoderType, Alike, Gives
<1>11. QED
  BY <1>7, <1>8, <1>9, <1>10 DEF t

\* The decoder when its library has no picture.
LEMMA NoneType ==
    ASSUME NEW s \in Setup, NEW d \in DecoderType(s), NEW st \in DecoderState
    PROVE  LET o == [d EXCEPT !.state = st, !.shown = NoPicture, !.ok = FALSE]
           IN  /\ o \in DecoderType(s) /\ Alike(o, d)
               /\ Lacks(o, d) /\ o.shown = NoPicture /\ o.state = st
<1>1. [d EXCEPT !.state = st, !.shown = NoPicture, !.ok = FALSE] \in DecoderType(s)
  BY TypedValues, Zenon DEF DecoderType
<1>2. QED
  BY <1>1 DEF DecoderType, Alike, Lacks

\* The library after a unit was decoded.
LEMMA DecodeType ==
    ASSUME NEW s \in Setup, NEW lib \in LibraryType(s), NEW u \in Material(s) \cup {ParameterSet}
    PROVE  /\ Decode(lib, u) \in LibraryType(s)
           /\ Decode(lib, u).parsing = lib.parsing
           /\ Decode(lib, u).drained = lib.drained /\ Decode(lib, u).delay = lib.delay
           /\ Decode(lib, u).held \subseteq lib.held \cup {u.poc}
           /\ u.kind # "picture" => Decode(lib, u) = lib
<1>1. u.kind # "picture" \/ u.poc \in 0..(Length(s) - 1)
  BY UnitFacts
<1>2. \/ Decode(lib, u) = lib
      \/ /\ u.kind = "picture"
         /\ \/ Decode(lib, u) = [lib EXCEPT !.start = u.poc, !.held = lib.held \cup {u.poc}]
            \/ Decode(lib, u) = [lib EXCEPT !.held = lib.held \cup {u.poc}]
  BY DEF Decode, LibraryType
<1>3. lib.held \subseteq 0..(Length(s) - 1) /\ Length(s) \in Nat
  BY StreamFacts DEF LibraryType
<1>4. CASE Decode(lib, u) = lib
  BY <1>4
<1>5. ASSUME u.kind = "picture"
      PROVE  u.poc \in Int /\ lib.held \cup {u.poc} \subseteq 0..(Length(s) - 1)
  BY <1>1, <1>3, <1>5
<1>6. CASE /\ u.kind = "picture"
           /\ Decode(lib, u) = [lib EXCEPT !.start = u.poc, !.held = lib.held \cup {u.poc}]
  BY <1>5, <1>6 DEF LibraryType
<1>7. CASE /\ u.kind = "picture"
           /\ Decode(lib, u) = [lib EXCEPT !.held = lib.held \cup {u.poc}]
  BY <1>5, <1>7 DEF LibraryType
<1>8. QED
  BY <1>2, <1>4, <1>6, <1>7

\* A new decoder.
LEMMA NewType ==
    ASSUME NEW s \in Setup, NEW g \in Engine
    PROVE  NewDecoder(g, s.delay) \in DecoderType(s) /\ NewDecoder(g, s.delay).engine = g
BY UnitFacts DEF NewDecoder, NewLibrary, DecoderType, LibraryType, DecoderState, NoPicture

-----------------------------------------------------------------------------
(* What the calls of a decoder return.                                     *)

\* The library that is fed one unit, or told that there are no more.
Fed(lib, u) == IF u = EmptyData THEN [lib EXCEPT !.drained = TRUE] ELSE Decode(lib, u)

\* The library after it was given a unit.
LEMMA FedType ==
    ASSUME NEW s \in Setup, NEW lib \in LibraryType(s), NEW u \in Material(s) \cup {ParameterSet}
    PROVE  /\ Fed(lib, u) \in LibraryType(s)
           /\ Fed(lib, u).parsing = lib.parsing /\ Fed(lib, u).delay = lib.delay
           /\ Fed(lib, u).drained = (lib.drained \/ u = EmptyData)
<1>1. CASE u = EmptyData
  BY <1>1 DEF Fed, LibraryType
<1>2. CASE u # EmptyData
  <2>1. Fed(lib, u) = Decode(lib, u) /\ lib.drained \in BOOLEAN
    BY <1>2 DEF Fed, LibraryType
  <2>2. QED
    BY <1>2, <2>1, DecodeType
<1>3. QED
  BY <1>1, <1>2

\* A decoder that refused the data.
LEMMA RefusedType ==
    ASSUME NEW s \in Setup, NEW d \in DecoderType(s)
    PROVE  /\ Refused(d) \in DecoderType(s) /\ Alike(Refused(d), d)
           /\ Refused(d).lib = d.lib /\ Refused(d).state = d.state /\ ~Refused(d).ok
           /\ Refused(d).shown = d.shown /\ Refused(d).buffer = d.buffer
<1>1. Refused(d) \in DecoderType(s)
  BY TypedValues, Zenon DEF Refused, DecoderType
<1>2. QED
  BY <1>1 DEF Refused, DecoderType, Alike

\* libde265.
LEMMA Libde265Frame ==
    ASSUME NEW s \in Setup, NEW d \in DecoderType(s), NEW fed \in BOOLEAN
    PROVE  LET o == Libde265_decodeFrame(d, fed)
           IN  /\ o \in DecoderType(s) /\ Alike(o, d)
               /\ IF HasPicture(d.lib) /\ (fed \/ d.lib.drained)
                  THEN Gives(o, d) /\ o.state = "RetrieveFrames"
                  ELSE /\ Lacks(o, d)
                       /\ o.state = IF d.lib.drained THEN "EndOfBitstream" ELSE "NeedsMoreData"
<1>1. CASE HasPicture(d.lib) /\ (fed \/ d.lib.drained)
  BY <1>1, GiveType DEF Libde265_decodeFrame, Gives
<1>2. CASE ~(HasPicture(d.lib) /\ (fed \/ d.lib.drained))
  <2> DEFINE st == IF d.lib.drained THEN "EndOfBitstream" ELSE "NeedsMoreData"
  <2>1. Libde265_decodeFrame(d, fed) = [d EXCEPT !.state = st, !.shown = NoPicture, !.ok = FALSE]
    BY <1>2 DEF Libde265_decodeFrame
  <2>2. st \in DecoderState
    BY TypedValues
  <2> HIDE DEF st
  <2>3. LET o == [d EXCEPT !.state = st, !.shown = NoPicture, !.ok = FALSE]
        IN  o \in DecoderType(s) /\ Alike(o, d) /\ Lacks(o, d) /\ o.state = st
    BY <2>2, NoneType
  <2>4. QED
    BY <1>2, <2>1, <2>3 DEF st
<1>3. QED
  BY <1>1, <1>2

\* decoderLibde265::pushData
LEMMA Libde265Push ==
    ASSUME NEW s \in Setup, NEW d \in DecoderType(s), NEW u \in Material(s) \cup {ParameterSet},
           ~d.flushing
    PROVE  LET o == Libde265_pushData(d, u)
               lib == Fed(d.lib, u)
           IN  /\ o \in DecoderType(s) /\ o.engine = d.engine /\ o.header = d.header
               /\ o.ready = d.ready /\ o.ok /\ o.flushing = (u = EmptyData)
               /\ IF HasPicture(lib)
                  THEN /\ o.lib = Taken(lib) /\ o.shown = Min(lib.held) /\ o.buffer = NoPicture
                       /\ o.waiting /\ o.state = "RetrieveFrames"
                  ELSE /\ o.lib = lib /\ o.waiting = d.waiting
                       /\ o.state = IF lib.drained THEN "EndOfBitstream" ELSE "NeedsMoreData"
<1> DEFINE lib == Fed(d.lib, u)
           f == IF u = EmptyData THEN [d EXCEPT !.lib.drained = TRUE, !.flushing = TRUE]
                ELSE [d EXCEPT !.lib = Decode(@, u)]
           out == Libde265_decodeFrame(f, TRUE)
           o == Libde265_pushData(d, u)
<1>1. d.lib \in LibraryType(s) /\ lib \in LibraryType(s)
  BY FedType DEF DecoderType
<1>2. f = IF u = EmptyData THEN [d EXCEPT !.lib = lib, !.flushing = TRUE] ELSE [d EXCEPT !.lib = lib]
  BY DEF Fed, DecoderType
<1>3. o = [out EXCEPT !.waiting = @ \/ out.ok, !.ok = TRUE]
  BY DEF Libde265_pushData
<1> HIDE DEF lib, f, o
<1>4. /\ f \in DecoderType(s) /\ f.engine = d.engine /\ f.header = d.header /\ f.ready = d.ready
      /\ f.waiting = d.waiting /\ f.flushing = (u = EmptyData) /\ f.lib = lib
  <2>1. /\ [d EXCEPT !.lib = lib, !.flushing = TRUE] \in DecoderType(s)
        /\ [d EXCEPT !.lib = lib] \in DecoderType(s)
    BY <1>1, Zenon DEF DecoderType
  <2>2. QED
    BY <1>2, <2>1 DEF DecoderType
<1>5. /\ out \in DecoderType(s) /\ Alike(out, f)
      /\ IF HasPicture(lib) THEN Gives(out, f) /\ out.state = "RetrieveFrames"
         ELSE /\ Lacks(out, f)
              /\ out.state = IF lib.drained THEN "EndOfBitstream" ELSE "NeedsMoreData"
  BY <1>4, Libde265Frame
<1> HIDE DEF out
<1>6. out.waiting \in BOOLEAN /\ out.ok \in BOOLEAN
  BY <1>5 DEF DecoderType
<1>7. o \in DecoderType(s)
  <2>1. (out.waiting \/ out.ok) \in BOOLEAN
    BY <1>6
  <2>2. [out EXCEPT !.waiting = out.waiting \/ out.ok, !.ok = TRUE] \in DecoderType(s)
    BY <1>5, <2>1, Zenon DEF DecoderType
  <2>3. QED
    BY <1>3, <1>5, <2>2
<1>8. /\ o.engine = out.engine /\ o.header = out.header /\ o.ready = out.ready /\ o.ok
      /\ o.flushing = out.flushing /\ o.waiting = (out.waiting \/ out.ok) /\ o.lib = out.lib
      /\ o.shown = out.shown /\ o.buffer = out.buffer /\ o.state = out.state
  BY <1>3, <1>5 DEF DecoderType
<1>9. QED
  BY <1>4, <1>5, <1>6, <1>7, <1>8 DEF Alike, Gives, Lacks, lib, o

\* HM and VTM. `Parsed' is the library after the data was pushed.
Completes(d, u) == u = EmptyData \/ (u.kind = "picture" /\ d.lib.parsing # EmptyData)
Parsed(d, u) ==
    LET done == [Decode(d.lib, d.lib.parsing) EXCEPT !.parsing = EmptyData]
    IN  IF u = EmptyData THEN [done EXCEPT !.drained = TRUE]
        ELSE IF Completes(d, u) THEN done
        ELSE [d.lib EXCEPT !.parsing = IF u.kind = "picture" THEN u ELSE @]

\* The library after it parsed the unit it kept.
LEMMA ParsedType ==
    ASSUME NEW s \in Setup, NEW d \in DecoderType(s), NEW u \in Material(s) \cup {ParameterSet}
    PROVE  LET lib == Parsed(d, u)
               done == Decode(d.lib, d.lib.parsing)
           IN  /\ lib \in LibraryType(s) /\ lib.delay = d.lib.delay
               /\ Completes(d, u) =>
                    /\ lib.parsing = EmptyData /\ lib.drained = (d.lib.drained \/ u = EmptyData)
                    /\ lib.held = done.held /\ lib.start = done.start
               /\ ~Completes(d, u) =>
                    /\ lib.parsing = IF u.kind = "picture" THEN u ELSE d.lib.parsing
                    /\ lib.held = d.lib.held /\ lib.start = d.lib.start
                    /\ lib.drained = d.lib.drained
<1> DEFINE done == Decode(d.lib, d.lib.parsing)
<1>1. d.lib \in LibraryType(s) /\ d.lib.parsing \in Material(s)
  BY DEF DecoderType, LibraryType
<1>2. done \in LibraryType(s) /\ done.drained = d.lib.drained /\ done.delay = d.lib.delay
  BY <1>1, DecodeType
<1>3. EmptyData \in Material(s) /\ (u.kind = "picture" => u \in Material(s)) /\ EmptyData.kind = "empty"
  BY UnitFacts
<1> HIDE DEF done
<1>4. CASE u = EmptyData
  <2>1. Parsed(d, u) = [done EXCEPT !.parsing = EmptyData, !.drained = TRUE] /\ Completes(d, u)
    BY <1>4 DEF Parsed, Completes, done
  <2>2. QED
    BY <1>2, <1>3, <1>4, <2>1 DEF LibraryType, done
<1>5. CASE u # EmptyData /\ Completes(d, u)
  <2>1. Parsed(d, u) = [done EXCEPT !.parsing = EmptyData]
    BY <1>5 DEF Parsed, done
  <2>2. QED
    BY <1>2, <1>3, <1>5, <2>1 DEF LibraryType, done
<1>6. CASE u # EmptyData /\ ~Completes(d, u)
  <2>1. Parsed(d, u) = [d.lib EXCEPT !.parsing = IF u.kind = "picture" THEN u ELSE d.lib.parsing]
    BY <1>1, <1>6 DEF Parsed, LibraryType
  <2>2. QED
    BY <1>1, <1>3, <1>6, <2>1 DEF LibraryType
<1>7. QED
  BY <1>4, <1>5, <1>6 DEF Completes

\* decoderHM and decoderVTM: the next frame.
LEMMA HMFrame ==
    ASSUME NEW s \in Setup, NEW d \in DecoderType(s)
    PROVE  LET o == NextFrame(d)
           IN  /\ o \in DecoderType(s) /\ Alike(o, d)
               /\ IF HasPicture(d.lib)
                  THEN /\ o.lib = Taken(d.lib) /\ o.shown = Min(d.lib.held) /\ o.ok
                       /\ o.state = d.state /\ (d.engine = "VTM" => o.buffer = NoPicture)
                  ELSE Lacks(o, d) /\ o.state = "NeedsMoreData"
<1>1. CASE HasPicture(d.lib)
  <2>1. HM_getNextFrameFromDecoder(d) = [TakePicture(d) EXCEPT !.ok = TRUE]
    BY <1>1 DEF HM_getNextFrameFromDecoder
  <2>2. [TakePicture(d) EXCEPT !.ok = TRUE].ok
    BY <1>1, GiveType
  <2>3. VTM_getNextFrameFromDecoder(d) = [[TakePicture(d) EXCEPT !.ok = TRUE] EXCEPT !.buffer = NoPicture]
    BY <2>1, <2>2 DEF VTM_getNextFrameFromDecoder
  <2>4. VTM_getNextFrameFromDecoder(d) = [TakePicture(d) EXCEPT !.buffer = NoPicture, !.ok = TRUE]
    BY <1>1, <2>3, TakeType DEF DecoderType
  <2>5. CASE d.engine = "VTM"
    <3>1. NextFrame(d) = [TakePicture(d) EXCEPT !.buffer = NoPicture, !.ok = TRUE]
      BY <2>4, <2>5 DEF NextFrame
    <3>2. LET o == [TakePicture(d) EXCEPT !.buffer = NoPicture, !.ok = TRUE]
          IN  o \in DecoderType(s) /\ Alike(o, d) /\ Gives(o, d) /\ o.state = d.state
      BY <1>1, GiveType
    <3>3. QED
      BY <1>1, <3>1, <3>2 DEF Gives
  <2>6. CASE d.engine # "VTM"
    <3>1. NextFrame(d) = [TakePicture(d) EXCEPT !.ok = TRUE]
      BY <2>1, <2>6 DEF NextFrame
    <3>2. LET o == [TakePicture(d) EXCEPT !.ok = TRUE]
          IN  /\ o \in DecoderType(s) /\ Alike(o, d) /\ o.lib = Taken(d.lib)
              /\ o.shown = Min(d.lib.held) /\ o.ok /\ o.state = d.state
      BY <1>1, GiveType
    <3>3. QED
      BY <1>1, <2>6, <3>1, <3>2
  <2>7. QED
    BY <2>5, <2>6
<1>2. CASE ~HasPicture(d.lib)
  <2>1. HM_getNextFrameFromDecoder(d)
          = [d EXCEPT !.state = "NeedsMoreData", !.shown = NoPicture, !.ok = FALSE]
    BY <1>2 DEF HM_getNextFrameFromDecoder
  <2>2. VTM_getNextFrameFromDecoder(d) = HM_getNextFrameFromDecoder(d)
    BY <2>1, NoneType, TypedValues DEF VTM_getNextFrameFromDecoder, Lacks
  <2>3. NextFrame(d) = [d EXCEPT !.state = "NeedsMoreData", !.shown = NoPicture, !.ok = FALSE]
    BY <2>1, <2>2 DEF NextFrame
  <2>4. LET o == [d EXCEPT !.state = "NeedsMoreData", !.shown = NoPicture, !.ok = FALSE]
        IN  o \in DecoderType(s) /\ Alike(o, d) /\ Lacks(o, d) /\ o.state = "NeedsMoreData"
    BY NoneType, TypedValues
  <2>5. QED
    BY <1>2, <2>3, <2>4
<1>3. QED
  BY <1>1, <1>2

\* decoderHM::pushData and decoderVTM::pushData
LEMMA HMPush ==
    ASSUME NEW s \in Setup, NEW d \in DecoderType(s), NEW u \in Material(s) \cup {ParameterSet}
    PROVE  LET o == HM_pushData(d, u)
               lib == Parsed(d, u)
           IN  /\ o \in DecoderType(s) /\ o.engine = d.engine /\ o.header = d.header
               /\ o.ready = d.ready /\ o.flushing = d.flushing
               /\ o.ok = (u = EmptyData \/ ~Completes(d, u))
               /\ IF Completes(d, u) /\ HasPicture(lib)
                  THEN /\ o.lib = Taken(lib) /\ o.shown = Min(lib.held) /\ o.buffer = NoPicture
                       /\ o.waiting /\ o.state = "RetrieveFrames"
                  ELSE /\ o.lib = lib /\ o.waiting = d.waiting
                       /\ o.state = IF Completes(d, u) THEN "NeedsMoreData" ELSE d.state
<1> DEFINE lib == Parsed(d, u)
           f == [d EXCEPT !.lib = lib]
           out == IF Completes(d, u) THEN NextFrame(f) ELSE Refused(f)
           ok == u = EmptyData \/ ~Completes(d, u)
           o == HM_pushData(d, u)
<1>1. lib \in LibraryType(s)
  BY ParsedType
<1>2. u = EmptyData => u.kind # "picture"
  BY UnitFacts
<1>3. o = IF out.ok THEN [out EXCEPT !.waiting = TRUE, !.state = "RetrieveFrames",
                                     !.buffer = NoPicture, !.ok = ok]
          ELSE [out EXCEPT !.ok = ok]
  <2> DEFINE newPicture == u.kind = "picture" /\ d.lib.parsing # EmptyData
             done == [Decode(d.lib, d.lib.parsing) EXCEPT !.parsing = EmptyData]
             lib2 == IF newPicture THEN done
                     ELSE IF u = EmptyData THEN [done EXCEPT !.drained = TRUE]
                     ELSE [d.lib EXCEPT !.parsing = IF u.kind = "picture" THEN u ELSE @]
  <2>1. Completes(d, u) = (newPicture \/ u = EmptyData) /\ ok = ~newPicture
    BY <1>2 DEF Completes
  <2>2. lib = lib2
    BY <1>2, <2>1 DEF Parsed
  <2> HIDE DEF ok, lib
  <2>3. QED
    BY <2>1, <2>2, Zenon DEF HM_pushData
<1> HIDE DEF lib, o, ok
<1>4. f \in DecoderType(s) /\ Alike(f, d) /\ f.lib = lib /\ f.state = d.state
  <2>1. f \in DecoderType(s)
    BY <1>1, Zenon DEF DecoderType
  <2>2. QED
    BY <2>1 DEF DecoderType, Alike
<1> HIDE DEF f
<1>5. /\ out \in DecoderType(s) /\ Alike(out, f) /\ (out.ok <=> Completes(d, u) /\ HasPicture(lib))
      /\ out.ok => out.lib = Taken(lib) /\ out.shown = Min(lib.held)
      /\ ~out.ok => /\ out.lib = lib
                    /\ out.state = IF Completes(d, u) THEN "NeedsMoreData" ELSE d.state
  BY <1>4, HMFrame, RefusedType DEF Lacks
<1> HIDE DEF out
<1>6. ok \in BOOLEAN
  BY DEF ok, Completes
<1>7. CASE out.ok
  <2>1. o = [out EXCEPT !.waiting = TRUE, !.state = "RetrieveFrames", !.buffer = NoPicture, !.ok = ok]
    BY <1>3, <1>7
  <2>2. o \in DecoderType(s)
    <3>1. [out EXCEPT !.waiting = TRUE, !.state = "RetrieveFrames", !.buffer = NoPicture, !.ok = ok]
            \in DecoderType(s)
      BY <1>5, <1>6, TypedValues, Zenon DEF DecoderType
    <3>2. QED
      BY <2>1, <3>1
  <2>3. /\ o.engine = out.engine /\ o.header = out.header /\ o.ready = out.ready
        /\ o.flushing = out.flushing /\ o.ok = ok /\ o.lib = out.lib /\ o.shown = out.shown
        /\ o.buffer = NoPicture /\ o.waiting /\ o.state = "RetrieveFrames"
    BY <1>5, <2>1 DEF DecoderType
  <2>4. QED
    BY <1>4, <1>5, <1>7, <2>2, <2>3 DEF Alike, lib, ok, o
<1>8. CASE ~out.ok
  <2>1. o = [out EXCEPT !.ok = ok]
    BY <1>3, <1>8
  <2>2. o \in DecoderType(s)
    <3>1. [out EXCEPT !.ok = ok] \in DecoderType(s)
      BY <1>5, <1>6, Zenon DEF DecoderType
    <3>2. QED
      BY <2>1, <3>1
  <2>3. /\ o.engine = out.engine /\ o.header = out.header /\ o.ready = out.ready
        /\ o.flushing = out.flushing /\ o.ok = ok /\ o.lib = out.lib
        /\ o.waiting = out.waiting /\ o.state = out.state
    BY <1>5, <2>1 DEF DecoderType
  <2>4. QED
    BY <1>4, <1>5, <1>8, <2>2, <2>3 DEF Alike, lib, ok, o
<1>9. QED
  BY <1>7, <1>8

\* VVdeC.
LEMMA VVDecPush ==
    ASSUME NEW s \in Setup, NEW d \in DecoderType(s), NEW u \in Material(s) \cup {ParameterSet},
           ~d.flushing
    PROVE  LET o == VVDec_pushData(d, u)
               lib == Fed(d.lib, u)
           IN  /\ o \in DecoderType(s) /\ o.engine = d.engine /\ o.header = d.header
               /\ o.ready = d.ready /\ o.waiting = d.waiting /\ o.ok
               /\ o.flushing = (u = EmptyData)
               /\ u = EmptyData => o.lib = lib /\ o.state = "RetrieveFrames"
               /\ u # EmptyData =>
                    IF HasPicture(lib)
                    THEN /\ o.lib = Taken(lib) /\ o.shown = Min(lib.held) /\ o.buffer = NoPicture
                         /\ o.state = "RetrieveFrames"
                    ELSE o.lib = lib /\ o.state = d.state
<1> DEFINE lib == Fed(d.lib, u)
           o == VVDec_pushData(d, u)
<1>1. lib \in LibraryType(s) /\ d.lib \in LibraryType(s) /\ d.flushing = FALSE
  BY FedType DEF DecoderType
<1>2. CASE u = EmptyData
  <2>1. o = [d EXCEPT !.lib = lib, !.flushing = TRUE, !.state = "RetrieveFrames",
                      !.buffer = NoPicture, !.ok = TRUE]
    BY <1>2 DEF VVDec_pushData, Fed, DecoderType
  <2> HIDE DEF lib, o
  <2>2. o \in DecoderType(s)
    <3>1. [d EXCEPT !.lib = lib, !.flushing = TRUE, !.state = "RetrieveFrames",
                    !.buffer = NoPicture, !.ok = TRUE] \in DecoderType(s)
      BY <1>1, TypedValues, Zenon DEF DecoderType
    <3>2. QED
      BY <2>1, <3>1
  <2>3. /\ o.engine = d.engine /\ o.header = d.header /\ o.ready = d.ready
        /\ o.waiting = d.waiting /\ o.ok /\ o.flushing /\ o.lib = lib /\ o.state = "RetrieveFrames"
    BY <2>1 DEF DecoderType
  <2>4. QED
    BY <1>2, <2>2, <2>3 DEF lib, o
<1>3. CASE u # EmptyData
  <2> DEFINE f == [d EXCEPT !.lib = lib, !.ok = TRUE]
  <2>1. o = IF HasPicture(f.lib)
            THEN [TakePicture(f) EXCEPT !.state = "RetrieveFrames", !.buffer = NoPicture]
            ELSE [f EXCEPT !.shown = NoPicture]
    BY <1>3 DEF VVDec_pushData, Fed, DecoderType
  <2> HIDE DEF lib, o
  <2>2. f \in DecoderType(s)
    BY <1>1, TypedValues, Zenon DEF DecoderType
  <2>3. Alike(f, d) /\ f.lib = lib /\ f.ok /\ f.state = d.state
    BY <2>2 DEF DecoderType, Alike
  <2> HIDE DEF f
  <2>4. CASE HasPicture(lib)
    <3>1. LET z == [TakePicture(f) EXCEPT !.state = "RetrieveFrames", !.buffer = NoPicture]
          IN  /\ z \in DecoderType(s) /\ Alike(z, f) /\ z.state = "RetrieveFrames"
              /\ Gives(z, f)
      BY <2>2, <2>3, <2>4, GiveType
    <3>2. o \in DecoderType(s) /\ Alike(o, f) /\ o.state = "RetrieveFrames" /\ Gives(o, f)
      BY <2>1, <2>3, <2>4, <3>1
    <3>3. QED
      BY <1>1, <1>3, <2>3, <2>4, <3>2 DEF Alike, Gives, lib, o
  <2>5. CASE ~HasPicture(lib)
    <3>1. o = [f EXCEPT !.shown = NoPicture]
      BY <2>1, <2>3, <2>5
    <3>2. [f EXCEPT !.shown = NoPicture] \in DecoderType(s)
      BY <2>2, TypedValues, Zenon DEF DecoderType
    <3>3. /\ o \in DecoderType(s) /\ Alike(o, f) /\ o.lib = f.lib /\ o.ok = f.ok /\ o.state = f.state
      BY <3>1, <3>2, <2>2 DEF DecoderType, Alike
    <3>4. QED
      BY <1>1, <1>3, <2>3, <2>5, <3>3 DEF Alike, lib, o
  <2>6. QED
    BY <2>4, <2>5
<1>4. QED
  BY <1>2, <1>3

\* decoderVVDec::decodeNextFrame
LEMMA VVDecNext ==
    ASSUME NEW s \in Setup, NEW d \in DecoderType(s)
    PROVE  LET o == VVDec_decodeNextFrame(d)
           IN  /\ o \in DecoderType(s) /\ o.engine = d.engine /\ o.header = d.header
               /\ o.flushing = d.flushing /\ o.waiting = d.waiting
               /\ d.flushing =>
                    /\ o.ready = d.ready
                    /\ IF HasPicture(d.lib) THEN Gives(o, d) /\ o.state = d.state
                       ELSE Lacks(o, d) /\ o.state = "EndOfBitstream"
               /\ ~d.flushing =>
                    /\ o.lib = d.lib /\ o.shown = d.shown /\ o.buffer = d.buffer
                    /\ o.ready = ~d.ready /\ o.ok = ~d.ready
                    /\ o.state = IF d.ready THEN "NeedsMoreData" ELSE d.state
<1> DEFINE o == VVDec_decodeNextFrame(d)
<1>1. d.flushing \in BOOLEAN /\ d.ready \in BOOLEAN
  BY DEF DecoderType
<1>2. CASE d.flushing /\ HasPicture(d.lib)
  <2>1. o = [TakePicture(d) EXCEPT !.buffer = NoPicture, !.ok = TRUE]
    BY <1>2 DEF VVDec_decodeNextFrame
  <2>2. LET z == [TakePicture(d) EXCEPT !.buffer = NoPicture, !.ok = TRUE]
        IN  z \in DecoderType(s) /\ Alike(z, d) /\ Gives(z, d) /\ z.state = d.state
    BY <1>2, GiveType
  <2> HIDE DEF o
  <2>3. o \in DecoderType(s) /\ Alike(o, d) /\ Gives(o, d) /\ o.state = d.state
    BY <2>1, <2>2
  <2>4. QED
    BY <1>2, <2>3 DEF Alike, o
<1>3. CASE d.flushing /\ ~HasPicture(d.lib)
  <2>1. o = [d EXCEPT !.state = "EndOfBitstream", !.ok = FALSE]
    BY <1>3 DEF VVDec_decodeNextFrame
  <2> HIDE DEF o
  <2>2. [d EXCEPT !.state = "EndOfBitstream", !.ok = FALSE] \in DecoderType(s)
    BY TypedValues, Zenon DEF DecoderType
  <2>3. o \in DecoderType(s) /\ Alike(o, d) /\ Lacks(o, d) /\ o.state = "EndOfBitstream"
    BY <2>1, <2>2 DEF DecoderType, Alike, Lacks
  <2>4. QED
    BY <1>3, <2>3 DEF Alike, o
<1>4. CASE ~d.flushing /\ d.ready
  <2>1. o = [d EXCEPT !.state = "NeedsMoreData", !.ready = FALSE, !.ok = FALSE]
    BY <1>4 DEF VVDec_decodeNextFrame
  <2> HIDE DEF o
  <2>2. [d EXCEPT !.state = "NeedsMoreData", !.ready = FALSE, !.ok = FALSE] \in DecoderType(s)
    BY TypedValues, Zenon DEF DecoderType
  <2>3. /\ o \in DecoderType(s) /\ o.engine = d.engine /\ o.header = d.header
        /\ o.flushing = d.flushing /\ o.waiting = d.waiting
        /\ o.lib = d.lib /\ o.shown = d.shown /\ o.buffer = d.buffer
        /\ o.ready = FALSE /\ o.ok = FALSE /\ o.state = "NeedsMoreData"
    BY <2>1, <2>2 DEF DecoderType
  <2>4. QED
    BY <1>1, <1>4, <2>3 DEF o
<1>5. CASE ~d.flushing /\ ~d.ready
  <2>1. o = [d EXCEPT !.ready = TRUE, !.ok = TRUE]
    BY <1>5 DEF VVDec_decodeNextFrame
  <2> HIDE DEF o
  <2>2. [d EXCEPT !.ready = TRUE, !.ok = TRUE] \in DecoderType(s)
    BY TypedValues, Zenon DEF DecoderType
  <2>3. /\ o \in DecoderType(s) /\ o.engine = d.engine /\ o.header = d.header
        /\ o.flushing = d.flushing /\ o.waiting = d.waiting
        /\ o.lib = d.lib /\ o.shown = d.shown /\ o.buffer = d.buffer
        /\ o.ready = TRUE /\ o.ok = TRUE /\ o.state = d.state
    BY <2>1, <2>2 DEF DecoderType
  <2>4. QED
    BY <1>1, <1>5, <2>3 DEF o
<1>6. QED
  BY <1>1, <1>2, <1>3, <1>4, <1>5

\* dav1d, with its header.
LEMMA Dav1dFrame ==
    ASSUME NEW s \in Setup, NEW d \in DecoderType(s)
    PROVE  LET o == Dav1d_decodeFrame(d)
           IN  /\ o \in DecoderType(s) /\ Alike(o, d)
               /\ IF HasPicture(d.lib) THEN Gives(o, d) /\ o.state = "RetrieveFrames"
                  ELSE Lacks(o, d) /\ o.state = "NeedsMoreData"
<1> DEFINE o == Dav1d_decodeFrame(d)
<1>1. CASE HasPicture(d.lib)
  <2>1. o = [TakePicture(d) EXCEPT !.state = "RetrieveFrames", !.buffer = NoPicture, !.ok = TRUE]
    BY <1>1 DEF Dav1d_decodeFrame
  <2>2. LET z == [TakePicture(d) EXCEPT !.state = "RetrieveFrames", !.buffer = NoPicture, !.ok = TRUE]
        IN  z \in DecoderType(s) /\ Alike(z, d) /\ Gives(z, d) /\ z.state = "RetrieveFrames"
    BY <1>1, GiveType
  <2>3. QED
    BY <1>1, <2>1, <2>2
<1>2. CASE ~HasPicture(d.lib)
  <2>1. o = [d EXCEPT !.state = "NeedsMoreData", !.shown = NoPicture, !.ok = FALSE]
    BY <1>2 DEF Dav1d_decodeFrame
  <2>2. LET z == [d EXCEPT !.state = "NeedsMoreData", !.shown = NoPicture, !.ok = FALSE]
        IN  z \in DecoderType(s) /\ Alike(z, d) /\ Lacks(z, d) /\ z.state = "NeedsMoreData"
    BY NoneType, TypedValues
  <2>3. QED
    BY <1>2, <2>1, <2>2
<1>3. QED
  BY <1>1, <1>2

\* decoderDav1d::pushData
LEMMA Dav1dPush ==
    ASSUME NEW s \in Setup, NEW d \in DecoderType(s), NEW u \in Material(s) \cup {ParameterSet},
           ~d.flushing, d.header \/ u = ParameterSet
    PROVE  LET o == Dav1d_pushData(d, u)
               lib == IF u = EmptyData THEN d.lib ELSE Decode(d.lib, u)
           IN  /\ o \in DecoderType(s) /\ o.engine = d.engine /\ o.header /\ o.ready = d.ready
               /\ o.ok /\ o.flushing = (u = EmptyData)
               /\ IF HasPicture(lib)
                  THEN /\ o.lib = Taken(lib) /\ o.shown = Min(lib.held) /\ o.buffer = NoPicture
                       /\ o.waiting /\ o.state = "RetrieveFrames"
                  ELSE o.lib = lib /\ o.waiting = d.waiting /\ o.state = "NeedsMoreData"
<1> DEFINE lib == IF u = EmptyData THEN d.lib ELSE Decode(d.lib, u)
           f == IF u = EmptyData THEN [d EXCEPT !.flushing = TRUE]
                ELSE [d EXCEPT !.lib = Decode(@, u), !.header = TRUE]
           out == Dav1d_decodeFrame(f)
           o == Dav1d_pushData(d, u)
<1>1. d.lib \in LibraryType(s) /\ lib \in LibraryType(s)
  BY DecodeType DEF DecoderType
<1>2. ParameterSet # EmptyData
  BY UnitFacts
<1>3. o = [out EXCEPT !.waiting = @ \/ out.ok, !.ok = TRUE]
  BY <1>2 DEF Dav1d_pushData
<1>4. f = IF u = EmptyData THEN [d EXCEPT !.flushing = TRUE] ELSE [d EXCEPT !.lib = lib, !.header = TRUE]
  BY DEF DecoderType
<1>5. u = EmptyData => lib = d.lib
  OBVIOUS
<1> HIDE DEF lib, f, o
<1>6. /\ f \in DecoderType(s) /\ f.engine = d.engine /\ f.header /\ f.ready = d.ready
      /\ f.waiting = d.waiting /\ f.flushing = (u = EmptyData) /\ f.lib = lib
  <2>1. CASE u = EmptyData
    <3>1. [d EXCEPT !.flushing = TRUE] \in DecoderType(s)
      BY TypedValues, Zenon DEF DecoderType
    <3>2. QED
      BY <1>2, <1>4, <1>5, <2>1, <3>1 DEF DecoderType
  <2>2. CASE u # EmptyData
    <3>1. [d EXCEPT !.lib = lib, !.header = TRUE] \in DecoderType(s)
      BY <1>1, TypedValues, Zenon DEF DecoderType
    <3>2. QED
      BY <1>4, <2>2, <3>1 DEF DecoderType
  <2>3. QED
    BY <2>1, <2>2
<1>7. /\ out \in DecoderType(s) /\ Alike(out, f)
      /\ IF HasPicture(lib) THEN Gives(out, f) /\ out.state = "RetrieveFrames"
         ELSE Lacks(out, f) /\ out.state = "NeedsMoreData"
  BY <1>6, Dav1dFrame
<1> HIDE DEF out
<1>8. out.waiting \in BOOLEAN /\ out.ok \in BOOLEAN
  BY <1>7 DEF DecoderType
<1>9. o \in DecoderType(s)
  <2>1. (out.waiting \/ out.ok) \in BOOLEAN
    BY <1>8
  <2>2. [out EXCEPT !.waiting = out.waiting \/ out.ok, !.ok = TRUE] \in DecoderType(s)
    BY <1>7, <2>1, Zenon DEF DecoderType
  <2>3. QED
    BY <1>3, <1>7, <2>2
<1>10. /\ o.engine = out.engine /\ o.header = out.header /\ o.ready = out.ready /\ o.ok
       /\ o.flushing = out.flushing /\ o.waiting = (out.waiting \/ out.ok) /\ o.lib = out.lib
       /\ o.shown = out.shown /\ o.buffer = out.buffer /\ o.state = out.state
  BY <1>3, <1>7 DEF DecoderType
<1>11. QED
  BY <1>6, <1>7, <1>8, <1>9, <1>10 DEF Alike, Gives, Lacks, lib, o

\* FFmpeg.
Same(o, d) ==
    o.engine = d.engine /\ o.ready = d.ready /\ o.header = d.header /\ o.waiting = d.waiting

\* decoderFFmpeg: pushing
LEMMA FFMpegPush ==
    ASSUME NEW s \in Setup, NEW d \in DecoderType(s), NEW u \in Material(s)
    PROVE  LET o == FFMpeg_pushData(d, u)
           IN  /\ o \in DecoderType(s) /\ Same(o, d)
               /\ o.flushing = (d.flushing \/ u = EmptyData)
               /\ u = EmptyData => ~o.ok /\ o.lib = d.lib /\ o.state = "RetrieveFrames"
               /\ u # EmptyData /\ d.flushing => ~o.ok /\ o.lib = d.lib /\ o.state = d.state
               /\ u # EmptyData /\ ~d.flushing =>
                    IF HasPicture(d.lib)
                    THEN ~o.ok /\ o.lib = d.lib /\ o.state = "RetrieveFrames"
                    ELSE o.ok /\ o.lib = Decode(d.lib, u) /\ o.state = d.state
<1> DEFINE o == FFMpeg_pushData(d, u)
<1>1. d.lib \in LibraryType(s) /\ d.flushing \in BOOLEAN
  BY DEF DecoderType
<1>2. CASE u = EmptyData
  <2>1. o = [d EXCEPT !.flushing = TRUE, !.state = "RetrieveFrames", !.ok = FALSE]
    BY <1>2 DEF FFMpeg_pushData
  <2> HIDE DEF o
  <2>2. [d EXCEPT !.flushing = TRUE, !.state = "RetrieveFrames", !.ok = FALSE] \in DecoderType(s)
    BY TypedValues, Zenon DEF DecoderType
  <2>3. /\ o \in DecoderType(s) /\ Same(o, d)
        /\ o.flushing /\ ~o.ok /\ o.lib = d.lib /\ o.state = "RetrieveFrames"
    BY <2>1, <2>2 DEF DecoderType, Same, Alike
  <2>4. QED
    BY <1>2, <2>3 DEF o
<1>3. CASE u # EmptyData /\ d.flushing
  <2>1. o = Refused(d)
    BY <1>3 DEF FFMpeg_pushData
  <2>2. /\ o \in DecoderType(s) /\ Same(o, d)
        /\ ~o.ok /\ o.lib = d.lib /\ o.state = d.state /\ o.flushing
    BY <1>3, <2>1, RefusedType DEF DecoderType, Same, Alike
  <2>3. QED
    BY <1>3, <2>2
<1>4. CASE u # EmptyData /\ ~d.flushing /\ HasPicture(d.lib)
  <2>1. o = [d EXCEPT !.state = "RetrieveFrames", !.ok = FALSE]
    BY <1>4 DEF FFMpeg_pushData
  <2> HIDE DEF o
  <2>2. [d EXCEPT !.state = "RetrieveFrames", !.ok = FALSE] \in DecoderType(s)
    BY TypedValues, Zenon DEF DecoderType
  <2>3. /\ o \in DecoderType(s) /\ Same(o, d)
        /\ ~o.ok /\ o.lib = d.lib /\ o.state = "RetrieveFrames" /\ o.flushing = FALSE
    BY <1>4, <2>1, <2>2 DEF DecoderType, Same, Alike
  <2>4. QED
    BY <1>1, <1>4, <2>3 DEF o
<1>5. CASE u # EmptyData /\ ~d.flushing /\ ~HasPicture(d.lib)
  <2> DEFINE lib == Decode(d.lib, u)
  <2>1. o = [d EXCEPT !.lib = lib, !.ok = TRUE]
    BY <1>5 DEF FFMpeg_pushData, DecoderType
  <2>2. lib \in LibraryType(s)
    BY <1>1, DecodeType
  <2> HIDE DEF o, lib
  <2>3. [d EXCEPT !.lib = lib, !.ok = TRUE] \in DecoderType(s)
    BY <2>2, TypedValues, Zenon DEF DecoderType
  <2>4. /\ o \in DecoderType(s) /\ Same(o, d)
        /\ o.ok /\ o.lib = lib /\ o.state = d.state /\ o.flushing = FALSE
    BY <1>5, <2>1, <2>3 DEF DecoderType, Same, Alike
  <2>5. QED
    BY <1>1, <1>5, <2>4 DEF o, lib
<1>6. QED
  BY <1>1, <1>2, <1>3, <1>4, <1>5

\* decoderFFmpeg::decodeNextFrame
LEMMA FFMpegNext ==
    ASSUME NEW s \in Setup, NEW d \in DecoderType(s)
    PROVE  LET o == FFMpeg_decodeNextFrame(d)
           IN  /\ o \in DecoderType(s) /\ Alike(o, d)
               /\ IF HasPicture(d.lib) THEN Gives(o, d) /\ o.state = d.state
                  ELSE /\ Lacks(o, d)
                       /\ o.state = IF d.flushing THEN "EndOfBitstream" ELSE "NeedsMoreData"
<1> DEFINE o == FFMpeg_decodeNextFrame(d)
<1>1. CASE HasPicture(d.lib)
  <2>1. o = [TakePicture(d) EXCEPT !.buffer = NoPicture, !.ok = TRUE]
    BY <1>1 DEF FFMpeg_decodeNextFrame
  <2>2. LET z == [TakePicture(d) EXCEPT !.buffer = NoPicture, !.ok = TRUE]
        IN  z \in DecoderType(s) /\ Alike(z, d) /\ Gives(z, d) /\ z.state = d.state
    BY <1>1, GiveType
  <2>3. QED
    BY <1>1, <2>1, <2>2
<1>2. CASE ~HasPicture(d.lib)
  <2> DEFINE st == IF d.flushing THEN "EndOfBitstream" ELSE "NeedsMoreData"
  <2>1. o = [d EXCEPT !.state = st, !.ok = FALSE]
    BY <1>2 DEF FFMpeg_decodeNextFrame
  <2>2. st \in DecoderState
    BY TypedValues
  <2> HIDE DEF o, st
  <2>3. [d EXCEPT !.state = st, !.ok = FALSE] \in DecoderType(s)
    BY <2>2, TypedValues, Zenon DEF DecoderType
  <2>4. o \in DecoderType(s) /\ Alike(o, d) /\ Lacks(o, d) /\ o.state = st
    BY <2>1, <2>3 DEF DecoderType, Alike, Lacks
  <2>5. QED
    BY <1>2, <2>4 DEF o, st
<1>3. QED
  BY <1>1, <1>2

\* The picture that came while data was pushed is waiting.
LEMMA WaitingType ==
    ASSUME NEW s \in Setup, NEW d \in DecoderType(s)
    PROVE  LET o == [d EXCEPT !.waiting = FALSE, !.ok = TRUE]
           IN  /\ o \in DecoderType(s) /\ o.engine = d.engine /\ o.ready = d.ready
               /\ o.flushing = d.flushing /\ o.header = d.header /\ o.waiting = FALSE
               /\ o.ok /\ o.lib = d.lib /\ o.state = d.state
               /\ o.shown = d.shown /\ o.buffer = d.buffer
<1>1. [d EXCEPT !.waiting = FALSE, !.ok = TRUE] \in DecoderType(s)
  BY TypedValues, Zenon DEF DecoderType
<1>2. QED
  BY <1>1 DEF DecoderType

\* The call for the next picture of libde265, HM, VTM and dav1d: the one that
\* waits, or one that the library has.
NextGiven(o, d) ==
    /\ o.engine = d.engine /\ o.ready = d.ready /\ o.flushing = d.flushing
    /\ o.header = d.header /\ o.waiting = FALSE
    /\ d.waiting => o.ok /\ o.lib = d.lib /\ o.shown = d.shown /\ o.buffer = d.buffer
                    /\ o.state = d.state

\* decodeNextFrame of the decoders that remember a picture they have found.
LEMMA WaitingNext ==
    ASSUME NEW s \in Setup, NEW d \in DecoderType(s), d.engine \in {"Libde265", "HM", "VTM", "Dav1d"},
           d.state = "RetrieveFrames", d.engine \in {"HM", "VTM"} => d.shown # NoPicture
    PROVE  LET o == decodeNextFrame(d)
           IN  /\ o \in DecoderType(s) /\ NextGiven(o, d)
               /\ ~d.waiting =>
                    IF HasPicture(d.lib) /\ (d.engine = "Libde265" => d.lib.drained)
                    THEN /\ o.lib = Taken(d.lib) /\ o.shown = Min(d.lib.held) /\ o.ok
                         /\ o.state = "RetrieveFrames" /\ (d.engine # "HM" => o.buffer = NoPicture)
                    ELSE /\ ~o.ok /\ o.lib = d.lib
                         /\ o.state = IF d.engine = "Libde265" /\ d.lib.drained
                                      THEN "EndOfBitstream" ELSE "NeedsMoreData"
<1> DEFINE o == decodeNextFrame(d)
           w == [d EXCEPT !.waiting = FALSE, !.ok = TRUE]
<1>1. d.waiting \in BOOLEAN
  BY DEF DecoderType
<1>2. /\ w \in DecoderType(s) /\ NextGiven(w, d) /\ w.ok /\ w.lib = d.lib /\ w.state = d.state
      /\ w.shown = d.shown /\ w.buffer = d.buffer
  BY WaitingType DEF NextGiven
<1> HIDE DEF w
<1>3. CASE d.engine = "Libde265"
  <2>1. o = IF d.waiting THEN w ELSE Libde265_decodeFrame(d, FALSE)
    BY <1>3 DEF decodeNextFrame, Libde265_decodeNextFrame, w
  <2> HIDE DEF o
  <2>2. CASE d.waiting
    BY <1>2, <2>1, <2>2 DEF o
  <2>3. CASE ~d.waiting
    <3> DEFINE z == Libde265_decodeFrame(d, FALSE)
    <3>1. /\ z \in DecoderType(s) /\ Alike(z, d)
          /\ IF HasPicture(d.lib) /\ d.lib.drained
             THEN Gives(z, d) /\ z.state = "RetrieveFrames"
             ELSE /\ Lacks(z, d)
                  /\ z.state = IF d.lib.drained THEN "EndOfBitstream" ELSE "NeedsMoreData"
      BY Libde265Frame
    <3>2. o = z
      BY <2>1, <2>3
    <3> HIDE DEF z
    <3>3. QED
      BY <1>1, <1>3, <2>3, <3>1, <3>2 DEF Alike, Gives, Lacks, NextGiven, o
  <2>4. QED
    BY <2>2, <2>3
<1>4. CASE d.engine = "Dav1d"
  <2>1. o = IF d.waiting THEN w ELSE Dav1d_decodeFrame(d)
    BY <1>4 DEF decodeNextFrame, Dav1d_decodeNextFrame, w
  <2> HIDE DEF o
  <2>2. CASE d.waiting
    BY <1>2, <2>1, <2>2 DEF o
  <2>3. CASE ~d.waiting
    <3> DEFINE z == Dav1d_decodeFrame(d)
    <3>1. /\ z \in DecoderType(s) /\ Alike(z, d)
          /\ IF HasPicture(d.lib) THEN Gives(z, d) /\ z.state = "RetrieveFrames"
             ELSE Lacks(z, d) /\ z.state = "NeedsMoreData"
      BY Dav1dFrame
    <3>2. o = z
      BY <2>1, <2>3
    <3> HIDE DEF z
    <3>3. QED
      BY <1>1, <1>4, <2>3, <3>1, <3>2 DEF Alike, Gives, Lacks, NextGiven, o
  <2>4. QED
    BY <2>2, <2>3
<1>5. CASE d.engine \in {"HM", "VTM"}
  <2>1. o = IF d.waiting THEN w ELSE NextFrame(d)
    BY <1>5 DEF decodeNextFrame, HM_decodeNextFrame, w
  <2> HIDE DEF o
  <2>2. CASE d.waiting
    BY <1>2, <2>1, <2>2 DEF o
  <2>3. CASE ~d.waiting
    <3> DEFINE z == NextFrame(d)
    <3>1. /\ z \in DecoderType(s) /\ Alike(z, d)
          /\ IF HasPicture(d.lib)
             THEN /\ z.lib = Taken(d.lib) /\ z.shown = Min(d.lib.held) /\ z.ok
                  /\ z.state = d.state /\ (d.engine = "VTM" => z.buffer = NoPicture)
             ELSE Lacks(z, d) /\ z.state = "NeedsMoreData"
      BY HMFrame
    <3>2. o = z
      BY <2>1, <2>3
    <3> HIDE DEF z
    <3>3. QED
      BY <1>1, <1>5, <2>3, <3>1, <3>2 DEF Alike, Lacks, NextGiven, o
  <2>4. QED
    BY <2>2, <2>3
<1>6. QED
  BY <1>3, <1>4, <1>5

\* What a decoder returns is a decoder of the same class. Only dav1d fails by
\* itself, and only if it has not seen a sequence header.
Stays(o, d) ==
    /\ o.engine = d.engine /\ (d.header => o.header)
    /\ d.state # "Error" => o.state # "Error"

\* Pushing keeps the type of a decoder, whichever it is.
LEMMA PushType ==
    ASSUME NEW s \in Setup, NEW d \in DecoderType(s), NEW u \in Material(s) \cup {ParameterSet},
           d.engine = "Dav1d" => d.header \/ u = ParameterSet, d.engine = "FFMpeg" => u \in Material(s)
    PROVE  LET o == pushData(d, u)
           IN  o \in DecoderType(s) /\ Stays(o, d)
<1>0. d.engine \in Engine
  BY DEF DecoderType
<1>1. Refused(d) \in DecoderType(s) /\ Stays(Refused(d), d)
  BY RefusedType DEF Stays, Alike
<1>2. CASE d.state # "NeedsMoreData"
  BY <1>1, <1>2 DEF pushData
<1>3. CASE d.state = "NeedsMoreData" /\ d.engine = "Libde265"
  <2>1. pushData(d, u) = Libde265_pushData(d, u)
    BY <1>3 DEF pushData
  <2>2. CASE d.flushing
    BY <1>1, <2>1, <2>2 DEF Libde265_pushData
  <2>3. CASE ~d.flushing
    BY <2>1, <2>3, Libde265Push DEF Stays
  <2>4. QED
    BY <2>2, <2>3
<1>4. CASE d.state = "NeedsMoreData" /\ d.engine \in {"HM", "VTM"}
  <2>1. pushData(d, u) = HM_pushData(d, u)
    BY <1>4 DEF pushData
  <2>2. QED
    BY <1>4, <2>1, HMPush DEF Stays
<1>5. CASE d.state = "NeedsMoreData" /\ d.engine = "VVDec"
  <2>1. pushData(d, u) = VVDec_pushData(d, u)
    BY <1>5 DEF pushData
  <2>2. CASE d.flushing
    BY <1>1, <2>1, <2>2 DEF VVDec_pushData
  <2>3. CASE ~d.flushing
    BY <1>5, <2>1, <2>3, VVDecPush DEF Stays
  <2>4. QED
    BY <2>2, <2>3
<1>6. CASE d.state = "NeedsMoreData" /\ d.engine = "Dav1d"
  <2>1. pushData(d, u) = Dav1d_pushData(d, u)
    BY <1>6 DEF pushData
  <2>2. CASE d.flushing
    BY <1>1, <2>1, <2>2 DEF Dav1d_pushData
  <2>3. CASE ~d.flushing
    BY <1>6, <2>1, <2>3, Dav1dPush DEF Stays
  <2>4. QED
    BY <2>2, <2>3
<1>7. CASE d.state = "NeedsMoreData" /\ d.engine = "FFMpeg"
  <2>1. pushData(d, u) = FFMpeg_pushData(d, u)
    BY <1>7 DEF pushData
  <2>2. d.flushing \in BOOLEAN
    BY DEF DecoderType
  <2>3. QED
    BY <1>7, <2>1, <2>2, FFMpegPush DEF Stays, Same
<1>8. QED
  BY <1>0, <1>2, <1>3, <1>4, <1>5, <1>6, <1>7 DEF Engine

\* decodeNextFrame keeps it.
LEMMA NextType ==
    ASSUME NEW s \in Setup, NEW d \in DecoderType(s)
    PROVE  LET o == decodeNextFrame(d)
           IN  o \in DecoderType(s) /\ Stays(o, d)
<1>0. d.engine \in Engine
  BY DEF DecoderType
<1>1. Refused(d) \in DecoderType(s) /\ Stays(Refused(d), d)
  BY RefusedType DEF Stays, Alike
<1>2. CASE d.state # "RetrieveFrames"
  BY <1>1, <1>2 DEF decodeNextFrame
<1>3. CASE d.state = "RetrieveFrames" /\ d.engine \in {"Libde265", "HM", "VTM", "Dav1d"}
  <2>1. CASE d.engine \in {"HM", "VTM"} /\ d.shown = NoPicture
    BY <1>1, <1>3, <2>1 DEF decodeNextFrame, HM_decodeNextFrame
  <2>2. CASE ~(d.engine \in {"HM", "VTM"} /\ d.shown = NoPicture)
    BY <1>3, <2>2, WaitingNext DEF NextGiven, Stays
  <2>3. QED
    BY <2>1, <2>2
<1>4. CASE d.state = "RetrieveFrames" /\ d.engine = "VVDec"
  <2>1. decodeNextFrame(d) = VVDec_decodeNextFrame(d)
    BY <1>4 DEF decodeNextFrame
  <2>2. QED
    BY <1>4, <2>1, VVDecNext DEF Stays
<1>5. CASE d.state = "RetrieveFrames" /\ d.engine = "FFMpeg"
  <2>1. decodeNextFrame(d) = FFMpeg_decodeNextFrame(d)
    BY <1>5 DEF decodeNextFrame
  <2>2. QED
    BY <1>5, <2>1, FFMpegNext DEF Stays, Alike
<1>6. QED
  BY <1>0, <1>2, <1>3, <1>4, <1>5 DEF Engine

\* Retrieving the data of the frame keeps it.
LEMMA BufferedType ==
    ASSUME NEW s \in Setup, NEW d \in DecoderType(s)
    PROVE  /\ Buffered(d) \in DecoderType(s) /\ Alike(Buffered(d), d)
           /\ Buffered(d).lib = d.lib /\ Buffered(d).state = d.state /\ Buffered(d).shown = d.shown
           /\ getRawFrameData(d) \in Int
           /\ d.state = "RetrieveFrames" /\ d.shown # NoPicture /\ d.buffer = NoPicture =>
                getRawFrameData(d) = d.shown
<1>1. d.shown \in Int /\ d.buffer \in Int
  BY DEF DecoderType
<1> DEFINE b == [d EXCEPT !.buffer = d.shown]
<1>2. b \in DecoderType(s)
  BY <1>1, Zenon DEF DecoderType
<1>3. /\ Alike(b, d) /\ b.lib = d.lib /\ b.state = d.state /\ b.shown = d.shown
      /\ b.buffer = d.shown
  BY <1>2 DEF DecoderType, Alike
<1>4. Buffered(d) \in {b, d}
      /\ (d.state = "RetrieveFrames" /\ d.shown # NoPicture /\ d.buffer = NoPicture => Buffered(d) = b)
  BY DEF Buffered
<1> HIDE DEF b
<1>5. /\ Buffered(d) \in DecoderType(s) /\ Alike(Buffered(d), d)
      /\ Buffered(d).lib = d.lib /\ Buffered(d).state = d.state /\ Buffered(d).shown = d.shown
      /\ Buffered(d).buffer \in Int
  BY <1>1, <1>2, <1>3, <1>4 DEF Alike
<1>6. QED
  BY <1>3, <1>4, <1>5, TypedValues DEF getRawFrameData

\* A failure keeps it.
LEMMA FailedType ==
    ASSUME NEW s \in Setup, NEW d \in DecoderType(s)
    PROVE  /\ Failed(d) \in DecoderType(s) /\ Alike(Failed(d), d)
           /\ Failed(d).state = "Error" /\ ~Failed(d).ok
<1>1. Failed(d) \in DecoderType(s)
  BY TypedValues, Zenon DEF Failed, DecoderType
<1>2. QED
  BY <1>1 DEF Failed, DecoderType, Alike

\* A decoder that was reset has an empty library.
Empty(lib, delay) ==
    /\ lib.start = NoPicture /\ lib.held = {} /\ lib.parsing = EmptyData /\ ~lib.drained
    /\ lib.delay = delay

\* What a new decoder is like.
LEMMA NewFacts ==
    ASSUME NEW s \in Setup, NEW g \in Engine
    PROVE  LET o == NewDecoder(g, s.delay)
           IN  /\ o \in DecoderType(s) /\ o.engine = g /\ o.state = "NeedsMoreData"
               /\ Empty(o.lib, s.delay) /\ ~o.waiting /\ ~o.ready /\ ~o.flushing
  BY NewType DEF NewDecoder, NewLibrary, Empty

\* A reset keeps it.
LEMMA ResetType ==
    ASSUME NEW s \in Setup, NEW d \in DecoderType(s)
    PROVE  LET o == resetDecoder(d)
           IN  /\ o \in DecoderType(s) /\ o.engine = d.engine
               /\ d.engine = "Dav1d" => o.header = d.header
               /\ d.engine = "FFMpeg" /\ d.state = "Error" => o = d
               /\ d.engine # "FFMpeg" \/ d.state # "Error" =>
                    /\ o.state = "NeedsMoreData" /\ Empty(o.lib, d.lib.delay)
                    /\ ~o.waiting /\ ~o.ready /\ ~o.flushing
<1> DEFINE o == resetDecoder(d)
           n == New(d)
           Clear(z) == /\ z \in DecoderType(s) /\ z.engine = d.engine
                       /\ z.state = "NeedsMoreData" /\ Empty(z.lib, d.lib.delay)
                       /\ ~z.waiting /\ ~z.ready /\ ~z.flushing
<1>1. d.engine \in Engine /\ d.lib.delay = s.delay /\ d.shown \in Int /\ d.buffer \in Int
      /\ d.header \in BOOLEAN
  BY DEF DecoderType, LibraryType
<1>2. Clear(n)
  BY <1>1, NewFacts DEF New
<1> HIDE DEF n
<1>3. Clear([n EXCEPT !.shown = d.shown])
  <2>1. [n EXCEPT !.shown = d.shown] \in DecoderType(s)
    BY <1>1, <1>2, Zenon DEF DecoderType
  <2>2. QED
    BY <1>2, <2>1 DEF DecoderType
<1>4. Clear([n EXCEPT !.shown = d.shown, !.buffer = d.buffer])
  <2>1. [n EXCEPT !.shown = d.shown, !.buffer = d.buffer] \in DecoderType(s)
    BY <1>1, <1>2, Zenon DEF DecoderType
  <2>2. QED
    BY <1>2, <2>1 DEF DecoderType
<1>5. /\ Clear([n EXCEPT !.shown = d.shown, !.header = d.header])
      /\ [n EXCEPT !.shown = d.shown, !.header = d.header].header = d.header
  <2>1. [n EXCEPT !.shown = d.shown, !.header = d.header] \in DecoderType(s)
    BY <1>1, <1>2, Zenon DEF DecoderType
  <2>2. QED
    BY <1>2, <2>1 DEF DecoderType
<1>6. CASE d.engine = "Libde265"
  <2>1. o = [n EXCEPT !.shown = d.shown]
    BY <1>6 DEF resetDecoder, Libde265_resetDecoder, n
  <2>2. QED
    BY <1>3, <1>6, <2>1
<1>7. CASE d.engine \in {"HM", "VTM"}
  <2>1. o = [n EXCEPT !.shown = d.shown, !.buffer = d.buffer]
    BY <1>7 DEF resetDecoder, HM_resetDecoder, n
  <2>2. QED
    BY <1>4, <1>7, <2>1
<1>8. CASE d.engine = "VVDec"
  <2>1. o = n
    BY <1>8 DEF resetDecoder, VVDec_resetDecoder, n
  <2>2. QED
    BY <1>2, <1>8, <2>1
<1>9. CASE d.engine = "Dav1d"
  <2>1. o = [n EXCEPT !.shown = d.shown, !.header = d.header]
    BY <1>9 DEF resetDecoder, Dav1d_resetDecoder, n
  <2>2. QED
    BY <1>5, <1>9, <2>1
<1>10. CASE d.engine = "FFMpeg"
  <2>1. o = IF d.state = "Error" THEN d ELSE [n EXCEPT !.shown = d.shown, !.buffer = d.buffer]
    BY <1>10 DEF resetDecoder, FFMpeg_resetDecoder, n
  <2>2. QED
    BY <1>4, <1>10, <2>1
<1>11. QED
  BY <1>1, <1>6, <1>7, <1>8, <1>9, <1>10 DEF Engine

\* A decoder after the reset of a seek: it fails only if it is one of FFmpeg
\* that had failed before.
LEMMA PrimedType ==
    ASSUME NEW s \in Setup, NEW d \in DecoderType(s)
    PROVE  LET o == Primed(d)
           IN  /\ o \in DecoderType(s) /\ o.engine = d.engine /\ o.ok
               /\ o.engine = "Dav1d" => o.header
               /\ d.engine = "FFMpeg" /\ d.state = "Error" => o.state = "Error"
               /\ d.engine # "FFMpeg" \/ d.state # "Error" =>
                    /\ o.state = "NeedsMoreData" /\ Empty(o.lib, d.lib.delay)
                    /\ ~o.waiting /\ ~o.ready /\ ~o.flushing
<1> DEFINE r == resetDecoder(d)
           o == Primed(d)
           Clear(z) == /\ z \in DecoderType(s) /\ z.engine = d.engine /\ z.ok
                       /\ z.engine = "Dav1d" => z.header
                       /\ z.state = "NeedsMoreData" /\ Empty(z.lib, d.lib.delay)
                       /\ ~z.waiting /\ ~z.ready /\ ~z.flushing
<1>1. /\ r \in DecoderType(s) /\ r.engine = d.engine
      /\ d.engine = "FFMpeg" /\ d.state = "Error" => r.state = "Error"
      /\ d.engine # "FFMpeg" \/ d.state # "Error" =>
            /\ r.state = "NeedsMoreData" /\ Empty(r.lib, d.lib.delay)
            /\ ~r.waiting /\ ~r.ready /\ ~r.flushing
  BY ResetType
<1>2. d.engine \in Engine
  BY DEF DecoderType
<1>3. CASE d.engine = "FFMpeg"
  <2>1. o = [r EXCEPT !.ok = TRUE]
    BY <1>3 DEF Primed
  <2> HIDE DEF r, o
  <2>2. [r EXCEPT !.ok = TRUE] \in DecoderType(s)
    BY <1>1, TypedValues, Zenon DEF DecoderType
  <2>3. /\ o \in DecoderType(s) /\ o.engine = r.engine /\ o.ok /\ o.state = r.state
        /\ o.lib = r.lib /\ o.waiting = r.waiting /\ o.ready = r.ready /\ o.flushing = r.flushing
    BY <2>1, <2>2 DEF DecoderType
  <2>4. QED
    BY <1>1, <1>3, <2>3 DEF o
<1>4. CASE d.engine # "FFMpeg"
  <2> DEFINE u == ParameterSet
  <2>1. o = pushData(r, u)
    BY <1>4 DEF Primed
  <2> HIDE DEF r, o
  <2>2. u \in Material(s) \cup {ParameterSet} /\ u # EmptyData /\ u.kind # "picture"
    BY UnitFacts
  <2>3. r.lib \in LibraryType(s) /\ ~HasPicture(r.lib) /\ r.lib.drained = FALSE
        /\ r.waiting = FALSE /\ r.flushing = FALSE /\ r.ready = FALSE
    BY <1>1, <1>4 DEF DecoderType, LibraryType, HasPicture, Empty
  <2>4. Fed(r.lib, u) = r.lib /\ Decode(r.lib, u) = r.lib /\ ~r.flushing
    BY <2>2, <2>3 DEF Fed, Decode
  <2>5. ~Completes(r, u) /\ Empty(Parsed(r, u), d.lib.delay)
    <3>1. ~Completes(r, u)
      BY <2>2 DEF Completes
    <3>2. /\ Parsed(r, u).parsing = r.lib.parsing /\ Parsed(r, u).held = r.lib.held
          /\ Parsed(r, u).start = r.lib.start /\ Parsed(r, u).drained = r.lib.drained
          /\ Parsed(r, u).delay = r.lib.delay
      BY <1>1, <2>2, <3>1, ParsedType
    <3>3. QED
      BY <1>1, <1>4, <2>3, <3>1, <3>2 DEF Empty
  <2> HIDE DEF u
  <2>6. CASE d.engine = "Libde265"
    <3>1. o = Libde265_pushData(r, u)
      BY <1>1, <2>1, <2>6 DEF pushData
    <3>2. LET z == Libde265_pushData(r, u)
              lib == Fed(r.lib, u)
          IN  /\ z \in DecoderType(s) /\ z.engine = r.engine /\ z.header = r.header
              /\ z.ready = r.ready /\ z.ok /\ z.flushing = (u = EmptyData)
              /\ IF HasPicture(lib)
                 THEN /\ z.lib = Taken(lib) /\ z.shown = Min(lib.held) /\ z.buffer = NoPicture
                      /\ z.waiting /\ z.state = "RetrieveFrames"
                 ELSE /\ z.lib = lib /\ z.waiting = r.waiting
                      /\ z.state = IF lib.drained THEN "EndOfBitstream" ELSE "NeedsMoreData"
      BY <1>1, <2>2, <2>4, Libde265Push
    <3>3. LET z == Libde265_pushData(r, u)
          IN  /\ z \in DecoderType(s) /\ z.engine = r.engine /\ z.ready = r.ready /\ z.ok
              /\ z.flushing = FALSE /\ z.lib = r.lib /\ z.waiting = r.waiting
              /\ z.state = "NeedsMoreData"
      BY <2>2, <2>3, <2>4, <3>2
    <3>4. QED
      BY <1>1, <1>4, <2>3, <2>6, <3>1, <3>3 DEF o
  <2>7. CASE d.engine \in {"HM", "VTM"}
    <3>1. o = HM_pushData(r, u)
      BY <1>1, <2>1, <2>7 DEF pushData
    <3>2. Clear(HM_pushData(r, u))
      BY <1>1, <1>4, <2>2, <2>3, <2>5, <2>7, HMPush
    <3>3. QED
      BY <1>4, <3>1, <3>2 DEF o
  <2>8. CASE d.engine = "VVDec"
    <3>1. o = VVDec_pushData(r, u)
      BY <1>1, <2>1, <2>8 DEF pushData
    <3>2. LET z == VVDec_pushData(r, u)
              lib == Fed(r.lib, u)
          IN  /\ z \in DecoderType(s) /\ z.engine = r.engine /\ z.header = r.header
              /\ z.ready = r.ready /\ z.waiting = r.waiting /\ z.ok
              /\ z.flushing = (u = EmptyData)
              /\ u # EmptyData =>
                   IF HasPicture(lib)
                   THEN /\ z.lib = Taken(lib) /\ z.shown = Min(lib.held) /\ z.buffer = NoPicture
                        /\ z.state = "RetrieveFrames"
                   ELSE z.lib = lib /\ z.state = r.state
      BY <1>1, <2>2, <2>4, VVDecPush
    <3>3. LET z == VVDec_pushData(r, u)
          IN  /\ z \in DecoderType(s) /\ z.engine = r.engine /\ z.ready = r.ready /\ z.ok
              /\ z.flushing = FALSE /\ z.lib = r.lib /\ z.waiting = r.waiting
              /\ z.state = r.state
      BY <2>2, <2>3, <2>4, <3>2
    <3>4. QED
      BY <1>1, <1>4, <2>3, <2>8, <3>1, <3>3 DEF o
  <2>9. CASE d.engine = "Dav1d"
    <3>1. o = Dav1d_pushData(r, u) /\ u = ParameterSet
      BY <1>1, <2>1, <2>9 DEF pushData, u
    <3>2. LET z == Dav1d_pushData(r, u)
              lib == IF u = EmptyData THEN r.lib ELSE Decode(r.lib, u)
          IN  /\ z \in DecoderType(s) /\ z.engine = r.engine /\ z.header /\ z.ready = r.ready
              /\ z.ok /\ z.flushing = (u = EmptyData)
              /\ IF HasPicture(lib)
                 THEN /\ z.lib = Taken(lib) /\ z.shown = Min(lib.held) /\ z.buffer = NoPicture
                      /\ z.waiting /\ z.state = "RetrieveFrames"
                 ELSE z.lib = lib /\ z.waiting = r.waiting /\ z.state = "NeedsMoreData"
      BY <1>1, <2>2, <2>4, <3>1, Dav1dPush
    <3>3. LET z == Dav1d_pushData(r, u)
          IN  /\ z \in DecoderType(s) /\ z.engine = r.engine /\ z.ready = r.ready /\ z.ok
              /\ z.header /\ z.flushing = FALSE /\ z.lib = r.lib /\ z.waiting = r.waiting
              /\ z.state = "NeedsMoreData"
      BY <2>2, <2>3, <2>4, <3>2
    <3>4. QED
      BY <1>1, <1>4, <2>3, <2>9, <3>1, <3>3 DEF o
  <2>10. QED
    BY <1>2, <1>4, <2>6, <2>7, <2>8, <2>9 DEF Engine
<1>5. QED
  BY <1>3, <1>4

-----------------------------------------------------------------------------
(* Seeking.                                                                *)

\* A set of numbers below a bound has a greatest one.
LEMMA Greatest ==
    ASSUME NEW n \in Nat, NEW S, S \subseteq 0..n, S # {}
    PROVE  \E i \in S : \A j \in S : j <= i
<1> DEFINE R == {n - i : i \in S}
<1>1. R \subseteq Nat /\ R # {}
  <2>1. R \subseteq Nat
    OBVIOUS
  <2>2. PICK i \in S : TRUE
    OBVIOUS
  <2>3. n - i \in R
    OBVIOUS
  <2>4. QED
    BY <2>1, <2>3
<1>2. PICK r \in R : \A m \in R : r <= m
  BY <1>1, LeastNumber
<1>3. PICK i \in S : r = n - i
  BY <1>2
<1>4. ASSUME NEW j \in S
      PROVE  j <= i
  <2>1. n - j \in R /\ r <= n - j
    BY <1>2
  <2> HIDE DEF R
  <2>2. QED
    BY <1>3, <2>1
<1>5. QED
  BY <1>4

\* A seek goes to a random access picture that is displayed, or for a container
\* coded, before the target.
LEMMA SeekFacts ==
    ASSUME setup \in Setup, NEW f \in 0..LastFrame
    PROVE  /\ SeekFrame(f) \in 0..(N - 1) /\ SeekFrame(f) <= f
           /\ AnnexB => SeekFrame(f) \in setup.random
           /\ ~AnnexB => setup.coding[SeekFrame(f) + 1] \in setup.random
           /\ SeekPosition(SeekFrame(f)) \in 0..(N - 1)
           /\ AnnexB => SeekPosition(SeekFrame(f)) = Position(setup, SeekFrame(f))
           /\ ~AnnexB => SeekPosition(SeekFrame(f)) = SeekFrame(f)
<1>1. /\ N = Length(setup) /\ LastFrame = EndOf(setup)
      /\ \A p : CodingIndex(p) = Position(setup, p)
  BY OfSetup
<1>2. /\ N \in Nat /\ N > 0 /\ setup.coding \in [1..N -> 0..(N - 1)]
      /\ setup.coding[1] = 0 /\ 0 \in setup.random /\ f \in Nat /\ (AnnexB => f <= N - 1)
  BY <1>1, StreamFacts DEF EndOf, AnnexB
<1>3. \A p \in 0..(N - 1) : Position(setup, p) \in 0..(N - 1)
  BY <1>1, PositionFacts
<1>4. CASE AnnexB
  <2> DEFINE before == {i \in 0..CodingIndex(f) :
                          setup.coding[i + 1] \in setup.random /\ setup.coding[i + 1] < f}
             best == IF before = {} THEN 0 ELSE CHOOSE i \in before : \A j \in before : j <= i
  <2>1. CodingIndex(f) \in 0..(N - 1) /\ f \in 0..(N - 1)
    BY <1>1, <1>2, <1>3, <1>4
  <2>2. SeekFrame(f) = setup.coding[best + 1]
    BY <1>4 DEF SeekFrame, ClosestSeekPoint
  <2>3. before # {} => best \in before
    <3>1. before \subseteq 0..CodingIndex(f) /\ CodingIndex(f) \in Nat
      BY <2>1
    <3> HIDE DEF before
    <3>2. before # {} => \E i \in before : \A j \in before : j <= i
      BY <3>1, Greatest
    <3>3. QED
      BY <3>2
  <2>4. /\ setup.coding[best + 1] \in setup.random /\ setup.coding[best + 1] \in 0..(N - 1)
        /\ setup.coding[best + 1] <= f
    <3>1. CASE before = {}
      <4>1. best = 0
        BY <3>1
      <4> HIDE DEF best
      <4>2. setup.coding[best + 1] = 0
        BY <1>2, <4>1
      <4>3. QED
        BY <1>2, <4>2
    <3>2. CASE before # {}
      <4>1. best \in before
        BY <2>3, <3>2
      <4> HIDE DEF best
      <4>2. best \in 0..(N - 1) /\ setup.coding[best + 1] \in setup.random /\ setup.coding[best + 1] < f
        BY <1>2, <2>1, <4>1
      <4>3. best + 1 \in 1..N
        BY <1>2, <4>2
      <4>4. setup.coding[best + 1] \in 0..(N - 1)
        BY <1>2, <4>3
      <4>5. QED
        BY <1>2, <4>2, <4>4
    <3>3. QED
      BY <3>1, <3>2
  <2> HIDE DEF best
  <2>5. SeekPosition(SeekFrame(f)) = Position(setup, SeekFrame(f))
    BY <1>1, <1>4, <2>2, <2>4 DEF SeekPosition
  <2>6. QED
    BY <1>3, <1>4, <2>2, <2>4, <2>5
<1>5. CASE ~AnnexB
  <2> DEFINE before == {i \in 0..(N - 1) : setup.coding[i + 1] \in setup.random /\ i <= f}
  <2>1. SeekFrame(f) = IF before = {} \/ f = 0 THEN 0
                       ELSE CHOOSE i \in before : \A j \in before : j <= i
    BY <1>5 DEF SeekFrame, ClosestSeekableFrameBefore
  <2>2. before # {} => (CHOOSE i \in before : \A j \in before : j <= i) \in before
    <3>1. before \subseteq 0..(N - 1) /\ N - 1 \in Nat
      BY <1>2
    <3> HIDE DEF before
    <3>2. before # {} => \E i \in before : \A j \in before : j <= i
      BY <3>1, Greatest
    <3>3. QED
      BY <3>2
  <2>3. SeekFrame(f) = 0 \/ SeekFrame(f) \in before
    BY <2>1, <2>2
  <2>4. SeekFrame(f) \in 0..(N - 1) /\ SeekFrame(f) <= f /\ setup.coding[SeekFrame(f) + 1] \in setup.random
    BY <1>2, <2>3
  <2>5. SeekPosition(SeekFrame(f)) = SeekFrame(f)
    BY <1>5 DEF SeekPosition
  <2>6. QED
    BY <1>5, <2>4, <2>5
<1>6. QED
  BY <1>4, <1>5
-----------------------------------------------------------------------------
(* Types.                                                                  *)

\* What of the members has its place in the type invariant.
Members(it, c) ==
    /\ it \in ItemType(setup) /\ it.counter = item.counter
    /\ it.current[c] \in {item.current[c], NoFrame}
    /\ \A t \in Thread : t # c => it.current[t] = item.current[t]

\* The fields of the item and of a call.
LEMMA ItemFacts ==
    ASSUME TypeInv
    PROVE  /\ LastFrame \in Nat /\ N \in Nat /\ N > 0 /\ LastFrame \in {N - 1, N}
           /\ NoFrame = -1 /\ NoFrame \in -1..LastFrame
           /\ \A c \in Thread :
                /\ dec[c] \in DecoderType(setup) /\ dec[c].engine = engine
                /\ file[c] \in FileType(setup) /\ call[c] \in CallType(setup)
                /\ item.current[c] \in -1..LastFrame /\ call[c].frame \in -1..LastFrame
           /\ item \in ItemType(setup) /\ Members(item, "loading") /\ Members(item, "caching")
           /\ engine \in Engine
<1>1. /\ N \in Nat /\ N > 0 /\ LastFrame \in {N - 1, N} /\ LastFrame = EndOf(setup)
      /\ setup.engines \subseteq Engine
  BY OfSetup, StreamFacts DEF TypeInv
<1>2. item \in ItemType(setup) /\ engine \in setup.engines
  BY DEF TypeInv
<1>3. ASSUME NEW c \in Thread
      PROVE  /\ dec[c] \in DecoderType(setup) /\ dec[c].engine = engine
             /\ file[c] \in FileType(setup) /\ call[c] \in CallType(setup)
  BY DEF TypeInv
<1>4. ASSUME NEW c \in Thread
      PROVE  item.current[c] \in -1..LastFrame /\ call[c].frame \in -1..LastFrame
  BY <1>1, <1>2, <1>3 DEF ItemType, CallType
<1>5. QED
  BY <1>1, <1>2, <1>3, <1>4 DEF Members, NoFrame, NoPicture, Thread
\* What a seek to the position `frame' with the decoder `d' makes of the members.
AfterSeek(o, it, c, frame, d) ==
    /\ o \in ItemType(setup) /\ ~o.repush /\ o.notAfter = NoFrame /\ o.counter = frame
    /\ d.ok => o.current[c] = frame - 1
    /\ \A t \in Thread : t # c \/ ~d.ok => o.current[t] = it.current[t]
    /\ o.raw = it.raw /\ o.rawIndex = it.rawIndex /\ o.loaded = it.loaded
    /\ o.statistics = it.statistics /\ o.statFrame = it.statFrame

\* A seek keeps the types.
LEMMA SoughtType ==
    ASSUME setup \in Setup, NEW c \in Thread, NEW it \in ItemType(setup), NEW frame \in 0..(N - 1),
           NEW d \in DecoderType(setup)
    PROVE  AfterSeek(Sought(it, c, frame, d), it, c, frame, d)
<1> DEFINE cur == IF d.ok THEN [it.current EXCEPT ![c] = frame - 1] ELSE it.current
           ena == it.enabled /\ d.ok
           o == Sought(it, c, frame, d)
<1>1. /\ LastFrame \in {N - 1, N} /\ N \in Nat /\ NoFrame \in -1..LastFrame
      /\ N = Length(setup) /\ LastFrame = EndOf(setup) /\ frame \in -1..N
  BY StreamFacts, OfSetup DEF NoFrame, NoPicture
<1>2. it.current \in [Thread -> -1..LastFrame] /\ it.enabled \in BOOLEAN /\ d.ok \in BOOLEAN
  BY <1>1 DEF ItemType, DecoderType
<1>3. cur \in [Thread -> -1..LastFrame] /\ ena \in BOOLEAN
  <2>1. frame - 1 \in -1..LastFrame
    BY <1>1
  <2>2. QED
    BY <1>2, <2>1
<1>4. o = [it EXCEPT !.repush = FALSE, !.notAfter = NoFrame, !.counter = frame,
                     !.current = cur, !.enabled = ena]
  <2>1. CASE d.ok
    BY <2>1 DEF Sought
  <2>2. CASE ~d.ok
    <3>1. [it.current EXCEPT ![c] = it.current[c]] = it.current
      BY <1>2
    <3>2. QED
      BY <2>2, <3>1 DEF Sought
  <2>3. QED
    BY <2>1, <2>2
<1> HIDE DEF cur, ena, o
<1>5. [it EXCEPT !.repush = FALSE, !.notAfter = NoFrame, !.counter = frame,
                 !.current = cur, !.enabled = ena] \in ItemType(setup)
  BY <1>1, <1>3, TypedValues, Zenon DEF ItemType
<1>6. /\ o \in ItemType(setup) /\ o.repush = FALSE /\ o.notAfter = NoFrame /\ o.counter = frame
      /\ o.current = cur
      /\ o.raw = it.raw /\ o.rawIndex = it.rawIndex /\ o.loaded = it.loaded
      /\ o.statistics = it.statistics /\ o.statFrame = it.statFrame
  BY <1>4, <1>5 DEF ItemType
<1>7. /\ d.ok => cur[c] = frame - 1
      /\ \A t \in Thread : t # c \/ ~d.ok => cur[t] = it.current[t]
  BY <1>2 DEF cur
<1>8. QED
  BY <1>6, <1>7 DEF AfterSeek, o

\* The thread that asks starts to decode, in the middle of the stream or where
\* it is, or gets a reply at once.
LEMMA RequestType ==
    ASSUME TypeInv, NEW c \in Thread, NEW kind \in {"video", "statistics"},
           NEW f \in -1..LastFrame, NEW it, Members(it, c), Request(c, kind, f, it),
           call[c] = Idle, setup' = setup, engine' = engine,
           answer' \in [Thread -> [frame : Int, picture : Int]]
    PROVE  TypeInv'
<1> USE DEF TypeInv
<1>1. /\ LastFrame \in Nat /\ N \in Nat /\ LastFrame \in {N - 1, N}
      /\ LastFrame = EndOf(setup) /\ N = Length(setup) /\ NoFrame = -1
      /\ it \in ItemType(setup)
  BY ItemFacts, OfSetup DEF Members
<1>2. \A t \in Thread : dec[t] \in DecoderType(setup) /\ it.current[t] \in -1..LastFrame
  BY <1>1 DEF ItemType
<1>3. it.raw \in Int /\ f \in -1..LastFrame
  BY <1>1 DEF ItemType
<1>4. CASE Ignored(it, c, f)
  <2> DEFINE r == [kind |-> kind, frame |-> f, pc |-> "reply", copy |-> it.raw]
  <2>1. /\ call' = [call EXCEPT ![c] = r] /\ item' = it
        /\ UNCHANGED <<dec, file, faults>>
    BY <1>4 DEF Request
  <2>2. r \in CallType(setup)
    BY <1>1, <1>3 DEF CallType
  <2>3. \A t \in Thread : call'[t] = IF t = c THEN r ELSE call[t]
    BY <2>1
  <2> HIDE DEF r
  <2>4. call' \in [Thread -> CallType(setup)]
    BY <2>1, <2>2
  <2>5. ASSUME NEW t \in Thread
        PROVE  InUse(t)' => InUse(t)
    <3>1. call'[t].pc = "decode" => call[t].pc = "decode"
      BY <2>3 DEF r
    <3>2. item'.current[t] # NoFrame => item.current[t] # NoFrame
      BY <2>1 DEF Members
    <3>3. QED
      BY <3>1, <3>2 DEF InUse
  <2>6. ASSUME NEW t \in Thread
        PROVE  /\ call'[t].pc = "idle" => call'[t] = Idle
               /\ call'[t].pc = "decode" =>
                    /\ call'[t].frame >= 0
                    /\ item'.current[t] <= call'[t].frame \/ dec'[t].state = "Error"
    BY <2>1, <2>3 DEF r, Members
  <2>7. item'.counter = item.counter
    BY <2>1 DEF Members
  <2>8. QED
    BY <1>1, <2>1, <2>4, <2>5, <2>6, <2>7
<1>5. CASE ~Ignored(it, c, f)
  <2> DEFINE r == [Idle EXCEPT !.kind = kind, !.frame = f, !.pc = "decode"]
             p == Primed(dec[c])
  <2>1. /\ call' = [call EXCEPT ![c] = r] /\ f \in 0..LastFrame
        /\ IF MustSeek(it, c, f)
           THEN \E d \in MayFail(p) :
                    /\ dec' = [dec EXCEPT ![c] = d]
                    /\ file' = [file EXCEPT ![c].pos = SeekPosition(SeekFrame(f))]
                    /\ item' = Sought(it, c, SeekFrame(f), d)
                    /\ faults' = FaultsAfter(d # p)
           ELSE item' = it /\ UNCHANGED <<dec, file, faults>>
    BY <1>1, <1>5 DEF Request, Ignored
  <2>2. r \in CallType(setup) /\ r.frame = f /\ r.pc = "decode"
    BY <1>1, <1>3, TypedValues DEF CallType, Idle, NoFrame
  <2>3. \A t \in Thread : call'[t] = IF t = c THEN r ELSE call[t]
    BY <2>1
  <2> HIDE DEF r
  <2>4. call' \in [Thread -> CallType(setup)]
    BY <2>1, <2>2
  <2>5. CASE ~MustSeek(it, c, f)
    <3>1. item' = it /\ UNCHANGED <<dec, file, faults>>
      BY <2>1, <2>5
    <3>2. it.current[c] # NoFrame /\ ~(f < it.current[c])
      BY <2>5 DEF MustSeek
    <3>3. InUse(c) /\ it.current[c] <= f
      BY <1>1, <1>2, <3>2 DEF InUse, Members
    <3>4. ASSUME NEW t \in Thread
          PROVE  InUse(t)' => InUse(t)
      BY <2>3, <3>1, <3>3 DEF InUse, Members
    <3>5. ASSUME NEW t \in Thread
          PROVE  /\ call'[t].pc = "idle" => call'[t] = Idle
                 /\ call'[t].pc = "decode" =>
                      /\ call'[t].frame >= 0
                      /\ item'.current[t] <= call'[t].frame \/ dec'[t].state = "Error"
      BY <2>1, <2>2, <2>3, <3>1, <3>3 DEF Members
    <3>6. item'.counter = item.counter
      BY <3>1 DEF Members
    <3>7. QED
      BY <1>1, <2>4, <3>1, <3>4, <3>5, <3>6
  <2>6. CASE MustSeek(it, c, f)
    <3>1. PICK d \in MayFail(p) :
                    /\ dec' = [dec EXCEPT ![c] = d]
                    /\ file' = [file EXCEPT ![c].pos = SeekPosition(SeekFrame(f))]
                    /\ item' = Sought(it, c, SeekFrame(f), d)
                    /\ faults' = FaultsAfter(d # p)
      BY <2>1, <2>6
    <3>2. /\ p \in DecoderType(setup) /\ p.engine = engine /\ p.ok
          /\ engine = "Dav1d" => p.header
      BY <1>2, PrimedType
    <3> HIDE DEF p
    <3>3. /\ Failed(p) \in DecoderType(setup) /\ Alike(Failed(p), p) /\ ~Failed(p).ok
          /\ Failed(p).state = "Error"
      BY <3>2, FailedType
    <3>4. d = p \/ (d = Failed(p) /\ faults > 0)
      BY DEF MayFail
    <3>5. /\ d \in DecoderType(setup) /\ d.engine = engine /\ (engine = "Dav1d" => d.header)
          /\ d.ok \/ d.state = "Error"
      BY <3>2, <3>3, <3>4 DEF Alike
    <3>6. PICK e \in 0..(N - 1) :
            e = SeekFrame(f) /\ e <= f /\ SeekPosition(e) \in 0..(N - 1)
      BY <2>1, SeekFacts
    <3>7. item' = Sought(it, c, e, d)
      BY <3>1, <3>6
    <3>8. AfterSeek(item', it, c, e, d)
      BY <1>1, <3>5, <3>7, SoughtType
    <3>9. dec' \in [Thread -> DecoderType(setup)] /\ \A t \in Thread : dec'[t] = IF t = c THEN d ELSE dec[t]
      BY <3>1, <3>5
    <3>10. file' \in [Thread -> FileType(setup)]
      <4>1. SeekPosition(e) \in 0..Length(setup)
        BY <1>1, <3>6
      <4>2. [file[c] EXCEPT !.pos = SeekPosition(e)] \in FileType(setup)
        BY <4>1 DEF FileType
      <4>3. file' = [file EXCEPT ![c] = [file[c] EXCEPT !.pos = SeekPosition(e)]]
        BY <3>1, <3>6
      <4>4. QED
        BY <4>2, <4>3
    <3>11. faults' \in Nat
      BY <3>1, <3>4 DEF FaultsAfter
    <3>12. \A t \in Thread : t # c => item'.current[t] = item.current[t]
      BY <3>8 DEF AfterSeek, Members
    <3>13. d.ok => item'.current[c] = e - 1
      BY <3>8 DEF AfterSeek
    <3>14. ASSUME NEW t \in Thread
          PROVE  /\ dec'[t].engine = engine
                 /\ engine = "Dav1d" /\ InUse(t)' => dec'[t].header
      BY <2>3, <3>5, <3>9, <3>12 DEF InUse
    <3>15. ASSUME NEW t \in Thread
          PROVE  /\ call'[t].pc = "idle" => call'[t] = Idle
                 /\ call'[t].pc = "decode" =>
                      /\ call'[t].frame >= 0
                      /\ item'.current[t] <= call'[t].frame \/ dec'[t].state = "Error"
      <4>1. CASE t = c
        BY <1>1, <2>1, <2>2, <2>3, <3>5, <3>6, <3>9, <3>13, <4>1
      <4>2. CASE t # c
        BY <2>3, <3>9, <3>12, <4>2
      <4>3. QED
        BY <4>1, <4>2
    <3>16. QED
      BY <1>1, <2>4, <3>6, <3>8, <3>9, <3>10, <3>11, <3>14, <3>15 DEF AfterSeek
  <2>7. QED
    BY <2>5, <2>6
<1>6. QED
  BY <1>4, <1>5
\* Reading from the file keeps the types.
LEMMA ReadType ==
    ASSUME setup \in Setup, NEW f \in FileType(setup), NEW again \in BOOLEAN
    PROVE  Data(f, again) \in Material(setup) /\ Read(f, again) \in FileType(setup)
<1>1. /\ N = Length(setup) /\ N \in Nat /\ EmptyData \in Material(setup)
      /\ \A i \in 0..(N - 1) : Unit(i) \in Material(setup)
      /\ f.pos \in 0..N /\ f.last \in Material(setup)
  BY OfSetup, StreamFacts, UnitFacts DEF FileType
<1>2. AtEnd(f) \/ f.pos \in 0..(N - 1)
  BY <1>1 DEF AtEnd
<1>3. Data(f, again) \in Material(setup)
  BY <1>1, <1>2 DEF Data
<1>4. CASE again
  <2>1. Read(f, again) = f
    BY <1>4 DEF Read
  <2>2. QED
    BY <1>3, <2>1
<1>5. CASE ~again /\ ~AtEnd(f)
  <2>1. Read(f, again) = [pos |-> f.pos + 1, last |-> Unit(f.pos)]
    BY <1>5 DEF Read
  <2>2. QED
    BY <1>1, <1>2, <1>3, <1>5, <2>1 DEF FileType
<1>6. CASE ~again /\ AtEnd(f)
  <2>1. Read(f, again) = f \/ Read(f, again) = [f EXCEPT !.last = EmptyData]
    BY <1>6 DEF Read
  <2>2. [f EXCEPT !.last = EmptyData] \in FileType(setup)
    BY <1>1 DEF FileType
  <2>3. QED
    BY <1>3, <2>1, <2>2
<1>7. QED
  BY <1>4, <1>5, <1>6

\* The decoder of a thread that decodes, after it was given data.
LEMMA PushedType ==
    ASSUME TypeInv, NEW c \in Thread, call[c].pc = "decode", dec[c].state = "NeedsMoreData",
           NEW u \in Material(setup), NEW d \in MayFail(pushData(dec[c], u))
    PROVE  /\ d \in DecoderType(setup) /\ d.engine = engine
           /\ engine = "Dav1d" => d.header
           /\ \/ d = pushData(dec[c], u) /\ d.state # "Error"
              \/ d = Failed(pushData(dec[c], u)) /\ d.state = "Error" /\ ~d.ok /\ faults > 0
           /\ FaultsAfter(d.state = "Error") \in Nat
<1> DEFINE o == pushData(dec[c], u)
<1>1. /\ setup \in Setup /\ dec[c] \in DecoderType(setup) /\ dec[c].engine = engine
      /\ engine = "Dav1d" => dec[c].header
      /\ faults \in Nat
  BY DEF TypeInv, InUse
<1>2. o \in DecoderType(setup) /\ Stays(o, dec[c])
  BY <1>1, PushType
<1> HIDE DEF o
<1>3. /\ Failed(o) \in DecoderType(setup) /\ Alike(Failed(o), o)
      /\ Failed(o).state = "Error" /\ ~Failed(o).ok
  BY <1>1, <1>2, FailedType
<1>4. d = o \/ (d = Failed(o) /\ faults > 0)
  BY DEF MayFail, o
<1>5. o.state # "Error" /\ o.engine = engine /\ (engine = "Dav1d" => o.header)
  BY <1>1, <1>2 DEF Stays
<1>6. FaultsAfter(d.state = "Error") \in Nat
  BY <1>1, <1>4, <1>5 DEF FaultsAfter
<1>7. QED
  BY <1>2, <1>3, <1>4, <1>5, <1>6 DEF Alike, o

\* A step of a thread that is decoding keeps what the item counts on.
LEMMA WorkType ==
    ASSUME TypeInv, NEW c \in Thread, call[c].pc = "decode",
           setup' = setup, engine' = engine, answer' = answer, faults' \in Nat,
           NEW d \in DecoderType(setup), dec' = [dec EXCEPT ![c] = d],
           d.engine = engine, engine = "Dav1d" => d.header,
           file' \in [Thread -> FileType(setup)], item' \in ItemType(setup), item'.counter # -1,
           \A t \in Thread : t # c => item'.current[t] = item.current[t],
           call' \in [Thread -> CallType(setup)],
           \A t \in Thread : t # c => call'[t] = call[t],
           call'[c].pc # "idle",
           call'[c].pc = "decode" => /\ call'[c].frame >= 0
                                     /\ item'.current[c] <= call'[c].frame \/ d.state = "Error"
    PROVE  TypeInv'
<1> USE DEF TypeInv
<1>1. dec' \in [Thread -> DecoderType(setup)] /\ \A t \in Thread : dec'[t] = IF t = c THEN d ELSE dec[t]
  OBVIOUS
<1>2. ASSUME NEW t \in Thread
      PROVE  /\ dec'[t].engine = engine
             /\ engine = "Dav1d" /\ InUse(t)' => dec'[t].header
             /\ call'[t].pc = "idle" => call'[t] = Idle
             /\ call'[t].pc = "decode" =>
                  /\ call'[t].frame >= 0
                  /\ item'.current[t] <= call'[t].frame \/ dec'[t].state = "Error"
  <2>1. CASE t = c
    BY <1>1, <2>1
  <2>2. CASE t # c
    BY <1>1, <2>2 DEF InUse
  <2>3. QED
    BY <2>1, <2>2
<1>3. QED
  BY <1>1, <1>2

\* Each way to push keeps the types.
LEMMA PushStepType ==
    ASSUME TypeInv, NEW c \in Thread, Push(c)
    PROVE  TypeInv'
<1>1. /\ setup \in Setup /\ LastFrame = EndOf(setup) /\ N = Length(setup) /\ N \in Nat
      /\ LastFrame \in {N - 1, N} /\ NoFrame = -1
      /\ dec[c] \in DecoderType(setup) /\ dec[c].engine = engine
      /\ file[c] \in FileType(setup) /\ call[c] \in CallType(setup)
      /\ call[c].frame \in -1..LastFrame /\ item \in ItemType(setup)
  BY ItemFacts, OfSetup DEF TypeInv
<1>2. /\ call[c].pc = "decode" /\ dec[c].state = "NeedsMoreData"
      /\ setup' = setup /\ engine' = engine /\ answer' = answer
  BY DEF Push, Decoding
<1>3. /\ call[c].frame >= 0 /\ item.current[c] <= call[c].frame
      /\ item.counter # -1 /\ item.counter \in 0..N
      /\ item.repush \in BOOLEAN /\ item.raw \in Int
      /\ item.current \in [Thread -> -1..LastFrame]
  BY <1>1, <1>2 DEF TypeInv, InUse, ItemType
<1>4. CASE PushPacket(c)
  <2> DEFINE u == Data(file[c], item.repush)
  <2>1. u \in Material(setup) /\ Read(file[c], item.repush) \in FileType(setup)
    BY <1>1, <1>3, ReadType
  <2>2. PICK d \in MayFail(pushData(dec[c], u)) :
          LET stop == ~d.ok /\ d.state # "RetrieveFrames"
          IN  /\ dec' = [dec EXCEPT ![c] = d]
              /\ file' = [file EXCEPT ![c] = Read(@, item.repush)]
              /\ item' = [item EXCEPT !.repush = ~d.ok /\ ~stop]
              /\ call' = IF stop THEN [call EXCEPT ![c].pc = "reply", ![c].copy = item.raw] ELSE call
              /\ faults' = FaultsAfter(d.state = "Error")
    BY <1>4 DEF PushPacket
  <2> HIDE DEF u
  <2>3. /\ d \in DecoderType(setup) /\ d.engine = engine
        /\ engine = "Dav1d" => d.header
        /\ FaultsAfter(d.state = "Error") \in Nat
    BY <1>2, <2>1, PushedType
  <2>4. item' \in ItemType(setup) /\ item'.current = item.current /\ item'.counter = item.counter
    BY <1>1, <2>2 DEF ItemType
  <2>5. file' \in [Thread -> FileType(setup)]
    BY <2>1, <2>2 DEF TypeInv
  <2>6. [call[c] EXCEPT !.pc = "reply", !.copy = item.raw] \in CallType(setup)
    BY <1>1, <1>3 DEF CallType
  <2>7. /\ call' \in [Thread -> CallType(setup)] /\ call'[c].pc # "idle"
        /\ \A t \in Thread : t # c => call'[t] = call[t]
        /\ call'[c].pc = "decode" => call'[c] = call[c]
    <3>1. CASE call' = call
      BY <1>2, <3>1 DEF TypeInv
    <3>2. CASE call' = [call EXCEPT ![c] = [call[c] EXCEPT !.pc = "reply", !.copy = item.raw]]
      <4>1. call'[c] = [call[c] EXCEPT !.pc = "reply", !.copy = item.raw]
        BY <3>2 DEF TypeInv
      <4>2. call'[c].pc = "reply"
        BY <1>1, <4>1 DEF CallType
      <4>3. QED
        BY <2>6, <3>2, <4>2 DEF TypeInv
    <3>3. QED
      BY <2>2, <3>1, <3>2
  <2>8. QED
    BY <1>2, <1>3, <2>2, <2>3, <2>4, <2>5, <2>7, WorkType
<1>5. CASE PushPicture(c)
  <2> DEFINE u == IF item.counter >= N THEN EmptyData ELSE Unit(item.counter)
  <2>1. u \in Material(setup)
    BY <1>1, <1>3, UnitFacts, OfSetup
  <2>2. PICK d \in MayFail(pushData(dec[c], u)) :
            /\ dec' = [dec EXCEPT ![c] = d]
            /\ item' = [item EXCEPT
                 !.counter = IF d.ok THEN @ + 1 ELSE @,
                 !.notAfter = IF ~d.ok /\ d.state # "RetrieveFrames" THEN call[c].frame ELSE @]
            /\ faults' = FaultsAfter(d.state = "Error")
    BY <1>5 DEF PushPicture
  <2>3. file' = file /\ call' = call /\ engine = "FFMpeg"
    BY <1>5 DEF PushPicture
  <2>4. d.ok => item.counter < N
    <3>1. CASE u = EmptyData
      <4>1. pushData(dec[c], u) = FFMpeg_pushData(dec[c], u)
        BY <1>1, <1>2, <2>3 DEF pushData
      <4>2. ~FFMpeg_pushData(dec[c], u).ok
        BY <1>1, <2>1, <3>1, FFMpegPush
      <4>3. d = pushData(dec[c], u) \/ ~d.ok
        BY <1>2, <2>1, PushedType
      <4>4. QED
        BY <4>1, <4>2, <4>3
    <3>2. CASE u # EmptyData
      BY <1>1, <1>3, <3>2
    <3>3. QED
      BY <3>1, <3>2
  <2> HIDE DEF u
  <2>5. /\ d \in DecoderType(setup) /\ d.engine = engine
        /\ engine = "Dav1d" => d.header
        /\ FaultsAfter(d.state = "Error") \in Nat
    BY <1>2, <2>1, PushedType
  <2>6. item' \in ItemType(setup) /\ item'.current = item.current /\ item'.counter # -1
    <3> DEFINE count == IF d.ok THEN item.counter + 1 ELSE item.counter
               after == IF ~d.ok /\ d.state # "RetrieveFrames" THEN call[c].frame ELSE item.notAfter
    <3>1. item' = [item EXCEPT !.counter = count, !.notAfter = after]
      BY <2>2
    <3>2. count \in 0..N /\ after \in -1..LastFrame
      BY <1>1, <1>3, <2>4 DEF ItemType
    <3> HIDE DEF count, after
    <3>3. /\ item' \in ItemType(setup) /\ item'.current = item.current /\ item'.counter = count
      <4>1. count \in -1..Length(setup) /\ after \in -1..EndOf(setup)
        BY <1>1, <3>2
      <4>2. [item EXCEPT !.counter = count, !.notAfter = after] \in ItemType(setup)
        BY <1>1, <4>1, Zenon DEF ItemType
      <4>3. QED
        BY <3>1, <4>2 DEF ItemType
    <3>4. count # -1
      BY <1>1, <3>2
    <3>5. QED
      BY <3>3, <3>4
  <2>7. QED
    BY <1>2, <1>3, <2>2, <2>3, <2>5, <2>6, WorkType DEF TypeInv
<1>6. CASE PushUnit(c)
  <2> DEFINE u == Data(file[c], item.repush)
  <2>1. u \in Material(setup) /\ Read(file[c], item.repush) \in FileType(setup)
    BY <1>1, <1>3, ReadType
  <2>2. PICK d \in MayFail(pushData(dec[c], u)) :
              /\ dec' = [dec EXCEPT ![c] = d]
              /\ item' = [item EXCEPT !.repush = ~d.ok]
              /\ faults' = FaultsAfter(d.state = "Error")
    BY <1>6 DEF PushUnit
  <2>3. file' = [file EXCEPT ![c] = Read(@, item.repush)] /\ call' = call
    BY <1>6 DEF PushUnit
  <2> HIDE DEF u
  <2>4. /\ d \in DecoderType(setup) /\ d.engine = engine
        /\ engine = "Dav1d" => d.header
        /\ FaultsAfter(d.state = "Error") \in Nat
    BY <1>2, <2>1, PushedType
  <2>5. item' \in ItemType(setup) /\ item'.current = item.current /\ item'.counter = item.counter
    BY <1>1, <2>2 DEF ItemType
  <2>6. file' \in [Thread -> FileType(setup)]
    BY <2>1, <2>3 DEF TypeInv
  <2>7. QED
    BY <1>2, <1>3, <2>2, <2>3, <2>4, <2>5, <2>6, WorkType DEF TypeInv
<1>7. QED
  BY <1>4, <1>5, <1>6 DEF Push
\* Retrieving a picture keeps the types.
LEMMA RetrieveType ==
    ASSUME TypeInv, NEW c \in Thread, Retrieve(c)
    PROVE  TypeInv'
<1> DEFINE d == decodeNextFrame(dec[c])
           now == item.current[c] + 1
           right == d.ok /\ now = call[c].frame
           b == IF right THEN Buffered(d) ELSE d
<1>1. /\ setup \in Setup /\ LastFrame = EndOf(setup)
      /\ NoFrame = -1 /\ LastFrame \in Nat
      /\ dec[c] \in DecoderType(setup) /\ dec[c].engine = engine
      /\ call[c] \in CallType(setup)
      /\ call[c].frame \in -1..LastFrame /\ item \in ItemType(setup)
      /\ item.current[c] \in -1..LastFrame
  BY ItemFacts, OfSetup DEF TypeInv
<1>2. /\ call[c].pc = "decode" /\ dec[c].state = "RetrieveFrames"
      /\ item.current[c] # call[c].frame
      /\ UNCHANGED <<setup, engine, file, call, answer, faults>>
      /\ dec' = [dec EXCEPT ![c] = b]
      /\ item' =
            IF right
            THEN [item EXCEPT !.current[c] = now,
                    !.raw = getRawFrameData(d), !.rawIndex = now,
                    !.statFrame = IF c = "loading" /\ item.statistics THEN now ELSE @]
            ELSE IF d.ok THEN [item EXCEPT !.current[c] = now] ELSE item
  BY DEF Retrieve, Decoding
<1>3. /\ call[c].frame >= 0 /\ item.current[c] <= call[c].frame
      /\ item.counter # -1 /\ (engine = "Dav1d" => dec[c].header)
      /\ item.current \in [Thread -> -1..LastFrame]
      /\ item.statFrame \in -1..LastFrame
  BY <1>1, <1>2 DEF TypeInv, InUse, ItemType
<1>4. now \in -1..LastFrame /\ now <= call[c].frame
  BY <1>1, <1>2, <1>3
<1>5. d \in DecoderType(setup) /\ Stays(d, dec[c])
  BY <1>1, NextType
<1> HIDE DEF d
<1>6. /\ Buffered(d) \in DecoderType(setup) /\ Alike(Buffered(d), d)
      /\ getRawFrameData(d) \in Int
  BY <1>1, <1>5, BufferedType
<1>7. b \in DecoderType(setup) /\ b.engine = engine /\ (engine = "Dav1d" => b.header)
  <2>1. d.engine = engine /\ (engine = "Dav1d" => d.header)
    BY <1>1, <1>3, <1>5 DEF Stays
  <2>2. Buffered(d).engine = engine /\ (engine = "Dav1d" => Buffered(d).header)
    BY <1>6, <2>1 DEF Alike
  <2>3. b = d \/ b = Buffered(d)
    OBVIOUS
  <2> HIDE DEF b
  <2>4. QED
    BY <1>5, <1>6, <2>1, <2>2, <2>3
<1> DEFINE cur == [item.current EXCEPT ![c] = now]
           stat == IF c = "loading" /\ item.statistics THEN now ELSE item.statFrame
<1>8. cur \in [Thread -> -1..LastFrame] /\ stat \in -1..LastFrame
      /\ cur[c] = now /\ \A t \in Thread : t # c => cur[t] = item.current[t]
  BY <1>3, <1>4
<1>9. \/ item' = item \/ item' = [item EXCEPT !.current = cur]
      \/ item' = [item EXCEPT !.current = cur, !.raw = getRawFrameData(d), !.rawIndex = now,
                              !.statFrame = stat]
  BY <1>2
<1> HIDE DEF now, cur, stat, b, right
<1>10. /\ item' \in ItemType(setup) /\ item'.counter = item.counter
       /\ item'.current = item.current \/ item'.current = cur
  <2>1. CASE item' = item
    BY <1>1, <2>1
  <2>2. CASE item' = [item EXCEPT !.current = cur]
    BY <1>1, <1>8, <2>2 DEF ItemType
  <2>3. CASE item' = [item EXCEPT !.current = cur, !.raw = getRawFrameData(d), !.rawIndex = now,
                                  !.statFrame = stat]
    <3>1. now \in -1..EndOf(setup) /\ cur \in [Thread -> -1..EndOf(setup)] /\ stat \in -1..EndOf(setup)
      BY <1>1, <1>4, <1>8
    <3>2. [item EXCEPT !.current = cur, !.raw = getRawFrameData(d), !.rawIndex = now,
                       !.statFrame = stat] \in ItemType(setup)
      BY <1>1, <1>6, <3>1, Zenon DEF ItemType
    <3>3. QED
      BY <2>3, <3>2 DEF ItemType
  <2>4. QED
    BY <1>9, <2>1, <2>2, <2>3
<1>11. /\ \A t \in Thread : t # c => item'.current[t] = item.current[t]
       /\ item'.current[c] <= call[c].frame
  BY <1>3, <1>4, <1>8, <1>10
<1>12. /\ call' \in [Thread -> CallType(setup)] /\ faults' \in Nat
       /\ file' \in [Thread -> FileType(setup)] /\ \A t \in Thread : call'[t] = call[t]
  BY <1>2 DEF TypeInv
<1>13. QED
  BY <1>2, <1>3, <1>7, <1>10, <1>11, <1>12, WorkType

\* The end of the decoding keeps the types.
LEMMA FinishType ==
    ASSUME TypeInv, NEW c \in Thread, Finish(c)
    PROVE  TypeInv'
<1> DEFINE f == call[c].frame
           stuck == Decoding(c)
           after == IF stuck THEN f ELSE item.notAfter
           undecodable == after >= 0 /\ f >= after
           cur == [item.current EXCEPT ![c] = IF undecodable THEN f ELSE @]
           index == IF undecodable THEN f ELSE item.rawIndex
           ena == item.enabled /\ (undecodable \/ dec["loading"].state # "Error")
           k == [call[c] EXCEPT !.pc = "reply", !.copy = item.raw]
<1>1. /\ setup \in Setup /\ LastFrame = EndOf(setup)
      /\ NoFrame = -1 /\ LastFrame \in Nat
      /\ dec[c] \in DecoderType(setup) /\ dec[c].engine = engine
      /\ call[c] \in CallType(setup)
      /\ call[c].frame \in -1..LastFrame /\ item \in ItemType(setup)
  BY ItemFacts, OfSetup DEF TypeInv
<1>2. /\ call[c].pc = "decode" /\ UNCHANGED <<setup, engine, dec, file, answer, faults>>
      /\ item' = [item EXCEPT !.notAfter = after, !.current[c] = IF undecodable THEN f ELSE @,
                    !.rawIndex = index, !.enabled = ena]
      /\ call' = [call EXCEPT ![c].pc = "reply", ![c].copy = item.raw]
  BY DEF Finish
<1>3. item' = [item EXCEPT !.notAfter = after, !.current = cur, !.rawIndex = index, !.enabled = ena]
  BY <1>1, <1>2 DEF ItemType
<1>4. call' = [call EXCEPT ![c] = k]
  BY <1>2
<1>5. /\ item.counter # -1 /\ (engine = "Dav1d" => dec[c].header)
      /\ item.current \in [Thread -> -1..LastFrame] /\ item.notAfter \in -1..LastFrame
      /\ item.rawIndex \in -1..LastFrame /\ item.enabled \in BOOLEAN /\ item.raw \in Int
  BY <1>1, <1>2 DEF TypeInv, InUse, ItemType
<1>6. /\ after \in -1..EndOf(setup) /\ cur \in [Thread -> -1..EndOf(setup)]
      /\ index \in -1..EndOf(setup) /\ ena \in BOOLEAN
      /\ \A t \in Thread : t # c => cur[t] = item.current[t]
  BY <1>1, <1>5
<1>7. k \in CallType(setup) /\ k.pc = "reply"
  BY <1>1, <1>5 DEF CallType
<1> HIDE DEF after, cur, index, ena, k, undecodable
<1>8. item' \in ItemType(setup) /\ item'.counter = item.counter /\ item'.current = cur
  <2>1. [item EXCEPT !.notAfter = after, !.current = cur, !.rawIndex = index, !.enabled = ena]
          \in ItemType(setup)
    BY <1>1, <1>6, Zenon DEF ItemType
  <2>2. QED
    BY <1>3, <2>1 DEF ItemType
<1>9. /\ call' \in [Thread -> CallType(setup)] /\ call'[c] = k
      /\ \A t \in Thread : t # c => call'[t] = call[t]
  BY <1>4, <1>7 DEF TypeInv
<1>10. dec' = [dec EXCEPT ![c] = dec[c]]
  BY <1>2 DEF TypeInv
<1>11. /\ faults' \in Nat /\ file' \in [Thread -> FileType(setup)]
  BY <1>2 DEF TypeInv
<1>12. QED
  BY <1>1, <1>2, <1>5, <1>6, <1>7, <1>8, <1>9, <1>10, <1>11, WorkType, ZenonT(60)
\* A step that leaves decoders and files alone, counts on no decoder it did not
\* count on before, and starts nothing.
LEMMA RestType ==
    ASSUME TypeInv, UNCHANGED <<setup, engine, dec, file, faults>>,
           answer' \in [Thread -> [frame : Int, picture : Int]],
           item' \in ItemType(setup), item'.counter = item.counter,
           item'.current = item.current,
           call' \in [Thread -> CallType(setup)],
           \A t \in Thread : call'[t] \in {call[t], Idle}
    PROVE  TypeInv'
<1> USE DEF TypeInv
<1>1. ASSUME NEW t \in Thread
      PROVE  /\ dec'[t].engine = engine
             /\ InUse(t)' => InUse(t)
             /\ call'[t].pc = "idle" => call'[t] = Idle
             /\ call'[t].pc = "decode" =>
                  /\ call'[t].frame >= 0
                  /\ item'.current[t] <= call'[t].frame \/ dec'[t].state = "Error"
  <2>1. CASE call'[t] = call[t]
    BY <2>1 DEF InUse
  <2>2. CASE call'[t] = Idle
    <3>1. call'[t].pc = "idle"
      BY <2>2 DEF Idle
    <3>2. QED
      BY <2>2, <3>1 DEF InUse
  <2>3. QED
    BY <2>1, <2>2
<1>2. QED
  BY <1>1

\* A thread that has not asked.
LEMMA IdleType ==
    ASSUME setup \in Setup
    PROVE  Idle \in CallType(setup) /\ Idle.pc = "idle" /\ Idle.kind = "none"
  BY OfSetup, StreamFacts DEF Idle, CallType, NoFrame, NoPicture

\* The answer keeps the types.
LEMMA DeliverType ==
    ASSUME TypeInv, NEW c \in Thread, Deliver(c)
    PROVE  TypeInv'
<1> DEFINE f == call[c].frame
           there == item.rawIndex = f /\ (c = "loading" => item.raw # NoPicture)
           shown == IF c = "caching" THEN call[c].copy
                    ELSE IF NotDecodable(f) THEN NoPicture ELSE item.raw
           a == [frame |-> f, picture |-> IF there THEN shown ELSE NoPicture]
<1>1. /\ setup \in Setup /\ LastFrame = EndOf(setup)
      /\ call[c] \in CallType(setup) /\ call[c].frame \in -1..LastFrame /\ item \in ItemType(setup)
      /\ LastFrame \in Nat
  BY ItemFacts, OfSetup DEF TypeInv
<1>2. f \in Int /\ call[c].copy \in Int /\ item.raw \in Int /\ item.loaded \in -1..LastFrame
  BY <1>1 DEF CallType, ItemType
<1>3. a \in [frame : Int, picture : Int]
  BY <1>2, TypedValues
<1>4. /\ UNCHANGED <<setup, engine, dec, file, faults>>
      /\ call' = [call EXCEPT ![c] = Idle]
      /\ \/ UNCHANGED <<item, answer>>
         \/ /\ answer' = [answer EXCEPT ![c] = a]
            /\ item' = [item EXCEPT !.loaded = IF there /\ c = "loading" THEN f ELSE @]
  BY DEF Deliver
<1> HIDE DEF a, there
<1>5. answer' \in [Thread -> [frame : Int, picture : Int]]
  BY <1>3, <1>4 DEF TypeInv
<1>6. /\ item' \in ItemType(setup) /\ item'.counter = item.counter /\ item'.current = item.current
  BY <1>1, <1>2, <1>4 DEF ItemType
<1>7. call' \in [Thread -> CallType(setup)] /\ \A t \in Thread : call'[t] \in {call[t], Idle}
  BY <1>1, <1>4, IdleType DEF TypeInv
<1>8. QED
  BY <1>4, <1>5, <1>6, <1>7, RestType

\* Nothing is in the buffer, and no decoder is counted on.
LEMMA InvalidatedType ==
    ASSUME TypeInv
    PROVE  /\ Invalidated \in ItemType(setup) /\ Invalidated.counter = item.counter
           /\ \A c \in Thread : Invalidated.current[c] = NoFrame
           /\ Invalidated.loaded = NoFrame /\ Invalidated.rawIndex = NoFrame
           /\ Invalidated.notAfter = item.notAfter
           /\ Invalidated.repush = item.repush /\ Invalidated.raw = item.raw
           /\ Invalidated.statistics = item.statistics
<1> DEFINE cur == [c \in Thread |-> NoFrame]
<1>1. /\ LastFrame = EndOf(setup) /\ NoFrame \in -1..LastFrame /\ item \in ItemType(setup)
  BY ItemFacts, OfSetup DEF TypeInv
<1>2. cur \in [Thread -> -1..EndOf(setup)] /\ \A c \in Thread : cur[c] = NoFrame
  BY <1>1
<1>3. Invalidated = [item EXCEPT !.current = cur, !.loaded = NoFrame, !.rawIndex = NoFrame]
  BY DEF Invalidated
<1> HIDE DEF cur
<1>4. [item EXCEPT !.current = cur, !.loaded = NoFrame, !.rawIndex = NoFrame] \in ItemType(setup)
  BY <1>1, <1>2, Zenon DEF ItemType
<1>5. QED
  BY <1>2, <1>3, <1>4 DEF ItemType

\* A change of the signal keeps the types.
LEMMA ChangeSignalType ==
    ASSUME TypeInv, ChangeSignal
    PROVE  TypeInv'
<1> USE DEF TypeInv
<1>1. /\ setup \in Setup /\ NoFrame = -1
      /\ \A c \in Thread : dec[c] \in DecoderType(setup)
  BY ItemFacts
<1>2. /\ dec' = [c \in Thread |-> resetDecoder(dec[c])] /\ item' = Invalidated
      /\ UNCHANGED <<setup, engine, file, call, answer, faults>>
  BY DEF ChangeSignal
<1>3. ASSUME NEW c \in Thread
      PROVE  /\ dec'[c] \in DecoderType(setup) /\ dec'[c].engine = engine
             /\ engine = "Dav1d" /\ dec[c].header => dec'[c].header
             /\ dec[c].state = "Error" => dec'[c].state \in {"Error", "NeedsMoreData"}
    BY <1>1, <1>2, ResetType
<1>4. /\ item' \in ItemType(setup) /\ item'.counter = item.counter
      /\ \A c \in Thread : item'.current[c] = NoFrame
  BY <1>2, InvalidatedType
<1>5. dec' \in [Thread -> DecoderType(setup)]
  BY <1>2, <1>3
<1>6. ASSUME NEW t \in Thread
      PROVE  /\ InUse(t)' => InUse(t)
             /\ call'[t].pc = "decode" => item'.current[t] <= call'[t].frame
  <2>1. call'[t] = call[t] /\ item'.current[t] = NoFrame /\ call[t].frame \in Int
    BY <1>2, <1>4, ItemFacts
  <2>2. call[t].pc = "decode" => call[t].frame >= 0
    OBVIOUS
  <2>3. QED
    BY <1>1, <2>1, <2>2 DEF InUse
<1>7. QED
  BY <1>1, <1>2, <1>3, <1>4, <1>5, <1>6

\* Another decoder keeps the types.
LEMMA ChangeDecoderType ==
    ASSUME TypeInv, ChangeDecoder
    PROVE  TypeInv'
<1> USE DEF TypeInv
<1>1. PICK e \in setup.engines \ {engine} :
        /\ engine' = e
        /\ dec' = [c \in Thread |-> NewDecoder(e, setup.delay)]
  BY DEF ChangeDecoder
<1>2. /\ \A c \in Thread : call[c] = Idle
      /\ item' = [Invalidated EXCEPT !.notAfter = NoFrame, !.enabled = TRUE, !.statistics = FALSE]
      /\ UNCHANGED <<setup, file, call, answer, faults>>
  BY DEF ChangeDecoder, Undisturbed
<1>3. /\ setup \in Setup /\ e \in Engine /\ setup.delay \in Nat /\ e \in setup.engines
  BY StreamFacts
<1>4. NewDecoder(e, setup.delay) \in DecoderType(setup) /\ NewDecoder(e, setup.delay).engine = e
  BY <1>3, NewType
<1>5. dec' \in [Thread -> DecoderType(setup)] /\ \A c \in Thread : dec'[c].engine = engine'
  BY <1>1, <1>4
<1>6. NoFrame \in -1..EndOf(setup) /\ Invalidated \in ItemType(setup)
      /\ \A c \in Thread : Invalidated.current[c] = NoFrame
  BY ItemFacts, OfSetup, InvalidatedType
<1>7. item' \in ItemType(setup) /\ \A c \in Thread : item'.current[c] = NoFrame
  <2>1. [Invalidated EXCEPT !.notAfter = NoFrame, !.enabled = TRUE, !.statistics = FALSE] \in ItemType(setup)
    BY <1>6, TypedValues, Zenon DEF ItemType
  <2>2. item'.current = Invalidated.current
    BY <1>2, <1>6 DEF ItemType
  <2>3. QED
    BY <1>2, <1>6, <2>1, <2>2
<1>8. ASSUME NEW t \in Thread
      PROVE  ~InUse(t)' /\ call'[t].pc = "idle"
  BY <1>2, <1>3, <1>7, IdleType DEF InUse
<1>9. QED
  BY <1>1, <1>2, <1>3, <1>5, <1>7, <1>8
\* The types hold at the start.
LEMMA InitType ==
    ASSUME Init
    PROVE  TypeInv
<1>1. /\ setup \in Setup /\ engine \in setup.engines /\ faults = setup.faults
      /\ dec = [c \in Thread |-> Primed(NewDecoder(engine, setup.delay))]
      /\ file = [c \in Thread |-> [pos |-> 0, last |-> EmptyData]]
      /\ item = Fresh /\ call = [c \in Thread |-> Idle] /\ answer = [c \in Thread |-> Nothing]
  BY DEF Init
<1>2. /\ engine \in Engine /\ setup.delay \in Nat /\ setup.faults \in Nat
      /\ Length(setup) \in Nat /\ Length(setup) > 0 /\ EndOf(setup) \in Nat
  BY <1>1, StreamFacts
<1>3. NewDecoder(engine, setup.delay) \in DecoderType(setup)
      /\ NewDecoder(engine, setup.delay).engine = engine
  BY <1>1, <1>2, NewType
<1>4. /\ Primed(NewDecoder(engine, setup.delay)) \in DecoderType(setup)
      /\ Primed(NewDecoder(engine, setup.delay)).engine = engine
  BY <1>1, <1>3, PrimedType
<1>5. [pos |-> 0, last |-> EmptyData] \in FileType(setup)
  BY <1>1, <1>2, UnitFacts DEF FileType
<1>6. Fresh \in ItemType(setup) /\ Fresh.counter = -1 /\ \A c \in Thread : Fresh.current[c] = NoFrame
  <2> DEFINE cur == [c \in Thread |-> NoFrame]
  <2>1. cur \in [Thread -> -1..EndOf(setup)] /\ NoFrame \in -1..EndOf(setup) /\ NoFrame \in Int
        /\ \A c \in Thread : cur[c] = NoFrame
    BY <1>2 DEF NoFrame, NoPicture
  <2>2. Fresh = [current |-> cur, repush |-> FALSE, notAfter |-> NoFrame, counter |-> -1,
                 raw |-> NoPicture, rawIndex |-> NoFrame, loaded |-> NoFrame,
                 statistics |-> FALSE, statFrame |-> NoFrame, enabled |-> TRUE]
    BY DEF Fresh
  <2> HIDE DEF cur
  <2>3. -1 \in -1..Length(setup) /\ NoPicture \in Int
    BY <1>2, TypedValues
  <2>4. QED
    BY <2>1, <2>2, <2>3 DEF ItemType
<1>7. Idle \in CallType(setup) /\ Idle.pc = "idle"
  BY <1>1, IdleType
<1>8. Nothing \in [frame : Int, picture : Int]
  BY TypedValues DEF Nothing, NoFrame
<1>9. ASSUME NEW c \in Thread
      PROVE  ~InUse(c) /\ call[c] = Idle /\ dec[c].engine = engine /\ call[c].pc = "idle"
  BY <1>1, <1>4, <1>6, <1>7 DEF InUse
<1>10. QED
  BY <1>1, <1>2, <1>4, <1>5, <1>6, <1>7, <1>8, <1>9 DEF TypeInv

\* A request keeps the types.
LEMMA RequestFrameType ==
    ASSUME TypeInv, NEW c \in Thread, RequestFrame(c)
    PROVE  TypeInv'
<1>1. PICK f \in 0..LastFrame : Request(c, "video", f, item)
  BY DEF RequestFrame
<1>2. /\ call[c] = Idle /\ setup' = setup /\ engine' = engine
      /\ answer' = [answer EXCEPT ![c] = Nothing]
  BY DEF RequestFrame
<1>3. Members(item, c) /\ f \in -1..LastFrame
  BY ItemFacts DEF Thread
<1>4. Nothing \in [frame : Int, picture : Int]
  BY TypedValues DEF Nothing, NoFrame
<1>5. answer' \in [Thread -> [frame : Int, picture : Int]]
  BY <1>2, <1>4 DEF TypeInv
<1>6. QED
  BY <1>1, <1>2, <1>3, <1>5, RequestType

\* A request that has nothing to decode keeps the types.
LEMMA ReturnType ==
    ASSUME TypeInv, NEW f \in 0..LastFrame, Return("statistics", f), call["loading"] = Idle,
           setup' = setup, engine' = engine,
           answer' \in [Thread -> [frame : Int, picture : Int]]
    PROVE  TypeInv'
<1> DEFINE r == [Idle EXCEPT !.kind = "statistics", !.frame = f, !.pc = "reply"]
<1>1. /\ call' = [call EXCEPT !["loading"] = r] /\ UNCHANGED <<dec, file, item, faults>>
      /\ call \in [Thread -> CallType(setup)] /\ LastFrame = EndOf(setup)
  BY OfSetup DEF Return, TypeInv
<1>2. r \in CallType(setup) /\ r.pc = "reply"
  <2>1. f \in -1..EndOf(setup)
    BY <1>1
  <2>2. /\ "statistics" \in {"none", "video", "statistics"}
        /\ "reply" \in {"idle", "decode", "reply"}
    OBVIOUS
  <2>3. Idle \in CallType(setup)
    BY ItemFacts, OfSetup, TypedValues DEF CallType, Idle
  <2>4. r \in CallType(setup)
    BY <2>1, <2>2, <2>3, Zenon DEF CallType
  <2>5. r.pc = "reply"
    BY <2>3 DEF CallType
  <2>6. QED
    BY <2>4, <2>5
<1>3. call["loading"].pc = "idle"
  BY DEF Idle
<1> HIDE DEF r
<1>4. \A t \in Thread : call'[t] = IF t = "loading" THEN r ELSE call[t]
  BY <1>1
<1>5. call' \in [Thread -> CallType(setup)]
  BY <1>1, <1>2
<1>6. ASSUME NEW t \in Thread
      PROVE  /\ dec'[t].engine = engine' /\ (engine' = "Dav1d" /\ InUse(t)' => dec'[t].header)
             /\ (item'.counter = -1 => ~InUse(t)') /\ (call'[t].pc = "idle" => call'[t] = Idle)
             /\ call'[t].pc = "decode" =>
                    /\ call'[t].frame >= 0
                    /\ item'.current[t] <= call'[t].frame \/ dec'[t].state = "Error"
  <2>1. CASE t = "loading"
    <3>1. call'[t].pc = "reply" /\ (InUse(t)' => InUse(t))
      BY <1>1, <1>2, <1>4, <2>1 DEF InUse
    <3>2. QED
      BY <1>1, <3>1 DEF TypeInv
  <2>2. CASE t # "loading"
    <3>1. call'[t] = call[t] /\ InUse(t)' = InUse(t)
      BY <1>1, <1>4, <2>2 DEF InUse
    <3>2. QED
      BY <1>1, <3>1 DEF TypeInv
  <2>3. QED
    BY <2>1, <2>2
<1>7. QED
  BY <1>1, <1>5, <1>6 DEF TypeInv

\* A request for statistics is one for the frame the decoder is at, which it forgets, one
\* for the frame on the screen, or it returns at once.
LEMMA StatisticsRequest ==
    ASSUME TypeInv, NEW f \in 0..LastFrame, LoadStatistics(f)
    PROVE  /\ setup.statistics /\ call["loading"] = Idle
           /\ UNCHANGED <<setup, engine, answer>>
           /\ \/ /\ Return("statistics", f) /\ item.statistics
                 /\ item.current["loading"] = f
              \/ \E g \in -1..LastFrame : \E it :
                    /\ Request("loading", "statistics", g, it) /\ Members(it, "loading")
                    /\ \/ g = f /\ it = item /\ item.statistics /\ g # item.current["loading"]
                       \/ /\ g = item.current["loading"]
                          /\ it = [item EXCEPT !.statistics = TRUE,
                                               !.current["loading"] = NoFrame]
<1> DEFINE old == item.current["loading"]
           again == [item EXCEPT !.statistics = TRUE, !.current["loading"] = NoFrame]
<1>1. /\ item \in ItemType(setup) /\ LastFrame = EndOf(setup) /\ "loading" \in Thread
      /\ Members(item, "loading") /\ NoFrame \in -1..LastFrame
      /\ f \in -1..LastFrame
  BY ItemFacts, OfSetup DEF Thread, TypeInv
<1>2. old \in -1..LastFrame
  BY <1>1 DEF ItemType
<1>3. Members(again, "loading")
  <2> DEFINE cur == [item.current EXCEPT !["loading"] = NoFrame]
  <2>1. again = [item EXCEPT !.statistics = TRUE, !.current = cur]
    BY <1>1 DEF ItemType
  <2>2. cur \in [Thread -> -1..EndOf(setup)] /\ cur["loading"] = NoFrame
        /\ \A t \in Thread : t # "loading" => cur[t] = item.current[t]
    BY <1>1 DEF ItemType
  <2> HIDE DEF cur
  <2>3. [item EXCEPT !.statistics = TRUE, !.current = cur] \in ItemType(setup)
    BY <1>1, <2>2, TypedValues, Zenon DEF ItemType
  <2>4. [item EXCEPT !.statistics = TRUE, !.current = cur].current = cur
        /\ [item EXCEPT !.statistics = TRUE, !.current = cur].counter = item.counter
    BY <1>1 DEF ItemType
  <2>5. QED
    BY <2>1, <2>2, <2>3, <2>4 DEF Members
<1>4. /\ setup.statistics /\ call["loading"] = Idle /\ UNCHANGED <<setup, engine, answer>>
      /\ \/ ~item.statistics /\ Request("loading", "statistics", old, again)
         \/ item.statistics /\ f # old /\ Request("loading", "statistics", f, item)
         \/ item.statistics /\ f = old /\ Return("statistics", f)
  BY DEF LoadStatistics
<1> HIDE DEF old, again
<1>5. CASE Request("loading", "statistics", old, again)
  BY <1>2, <1>3, <1>4, <1>5 DEF old, again
<1>6. CASE item.statistics /\ f # old /\ Request("loading", "statistics", f, item)
  BY <1>1, <1>4, <1>6 DEF old
<1>7. QED
  BY <1>4, <1>5, <1>6 DEF old

\* So it keeps the types.
LEMMA LoadStatisticsType ==
    ASSUME TypeInv, NEW f \in 0..LastFrame, LoadStatistics(f)
    PROVE  TypeInv'
<1>1. /\ call["loading"] = Idle /\ setup' = setup /\ engine' = engine /\ "loading" \in Thread
      /\ answer' \in [Thread -> [frame : Int, picture : Int]]
  BY StatisticsRequest DEF TypeInv, Thread
<1>2. CASE Return("statistics", f)
  BY <1>1, <1>2, ReturnType
<1>3. CASE \E g \in -1..LastFrame : \E it :
              Request("loading", "statistics", g, it) /\ Members(it, "loading")
  BY <1>1, <1>3, RequestType
<1>4. QED
  BY <1>2, <1>3, StatisticsRequest

\* Every step keeps the types.
LEMMA NextKeepsTypes ==
    ASSUME TypeInv, [Next]_vars
    PROVE  TypeInv'
<1>1. CASE UNCHANGED vars
  BY <1>1 DEF TypeInv, vars, InUse
<1>2. ASSUME NEW c \in Thread, RequestFrame(c) \/ Work(c)
      PROVE  TypeInv'
  BY <1>2, RequestFrameType, PushStepType, RetrieveType, FinishType, DeliverType DEF Work
<1>3. CASE \E f \in 0..LastFrame : LoadStatistics(f)
  BY <1>3, LoadStatisticsType
<1>4. CASE ChangeSignal
  BY <1>4, ChangeSignalType
<1>5. CASE ChangeDecoder
  BY <1>5, ChangeDecoderType
<1>6. QED
  BY <1>1, <1>2, <1>3, <1>4, <1>5 DEF Next

\* The item, its decoders, files and requests have their types in every state,
\* for every stream and every decoder that can be opened; no decoder is counted
\* on before the first seek, and a request never decodes past its frame.
THEOREM CompressedTypes == Spec => []TypeInv
<1>1. Init => TypeInv
  BY InitType
<1>2. TypeInv /\ [Next]_vars => TypeInv'
  BY NextKeepsTypes
<1>3. QED
  BY <1>1, <1>2, PTL DEF Spec

\* What the runs check of the types.
THEOREM CompressedTypeOK == Spec => []TypeOK
<1>1. TypeInv => TypeOK
  <2> SUFFICES ASSUME TypeInv PROVE TypeOK
    OBVIOUS
  <2>1. /\ N = Length(setup) /\ LastFrame = EndOf(setup) /\ N \in Nat
    BY OfSetup, ItemFacts
  <2>2. ASSUME NEW c \in Thread
        PROVE  /\ dec[c].engine = engine /\ dec[c].state \in DecoderState
               /\ dec[c].lib.held \subseteq 0..(N - 1)
               /\ file[c].pos \in 0..N
               /\ item.current[c] \in -1..LastFrame
               /\ call[c].kind \in {"none", "video", "statistics"}
               /\ call[c].pc \in {"idle", "decode", "reply"}
    <3>1. dec[c] \in DecoderType(setup) /\ file[c] \in FileType(setup) /\ call[c] \in CallType(setup)
          /\ item.current[c] \in -1..LastFrame /\ dec[c].engine = engine
      BY ItemFacts
    <3>2. QED
      BY <2>1, <3>1 DEF DecoderType, LibraryType, FileType, CallType
  <2>3. /\ {item.rawIndex, item.loaded, item.notAfter, item.statFrame} \subseteq -1..LastFrame
        /\ item.counter \in -1..N
    <3>1. item \in ItemType(setup)
      BY DEF TypeInv
    <3>2. QED
      BY <2>1, <3>1 DEF ItemType
  <2>4. setup \in Setup /\ engine \in setup.engines /\ faults \in Nat
    BY DEF TypeInv
  <2>5. QED
    BY <2>2, <2>3, <2>4 DEF TypeOK
<1>2. QED
  BY <1>1, CompressedTypes, PTL
-----------------------------------------------------------------------------
(* The libraries give the pictures out in display order.                   *)

\* A random access picture is displayed after those coded before it.
LEMMA RandomAccess ==
    ASSUME NEW s \in Setup, NEW p \in 0..(Length(s) - 1), NEW r \in 0..(Length(s) - 1),
           r \in s.random, Position(s, p) < Position(s, r)
    PROVE  p < r
<1> DEFINE i == Position(s, p) + 1
           j == Position(s, r) + 1
<1>1. /\ Length(s) \in Nat
      /\ Position(s, p) \in 0..(Length(s) - 1) /\ s.coding[Position(s, p) + 1] = p
      /\ Position(s, r) \in 0..(Length(s) - 1) /\ s.coding[Position(s, r) + 1] = r
  BY PositionFacts, StreamFacts
<1>2. /\ i \in 1..Length(s) /\ j \in 1..Length(s) /\ i < j
      /\ s.coding[i] = p /\ s.coding[j] = r
  BY <1>1
<1>3. \A a, b \in 1..Length(s) : a < b /\ s.coding[b] \in s.random => s.coding[a] < s.coding[b]
  BY StreamAssumption DEF Length
<1> HIDE DEF i, j
<1>4. QED
  BY <1>2, <1>3

\* At most `delay' pictures are coded before a picture and displayed after it.
LEMMA HeldBack ==
    ASSUME NEW s \in Setup, NEW r \in 0..(Length(s) - 1), NEW H,
           H \subseteq {p \in 0..(Length(s) - 1) : p > r /\ Position(s, p) < Position(s, r)}
    PROVE  IsFiniteSet(H) /\ Cardinality(H) <= s.delay
<1> DEFINE j == Position(s, r) + 1
           I == {i \in 1..Length(s) : i < j /\ s.coding[i] > s.coding[j]}
           f == [p \in H |-> Position(s, p) + 1]
<1>1. /\ Length(s) \in Nat /\ s.delay \in Nat
      /\ \A p \in 0..(Length(s) - 1) :
            Position(s, p) \in 0..(Length(s) - 1) /\ s.coding[Position(s, p) + 1] = p
  BY PositionFacts, StreamFacts
<1>2. j \in 1..Length(s) /\ s.coding[j] = r
  BY <1>1
<1>3. Cardinality(I) <= s.delay
  BY <1>2, StreamAssumption DEF Length
<1>4. IsFiniteSet(I)
  <2>1. IsFiniteSet(1..Length(s)) /\ I \in SUBSET (1..Length(s))
    BY <1>1, FS_Interval
  <2> HIDE DEF I
  <2>2. QED
    BY <2>1, FS_Subset
<1>5. ASSUME NEW p \in H
      PROVE  Position(s, p) + 1 \in I /\ s.coding[Position(s, p) + 1] = p
  <2>1. p \in 0..(Length(s) - 1) /\ p > r /\ Position(s, p) < Position(s, r)
    OBVIOUS
  <2>2. /\ Position(s, p) \in 0..(Length(s) - 1) /\ s.coding[Position(s, p) + 1] = p
        /\ Position(s, r) \in 0..(Length(s) - 1)
    BY <1>1, <2>1
  <2> DEFINE i == Position(s, p) + 1
  <2>3. i \in 1..Length(s) /\ i < j /\ s.coding[i] = p
    BY <1>1, <2>1, <2>2
  <2> HIDE DEF i, j
  <2>4. i \in I
    BY <1>2, <2>1, <2>3
  <2>5. QED
    BY <2>2, <2>4 DEF i
<1>6. f \in Injection(H, I)
  <2>1. f \in [H -> I]
    BY <1>5
  <2>2. ASSUME NEW p \in H, NEW q \in H, f[p] = f[q]
        PROVE  p = q
    <3>1. Position(s, p) + 1 = Position(s, q) + 1
      BY <2>2
    <3>2. QED
      BY <1>5, <3>1
  <2> HIDE DEF f
  <2>3. DOMAIN f = H
    BY <2>1
  <2>4. QED
    BY <2>1, <2>2, <2>3 DEF Injection, IsInjective
<1> HIDE DEF f, I
<1>7. IsFiniteSet(H) /\ Cardinality(H) <= Cardinality(I)
  BY <1>4, <1>6, FS_Injection
<1>8. Cardinality(H) \in Nat /\ Cardinality(I) \in Nat
  BY <1>4, <1>7, FS_CardinalityType
<1>9. QED
  BY <1>1, <1>3, <1>7, <1>8

\* What can be decoded is a first part of what is displayed.
Cut(s) == CHOOSE cut \in 0..Length(s) : s.lost = {f \in 0..(Length(s) - 1) : f >= cut}

\* Where the end of the stream is cut off, the pictures after a lost one are lost.
LEMMA CutFacts ==
    ASSUME ServiceAssumption, NEW s \in Setup
    PROVE  /\ Cut(s) \in 0..Length(s)
           /\ \A p \in 0..(Length(s) - 1) : p \in s.lost <=> p >= Cut(s)
           /\ Cardinality(s.lost) = Length(s) - Cut(s)
<1> DEFINE n == Length(s)
<1>1. n \in Nat
  BY StreamFacts
<1>2. \E cut \in 0..n : s.lost = {f \in 0..(n - 1) : f >= cut}
  BY DEF ServiceAssumption, Countable
<1>3. Cut(s) \in 0..n /\ s.lost = {f \in 0..(n - 1) : f >= Cut(s)}
  BY <1>2 DEF Cut
<1> HIDE DEF n
<1>4. s.lost = Cut(s)..(n - 1)
  BY <1>1, <1>3
<1>5. Cardinality(s.lost) = IF Cut(s) > n - 1 THEN 0 ELSE (n - 1) - Cut(s) + 1
  <2>1. PICK a \in Int, b \in Int : a = Cut(s) /\ b = n - 1
    BY <1>1, <1>3
  <2>2. Cardinality(a..b) = IF a > b THEN 0 ELSE b - a + 1
    BY FS_Interval
  <2>3. QED
    BY <1>4, <2>1, <2>2
<1>6. Cardinality(s.lost) = n - Cut(s)
  BY <1>1, <1>3, <1>5
<1>7. QED
  BY <1>3, <1>6 DEF n
\* A library that was reset and is told to start at a random access picture.
LEMMA EmptyAt ==
    ASSUME NEW s \in Setup, NEW lib, Empty(lib, s.delay), NEW e \in 0..(Length(s) - 1), e \in s.random
    PROVE  LibraryAt(s, lib, Position(s, e), e)
<1>1. Length(s) \in Nat /\ Position(s, e) \in 0..(Length(s) - 1)
  BY PositionFacts, StreamFacts
<1>2. QED
  BY <1>1 DEF Empty, LibraryAt

\* The place of a library depends on the pictures it holds only.
LEMMA AlikeAt ==
    ASSUME NEW s \in Setup, NEW lib, NEW o, NEW k, NEW e, LibraryAt(s, lib, k, e),
           o.start = lib.start, o.held = lib.held, o.delay = lib.delay,
           o.drained => k = Length(s)
    PROVE  LibraryAt(s, o, k, e)
BY DEF LibraryAt

\* The next unit of the stream is decoded.
LEMMA DecodeAt ==
    ASSUME ServiceAssumption, NEW s \in Setup, NEW lib \in LibraryType(s),
           NEW k \in 0..(Length(s) - 1), NEW e \in Nat, LibraryAt(s, lib, k, e)
    PROVE  LibraryAt(s, Decode(lib, UnitOf(s, k)), k + 1, e)
<1> DEFINE n == Length(s)
           u == UnitOf(s, k)
           q == s.coding[k + 1]
           o == Decode(lib, u)
           pos == [p \in 0..(n - 1) |-> Position(s, p)]
<1>1. /\ n \in Nat /\ q \in 0..(n - 1) /\ pos[q] = k /\ Position(s, q) = k
      /\ \A p \in 0..(n - 1) : pos[p] = Position(s, p) /\ pos[p] \in 0..(n - 1)
      /\ \A p \in 0..(n - 1) : pos[p] = k => p = q
  <2>1. /\ Length(s) \in Nat /\ k + 1 \in 1..Length(s)
        /\ s.coding \in [1..Length(s) -> 0..(Length(s) - 1)]
    BY StreamFacts
  <2>2. s.coding[k + 1] \in 0..(Length(s) - 1)
    BY <2>1
  <2>3. /\ Position(s, s.coding[k + 1]) = k
        /\ \A p \in 0..(Length(s) - 1) :
            Position(s, p) \in 0..(Length(s) - 1) /\ s.coding[Position(s, p) + 1] = p
    BY PositionFacts
  <2>4. QED
    BY <2>1, <2>2, <2>3
<1>2. u.kind = "picture" /\ u.poc = q /\ u.rap = (q \in s.random) /\ u.lost = (q \in s.lost)
  BY DEF UnitOf, Coded
<1>3. /\ lib.delay = s.delay /\ k \in 0..n /\ e \in 0..n /\ ~lib.drained /\ k + 1 \in 0..n
  BY <1>1 DEF LibraryAt
<1>4. o.drained = lib.drained /\ o.delay = lib.delay
  BY <1>1, UnitFacts, DecodeType
<1>5. \A p \in 0..(n - 1) : p \in s.lost <=> p >= Cut(s)
  BY CutFacts
<1>6. \A p, r \in 0..(n - 1) : r \in s.random /\ pos[p] < pos[r] => p < r
  BY <1>1, RandomAccess
<1>7. CASE lib.start = NoPicture
  <2>1. /\ lib.held = {} /\ e \in s.random /\ e < n /\ pos[e] <= k
        /\ k = pos[e] \/ e \in s.lost
    BY <1>1, <1>3, <1>7 DEF LibraryAt
  <2>2. CASE q \in s.lost \/ q \notin s.random
    <3>1. o = lib
      BY <1>2, <1>7, <2>2 DEF Decode
    <3>2. e \in s.lost
      BY <1>1, <1>3, <2>1, <2>2
    <3>3. Position(s, e) <= k + 1
      BY <1>1, <1>3, <2>1
    <3> HIDE DEF q, o, u
    <3>4. QED
      BY <1>3, <1>4, <1>7, <2>1, <3>1, <3>2, <3>3 DEF LibraryAt, o, u
  <2>3. CASE q \notin s.lost /\ q \in s.random
    <3>1. o.start = q /\ o.held = {q}
      <4>1. o = [lib EXCEPT !.start = q, !.held = lib.held \cup {q}]
        BY <1>2, <1>7, <2>3 DEF Decode, LibraryType
      <4>2. lib.held \cup {q} = {q}
        BY <2>1
      <4> HIDE DEF o, q
      <4>3. QED
        BY <4>1, <4>2 DEF LibraryType
    <3>2. e \in 0..(n - 1)
      BY <1>1, <1>3, <2>1
    <3>3. k = pos[e]
      <4>1. SUFFICES ASSUME e \in s.lost, pos[e] < k PROVE FALSE
        BY <1>1, <2>1, <3>2
      <4>2. e < q
        BY <1>1, <1>6, <2>3, <3>2, <4>1, SMTT(30)
      <4>3. e >= Cut(s) /\ ~(q >= Cut(s)) /\ Cut(s) \in Int
        BY <1>1, <1>5, <2>3, <3>2, <4>1, CutFacts, SMTT(30)
      <4> HIDE DEF q
      <4>4. QED
        BY <1>1, <3>2, <4>2, <4>3
    <3>4. q = e
      BY <1>1, <3>2, <3>3
    <3>5. {q} = {p \in e..(n - 1) : p \notin s.lost /\ Position(s, p) < k + 1}
      <4>1. ASSUME NEW p \in e..(n - 1), Position(s, p) < k + 1
            PROVE  p = q
        <5>1. p \in 0..(n - 1) /\ pos[p] \in 0..(n - 1) /\ pos[p] < k + 1
          BY <1>1, <3>2, <4>1
        <5>2. p # q => pos[p] < pos[q]
          BY <1>1, <1>3, <5>1
        <5>3. p # q => p < q
          BY <1>1, <1>6, <2>3, <5>1, <5>2
        <5> HIDE DEF q, pos
        <5>4. QED
          BY <1>1, <3>2, <3>4, <5>1, <5>3
      <4>2. q \in e..(n - 1) /\ Position(s, q) < k + 1
        BY <1>1, <1>3, <3>2, <3>4
      <4> HIDE DEF q
      <4>3. QED
        BY <2>3, <4>1, <4>2
    <3>6. o.start # NoPicture /\ o.start \in 0..e /\ o.start..(e - 1) = {}
      <4> HIDE DEF q, o
      <4>1. QED
        BY <1>1, <3>1, <3>2, <3>4 DEF NoPicture
    <3> HIDE DEF q, o, u, pos
    <3>7. QED
      BY <1>3, <1>4, <3>1, <3>5, <3>6 DEF LibraryAt, o, u
  <2>4. QED
    BY <2>2, <2>3
<1>8. CASE lib.start # NoPicture
  <2>1. /\ lib.start \in 0..e
        /\ lib.held = {p \in e..(n - 1) : p \notin s.lost /\ Position(s, p) < k}
        /\ \A p \in lib.start..(e - 1) : Position(s, p) < k
    BY <1>8 DEF LibraryAt
  <2>2. ~(q \in lib.start..(e - 1))
    BY <1>1, <1>3, <2>1
  <2>3. o.start = lib.start /\ o.held = {p \in e..(n - 1) : p \notin s.lost /\ Position(s, p) < k + 1}
    <3>1. ASSUME NEW p \in e..(n - 1)
          PROVE  Position(s, p) < k + 1 <=> Position(s, p) < k \/ p = q
      <4>1. p \in 0..(n - 1) /\ Position(s, p) \in 0..(n - 1) /\ (Position(s, p) = k <=> p = q)
        BY <1>1, <1>3, SMTT(30)
      <4> HIDE DEF q
      <4>2. QED
        BY <1>3, <4>1
    <3>2. CASE q \in s.lost
      <4>1. o = lib
        BY <1>2, <3>2 DEF Decode
      <4> HIDE DEF q, o
      <4>2. QED
        BY <2>1, <3>1, <3>2, <4>1
    <3>3. CASE q \notin s.lost /\ q < lib.start
      <4>1. o = lib
        BY <1>2, <1>8, <3>3 DEF Decode
      <4>2. ~(q \in e..(n - 1))
        BY <1>1, <1>3, <2>1, <3>3
      <4> HIDE DEF q, o
      <4>3. QED
        BY <2>1, <3>1, <4>1, <4>2
    <3>4. CASE q \notin s.lost /\ ~(q < lib.start)
      <4>1. o = [lib EXCEPT !.held = lib.held \cup {q}]
        BY <1>2, <1>8, <3>4 DEF Decode, LibraryType
      <4>2. o.start = lib.start /\ o.held = lib.held \cup {q}
        BY <4>1 DEF LibraryType
      <4>3. q \in e..(n - 1)
        BY <1>1, <1>3, <2>1, <2>2, <3>4
      <4> HIDE DEF q, o
      <4>4. QED
        BY <2>1, <3>1, <3>4, <4>2, <4>3
    <3>5. QED
      BY <3>2, <3>3, <3>4
  <2>4. ASSUME NEW p \in lib.start..(e - 1)
        PROVE  Position(s, p) < k + 1
    <3>1. p \in 0..(n - 1) /\ Position(s, p) < k
      BY <1>1, <1>3, <2>1
    <3>2. Position(s, p) \in Int
      BY <1>1, <3>1
    <3>3. QED
      BY <3>1, <3>2
  <2> HIDE DEF q, o, u, pos
  <2>5. QED
    BY <1>3, <1>4, <1>8, <2>1, <2>3, <2>4 DEF LibraryAt, o, u
<1>9. QED
  BY <1>7, <1>8

\* The library has a picture to give: it is the next one.
LEMMA TakeAt ==
    ASSUME ServiceAssumption, NEW s \in Setup, NEW lib \in LibraryType(s), HasPicture(lib),
           NEW k \in Nat, NEW e \in Nat, LibraryAt(s, lib, k, e)
    PROVE  /\ Min(lib.held) = e /\ e < Length(s) /\ e \notin s.lost
           /\ LibraryAt(s, Taken(lib), k, e + 1)
<1> DEFINE n == Length(s)
           m == Min(lib.held)
<1>1. /\ n \in Nat /\ s.delay \in Nat
      /\ \A p \in 0..(n - 1) : Position(s, p) \in 0..(n - 1)
  BY StreamFacts, PositionFacts
<1>2. /\ m \in lib.held /\ \A p \in lib.held : m <= p
      /\ Taken(lib).held = lib.held \ {m} /\ Taken(lib).start = lib.start
      /\ Taken(lib).drained = lib.drained /\ Taken(lib).delay = lib.delay
  BY TakenType
<1>3. lib.start # NoPicture
  BY <1>2 DEF LibraryAt
<1>4. /\ lib.delay = s.delay /\ k \in 0..n /\ e \in 0..n /\ (lib.drained => k = n)
  BY DEF LibraryAt
<1>5. /\ lib.start \in 0..e
      /\ lib.held = {p \in e..(n - 1) : p \notin s.lost /\ Position(s, p) < k}
      /\ \A p \in lib.start..(e - 1) : Position(s, p) < k
  BY <1>3 DEF LibraryAt
<1>6. \A p \in 0..(n - 1) : p \in s.lost <=> p >= Cut(s)
  BY CutFacts
<1>7. Cut(s) \in Int
  BY CutFacts
<1>8. lib.held # {} /\ (lib.drained \/ Cardinality(lib.held) > s.delay)
  BY <1>4 DEF HasPicture
<1> HIDE DEF m, n
<1>9. m \in e..(n - 1) /\ m \notin s.lost /\ Position(s, m) < k
  BY <1>2, <1>5
<1>10. ASSUME m # e PROVE FALSE
  <2>1. e \in 0..(n - 1) /\ m \in 0..(n - 1) /\ e < m
    BY <1>1, <1>4, <1>9, <1>10
  <2>2. e \notin s.lost
    BY <1>6, <1>7, <1>9, <2>1
  <2>3. e \notin lib.held
    BY <1>2, <2>1
  <2>4. Position(s, e) \in 0..(n - 1) /\ ~(Position(s, e) < k)
    BY <1>1, <1>5, <2>1, <2>2, <2>3
  <2>5. ~lib.drained
    BY <1>1, <1>4, <2>4
  <2>6. lib.held \subseteq {p \in 0..(n - 1) : p > e /\ Position(s, p) < Position(s, e)}
    <3>1. SUFFICES ASSUME NEW p \in lib.held
          PROVE  p \in 0..(n - 1) /\ p > e /\ Position(s, p) < Position(s, e)
      OBVIOUS
    <3>2. p \in e..(n - 1) /\ Position(s, p) < k /\ m <= p
      BY <1>2, <1>5
    <3>3. p \in 0..(n - 1) /\ p > e
      BY <1>1, <1>4, <2>1, <3>2
    <3>4. Position(s, p) \in 0..(n - 1)
      BY <1>1, <3>3
    <3>5. QED
      BY <1>1, <1>4, <2>4, <3>2, <3>3, <3>4
  <2>7. IsFiniteSet(lib.held) /\ Cardinality(lib.held) <= s.delay
    BY <2>1, <2>6, HeldBack DEF n
  <2>8. Cardinality(lib.held) \in Nat
    BY <2>7, FS_CardinalityType
  <2>9. QED
    BY <1>1, <1>8, <2>5, <2>7, <2>8
<1>11. m = e /\ e < n /\ e \notin s.lost /\ e + 1 \in 0..n
  BY <1>1, <1>4, <1>9, <1>10
<1>12. Taken(lib).held = {p \in (e + 1)..(n - 1) : p \notin s.lost /\ Position(s, p) < k}
  BY <1>1, <1>2, <1>4, <1>5, <1>11
<1>13. \A p \in lib.start..((e + 1) - 1) : Position(s, p) < k
  <2>1. \A p \in lib.start..((e + 1) - 1) : p = e \/ p \in lib.start..(e - 1)
    BY <1>4, <1>5
  <2>2. QED
    BY <1>5, <1>9, <1>11, <2>1
<1>14. lib.start \in 0..(e + 1)
  BY <1>5
<1> HIDE DEF Taken
<1>15. LibraryAt(s, Taken(lib), k, e + 1)
  BY <1>2, <1>3, <1>4, <1>11, <1>12, <1>13, <1>14 DEF LibraryAt, n
<1>16. QED
  BY <1>11, <1>15 DEF m, n

\* All data was decoded and the library has nothing to give.
LEMMA NoMore ==
    ASSUME ServiceAssumption, NEW s \in Setup, NEW lib \in LibraryType(s), ~HasPicture(lib),
           NEW g, NEW e \in Nat, LibraryAt(s, lib, Length(s), e), lib.drained \/ g = "FFMpeg"
    PROVE  Over(s, g, e)
<1> DEFINE n == Length(s)
<1>1. /\ n \in Nat /\ s.delay \in Nat
      /\ \A p \in 0..(n - 1) : Position(s, p) \in 0..(n - 1)
  BY StreamFacts, PositionFacts
<1>2. /\ Cut(s) \in 0..n /\ Cardinality(s.lost) = n - Cut(s)
      /\ \A p \in 0..(n - 1) : p \in s.lost <=> p >= Cut(s)
  BY CutFacts
<1>3. lib.delay = s.delay /\ e \in 0..n
  BY DEF LibraryAt
<1> SUFFICES ASSUME NEW p \in e..(n - 1), p \notin s.lost
    PROVE  g = "FFMpeg" /\ p >= n - Cardinality(s.lost) - s.delay
  BY DEF Over
<1> HIDE DEF n
<1>4. p \in 0..(n - 1) /\ p < Cut(s) /\ e < Cut(s)
  BY <1>1, <1>2, <1>3
<1>5. lib.start # NoPicture
  <2>1. SUFFICES ASSUME lib.start = NoPicture PROVE FALSE
    OBVIOUS
  <2>2. e < n /\ (n = Position(s, e) \/ e \in s.lost)
    BY <2>1 DEF LibraryAt, n
  <2>3. e \in 0..(n - 1)
    BY <1>1, <1>3, <2>2
  <2>4. QED
    BY <1>1, <1>2, <1>4, <2>2, <2>3
<1>6. lib.held = {q \in e..(n - 1) : q \notin s.lost /\ Position(s, q) < n}
  BY <1>5 DEF LibraryAt, n
<1>7. lib.held = e..(Cut(s) - 1)
  <2>1. ASSUME NEW q \in e..(n - 1)
        PROVE  q \notin s.lost /\ Position(s, q) < n <=> q < Cut(s)
    <3>1. q \in 0..(n - 1)
      BY <1>1, <1>3
    <3>2. Position(s, q) \in 0..(n - 1)
      BY <1>1, <3>1
    <3>3. QED
      BY <1>1, <1>2, <3>1, <3>2
  <2>2. lib.held = {q \in e..(n - 1) : q < Cut(s)}
    BY <1>6, <2>1
  <2>3. QED
    BY <1>1, <1>2, <1>3, <2>2
<1>8. Cardinality(lib.held) = Cut(s) - e
  <2>1. PICK a \in Int, b \in Int : a = e /\ b = Cut(s) - 1
    BY <1>1, <1>2, <1>3
  <2>2. Cardinality(a..b) = IF a > b THEN 0 ELSE b - a + 1
    BY FS_Interval
  <2>3. QED
    BY <1>2, <1>3, <1>4, <1>7, <2>1, <2>2
<1>9. p \in lib.held
  BY <1>1, <1>2, <1>4, <1>7
<1>10. ~lib.drained /\ Cut(s) - e <= s.delay
  BY <1>1, <1>2, <1>3, <1>8, <1>9 DEF HasPicture
<1>11. QED
  BY <1>1, <1>2, <1>3, <1>4, <1>10

-----------------------------------------------------------------------------
(* A decoder that is at its place stays there when data is pushed.         *)

\* What becomes of a decoder that was to get the unit `k' of the stream.
PushedAt(s, o, k, e) ==
    /\ DecoderAt(s, o, IF o.ok /\ k < Length(s) THEN k + 1 ELSE k, e)
    /\ k = Length(s) => o.ok \/ o.flushing
    /\ o.engine \in {"Libde265", "VVDec"} => o.ok
    /\ o.engine = "FFMpeg" /\ ~o.ok => o.state = "RetrieveFrames"

NextUnit(s, k) == IF k < Length(s) THEN UnitOf(s, k) ELSE EmptyData

\* A decoder that wants data.
Wants(s, d, k, e) ==
    /\ d.state = "NeedsMoreData"
    /\ k \in 0..Length(s) /\ e \in 0..Length(s)
    /\ LibraryAt(s, d.lib, IF d.lib.parsing = EmptyData THEN k ELSE k - 1, e)
    /\ ~d.waiting /\ ~d.ready
    /\ d.lib.parsing # EmptyData =>
        /\ d.engine \in {"HM", "VTM"} /\ ~d.lib.drained
        /\ k > 0 /\ d.lib.parsing = UnitOf(s, k - 1)
    /\ d.engine = "HM" => d.lib.held = {}
    /\ d.engine = "Dav1d" => d.header
    /\ d.flushing => k = Length(s) /\ d.engine = "Dav1d"
    /\ d.engine \in {"Libde265", "VVDec"} => ~d.lib.drained

\* A decoder at its place that needs more data has nothing taken out.
LEMMA WantsData ==
    ASSUME NEW s \in Setup, NEW d \in DecoderType(s), NEW k \in 0..Length(s), NEW e \in Nat,
           DecoderAt(s, d, k, e), d.state = "NeedsMoreData"
    PROVE  Wants(s, d, k, e)
<1>1. ~d.waiting /\ ~d.ready /\ ~Out(d)
  BY DEF DecoderAt, Out
<1>2. /\ LibraryAt(s, d.lib, IF d.lib.parsing = EmptyData THEN k ELSE k - 1, e)
      /\ d.lib.parsing # EmptyData =>
        /\ d.engine \in {"HM", "VTM"} /\ ~d.lib.drained
        /\ k > 0 /\ d.lib.parsing = UnitOf(s, k - 1)
      /\ d.engine = "HM" => d.lib.held = {}
      /\ d.engine = "Dav1d" => d.header
      /\ d.flushing => k = Length(s)
      /\ d.engine \in {"Libde265", "VVDec"} => d.flushing = d.lib.drained
      /\ d.engine \in {"Libde265", "VVDec", "FFMpeg"} => ~d.flushing
      /\ d.engine \in {"HM", "VTM"} => ~d.flushing
  BY <1>1 DEF DecoderAt
<1>3. d.engine \in {"Libde265", "HM", "VTM", "VVDec", "Dav1d", "FFMpeg"}
  BY DEF DecoderType, Engine
<1>4. e \in 0..Length(s)
  BY <1>2 DEF LibraryAt
<1> HIDE DEF LibraryAt
<1>5. QED
  BY <1>1, <1>2, <1>3, <1>4 DEF Wants

\* The library is fed the next unit, or told that there are no more.
LEMMA FedAt ==
    ASSUME ServiceAssumption, NEW s \in Setup, NEW lib \in LibraryType(s),
           NEW k \in 0..Length(s), NEW e \in Nat, LibraryAt(s, lib, k, e)
    PROVE  LET o == Fed(lib, NextUnit(s, k))
           IN  /\ o \in LibraryType(s) /\ o.parsing = lib.parsing /\ o.delay = lib.delay
               /\ o.drained = (lib.drained \/ k = Length(s))
               /\ LibraryAt(s, o, IF k < Length(s) THEN k + 1 ELSE k, e)
<1> DEFINE u == NextUnit(s, k)
           o == Fed(lib, u)
<1>1. Length(s) \in Nat
  BY StreamFacts
<1>2. u \in Material(s) /\ (u = EmptyData <=> k = Length(s))
  <2>1. CASE k = Length(s)
    BY <2>1, <1>1, UnitFacts DEF NextUnit
  <2>2. CASE k # Length(s)
    <3>1. k \in 0..(Length(s) - 1) /\ u = UnitOf(s, k)
      BY <1>1, <2>2 DEF NextUnit
    <3> HIDE DEF u
    <3>2. UnitOf(s, k) \in Material(s) /\ UnitOf(s, k).kind = "picture" /\ EmptyData.kind = "empty"
      BY <3>1, UnitFacts
    <3>3. QED
      BY <2>2, <3>1, <3>2
  <2>3. QED
    BY <2>1, <2>2
<1>3. /\ o \in LibraryType(s) /\ o.parsing = lib.parsing /\ o.delay = lib.delay
      /\ o.drained = (lib.drained \/ u = EmptyData)
  BY <1>2, FedType
<1>4. lib.drained \in BOOLEAN /\ (lib.drained => k = Length(s))
  BY DEF LibraryType, LibraryAt
<1>5. CASE k < Length(s)
  <2>1. k \in 0..(Length(s) - 1) /\ u = UnitOf(s, k) /\ u # EmptyData
    BY <1>1, <1>2, <1>5 DEF NextUnit
  <2>2. o = Decode(lib, UnitOf(s, k))
    BY <2>1 DEF Fed
  <2>3. LibraryAt(s, Decode(lib, UnitOf(s, k)), k + 1, e)
    BY <2>1, DecodeAt
  <2> HIDE DEF o, u
  <2>4. QED
    BY <1>1, <1>2, <1>3, <1>5, <2>2, <2>3 DEF o, u
<1>6. CASE k = Length(s)
  <2>1. o = [lib EXCEPT !.drained = TRUE]
    BY <1>2, <1>6 DEF Fed
  <2>2. o.start = lib.start /\ o.held = lib.held /\ o.delay = lib.delay
    BY <2>1 DEF LibraryType
  <2> HIDE DEF o
  <2>3. LibraryAt(s, o, k, e)
    BY <1>6, <2>2, AlikeAt
  <2>4. QED
    BY <1>1, <1>2, <1>3, <1>6, <2>3 DEF o, u
<1>7. QED
  BY <1>1, <1>5, <1>6

\* The unit at place k is the next for a library that was given k.
LEMMA NextUnitFacts ==
    ASSUME NEW s \in Setup, NEW k \in 0..Length(s)
    PROVE  /\ Length(s) \in Nat /\ Length(s) > 0
           /\ NextUnit(s, k) \in Material(s) /\ EmptyData # ParameterSet
           /\ NextUnit(s, k) = EmptyData <=> k = Length(s)
           /\ k # Length(s) => /\ k \in 0..(Length(s) - 1) /\ NextUnit(s, k) = UnitOf(s, k)
                               /\ NextUnit(s, k).kind = "picture"
<1>1. Length(s) \in Nat /\ Length(s) > 0
  BY StreamFacts
<1>2. EmptyData \in Material(s) /\ EmptyData.kind = "empty" /\ ParameterSet.kind = "parameters"
  BY UnitFacts
<1>3. CASE k = Length(s)
  BY <1>1, <1>2, <1>3 DEF NextUnit
<1>4. CASE k # Length(s)
  <2>1. k \in 0..(Length(s) - 1) /\ NextUnit(s, k) = UnitOf(s, k)
    BY <1>1, <1>4 DEF NextUnit
  <2>2. UnitOf(s, k) \in Material(s) /\ UnitOf(s, k).kind = "picture"
    BY <2>1, UnitFacts
  <2>3. QED
    BY <1>1, <1>2, <1>4, <2>1, <2>2
<1>5. QED
  BY <1>3, <1>4

\* decoderLibde265 stays at its place.
LEMMA Libde265PushAt ==
    ASSUME ServiceAssumption, NEW s \in Setup, NEW d \in DecoderType(s),
           NEW k \in 0..Length(s), NEW e \in Nat, Wants(s, d, k, e), d.engine = "Libde265"
    PROVE  PushedAt(s, pushData(d, NextUnit(s, k)), k, e)
<1> DEFINE n == Length(s)
           u == NextUnit(s, k)
           o == pushData(d, u)
           lib == Fed(d.lib, u)
           k2 == IF k < n THEN k + 1 ELSE k
<1>1. n \in Nat /\ u \in Material(s) /\ (u = EmptyData <=> k = n) /\ k2 \in 0..n /\ (k = n => k2 = n)
  BY NextUnitFacts
<1>2. /\ d.state = "NeedsMoreData" /\ ~d.flushing /\ ~d.waiting /\ ~d.ready /\ ~d.lib.drained
      /\ d.lib.parsing = EmptyData /\ LibraryAt(s, d.lib, k, e)
  BY <1>1 DEF Wants
<1>3. d.lib \in LibraryType(s) /\ d.flushing \in BOOLEAN /\ d.waiting \in BOOLEAN
  BY DEF DecoderType
<1>4. /\ lib \in LibraryType(s) /\ lib.parsing = d.lib.parsing /\ lib.delay = d.lib.delay
      /\ lib.drained = (d.lib.drained \/ k = n) /\ LibraryAt(s, lib, k2, e)
  BY <1>2, <1>3, FedAt
<1>5. o = Libde265_pushData(d, u)
  BY <1>2 DEF pushData
<1>6. LET z == Libde265_pushData(d, u)
          l == Fed(d.lib, u)
      IN  /\ z \in DecoderType(s) /\ z.engine = d.engine /\ z.header = d.header
          /\ z.ready = d.ready /\ z.ok /\ z.flushing = (u = EmptyData)
          /\ IF HasPicture(l)
             THEN /\ z.lib = Taken(l) /\ z.shown = Min(l.held) /\ z.buffer = NoPicture
                  /\ z.waiting /\ z.state = "RetrieveFrames"
             ELSE /\ z.lib = l /\ z.waiting = d.waiting
                  /\ z.state = IF l.drained THEN "EndOfBitstream" ELSE "NeedsMoreData"
  BY <1>1, <1>2, Libde265Push
<1> HIDE DEF o, lib, k2, u, n
<1>7. /\ o.engine = "Libde265" /\ ~o.ready /\ o.ok /\ o.flushing = (k = n)
      /\ IF HasPicture(lib)
         THEN /\ o.lib = Taken(lib) /\ o.shown = Min(lib.held) /\ o.buffer = NoPicture
              /\ o.waiting /\ o.state = "RetrieveFrames"
         ELSE /\ o.lib = lib /\ ~o.waiting
              /\ o.state = IF lib.drained THEN "EndOfBitstream" ELSE "NeedsMoreData"
  BY <1>1, <1>2, <1>5, <1>6 DEF lib
<1>8. lib.drained = (k = n)
  BY <1>2, <1>4
<1>9. CASE HasPicture(lib)
  <2>1. Min(lib.held) = e /\ LibraryAt(s, Taken(lib), k2, e + 1)
    BY <1>1, <1>4, <1>9, TakeAt DEF n
  <2>2. Taken(lib).parsing = EmptyData /\ Taken(lib).drained = lib.drained
    BY <1>2, <1>4, <1>9, TakenType
  <2>3. DecoderAt(s, o, k2, e)
    BY <1>1, <1>7, <1>8, <1>9, <2>1, <2>2 DEF DecoderAt, Out, n
  <2>4. QED
    BY <1>7, <2>3 DEF PushedAt, k2, o, u, n
<1>10. CASE ~HasPicture(lib)
  <2>1. k = n => Over(s, "Libde265", e)
    BY <1>1, <1>4, <1>8, <1>10, NoMore DEF n
  <2>2. lib.parsing = EmptyData
    BY <1>2, <1>4
  <2>3. DecoderAt(s, o, k2, e)
    BY <1>1, <1>4, <1>7, <1>8, <1>10, <2>1, <2>2 DEF DecoderAt, Out, n
  <2>4. QED
    BY <1>7, <2>3 DEF PushedAt, k2, o, u, n
<1>11. QED
  BY <1>9, <1>10

\* decoderVVDec stays at its place.
LEMMA VVDecPushAt ==
    ASSUME ServiceAssumption, NEW s \in Setup, NEW d \in DecoderType(s),
           NEW k \in 0..Length(s), NEW e \in Nat, Wants(s, d, k, e), d.engine = "VVDec"
    PROVE  PushedAt(s, pushData(d, NextUnit(s, k)), k, e)
<1> DEFINE n == Length(s)
           u == NextUnit(s, k)
           o == pushData(d, u)
           lib == Fed(d.lib, u)
           k2 == IF k < n THEN k + 1 ELSE k
<1>1. n \in Nat /\ u \in Material(s) /\ (u = EmptyData <=> k = n) /\ k2 \in 0..n /\ (k = n => k2 = n)
  BY NextUnitFacts
<1>2. /\ d.state = "NeedsMoreData" /\ ~d.flushing /\ ~d.waiting /\ ~d.ready /\ ~d.lib.drained
      /\ d.lib.parsing = EmptyData /\ LibraryAt(s, d.lib, k, e)
  BY <1>1 DEF Wants
<1>3. d.lib \in LibraryType(s) /\ d.flushing \in BOOLEAN /\ d.waiting \in BOOLEAN
  BY DEF DecoderType
<1>4. /\ lib \in LibraryType(s) /\ lib.parsing = d.lib.parsing /\ lib.delay = d.lib.delay
      /\ lib.drained = (d.lib.drained \/ k = n) /\ LibraryAt(s, lib, k2, e)
  BY <1>2, <1>3, FedAt
<1>5. o = VVDec_pushData(d, u)
  BY <1>2 DEF pushData
<1>6. LET z == VVDec_pushData(d, u)
          l == Fed(d.lib, u)
      IN  /\ z \in DecoderType(s) /\ z.engine = d.engine /\ z.header = d.header
          /\ z.ready = d.ready /\ z.waiting = d.waiting /\ z.ok
          /\ z.flushing = (u = EmptyData)
          /\ u = EmptyData => z.lib = l /\ z.state = "RetrieveFrames"
          /\ u # EmptyData =>
               IF HasPicture(l)
               THEN /\ z.lib = Taken(l) /\ z.shown = Min(l.held) /\ z.buffer = NoPicture
                    /\ z.state = "RetrieveFrames"
               ELSE z.lib = l /\ z.state = d.state
  BY <1>1, <1>2, VVDecPush
<1> HIDE DEF o, lib, k2, u, n
<1>7. /\ o.engine = "VVDec" /\ ~o.ready /\ ~o.waiting /\ o.ok /\ o.flushing = (k = n)
      /\ k = n => o.lib = lib /\ o.state = "RetrieveFrames"
      /\ k # n =>
           IF HasPicture(lib)
           THEN /\ o.lib = Taken(lib) /\ o.shown = Min(lib.held) /\ o.buffer = NoPicture
                /\ o.state = "RetrieveFrames"
           ELSE o.lib = lib /\ o.state = "NeedsMoreData"
  BY <1>1, <1>2, <1>5, <1>6 DEF lib
<1>8. lib.drained = (k = n) /\ lib.parsing = EmptyData
  BY <1>2, <1>4
<1>9. CASE k # n /\ HasPicture(lib)
  <2>1. Min(lib.held) = e /\ LibraryAt(s, Taken(lib), k2, e + 1)
    BY <1>1, <1>4, <1>9, TakeAt DEF n
  <2>2. Taken(lib).parsing = EmptyData /\ Taken(lib).drained = lib.drained
    BY <1>4, <1>8, <1>9, TakenType
  <2>3. DecoderAt(s, o, k2, e)
    BY <1>1, <1>7, <1>8, <1>9, <2>1, <2>2 DEF DecoderAt, Out, n
  <2>4. QED
    BY <1>7, <2>3 DEF PushedAt, k2, o, u, n
<1>10. CASE k = n \/ ~HasPicture(lib)
  <2>1. DecoderAt(s, o, k2, e)
    BY <1>1, <1>4, <1>7, <1>8, <1>10 DEF DecoderAt, Out, n
  <2>2. QED
    BY <1>7, <2>1 DEF PushedAt, k2, o, u, n
<1>11. QED
  BY <1>9, <1>10

\* decoderDav1d stays at its place.
LEMMA Dav1dPushAt ==
    ASSUME ServiceAssumption, NEW s \in Setup, NEW d \in DecoderType(s),
           NEW k \in 0..Length(s), NEW e \in Nat, Wants(s, d, k, e), d.engine = "Dav1d", ~d.flushing
    PROVE  PushedAt(s, pushData(d, NextUnit(s, k)), k, e)
<1> DEFINE n == Length(s)
           u == NextUnit(s, k)
           o == pushData(d, u)
           lib == IF u = EmptyData THEN d.lib ELSE Decode(d.lib, u)
           k2 == IF k < n THEN k + 1 ELSE k
<1>1. /\ n \in Nat /\ u \in Material(s) /\ (u = EmptyData <=> k = n) /\ k2 \in 0..n /\ (k = n => k2 = n)
      /\ (k # n => k \in 0..(n - 1) /\ u = UnitOf(s, k) /\ k2 = k + 1)
  BY NextUnitFacts
<1>2. /\ d.state = "NeedsMoreData" /\ ~d.waiting /\ ~d.ready /\ d.header
      /\ d.lib.parsing = EmptyData /\ LibraryAt(s, d.lib, k, e)
  BY <1>1 DEF Wants
<1>3. d.lib \in LibraryType(s) /\ d.waiting \in BOOLEAN
  BY DEF DecoderType
<1>4. /\ lib \in LibraryType(s) /\ lib.parsing = EmptyData
      /\ lib.drained => k2 = n
      /\ LibraryAt(s, lib, k2, e)
  <2>1. CASE k = n
    BY <1>1, <1>2, <1>3, <2>1
  <2>2. CASE k # n
    <3>1. LibraryAt(s, Decode(d.lib, UnitOf(s, k)), k + 1, e)
      BY <1>1, <1>2, <1>3, <2>2, DecodeAt
    <3>2. /\ Decode(d.lib, u) \in LibraryType(s) /\ Decode(d.lib, u).parsing = d.lib.parsing
          /\ Decode(d.lib, u).drained = d.lib.drained
      BY <1>1, <1>3, DecodeType
    <3>3. lib = Decode(d.lib, UnitOf(s, k)) /\ k2 = k + 1 /\ lib = Decode(d.lib, u)
      BY <1>1, <2>2
    <3>4. ~d.lib.drained
      BY <1>1, <1>2, <2>2 DEF LibraryAt
    <3> HIDE DEF lib, k2, u
    <3>5. QED
      BY <1>2, <3>1, <3>2, <3>3, <3>4
  <2>3. QED
    BY <2>1, <2>2
<1>5. o = Dav1d_pushData(d, u)
  BY <1>2 DEF pushData
<1>6. LET z == Dav1d_pushData(d, u)
          l == IF u = EmptyData THEN d.lib ELSE Decode(d.lib, u)
      IN  /\ z \in DecoderType(s) /\ z.engine = d.engine /\ z.header /\ z.ready = d.ready
          /\ z.ok /\ z.flushing = (u = EmptyData)
          /\ IF HasPicture(l)
             THEN /\ z.lib = Taken(l) /\ z.shown = Min(l.held) /\ z.buffer = NoPicture
                  /\ z.waiting /\ z.state = "RetrieveFrames"
             ELSE z.lib = l /\ z.waiting = d.waiting /\ z.state = "NeedsMoreData"
  BY <1>1, <1>2, Dav1dPush
<1> HIDE DEF o, lib, k2, u, n
<1>7. /\ o.engine = "Dav1d" /\ ~o.ready /\ o.ok /\ o.flushing = (k = n) /\ o.header
      /\ IF HasPicture(lib)
         THEN /\ o.lib = Taken(lib) /\ o.shown = Min(lib.held) /\ o.buffer = NoPicture
              /\ o.waiting /\ o.state = "RetrieveFrames"
         ELSE o.lib = lib /\ ~o.waiting /\ o.state = "NeedsMoreData"
  BY <1>1, <1>2, <1>5, <1>6 DEF lib
<1>8. CASE HasPicture(lib)
  <2>1. Min(lib.held) = e /\ LibraryAt(s, Taken(lib), k2, e + 1)
    BY <1>1, <1>4, <1>8, TakeAt DEF n
  <2>2. Taken(lib).parsing = EmptyData
    BY <1>4, <1>8, TakenType
  <2>3. DecoderAt(s, o, k2, e)
    BY <1>1, <1>7, <1>8, <2>1, <2>2 DEF DecoderAt, Out, n
  <2>4. QED
    BY <1>7, <2>3 DEF PushedAt, k2, o, u, n
<1>9. CASE ~HasPicture(lib)
  <2>1. DecoderAt(s, o, k2, e)
    BY <1>1, <1>4, <1>7, <1>9 DEF DecoderAt, Out, n
  <2>2. QED
    BY <1>7, <2>1 DEF PushedAt, k2, o, u, n
<1>10. QED
  BY <1>8, <1>9

\* decoderFFmpeg stays at its place.
LEMMA FFMpegPushAt ==
    ASSUME ServiceAssumption, NEW s \in Setup, NEW d \in DecoderType(s),
           NEW k \in 0..Length(s), NEW e \in Nat, Wants(s, d, k, e), d.engine = "FFMpeg"
    PROVE  PushedAt(s, pushData(d, NextUnit(s, k)), k, e)
<1> DEFINE n == Length(s)
           u == NextUnit(s, k)
           o == pushData(d, u)
           lib == Decode(d.lib, u)
           k2 == IF o.ok /\ k < n THEN k + 1 ELSE k
<1>1. /\ n \in Nat /\ u \in Material(s) /\ (u = EmptyData <=> k = n)
      /\ (k # n => k \in 0..(n - 1) /\ u = UnitOf(s, k))
  BY NextUnitFacts
<1>2. /\ d.state = "NeedsMoreData" /\ ~d.flushing /\ ~d.waiting /\ ~d.ready
      /\ d.lib.parsing = EmptyData /\ LibraryAt(s, d.lib, k, e)
  BY <1>1 DEF Wants
<1>3. d.lib \in LibraryType(s) /\ d.waiting \in BOOLEAN /\ d.flushing \in BOOLEAN
  BY DEF DecoderType
<1>4. k # n => LibraryAt(s, lib, k + 1, e) /\ lib.parsing = EmptyData
  <2>1. SUFFICES ASSUME k # n
        PROVE  LibraryAt(s, lib, k + 1, e) /\ lib.parsing = EmptyData
    OBVIOUS
  <2>2. LibraryAt(s, Decode(d.lib, UnitOf(s, k)), k + 1, e)
    BY <1>1, <1>2, <1>3, <2>1, DecodeAt
  <2>3. Decode(d.lib, u).parsing = d.lib.parsing
    BY <1>1, <1>3, DecodeType
  <2> HIDE DEF u
  <2>4. QED
    BY <1>1, <1>2, <2>1, <2>2, <2>3
<1>5. o = FFMpeg_pushData(d, u)
  BY <1>2 DEF pushData
<1>6. LET z == FFMpeg_pushData(d, u)
      IN  /\ z \in DecoderType(s) /\ Same(z, d)
          /\ z.flushing = (d.flushing \/ u = EmptyData)
          /\ u = EmptyData => ~z.ok /\ z.lib = d.lib /\ z.state = "RetrieveFrames"
          /\ u # EmptyData /\ d.flushing => ~z.ok /\ z.lib = d.lib /\ z.state = d.state
          /\ u # EmptyData /\ ~d.flushing =>
               IF HasPicture(d.lib)
               THEN ~z.ok /\ z.lib = d.lib /\ z.state = "RetrieveFrames"
               ELSE z.ok /\ z.lib = Decode(d.lib, u) /\ z.state = d.state
  BY <1>1, FFMpegPush
<1> HIDE DEF o, lib, u, n
<1>7. /\ o.engine = "FFMpeg" /\ ~o.ready /\ ~o.waiting /\ o.flushing = (k = n)
      /\ \/ ~o.ok /\ o.lib = d.lib /\ o.state = "RetrieveFrames"
         \/ k # n /\ o.ok /\ o.lib = lib /\ o.state = "NeedsMoreData"
  BY <1>1, <1>2, <1>5, <1>6 DEF lib, Same
<1>8. CASE ~o.ok /\ o.lib = d.lib /\ o.state = "RetrieveFrames"
  <2>1. DecoderAt(s, o, k, e)
    BY <1>1, <1>2, <1>7, <1>8 DEF DecoderAt, Out, n
  <2>2. QED
    BY <1>7, <1>8, <2>1 DEF PushedAt, o, u, n
<1>9. CASE k # n /\ o.ok /\ o.lib = lib /\ o.state = "NeedsMoreData"
  <2>1. DecoderAt(s, o, k + 1, e)
    BY <1>1, <1>4, <1>7, <1>9 DEF DecoderAt, Out, n
  <2>2. k < n
    BY <1>1, <1>9 DEF n
  <2>3. QED
    BY <1>7, <1>9, <2>1, <2>2 DEF PushedAt, o, u, n
<1>10. QED
  BY <1>7, <1>8, <1>9

\* HM and VTM read the unit `k', or finish the one before it.
LEMMA ParsedAt ==
    ASSUME ServiceAssumption, NEW s \in Setup, NEW d \in DecoderType(s),
           NEW k \in 0..Length(s), NEW e \in Nat, Wants(s, d, k, e)
    PROVE  LET u == NextUnit(s, k)
               lib == Parsed(d, u)
           IN  /\ lib \in LibraryType(s)
               /\ Completes(d, u) => lib.parsing = EmptyData /\ LibraryAt(s, lib, k, e)
               /\ ~Completes(d, u) =>
                    /\ k < Length(s) /\ lib.parsing = UnitOf(s, k) /\ lib.parsing # EmptyData
                    /\ ~lib.drained /\ lib.held = d.lib.held /\ LibraryAt(s, lib, k, e)
               /\ lib.held \subseteq d.lib.held \cup {d.lib.parsing.poc}
<1> DEFINE n == Length(s)
           u == NextUnit(s, k)
           lib == Parsed(d, u)
           done == Decode(d.lib, d.lib.parsing)
<1>1. /\ n \in Nat /\ u \in Material(s) \cup {ParameterSet} /\ (u = EmptyData <=> k = n)
      /\ (k # n => k \in 0..(n - 1) /\ u = UnitOf(s, k) /\ u.kind = "picture" /\ k < n)
  BY NextUnitFacts
<1>2. /\ LibraryAt(s, d.lib, IF d.lib.parsing = EmptyData THEN k ELSE k - 1, e)
      /\ d.lib.parsing # EmptyData =>
            ~d.lib.drained /\ k > 0 /\ d.lib.parsing = UnitOf(s, k - 1)
  BY <1>1 DEF Wants
<1>3. /\ d.lib \in LibraryType(s) /\ d.lib.parsing \in Material(s) \cup {ParameterSet}
      /\ EmptyData.kind = "empty"
  BY UnitFacts DEF DecoderType, LibraryType
<1>4. /\ lib \in LibraryType(s) /\ lib.delay = d.lib.delay
      /\ Completes(d, u) =>
            /\ lib.parsing = EmptyData /\ lib.drained = (d.lib.drained \/ u = EmptyData)
            /\ lib.held = done.held /\ lib.start = done.start
      /\ ~Completes(d, u) =>
            /\ lib.parsing = IF u.kind = "picture" THEN u ELSE d.lib.parsing
            /\ lib.held = d.lib.held /\ lib.start = d.lib.start
            /\ lib.drained = d.lib.drained
  <2> HIDE DEF u
  <2>1. LET l == Parsed(d, u)
            z == Decode(d.lib, d.lib.parsing)
        IN  /\ l \in LibraryType(s) /\ l.delay = d.lib.delay
            /\ Completes(d, u) =>
                 /\ l.parsing = EmptyData /\ l.drained = (d.lib.drained \/ u = EmptyData)
                 /\ l.held = z.held /\ l.start = z.start
            /\ ~Completes(d, u) =>
                 /\ l.parsing = IF u.kind = "picture" THEN u ELSE d.lib.parsing
                 /\ l.held = d.lib.held /\ l.start = d.lib.start
                 /\ l.drained = d.lib.drained
    BY <1>1, ParsedType
  <2>2. QED
    BY <2>1
<1>5. /\ done.held \subseteq d.lib.held \cup {d.lib.parsing.poc}
      /\ d.lib.parsing = EmptyData => done = d.lib
  BY <1>3, DecodeType
<1>6. LibraryAt(s, done, k, e) /\ done.drained = d.lib.drained /\ done.delay = d.lib.delay
  <2>1. done.drained = d.lib.drained /\ done.delay = d.lib.delay
    BY <1>3, DecodeType
  <2>2. CASE d.lib.parsing = EmptyData
    BY <1>2, <1>5, <2>1, <2>2
  <2>3. CASE d.lib.parsing # EmptyData
    <3>1. /\ k - 1 \in 0..(n - 1) /\ d.lib.parsing = UnitOf(s, k - 1)
          /\ LibraryAt(s, d.lib, k - 1, e) /\ (k - 1) + 1 = k
      BY <1>1, <1>2, <2>3
    <3>2. LibraryAt(s, Decode(d.lib, UnitOf(s, k - 1)), (k - 1) + 1, e)
      BY <1>3, <3>1, DecodeAt
    <3> HIDE DEF done
    <3>3. QED
      BY <2>1, <3>1, <3>2 DEF done
  <2>4. QED
    BY <2>2, <2>3
<1>7. d.lib.drained \in BOOLEAN /\ (d.lib.drained => k = n)
  <2>1. d.lib.drained \in BOOLEAN
    BY <1>3 DEF LibraryType
  <2>2. QED
    BY <1>2, <2>1 DEF LibraryAt
<1> HIDE DEF u, lib, done, n
<1>8. ASSUME Completes(d, u) PROVE lib.parsing = EmptyData /\ LibraryAt(s, lib, k, e)
  <2>1. lib.drained => k = Length(s)
    BY <1>1, <1>4, <1>7, <1>8 DEF n
  <2>2. lib.start = done.start /\ lib.held = done.held /\ lib.delay = done.delay /\ lib.parsing = EmptyData
    BY <1>4, <1>6, <1>8
  <2>3. QED
    BY <1>6, <2>1, <2>2, AlikeAt
<1>9. ASSUME ~Completes(d, u)
      PROVE  /\ k < n /\ lib.parsing = UnitOf(s, k) /\ lib.parsing # EmptyData
             /\ ~lib.drained /\ lib.held = d.lib.held /\ LibraryAt(s, lib, k, e)
  <2>1. u # EmptyData /\ k < n /\ u = UnitOf(s, k) /\ u.kind = "picture" /\ k # n
    BY <1>1, <1>9 DEF Completes
  <2>2. d.lib.parsing = EmptyData
    BY <1>9, <2>1 DEF Completes
  <2>3. lib.parsing = u /\ lib.held = d.lib.held /\ lib.start = d.lib.start /\ lib.drained = d.lib.drained
    BY <1>4, <1>9, <2>1
  <2>4. LibraryAt(s, d.lib, k, e) /\ ~d.lib.drained
    BY <1>2, <1>7, <2>1, <2>2
  <2>5. LibraryAt(s, lib, k, e)
    BY <1>4, <2>3, <2>4, AlikeAt
  <2>6. QED
    BY <2>1, <2>3, <2>4, <2>5
<1>10. lib.held \subseteq d.lib.held \cup {d.lib.parsing.poc}
  <2>1. CASE Completes(d, u)
    BY <1>4, <1>5, <2>1
  <2>2. CASE ~Completes(d, u)
    BY <1>9, <2>2
  <2>3. QED
    BY <2>1, <2>2
<1>11. QED
  BY <1>4, <1>8, <1>9, <1>10 DEF u, lib, n

\* A library without delay keeps nothing.
LEMMA NothingHeld ==
    ASSUME NEW s \in Setup, NEW lib \in LibraryType(s), s.delay = 0, NEW p, lib.held \subseteq {p}
    PROVE  /\ ~HasPicture(lib) => lib.held = {}
           /\ HasPicture(lib) => Taken(lib).held = {}
<1>1. lib.delay = 0
  BY DEF LibraryType
<1>2. ASSUME ~HasPicture(lib) PROVE lib.held = {}
  <2>1. lib.held # {} => lib.held = {p}
    OBVIOUS
  <2>2. Cardinality({p}) = 1
    BY FS_Singleton
  <2>3. QED
    BY <1>1, <1>2, <2>1, <2>2 DEF HasPicture
<1>3. ASSUME HasPicture(lib) PROVE Taken(lib).held = {}
  <2>1. Min(lib.held) \in lib.held /\ Taken(lib).held = lib.held \ {Min(lib.held)}
    BY <1>3, TakenType
  <2>2. QED
    BY <2>1
<1>4. QED
  BY <1>2, <1>3

\* decoderHM and decoderVTM stay at their place.
LEMMA HMPushAt ==
    ASSUME ServiceAssumption, NEW s \in Setup, NEW d \in DecoderType(s),
           NEW k \in 0..Length(s), NEW e \in Nat, Wants(s, d, k, e), d.engine \in {"HM", "VTM"},
           d.engine \in s.engines
    PROVE  PushedAt(s, pushData(d, NextUnit(s, k)), k, e)
<1> DEFINE n == Length(s)
           u == NextUnit(s, k)
           o == pushData(d, u)
           lib == Parsed(d, u)
           full == Completes(d, u)
<1>1. n \in Nat /\ u \in Material(s) \cup {ParameterSet} /\ (u = EmptyData <=> k = n)
  BY NextUnitFacts
<1>2. /\ d.state = "NeedsMoreData" /\ ~d.flushing /\ ~d.waiting /\ ~d.ready
      /\ d.engine = "HM" => d.lib.held = {}
  BY <1>1 DEF Wants
<1>3. d.flushing \in BOOLEAN /\ d.waiting \in BOOLEAN /\ d.ready \in BOOLEAN
  BY DEF DecoderType
<1>4. /\ lib \in LibraryType(s)
      /\ full => lib.parsing = EmptyData /\ LibraryAt(s, lib, k, e)
      /\ ~full =>
           /\ k < n /\ lib.parsing = UnitOf(s, k) /\ lib.parsing # EmptyData
           /\ ~lib.drained /\ lib.held = d.lib.held /\ LibraryAt(s, lib, k, e)
      /\ lib.held \subseteq d.lib.held \cup {d.lib.parsing.poc}
  BY ParsedAt
<1>5. o = HM_pushData(d, u)
  BY <1>2 DEF pushData
<1>6. LET z == HM_pushData(d, u)
          l == Parsed(d, u)
      IN  /\ z \in DecoderType(s) /\ z.engine = d.engine /\ z.header = d.header
          /\ z.ready = d.ready /\ z.flushing = d.flushing
          /\ z.ok = (u = EmptyData \/ ~Completes(d, u))
          /\ IF Completes(d, u) /\ HasPicture(l)
             THEN /\ z.lib = Taken(l) /\ z.shown = Min(l.held) /\ z.buffer = NoPicture
                  /\ z.waiting /\ z.state = "RetrieveFrames"
             ELSE /\ z.lib = l /\ z.waiting = d.waiting
                  /\ z.state = IF Completes(d, u) THEN "NeedsMoreData" ELSE d.state
  <2> HIDE DEF u
  <2>1. QED
    BY <1>1, HMPush
<1>7. d.engine = "HM" => s.delay = 0 /\ lib.held \subseteq {d.lib.parsing.poc}
  BY <1>2, <1>4 DEF ServiceAssumption, Countable
<1>8. d.engine = "HM" =>
        /\ ~HasPicture(lib) => lib.held = {}
        /\ HasPicture(lib) => Taken(lib).held = {}
  <2> HIDE DEF lib
  <2>1. QED
    BY <1>4, <1>7, NothingHeld
<1> HIDE DEF o, lib, u, n, full
<1>9. /\ o.engine = d.engine /\ ~o.ready /\ ~o.flushing /\ o.ok = (k = n \/ ~full)
      /\ IF full /\ HasPicture(lib)
         THEN /\ o.lib = Taken(lib) /\ o.shown = Min(lib.held) /\ o.buffer = NoPicture
              /\ o.waiting /\ o.state = "RetrieveFrames"
         ELSE o.lib = lib /\ ~o.waiting /\ o.state = "NeedsMoreData"
  BY <1>1, <1>2, <1>3, <1>5, <1>6 DEF lib, full
<1>10. CASE full /\ HasPicture(lib)
  <2>1. Min(lib.held) = e /\ LibraryAt(s, Taken(lib), k, e + 1)
    BY <1>1, <1>4, <1>10, TakeAt DEF n
  <2>2. Taken(lib).parsing = EmptyData
    BY <1>4, <1>10, TakenType
  <2>3. DecoderAt(s, o, k, e)
    BY <1>1, <1>8, <1>9, <1>10, <2>1, <2>2 DEF DecoderAt, Out, n
  <2>4. o.ok => k = n
    BY <1>9, <1>10
  <2>5. k = n => o.ok
    BY <1>9
  <2>6. QED
    BY <1>1, <1>9, <2>3, <2>4, <2>5 DEF PushedAt, o, u, n
<1>11. CASE full /\ ~HasPicture(lib)
  <2>1. DecoderAt(s, o, k, e)
    BY <1>1, <1>4, <1>8, <1>9, <1>11 DEF DecoderAt, Out, n
  <2>2. o.ok => k = n
    BY <1>9, <1>11
  <2>3. k = n => o.ok
    BY <1>9
  <2>4. QED
    BY <1>1, <1>9, <2>1, <2>2, <2>3 DEF PushedAt, o, u, n
<1>12. CASE ~full
  <2>0. k \in Nat
    BY <1>1 DEF n
  <2>1. (k + 1) - 1 = k /\ k + 1 > 0 /\ k + 1 \in Nat
    BY <2>0
  <2>2. o.lib = lib /\ ~o.waiting /\ o.state = "NeedsMoreData" /\ o.ok /\ k < n
    BY <1>4, <1>9, <1>12
  <2>3. d.engine = "HM" => lib.held = {}
    BY <1>2, <1>4, <1>12
  <2>4. DecoderAt(s, o, k + 1, e)
    BY <1>1, <1>4, <1>9, <1>12, <2>1, <2>2, <2>3 DEF DecoderAt, Out, n
  <2>5. QED
    BY <1>1, <1>9, <2>0, <2>1, <2>2, <2>4 DEF PushedAt, o, u, n
<1>13. QED
  BY <1>10, <1>11, <1>12

\* Data is pushed: a decoder that had taken the first `k' units and was to give
\* the picture `e' next is at its place again. A decoder of dav1d that was told
\* of the end refuses whatever it gets.
LEMMA PushAt ==
    ASSUME ServiceAssumption, NEW s \in Setup, NEW d \in DecoderType(s), d.engine \in s.engines,
           NEW k \in 0..Length(s), NEW e \in Nat, DecoderAt(s, d, k, e), d.state = "NeedsMoreData",
           NEW u, u = NextUnit(s, k) \/ d.flushing
    PROVE  PushedAt(s, pushData(d, u), k, e)
<1>1. Wants(s, d, k, e)
  BY WantsData
<1>2. d.engine \in {"Libde265", "HM", "VTM", "VVDec", "Dav1d", "FFMpeg"}
  BY DEF DecoderType, Engine
<1>3. CASE d.flushing
  <2>1. d.engine = "Dav1d" /\ k = Length(s)
    BY <1>1, <1>3 DEF Wants
  <2>2. pushData(d, u) = Refused(d)
    BY <1>3, <2>1 DEF pushData, Dav1d_pushData
  <2>3. /\ Refused(d).engine = d.engine /\ Refused(d).ready = d.ready
        /\ Refused(d).flushing = d.flushing /\ Refused(d).header = d.header
        /\ Refused(d).waiting = d.waiting
        /\ Refused(d).lib = d.lib /\ Refused(d).state = d.state /\ ~Refused(d).ok
        /\ Refused(d).shown = d.shown /\ Refused(d).buffer = d.buffer
    BY RefusedType DEF Alike
  <2> DEFINE o == Refused(d)
  <2> HIDE DEF o
  <2>4. DecoderAt(s, o, k, e)
    BY <2>3 DEF DecoderAt, Out, o
  <2>5. ~o.ok /\ o.flushing /\ o.engine = "Dav1d"
    BY <1>3, <2>1, <2>3 DEF o
  <2>6. QED
    BY <2>2, <2>4, <2>5 DEF PushedAt, o
<1>4. CASE ~d.flushing
  BY <1>1, <1>2, <1>4, Libde265PushAt, VVDecPushAt, Dav1dPushAt, FFMpegPushAt, HMPushAt
<1>5. QED
  BY <1>3, <1>4

\* A decoder that was reset for a seek to a random access picture.
LEMMA PrimedAt ==
    ASSUME NEW s \in Setup, NEW d \in DecoderType(s), NEW e \in 0..(Length(s) - 1), e \in s.random,
           Primed(d).state # "Error"
    PROVE  DecoderAt(s, Primed(d), Position(s, e), e) /\ ~Primed(d).flushing
<1> DEFINE o == Primed(d)
<1>1. d.lib.delay = s.delay
  BY DEF DecoderType, LibraryType
<1>2. /\ o \in DecoderType(s) /\ o.engine = d.engine
      /\ o.engine = "Dav1d" => o.header
      /\ o.state = "NeedsMoreData" /\ Empty(o.lib, d.lib.delay)
      /\ ~o.waiting /\ ~o.ready /\ ~o.flushing
  BY PrimedType
<1> HIDE DEF o
<1>3. LibraryAt(s, o.lib, Position(s, e), e)
  BY <1>1, <1>2, EmptyAt
<1>4. o.lib.parsing = EmptyData /\ ~o.lib.drained /\ o.lib.held = {}
  BY <1>2 DEF Empty
<1>5. o.flushing \in BOOLEAN /\ o.lib.drained \in BOOLEAN
  BY <1>2 DEF DecoderType, LibraryType
<1>6. DecoderAt(s, o, Position(s, e), e)
  BY <1>2, <1>3, <1>4, <1>5 DEF DecoderAt, Out
<1>7. QED
  BY <1>2, <1>6 DEF o

-----------------------------------------------------------------------------
(* A decoder that is at its place stays there when a picture is asked for. *)

\* What becomes of a decoder that was to give the picture `e'.
TakenAt(s, o, d, k, e) ==
    /\ o.flushing = d.flushing
    /\ o.ok => /\ o.state = "RetrieveFrames" /\ o.shown = e /\ o.buffer = NoPicture
               /\ DecoderAt(s, o, k, e + 1)
    /\ ~o.ok => DecoderAt(s, o, k, e)

\* decoderVVDec: the picture that is found is the next one.
LEMMA VVDecNextAt ==
    ASSUME ServiceAssumption, NEW s \in Setup, NEW d \in DecoderType(s), d.engine = "VVDec",
           NEW k \in 0..Length(s), NEW e \in Nat, DecoderAt(s, d, k, e), d.state = "RetrieveFrames"
    PROVE  TakenAt(s, decodeNextFrame(d), d, k, e)
<1> DEFINE o == decodeNextFrame(d)
<1>1. d.lib \in LibraryType(s) /\ d.flushing \in BOOLEAN /\ d.ready \in BOOLEAN
  BY DEF DecoderType
<1>2. o = VVDec_decodeNextFrame(d)
  BY DEF decodeNextFrame
<1>3. LET z == VVDec_decodeNextFrame(d)
      IN  /\ z \in DecoderType(s) /\ z.engine = d.engine /\ z.header = d.header
          /\ z.flushing = d.flushing /\ z.waiting = d.waiting
          /\ d.flushing =>
               /\ z.ready = d.ready
               /\ IF HasPicture(d.lib) THEN Gives(z, d) /\ z.state = d.state
                  ELSE Lacks(z, d) /\ z.state = "EndOfBitstream"
          /\ ~d.flushing =>
               /\ z.lib = d.lib /\ z.shown = d.shown /\ z.buffer = d.buffer
               /\ z.ready = ~d.ready /\ z.ok = ~d.ready
               /\ z.state = IF d.ready THEN "NeedsMoreData" ELSE d.state
  BY VVDecNext
<1>4. /\ LibraryAt(s, d.lib, k, IF Out(d) THEN e + 1 ELSE e)
      /\ Out(d) => d.shown = e /\ d.buffer = NoPicture
      /\ ~d.waiting /\ d.lib.parsing = EmptyData
      /\ d.flushing => k = Length(s)
      /\ d.flushing = d.lib.drained
  BY DEF DecoderAt
<1>5. Out(d) <=> ~d.flushing /\ ~d.ready
  BY <1>4 DEF Out
<1> HIDE DEF o
<1>6. o.engine = "VVDec" /\ o.flushing = d.flushing /\ ~o.waiting
  BY <1>2, <1>3, <1>4
<1>7. CASE d.flushing /\ HasPicture(d.lib)
  <2>1. o.lib = Taken(d.lib) /\ o.shown = Min(d.lib.held) /\ o.buffer = NoPicture /\ o.ok
        /\ o.state = "RetrieveFrames"
    BY <1>2, <1>3, <1>7 DEF Gives
  <2>2. Min(d.lib.held) = e /\ LibraryAt(s, Taken(d.lib), k, e + 1)
    BY <1>1, <1>4, <1>5, <1>7, TakeAt, StreamFacts
  <2>3. Taken(d.lib).parsing = EmptyData /\ Taken(d.lib).drained = d.lib.drained
    BY <1>1, <1>4, <1>7, TakenType
  <2>4. DecoderAt(s, o, k, e + 1)
    BY <1>4, <1>6, <1>7, <2>1, <2>2, <2>3 DEF DecoderAt, Out
  <2>5. QED
    BY <1>6, <2>1, <2>2, <2>4 DEF TakenAt, o
<1>8. CASE d.flushing /\ ~HasPicture(d.lib)
  <2>1. ~o.ok /\ o.state = "EndOfBitstream"
    BY <1>2, <1>3, <1>8 DEF Lacks
  <2>2. Over(s, "VVDec", e)
    BY <1>1, <1>4, <1>5, <1>8, NoMore
  <2>3. DecoderAt(s, o, k, e)
    BY <1>6, <2>1, <2>2 DEF DecoderAt
  <2>4. QED
    BY <1>6, <2>1, <2>3 DEF TakenAt, o
<1>9. CASE ~d.flushing /\ d.ready
  <2>1. /\ o.lib = d.lib /\ ~o.ready /\ ~o.ok /\ o.state = "NeedsMoreData"
    BY <1>1, <1>2, <1>3, <1>9
  <2>2. DecoderAt(s, o, k, e)
    BY <1>4, <1>5, <1>6, <1>9, <2>1 DEF DecoderAt, Out
  <2>3. QED
    BY <1>6, <2>1, <2>2 DEF TakenAt, o
<1>10. CASE ~d.flushing /\ ~d.ready
  <2>1. /\ o.lib = d.lib /\ o.ready /\ o.ok /\ o.state = "RetrieveFrames"
        /\ o.shown = e /\ o.buffer = NoPicture
    BY <1>1, <1>2, <1>3, <1>4, <1>5, <1>10
  <2>2. DecoderAt(s, o, k, e + 1)
    BY <1>4, <1>5, <1>6, <1>10, <2>1 DEF DecoderAt, Out
  <2>3. QED
    BY <1>6, <2>1, <2>2 DEF TakenAt, o
<1>11. QED
  BY <1>1, <1>7, <1>8, <1>9, <1>10

\* decoderFFmpeg: the picture that is found is the next one.
LEMMA FFMpegNextAt ==
    ASSUME ServiceAssumption, NEW s \in Setup, NEW d \in DecoderType(s), d.engine = "FFMpeg",
           NEW k \in 0..Length(s), NEW e \in Nat, DecoderAt(s, d, k, e), d.state = "RetrieveFrames"
    PROVE  TakenAt(s, decodeNextFrame(d), d, k, e)
<1> DEFINE o == decodeNextFrame(d)
<1>1. d.lib \in LibraryType(s) /\ d.flushing \in BOOLEAN /\ d.ready \in BOOLEAN
  BY DEF DecoderType
<1>2. o = FFMpeg_decodeNextFrame(d)
  BY DEF decodeNextFrame
<1>3. LET z == FFMpeg_decodeNextFrame(d)
      IN  /\ z \in DecoderType(s) /\ Alike(z, d)
          /\ IF HasPicture(d.lib) THEN Gives(z, d) /\ z.state = d.state
             ELSE /\ Lacks(z, d)
                  /\ z.state = IF d.flushing THEN "EndOfBitstream" ELSE "NeedsMoreData"
  BY FFMpegNext
<1>4. /\ LibraryAt(s, d.lib, k, IF Out(d) THEN e + 1 ELSE e)
      /\ ~d.waiting /\ d.lib.parsing = EmptyData
      /\ d.flushing => k = Length(s)
  BY DEF DecoderAt
<1>5. ~Out(d)
  BY <1>4 DEF Out
<1> HIDE DEF o
<1>6. o.engine = "FFMpeg" /\ o.flushing = d.flushing /\ ~o.waiting /\ o.ready = d.ready
  BY <1>2, <1>3, <1>4 DEF Alike
<1>7. CASE HasPicture(d.lib)
  <2>1. o.lib = Taken(d.lib) /\ o.shown = Min(d.lib.held) /\ o.buffer = NoPicture /\ o.ok
        /\ o.state = "RetrieveFrames"
    BY <1>2, <1>3, <1>7 DEF Gives
  <2>2. Min(d.lib.held) = e /\ LibraryAt(s, Taken(d.lib), k, e + 1)
    BY <1>1, <1>4, <1>5, <1>7, TakeAt, StreamFacts
  <2>3. Taken(d.lib).parsing = EmptyData
    BY <1>1, <1>4, <1>7, TakenType
  <2>4. DecoderAt(s, o, k, e + 1)
    BY <1>4, <1>6, <2>1, <2>2, <2>3 DEF DecoderAt, Out
  <2>5. QED
    BY <1>6, <2>1, <2>2, <2>4 DEF TakenAt, o
<1>8. CASE ~HasPicture(d.lib) /\ d.flushing
  <2>1. ~o.ok /\ o.state = "EndOfBitstream"
    BY <1>2, <1>3, <1>8 DEF Lacks
  <2>2. Over(s, "FFMpeg", e)
    BY <1>1, <1>4, <1>5, <1>8, NoMore
  <2>3. DecoderAt(s, o, k, e)
    BY <1>6, <2>1, <2>2 DEF DecoderAt
  <2>4. QED
    BY <1>6, <2>1, <2>3 DEF TakenAt, o
<1>9. CASE ~HasPicture(d.lib) /\ ~d.flushing
  <2>1. ~o.ok /\ o.state = "NeedsMoreData" /\ o.lib = d.lib
    BY <1>2, <1>3, <1>9 DEF Lacks
  <2>2. DecoderAt(s, o, k, e)
    BY <1>4, <1>5, <1>6, <1>9, <2>1 DEF DecoderAt, Out
  <2>3. QED
    BY <1>6, <2>1, <2>2 DEF TakenAt, o
<1>10. QED
  BY <1>1, <1>7, <1>8, <1>9

\* The others: the picture that is found is the next one.
LEMMA WaitingNextAt ==
    ASSUME ServiceAssumption, NEW s \in Setup, NEW d \in DecoderType(s),
           d.engine \in {"Libde265", "HM", "VTM", "Dav1d"},
           d.engine \in {"HM", "VTM"} => d.shown # NoPicture,
           NEW k \in 0..Length(s), NEW e \in Nat, DecoderAt(s, d, k, e), d.state = "RetrieveFrames"
    PROVE  TakenAt(s, decodeNextFrame(d), d, k, e)
<1> DEFINE o == decodeNextFrame(d)
           k1 == IF d.lib.parsing = EmptyData THEN k ELSE k - 1
<1>1. /\ d.lib \in LibraryType(s) /\ d.waiting \in BOOLEAN /\ d.flushing \in BOOLEAN
      /\ d.lib.drained \in BOOLEAN
  BY DEF DecoderType, LibraryType
<1>2. LET z == decodeNextFrame(d)
      IN  /\ z \in DecoderType(s) /\ NextGiven(z, d)
          /\ ~d.waiting =>
               IF HasPicture(d.lib) /\ (d.engine = "Libde265" => d.lib.drained)
               THEN /\ z.lib = Taken(d.lib) /\ z.shown = Min(d.lib.held) /\ z.ok
                    /\ z.state = "RetrieveFrames" /\ (d.engine # "HM" => z.buffer = NoPicture)
               ELSE /\ ~z.ok /\ z.lib = d.lib
                    /\ z.state = IF d.engine = "Libde265" /\ d.lib.drained
                                 THEN "EndOfBitstream" ELSE "NeedsMoreData"
  BY WaitingNext
<1>3. /\ LibraryAt(s, d.lib, k1, IF Out(d) THEN e + 1 ELSE e)
      /\ Out(d) => d.shown = e /\ d.buffer = NoPicture
      /\ d.ready = FALSE
      /\ d.lib.parsing # EmptyData =>
            /\ d.engine \in {"HM", "VTM"} /\ ~d.lib.drained
            /\ k > 0 /\ d.lib.parsing = UnitOf(s, k - 1)
      /\ d.engine = "HM" => d.lib.held = {}
      /\ d.engine = "Dav1d" => d.header
      /\ d.flushing => k = Length(s)
      /\ d.engine = "Libde265" => d.flushing = d.lib.drained
      /\ d.engine \in {"HM", "VTM"} => ~d.flushing
  BY DEF DecoderAt, DecoderType
<1>4. Out(d) <=> d.waiting
  BY DEF Out
<1>5. k1 \in 0..Length(s) /\ Length(s) \in Nat /\ (d.engine = "Libde265" => k1 = k)
  <2>1. k1 \in 0..Length(s)
    BY <1>3 DEF LibraryAt
  <2>2. QED
    BY <1>3, <2>1, StreamFacts
<1> HIDE DEF o, k1
<1>6. /\ o.engine = d.engine /\ ~o.ready /\ o.flushing = d.flushing /\ o.header = d.header
      /\ ~o.waiting
  BY <1>2, <1>3 DEF NextGiven, o
<1>7. CASE d.waiting
  <2>1. /\ o.ok /\ o.lib = d.lib /\ o.shown = e /\ o.buffer = NoPicture /\ o.state = "RetrieveFrames"
    BY <1>2, <1>3, <1>4, <1>7 DEF NextGiven, o
  <2>2. DecoderAt(s, o, k, e + 1)
    BY <1>3, <1>4, <1>6, <1>7, <2>1 DEF DecoderAt, Out, k1
  <2>3. QED
    BY <1>6, <2>1, <2>2 DEF TakenAt, o
<1>8. CASE ~d.waiting /\ HasPicture(d.lib) /\ (d.engine = "Libde265" => d.lib.drained)
  <2>1. d.engine # "HM"
    BY <1>3, <1>8 DEF HasPicture
  <2>2. /\ o.lib = Taken(d.lib) /\ o.shown = Min(d.lib.held) /\ o.ok
        /\ o.state = "RetrieveFrames" /\ o.buffer = NoPicture
    BY <1>2, <1>8, <2>1 DEF o
  <2>3. Min(d.lib.held) = e /\ LibraryAt(s, Taken(d.lib), k1, e + 1)
    BY <1>1, <1>3, <1>4, <1>5, <1>8, TakeAt
  <2>4. Taken(d.lib).parsing = d.lib.parsing /\ Taken(d.lib).drained = d.lib.drained
    BY <1>1, <1>8, TakenType
  <2>5. DecoderAt(s, o, k, e + 1)
    BY <1>3, <1>6, <2>1, <2>2, <2>3, <2>4 DEF DecoderAt, Out, k1
  <2>6. QED
    BY <1>6, <2>2, <2>3, <2>5 DEF TakenAt, o
<1>9. CASE ~d.waiting /\ ~(HasPicture(d.lib) /\ (d.engine = "Libde265" => d.lib.drained))
  <2>1. /\ ~o.ok /\ o.lib = d.lib
        /\ o.state = IF d.engine = "Libde265" /\ d.lib.drained
                     THEN "EndOfBitstream" ELSE "NeedsMoreData"
    BY <1>2, <1>9 DEF o
  <2>2. CASE d.engine = "Libde265" /\ d.lib.drained
    <3>1. ~HasPicture(d.lib)
      BY <1>9, <2>2
    <3>2. LibraryAt(s, d.lib, Length(s), e)
      BY <1>3, <1>4, <1>5, <1>9, <2>2
    <3>3. Over(s, "Libde265", e)
      BY <1>1, <2>2, <3>1, <3>2, NoMore
    <3>4. o.state = "EndOfBitstream"
      BY <2>1, <2>2
    <3>5. DecoderAt(s, o, k, e)
      BY <1>6, <2>2, <3>3, <3>4 DEF DecoderAt
    <3>6. QED
      BY <1>6, <2>1, <3>5 DEF TakenAt, o
  <2>3. CASE ~(d.engine = "Libde265" /\ d.lib.drained)
    <3>1. o.state = "NeedsMoreData" /\ o.lib = d.lib
      BY <2>1, <2>3
    <3>2. d.engine = "Libde265" => ~d.flushing
      BY <1>1, <1>3, <2>3
    <3>3. DecoderAt(s, o, k, e)
      BY <1>3, <1>4, <1>6, <1>9, <3>1, <3>2 DEF DecoderAt, Out, k1
    <3>4. QED
      BY <1>6, <2>1, <3>3 DEF TakenAt, o
  <2>4. QED
    BY <2>2, <2>3
<1>10. QED
  BY <1>1, <1>7, <1>8, <1>9

\* A picture is asked for: a decoder that was to give the picture `e' gives it,
\* or wants more data, or says that there are no more.
LEMMA NextAt ==
    ASSUME ServiceAssumption, NEW s \in Setup, NEW d \in DecoderType(s),
           NEW k \in 0..Length(s), NEW e \in Nat, DecoderAt(s, d, k, e), d.state = "RetrieveFrames"
    PROVE  TakenAt(s, decodeNextFrame(d), d, k, e)
<1>1. d.engine \in {"Libde265", "HM", "VTM", "VVDec", "Dav1d", "FFMpeg"}
  BY DEF DecoderType, Engine
<1>2. CASE d.engine \in {"HM", "VTM"} /\ d.shown = NoPicture
  <2>1. decodeNextFrame(d) = Refused(d)
    BY <1>2 DEF decodeNextFrame, HM_decodeNextFrame
  <2>2. /\ Refused(d).engine = d.engine /\ Refused(d).ready = d.ready
        /\ Refused(d).flushing = d.flushing /\ Refused(d).header = d.header
        /\ Refused(d).waiting = d.waiting
        /\ Refused(d).lib = d.lib /\ Refused(d).state = d.state /\ ~Refused(d).ok
        /\ Refused(d).shown = d.shown /\ Refused(d).buffer = d.buffer
    BY RefusedType DEF Alike
  <2> DEFINE o == Refused(d)
  <2> HIDE DEF o
  <2>3. DecoderAt(s, o, k, e)
    BY <2>2 DEF DecoderAt, Out, o
  <2>4. ~o.ok /\ o.flushing = d.flushing
    BY <2>2 DEF o
  <2>5. QED
    BY <2>1, <2>3, <2>4 DEF TakenAt, o
<1>3. CASE ~(d.engine \in {"HM", "VTM"} /\ d.shown = NoPicture)
  BY <1>1, <1>3, VVDecNextAt, FFMpegNextAt, WaitingNextAt
<1>4. QED
  BY <1>2, <1>3

\* The samples of a picture are copied into the buffer.
LEMMA BufferedAt ==
    ASSUME NEW s \in Setup, NEW d \in DecoderType(s), NEW k \in 0..Length(s), NEW e \in Nat,
           d.state = "RetrieveFrames", d.shown = e, d.buffer = NoPicture, DecoderAt(s, d, k, e + 1)
    PROVE  /\ DecoderAt(s, Buffered(d), k, e + 1) /\ Buffered(d).flushing = d.flushing
           /\ Buffered(d).state = "RetrieveFrames" /\ getRawFrameData(d) = e
<1> DEFINE o == Buffered(d)
<1>1. d.shown # NoPicture
  BY TypedValues
<1>2. /\ o.engine = d.engine /\ o.ready = d.ready /\ o.flushing = d.flushing
      /\ o.header = d.header /\ o.waiting = d.waiting
      /\ o.lib = d.lib /\ o.state = d.state /\ o.shown = d.shown
  BY BufferedType DEF Alike
<1>3. getRawFrameData(d) = e
  BY <1>1, BufferedType
<1> HIDE DEF o
<1>4. ~Out(d) /\ ~Out(o)
  <2>1. Out(d) => d.shown = e + 1
    BY DEF DecoderAt
  <2>2. ~Out(d)
    BY <2>1
  <2>3. QED
    BY <1>2, <2>2 DEF Out
<1>5. DecoderAt(s, o, k, e + 1)
  BY <1>2, <1>4 DEF DecoderAt
<1>6. QED
  BY <1>2, <1>3, <1>5 DEF o

-----------------------------------------------------------------------------
(* The item is on the track of its decoders.                               *)

\* What is assumed of the setup that was opened.
LEMMA SetupFacts ==
    ASSUME ServiceAssumption, TypeInv
    PROVE  /\ setup \in Setup /\ engine \in setup.engines /\ engine \in Engine
           /\ "loading" \in setup.threads /\ setup.threads \subseteq Thread
           /\ Thread = {"loading", "caching"}
           /\ ~Shared => setup.threads = {"loading"}
           /\ Shared => /\ AnnexB /\ engine \in {"Libde265", "VVDec"}
                        /\ setup.lost = {} /\ setup.faults = 0 /\ ~setup.statistics
           /\ AnnexB => LastFrame = N - 1
<1>1. setup \in Setup /\ engine \in setup.engines
  BY DEF TypeInv
<1>2. engine \in Engine /\ setup.threads \subseteq Thread
  BY <1>1, StreamFacts
<1>3. "loading" \in setup.threads
  BY <1>1, StreamAssumption
<1>4. Shared => /\ AnnexB /\ engine \in {"Libde265", "VVDec"}
                /\ setup.lost = {} /\ setup.faults = 0 /\ ~setup.statistics
  <2>1. "caching" \in setup.threads =>
            /\ setup.format = "AnnexB" /\ setup.engines \subseteq {"Libde265", "VVDec"}
            /\ setup.lost = {} /\ setup.faults = 0 /\ ~setup.statistics
    BY <1>1 DEF ServiceAssumption, Countable
  <2>2. QED
    BY <1>1, <2>1 DEF Shared, AnnexB
<1>5. ~Shared => setup.threads = {"loading"}
  BY <1>2, <1>3 DEF Shared, Thread
<1>6. QED
  BY <1>1, <1>2, <1>3, <1>4, <1>5 DEF Thread, LastFrame

\* With two threads no decoder fails.
LEMMA NoFailure ==
    ASSUME ServiceAssumption, TypeInv, TroubleOK, Shared, NEW c \in Thread
    PROVE  ~HasFailed(c) /\ faults = 0
<1>1. faults <= setup.faults /\ (HasFailed(c) => faults < setup.faults) /\ faults \in Nat
  BY DEF TroubleOK, TypeInv
<1>2. setup.faults = 0
  BY SetupFacts
<1>3. QED
  BY <1>1, <1>2

\* What was given to a decoder is part of the stream.
LEMMA ConsumedType ==
    ASSUME ServiceAssumption, TypeInv, NEW c \in Thread, InUse(c), OnTrack(c),
           dec[c].state \in {"NeedsMoreData", "RetrieveFrames"}
    PROVE  Consumed(c) \in 0..Length(setup)
<1>1. /\ N = Length(setup) /\ N \in Nat /\ item \in ItemType(setup) /\ file[c] \in FileType(setup)
      /\ item.counter # -1
  BY OfSetup, ItemFacts DEF TypeInv
<1>2. item.counter \in 0..N /\ file[c].pos \in 0..N
  BY <1>1 DEF ItemType, FileType
<1>3. ~(AnnexB /\ engine = "FFMpeg") /\ item.repush /\ ~dec[c].flushing => file[c].pos > 0
  BY DEF OnTrack
<1>4. QED
  BY <1>1, <1>2, <1>3 DEF Consumed

\* Where FFmpeg reads, decodes and gives statistics it does not fail.
LEMMA NoFailureShown ==
    ASSUME ServiceAssumption, TypeInv, ServiceInv, ~AnnexB, engine = "FFMpeg", faults > 0
    PROVE  ~item.statistics
<1>1. setup \in Setup /\ "FFMpeg" \in setup.engines /\ setup.faults \in Nat /\ faults \in Nat
  BY StreamFacts DEF TypeInv
<1>2. setup.format = "FFmpeg"
  BY <1>1, CompressedAssumption DEF AnnexB
<1>3. setup.statistics => setup.faults = 0
  BY <1>1, <1>2 DEF ServiceAssumption, Countable
<1>4. faults <= setup.faults
  BY DEF ServiceInv, TroubleOK
<1>5. QED
  BY <1>1, <1>3, <1>4 DEF ServiceInv, SharedOK

\* A step of the thread `c', which alone works on its request unless the other
\* one has only to deliver.
Steps(c) ==
    /\ c \in setup.threads /\ setup' = setup /\ engine' = engine
    /\ \A t \in Thread \ {c} :
        /\ dec'[t] = dec[t] /\ file'[t] = file[t] /\ call'[t] = call[t]
        /\ item'.current[t] = item.current[t]
    /\ Shared => item'.repush = FALSE /\ item'.notAfter = NoFrame
    /\ item'.statistics => setup.statistics
    /\ c = "loading" => (Shared => call["caching"].pc # "decode")
    /\ c = "caching" =>
        /\ item'.loaded = item.loaded
        /\ call["loading"].pc = "idle" \/ (item' = item /\ call'["caching"].pc # "decode")

\* What the other thread counts on is not touched.
LEMMA StepKeeps ==
    ASSUME ServiceAssumption, TypeInv, ServiceInv, NEW c \in Thread, Steps(c),
           InUse(c)' => OnTrack(c)', ThreadOK(c)', BufferOK', TroubleOK',
           c = "loading" => IdleOK'
    PROVE  ServiceInv'
<1>1. /\ Thread = {"loading", "caching"} /\ setup.threads \subseteq Thread /\ "loading" \in setup.threads
      /\ ~Shared => setup.threads = {"loading"}
      /\ Shared => AnnexB /\ engine # "FFMpeg"
  BY SetupFacts
<1>2. /\ setup' = setup /\ engine' = engine /\ c \in setup.threads
      /\ item'.statistics => setup.statistics
      /\ \A t \in Thread \ {c} :
            /\ dec'[t] = dec[t] /\ file'[t] = file[t] /\ call'[t] = call[t]
            /\ item'.current[t] = item.current[t]
      /\ Shared => item'.repush = FALSE /\ item'.notAfter = NoFrame
  BY DEF Steps
<1>3. Shared => /\ ~item.repush /\ item.notAfter = NoFrame /\ item.repush \in BOOLEAN
                /\ ~item.statistics /\ ~item'.statistics
  BY <1>2, SetupFacts DEF ServiceInv, SharedOK, TypeInv, ItemType
<1>4. Shared' = Shared /\ AnnexB' = AnnexB /\ N' = N
  BY <1>2 DEF Shared, AnnexB, N
<1>5. ASSUME NEW t \in setup.threads, InUse(t)'
      PROVE  OnTrack(t)'
  <2>1. CASE t = c
    BY <1>5, <2>1
  <2>2. CASE t # c
    <3>1. t \in Thread \ {c} /\ Shared
      BY <1>1, <1>2, <2>2 DEF Shared
    <3>2. InUse(t)
      BY <1>2, <1>5, <3>1 DEF InUse
    <3>3. OnTrack(t)
      BY <3>2 DEF ServiceInv
    <3>4. /\ dec'[t] = dec[t] /\ file'[t] = file[t] /\ item'.current[t] = item.current[t]
          /\ ~item.repush /\ ~item'.repush /\ engine # "FFMpeg"
      BY <1>1, <1>2, <1>3, <3>1
    <3>5. Consumed(t) = file[t].pos /\ Consumed(t)' = file[t].pos
      BY <1>2, <3>4 DEF Consumed
    <3>6. DecoderAt(setup, dec[t], file[t].pos, item.current[t] + 1)
      BY <3>3, <3>5 DEF OnTrack
    <3>7. DecoderAt(setup', dec'[t], Consumed(t)', item'.current[t] + 1)
      BY <1>2, <3>4, <3>5, <3>6
    <3> HIDE DEF Consumed
    <3>8. QED
      BY <3>4, <3>7 DEF OnTrack
  <2>3. QED
    BY <2>1, <2>2
<1>6. ASSUME NEW t \in Thread
      PROVE  ThreadOK(t)'
  <2>1. CASE t = c
    BY <2>1
  <2>2. CASE t # c /\ call[t] = Idle
    <3>1. call'[t] = Idle
      BY <1>2, <2>2
    <3>2. Idle.pc = "idle" /\ Idle.kind = "none"
      BY DEF Idle
    <3>3. QED
      BY <3>1, <3>2 DEF ThreadOK, DecodeOK, ReplyOK
  <2>3. CASE t = "caching" /\ c = "loading" /\ call[t] # Idle
    <3>1. Shared
      BY <1>1, <2>3 DEF ServiceInv, SharedOK
    <3>2. call'[t] = call[t] /\ call[t].pc # "decode" /\ ThreadOK(t)
      BY <1>2, <2>3, <3>1 DEF Steps, ServiceInv
    <3>3. QED
      BY <1>2, <2>3, <3>2 DEF ThreadOK, DecodeOK, ReplyOK
  <2>4. CASE t = "loading" /\ c = "caching" /\ call[t] # Idle
    <3>1. call[t].pc # "idle"
      BY <2>4 DEF TypeInv
    <3>2. item' = item /\ call'[t] = call[t] /\ dec'[t] = dec[t] /\ setup' = setup
      BY <1>2, <2>4, <3>1 DEF Steps
    <3>3. ThreadOK(t)
      BY DEF ServiceInv
    <3>4. QED
      BY <3>2, <3>3 DEF ThreadOK, DecodeOK, ReplyOK, HasFailed, NotDecodable, AtFrame
  <2>5. QED
    BY <1>1, <2>1, <2>2, <2>3, <2>4
<1>7. IdleOK'
  <2>1. CASE c = "loading"
    BY <2>1
  <2>2. CASE c = "caching"
    <3>1. Shared /\ "loading" \in Thread \ {c}
      BY <1>1, <1>2, <2>2 DEF Shared
    <3>2. /\ call'["loading"] = call["loading"] /\ dec'["loading"] = dec["loading"]
          /\ item'.current["loading"] = item.current["loading"] /\ item'.loaded = item.loaded
      BY <1>2, <2>2, <3>1 DEF Steps
    <3>3. item.notAfter = NoFrame /\ IdleOK /\ ~item.statistics /\ ~item'.statistics
      BY <1>3, <3>1 DEF ServiceInv
    <3>4. ~(NoFrame >= 0)
      BY DEF NoFrame, NoPicture
    <3>5. QED
      BY <3>2, <3>3, <3>4 DEF IdleOK, HasFailed, NotDecodable, AtFrame
  <2>3. QED
    BY <1>1, <2>1, <2>2
<1>8. SharedOK'
  <2>1. \A t \in Thread \ setup'.threads : call'[t] = Idle
    BY <1>1, <1>2 DEF ServiceInv, SharedOK
  <2>2. Shared' => item'.repush = FALSE /\ item'.notAfter = NoFrame
    BY <1>2, <1>4
  <2>3. ~(Shared' /\ call'["loading"].pc # "idle" /\ call'["caching"].pc = "decode")
    <3>1. CASE c = "loading"
      BY <1>1, <1>2, <1>4, <3>1 DEF Steps
    <3>2. CASE c = "caching"
      BY <1>1, <1>2, <1>4, <3>2 DEF Steps
    <3>3. QED
      BY <1>1, <3>1, <3>2
  <2>4. QED
    BY <1>2, <2>1, <2>2, <2>3 DEF SharedOK
<1>9. QED
  BY <1>2, <1>5, <1>6, <1>7, <1>8 DEF ServiceInv

\* A step that leaves the buffer alone.
LEMMA BufferKeeps ==
    ASSUME ServiceAssumption, TypeInv, BufferOK, setup' = setup,
           item'.raw = item.raw, item'.rawIndex = item.rawIndex, item'.loaded = item.loaded,
           Shared \/ call["loading"].pc # "reply",
           \/ Shared \/ ~item.statistics
           \/ /\ item'.statistics
              /\ \/ call'["loading"].pc = "decode"
                 \/ call["loading"].pc # "decode" /\ item'.notAfter = item.notAfter
    PROVE  BufferOK'
<1>1. Shared' = Shared
  BY DEF Shared
<1>2. QED
  BY <1>1 DEF BufferOK, NotDecodable

\* A step that gives up nothing unless a decoder fails.
LEMMA TroubleKeeps ==
    ASSUME ServiceAssumption, TypeInv, TroubleOK, setup' = setup, engine' = engine,
           faults' \in Nat, faults' <= faults,
           \A t \in Thread : HasFailed(t)' => HasFailed(t) \/ faults' < faults,
           item'.notAfter \in {item.notAfter, NoFrame} \/ faults' < faults
    PROVE  TroubleOK'
<1>1. /\ faults \in Nat /\ faults <= setup.faults /\ setup.faults \in Nat
      /\ (\E c \in Thread : HasFailed(c)) => faults < setup.faults
      /\ item.notAfter >= 0 =>
            faults < setup.faults \/ \A p \in item.notAfter..LastFrame : p \in Unavailable
  BY StreamFacts DEF TypeInv, TroubleOK
<1>2. Unavailable' = Unavailable /\ LastFrame' = LastFrame
  BY DEF Unavailable, LastFrame, N, AnnexB
<1>3. ~(NoFrame >= 0)
  BY DEF NoFrame, NoPicture
<1>4. faults' <= setup'.faults
  BY <1>1
<1>5. (\E c \in Thread : HasFailed(c)') => faults' < setup'.faults
  BY <1>1
<1>6. item'.notAfter >= 0 =>
            faults' < setup'.faults \/ \A p \in item'.notAfter..LastFrame' : p \in Unavailable'
  BY <1>1, <1>2, <1>3
<1>7. QED
  BY <1>4, <1>5, <1>6 DEF TroubleOK

\* A thread with a request is one of the two that decode.
LEMMA AtWork ==
    ASSUME ServiceAssumption, TypeInv, ServiceInv, NEW c \in Thread, call[c].pc # "idle"
    PROVE  /\ c \in setup.threads /\ ThreadOK(c)
           /\ c = "loading" => (Shared => call["caching"].pc # "decode")
           /\ c = "caching" => Shared /\ ~item.statistics
           /\ c = "caching" /\ call[c].pc = "decode" => call["loading"].pc = "idle"
           /\ item.statistics => setup.statistics
           /\ Shared => item.repush = FALSE /\ item.notAfter = NoFrame
<1>1. call[c] # Idle
  BY DEF Idle
<1>2. c \in setup.threads
  BY <1>1 DEF ServiceInv, SharedOK
<1>3. item.repush \in BOOLEAN
  BY DEF TypeInv, ItemType
<1>4. QED
  BY <1>2, <1>3, SetupFacts DEF ServiceInv, SharedOK, Shared, Thread

\* The reply is delivered.
LEMMA DeliverKeeps ==
    ASSUME ServiceAssumption, TypeInv, ServiceInv, NEW c \in Thread, Deliver(c)
    PROVE  ServiceInv'
<1> DEFINE f == call[c].frame
           there == item.rawIndex = f /\ (c = "loading" => item.raw # NoPicture)
           new == IF call[c].kind # "statistics" /\ there /\ c = "loading" THEN f ELSE item.loaded
<1>1. /\ item \in ItemType(setup) /\ call[c].pc = "reply" /\ faults \in Nat
      /\ UNCHANGED <<setup, engine, dec, file, faults>>
      /\ call' = [call EXCEPT ![c] = Idle]
  BY DEF Deliver, TypeInv
<1>2. item' = [item EXCEPT !.loaded = new]
  <2>1. CASE call[c].kind = "statistics"
    <3>1. item' = item /\ new = item.loaded
      BY <2>1 DEF Deliver
    <3> HIDE DEF new
    <3>2. QED
      BY <1>1, <3>1 DEF ItemType
  <2>2. CASE call[c].kind # "statistics"
    BY <2>2 DEF Deliver
  <2>3. QED
    BY <2>1, <2>2
<1> HIDE DEF new
<1>3. /\ item'.current = item.current /\ item'.repush = item.repush /\ item'.notAfter = item.notAfter
      /\ item'.counter = item.counter /\ item'.raw = item.raw /\ item'.rawIndex = item.rawIndex
      /\ item'.loaded = new /\ item'.statistics = item.statistics
      /\ item'.statFrame = item.statFrame /\ (new = item.loaded => item' = item)
  BY <1>1, <1>2 DEF ItemType
<1>4. /\ c \in setup.threads /\ ThreadOK(c)
      /\ c = "loading" => (Shared => call["caching"].pc # "decode")
      /\ c = "caching" => Shared
      /\ Shared => item.repush = FALSE /\ item.notAfter = NoFrame
      /\ item.statistics => setup.statistics
  BY <1>1, AtWork
<1>5. /\ call'[c] = Idle /\ Idle.pc = "idle" /\ Idle.kind = "none"
      /\ \A t \in Thread \ {c} : call'[t] = call[t]
  BY <1>1 DEF TypeInv, Idle
<1>6. c = "caching" => new = item.loaded
  BY DEF new
<1>7. Steps(c)
  BY <1>1, <1>3, <1>4, <1>5, <1>6 DEF Steps
<1>8. InUse(c)' => OnTrack(c)'
  <2>1. SUFFICES ASSUME InUse(c)' PROVE OnTrack(c)'
    OBVIOUS
  <2>2. InUse(c)
    BY <1>3, <1>5, <2>1 DEF InUse
  <2>3. OnTrack(c)
    BY <1>4, <2>2 DEF ServiceInv
  <2>4. QED
    BY <1>1, <1>3, <2>3 DEF OnTrack, Consumed, AnnexB, Unit
<1>9. ThreadOK(c)'
  BY <1>5 DEF ThreadOK, DecodeOK, ReplyOK
<1>10. BufferOK'
  <2>1. Shared' = Shared
    BY <1>1 DEF Shared
  <2>2. item.raw = NoPicture => new = NoFrame
    BY <1>4 DEF new, ServiceInv, BufferOK, Shared
  <2>3. ASSUME ~Shared, item.raw # NoPicture, item.rawIndex # NoFrame
        PROVE  \/ item.raw = item.rawIndex \/ new = item.rawIndex
               \/ item.statistics /\ NotDecodable(item.rawIndex)
    <3>1. c = "loading"
      BY <1>4, <2>3 DEF Thread
    <3>2. \/ item.raw = item.rawIndex \/ item.loaded = item.rawIndex
          \/ call[c].kind = "video" /\ call[c].frame = item.rawIndex
          \/ item.statistics /\ NotDecodable(item.rawIndex)
      BY <1>1, <2>3, <3>1 DEF ServiceInv, BufferOK
    <3>3. CASE call[c].kind # "statistics" /\ there
      BY <3>1, <3>3 DEF new
    <3>4. CASE ~(call[c].kind # "statistics" /\ there)
      BY <2>3, <3>1, <3>2, <3>4 DEF new
    <3>5. QED
      BY <3>3, <3>4
  <2>4. QED
    BY <1>3, <2>1, <2>2, <2>3 DEF BufferOK, NotDecodable
<1>11. TroubleOK'
  <2>1. \A t \in Thread : HasFailed(t)' => HasFailed(t)
    BY <1>1 DEF HasFailed
  <2>2. TroubleOK /\ faults' \in Nat /\ faults' <= faults
    BY <1>1 DEF ServiceInv
  <2>3. QED
    BY <1>1, <1>3, <2>1, <2>2, TroubleKeeps
<1>12. ASSUME c = "loading" PROVE IdleOK'
  <2>1. SUFFICES ASSUME ~HasFailed(c) PROVE AtFrame'
    BY <1>1, <1>12 DEF IdleOK, HasFailed
  <2>2. /\ call[c].kind \in {"video", "statistics"} /\ ReplyOK(c)
    BY <1>1, <1>4 DEF ThreadOK
  <2>3. CASE call[c].kind = "statistics"
    <3>1. AtFrame /\ item' = item
      BY <1>1, <1>3, <2>1, <2>2, <2>3 DEF ReplyOK, new
    <3>2. QED
      BY <3>1 DEF AtFrame, NotDecodable
  <2>4. CASE call[c].kind = "video"
    <3>1. /\ f >= 0 /\ item.current[c] = f /\ item.rawIndex = f
          /\ NotDecodable(f) \/ (item.raw = f /\ (item.statistics => item.statFrame = f))
      BY <1>1, <1>12, <2>1, <2>2, <2>4 DEF ReplyOK
    <3>2. item'.current["loading"] = f /\ (item.statistics => item.statFrame = f \/ NotDecodable(f))
      BY <1>3, <1>12, <3>1
    <3>3. CASE item.raw # NoPicture
      <4>1. new = f
        BY <1>12, <2>4, <3>1, <3>3 DEF new
      <4>2. QED
        BY <1>3, <3>2, <4>1 DEF AtFrame, NotDecodable
    <3>4. CASE item.raw = NoPicture
      <4>1. f # NoPicture
        BY <3>1 DEF NoPicture
      <4>2. NotDecodable(f)
        BY <3>1, <3>4, <4>1
      <4>3. QED
        BY <1>3, <3>2, <3>4, <4>2 DEF AtFrame, NotDecodable
    <3>5. QED
      BY <3>3, <3>4
  <2>5. QED
    BY <2>2, <2>3, <2>4
<1>13. QED
  BY <1>7, <1>8, <1>9, <1>10, <1>11, <1>12, StepKeeps

\* The request ends: its picture is there, or the decoder has no more.
LEMMA FinishKeeps ==
    ASSUME ServiceAssumption, TypeInv, ServiceInv, NEW c \in Thread, Finish(c)
    PROVE  ServiceInv'
<1> DEFINE f == call[c].frame
           stuck == Decoding(c)
           after == IF stuck THEN f ELSE item.notAfter
           undecodable == after >= 0 /\ f >= after
           cur == [item.current EXCEPT ![c] = IF undecodable THEN f ELSE @]
           index == IF undecodable THEN f ELSE item.rawIndex
           ena == item.enabled /\ (undecodable \/ dec["loading"].state # "Error")
           k == [call[c] EXCEPT !.pc = "reply", !.copy = item.raw]
<1>1. /\ setup \in Setup /\ LastFrame = EndOf(setup) /\ N = Length(setup) /\ N \in Nat
      /\ NoFrame = -1 /\ LastFrame \in {N - 1, N} /\ LastFrame \in Nat
      /\ dec[c] \in DecoderType(setup) /\ dec[c].engine = engine
      /\ call[c] \in CallType(setup)
      /\ f \in -1..LastFrame /\ item \in ItemType(setup)
      /\ item.current[c] \in -1..LastFrame /\ faults \in Nat
  BY ItemFacts, OfSetup DEF TypeInv
<1>2. /\ call[c].pc = "decode" /\ UNCHANGED <<setup, engine, dec, file, answer, faults>>
      /\ item' = [item EXCEPT !.notAfter = after, !.current[c] = IF undecodable THEN f ELSE @,
                    !.rawIndex = index, !.enabled = ena]
      /\ call' = [call EXCEPT ![c].pc = "reply", ![c].copy = item.raw]
      /\ stuck => dec[c].state \in {"EndOfBitstream", "Error"}
  BY DEF Finish
<1>3. item' = [item EXCEPT !.notAfter = after, !.current = cur, !.rawIndex = index, !.enabled = ena]
  BY <1>1, <1>2 DEF ItemType
<1>4. f >= 0 /\ (item.current[c] <= f \/ HasFailed(c)) /\ InUse(c)
  BY <1>2 DEF TypeInv, InUse, HasFailed
<1>5. /\ c \in setup.threads /\ ThreadOK(c) /\ OnTrack(c)
      /\ c = "loading" => (Shared => call["caching"].pc # "decode")
      /\ c = "caching" => Shared /\ call["loading"].pc = "idle"
      /\ Shared => item.repush = FALSE /\ item.notAfter = NoFrame
      /\ item.statistics => setup.statistics
  BY <1>2, <1>4, AtWork DEF ServiceInv
<1>6. stuck <=> item.current[c] # f
  BY <1>2 DEF Decoding
<1>7. /\ k.pc = "reply" /\ k.kind = call[c].kind /\ k.frame = f /\ k.copy = item.raw
      /\ call'[c] = k /\ \A t \in Thread \ {c} : call'[t] = call[t]
  BY <1>1, <1>2 DEF TypeInv, CallType
<1>8. cur[c] = f /\ \A t \in Thread \ {c} : cur[t] = item.current[t]
  <2>1. item.current \in [Thread -> -1..EndOf(setup)]
    BY <1>1 DEF ItemType
  <2>2. ~stuck => item.current[c] = f
    BY <1>6
  <2>3. stuck => undecodable
    BY <1>1, <1>4
  <2> HIDE DEF stuck, after
  <2>4. QED
    BY <2>1, <2>2, <2>3
<1>9. ~stuck => after = item.notAfter /\ item.raw = f /\ item.rawIndex = f /\ index = f
  BY <1>2, <1>5, <1>6 DEF ThreadOK, DecodeOK
<1>10. stuck => after = f /\ index = f
  BY <1>1, <1>4
<1> HIDE DEF stuck, after, cur, index, ena, k, undecodable
<1>11. /\ item'.current = cur /\ item'.repush = item.repush /\ item'.notAfter = after
       /\ item'.counter = item.counter /\ item'.raw = item.raw /\ item'.rawIndex = f
       /\ item'.loaded = item.loaded /\ item'.statistics = item.statistics
       /\ item'.statFrame = item.statFrame
  BY <1>1, <1>3, <1>9, <1>10 DEF ItemType
<1>12. stuck /\ ~HasFailed(c) => Over(setup, engine, item.current[c] + 1) /\ item.current[c] + 1 <= f
  BY <1>1, <1>2, <1>4, <1>5, <1>6 DEF OnTrack, DecoderAt, HasFailed
<1>13. stuck /\ ~HasFailed(c) => \A p \in f..LastFrame : p \in Unavailable
  <2>1. SUFFICES ASSUME stuck, ~HasFailed(c), NEW p \in f..LastFrame
        PROVE  p \in Unavailable
    OBVIOUS
  <2>2. p \in 0..LastFrame /\ p >= item.current[c] + 1
    BY <1>1, <1>4, <1>12, <2>1
  <2>3. CASE p >= N
    BY <2>2, <2>3 DEF Unavailable
  <2>4. CASE p < N
    <3>1. p \in (item.current[c] + 1)..(Length(setup) - 1)
      BY <1>1, <2>2, <2>4
    <3>2. \/ p \in setup.lost
          \/ engine = "FFMpeg" /\ p >= Length(setup) - Cardinality(setup.lost) - setup.delay
      BY <1>12, <2>1, <3>1 DEF Over
    <3>3. QED
      BY <1>1, <2>2, <3>2 DEF Unavailable
  <2>5. QED
    BY <1>1, <2>2, <2>3, <2>4
<1>14. stuck => ~Shared
  <2>1. SUFFICES ASSUME stuck, Shared PROVE FALSE
    OBVIOUS
  <2>2. /\ ~HasFailed(c) /\ setup.lost = {} /\ engine # "FFMpeg" /\ LastFrame = N - 1
    BY <2>1, NoFailure, SetupFacts DEF ServiceInv
  <2>3. f \in f..LastFrame /\ f \in 0..LastFrame /\ ~(f >= N)
    BY <1>1, <1>4, <2>2
  <2>4. QED
    BY <1>13, <2>1, <2>2, <2>3 DEF Unavailable
<1>15. Steps(c)
  BY <1>2, <1>5, <1>7, <1>8, <1>9, <1>11, <1>14, ZenonT(60) DEF Steps
<1>16. OnTrack(c)'
  <2>1. DecoderAt(setup, dec[c], Consumed(c), f + 1)
    <3>1. CASE ~stuck
      BY <1>5, <1>6, <3>1 DEF OnTrack
    <3>2. CASE stuck /\ HasFailed(c)
      BY <3>2 DEF DecoderAt, HasFailed
    <3>3. CASE stuck /\ ~HasFailed(c)
      <4>1. dec[c].state = "EndOfBitstream"
        BY <1>2, <3>3 DEF HasFailed
      <4>2. Over(setup, dec[c].engine, f + 1)
        <5>1. \A p \in (f + 1)..(Length(setup) - 1) : p \in (item.current[c] + 1)..(Length(setup) - 1)
          BY <1>1, <1>12, <3>3
        <5>2. QED
          BY <1>1, <1>12, <3>3, <5>1 DEF Over
      <4>3. QED
        BY <4>1, <4>2 DEF DecoderAt
    <3>4. QED
      BY <3>1, <3>2, <3>3
  <2>2. Consumed(c)' = Consumed(c)
    BY <1>2, <1>11 DEF Consumed, AnnexB
  <2>3. DecoderAt(setup', dec'[c], Consumed(c)', item'.current[c] + 1)
    BY <1>2, <1>8, <1>11, <2>1, <2>2
  <2>4. /\ ~(AnnexB /\ engine = "FFMpeg") /\ item.repush /\ ~dec[c].flushing
        /\ dec[c].state \in {"NeedsMoreData", "RetrieveFrames"}
        => file[c].pos > 0 /\ file[c].last = Unit(file[c].pos - 1)
    BY <1>5 DEF OnTrack
  <2> HIDE DEF Consumed
  <2>5. QED
    BY <1>2, <1>11, <2>3, <2>4 DEF OnTrack, AnnexB, Unit
<1>17. ThreadOK(c)'
  <2>1. /\ call[c].kind \in {"video", "statistics"}
        /\ call[c].kind = "statistics" => c = "loading" /\ item.statistics
        /\ c = "loading" /\ call[c].kind = "video" => f # item.loaded
        /\ item.statistics /\ ~stuck => item.statFrame = f
    BY <1>2, <1>5, <1>6 DEF ThreadOK, DecodeOK
  <2>2. stuck => item'.notAfter >= 0 /\ f >= item'.notAfter
    BY <1>1, <1>4, <1>10, <1>11
  <2>3. stuck => c # "caching"
    BY <1>5, <1>14
  <2>4. DecodeOK(c)'
    BY <1>7 DEF DecodeOK
  <2>5. call[c].kind = "statistics" => AtFrame'
    <3>1. CASE stuck
      BY <1>8, <1>11, <2>1, <2>2, <3>1 DEF AtFrame, NotDecodable
    <3>2. CASE ~stuck
      BY <1>8, <1>9, <1>11, <2>1, <3>2 DEF AtFrame
    <3>3. QED
      BY <3>1, <3>2
  <2>6. ReplyOK(c)'
    BY <1>4, <1>7, <1>8, <1>9, <1>11, <2>1, <2>2, <2>3, <2>5 DEF ReplyOK, NotDecodable
  <2>7. QED
    BY <1>2, <1>7, <1>11, <2>1, <2>4, <2>6 DEF ThreadOK
<1>18. BufferOK'
  <2>1. item.raw = NoPicture => item.loaded = NoFrame
    BY DEF ServiceInv, BufferOK
  <2>2. CASE ~stuck
    BY <1>9, <1>11, <2>1, <2>2 DEF BufferOK
  <2>3. CASE stuck
    <3>1. c = "loading" /\ item'.notAfter >= 0 /\ f >= item'.notAfter
      BY <1>1, <1>4, <1>5, <1>10, <1>11, <1>14, <2>3 DEF Thread
    <3>2. call[c].kind = "video" \/ item.statistics
      BY <1>2, <1>5 DEF ThreadOK
    <3>3. QED
      BY <1>7, <1>11, <2>1, <3>1, <3>2 DEF BufferOK, NotDecodable
  <2>4. QED
    BY <2>2, <2>3
<1>19. TroubleOK'
  <2>1. /\ TroubleOK /\ faults' = faults
        /\ \A t \in Thread : HasFailed(t)' => HasFailed(t)
    BY <1>2 DEF ServiceInv, HasFailed
  <2>2. CASE ~stuck
    BY <1>1, <1>2, <1>9, <1>11, <2>1, <2>2, TroubleKeeps
  <2>3. CASE stuck
    <3>1. Unavailable' = Unavailable /\ LastFrame' = LastFrame
      BY <1>2 DEF Unavailable, LastFrame, N, AnnexB
    <3>2. item'.notAfter = f /\ setup' = setup
      BY <1>2, <1>10, <1>11, <2>3
    <3>3. HasFailed(c) => faults < setup.faults
      BY <2>1 DEF TroubleOK
    <3>4. QED
      BY <1>13, <2>1, <2>3, <3>1, <3>2, <3>3 DEF TroubleOK
  <2>4. QED
    BY <2>2, <2>3
<1>20. c = "loading" => IdleOK'
  BY <1>7 DEF IdleOK
<1>21. QED
  BY <1>15, <1>16, <1>17, <1>18, <1>19, <1>20, StepKeeps

\* A picture is taken out and counted.
LEMMA RetrieveKeeps ==
    ASSUME ServiceAssumption, TypeInv, ServiceInv, NEW c \in Thread, Retrieve(c)
    PROVE  ServiceInv'
<1> DEFINE d == decodeNextFrame(dec[c])
           f == call[c].frame
           now == item.current[c] + 1
           right == d.ok /\ now = f
           b == IF right THEN Buffered(d) ELSE d
           k == Consumed(c)
<1>1. /\ setup \in Setup /\ Length(setup) \in Nat /\ LastFrame \in Nat /\ NoFrame = -1
      /\ dec[c] \in DecoderType(setup) /\ call[c] \in CallType(setup) /\ item \in ItemType(setup)
      /\ item.current \in [Thread -> -1..LastFrame] /\ item.current[c] \in -1..LastFrame
      /\ faults \in Nat
  <2>1. LastFrame = EndOf(setup)
    BY OfSetup
  <2>2. QED
    BY <2>1, ItemFacts, StreamFacts DEF TypeInv, ItemType
<1>2. /\ call[c].pc = "decode" /\ dec[c].state = "RetrieveFrames" /\ item.current[c] # f
      /\ UNCHANGED <<setup, engine, file, call, answer, faults>>
      /\ dec' = [dec EXCEPT ![c] = b]
      /\ item' =
            IF right
            THEN [item EXCEPT !.current[c] = now,
                    !.raw = getRawFrameData(d), !.rawIndex = now,
                    !.statFrame = IF c = "loading" /\ item.statistics THEN now ELSE @]
            ELSE IF d.ok THEN [item EXCEPT !.current[c] = now] ELSE item
  BY DEF Retrieve, Decoding
<1>3. f >= 0 /\ InUse(c) /\ now \in Nat
  BY <1>1, <1>2 DEF TypeInv, InUse
<1>4. /\ c \in setup.threads /\ ThreadOK(c) /\ OnTrack(c)
      /\ c = "loading" => (Shared => call["caching"].pc # "decode")
      /\ c = "caching" => Shared /\ call["loading"].pc = "idle" /\ ~item.statistics
      /\ Shared => item.repush = FALSE /\ item.notAfter = NoFrame
      /\ item.statistics => setup.statistics
  BY <1>2, <1>3, AtWork DEF ServiceInv
<1>5. k \in 0..Length(setup) /\ DecoderAt(setup, dec[c], k, now)
  BY <1>2, <1>3, <1>4, ConsumedType DEF OnTrack
<1> HIDE DEF k
<1>6. TakenAt(setup, d, dec[c], k, now)
  BY <1>1, <1>2, <1>3, <1>5, NextAt
<1>7. d \in DecoderType(setup) /\ Stays(d, dec[c])
  BY <1>1, NextType
<1> HIDE DEF d
<1>8. right => DecoderAt(setup, b, k, now + 1) /\ b.flushing = dec[c].flushing
               /\ b.state = "RetrieveFrames" /\ getRawFrameData(d) = f
  BY <1>1, <1>3, <1>5, <1>6, <1>7, BufferedAt DEF TakenAt
<1>9. /\ ~right /\ d.ok => DecoderAt(setup, b, k, now + 1)
      /\ ~d.ok => DecoderAt(setup, b, k, now)
      /\ ~right => b.flushing = dec[c].flushing /\ b.state # "Error"
  BY <1>2, <1>6, <1>7 DEF TakenAt, Stays
<1>10. /\ \A t \in Thread \ {c} : dec'[t] = dec[t] /\ item'.current[t] = item.current[t]
       /\ dec'[c] = b
       /\ item'.repush = item.repush /\ item'.notAfter = item.notAfter
       /\ item'.counter = item.counter /\ item'.loaded = item.loaded
       /\ item'.statistics = item.statistics
       /\ right => /\ item'.raw = getRawFrameData(d) /\ item'.rawIndex = f
                   /\ c = "loading" /\ item.statistics => item'.statFrame = f
       /\ ~right => item'.raw = item.raw /\ item'.rawIndex = item.rawIndex
       /\ d.ok => item'.current[c] = now
       /\ ~d.ok => item'.current[c] = item.current[c]
  <2> DEFINE cur == [item.current EXCEPT ![c] = now]
             stat == IF c = "loading" /\ item.statistics THEN now ELSE item.statFrame
  <2>1. cur[c] = now /\ \A t \in Thread \ {c} : cur[t] = item.current[t]
    BY <1>1
  <2>2. CASE right
    <3>1. item' = [item EXCEPT !.current = cur, !.raw = getRawFrameData(d), !.rawIndex = now,
                               !.statFrame = stat]
      BY <1>2, <2>2
    <3> HIDE DEF cur
    <3>2. QED
      BY <1>1, <1>2, <2>1, <2>2, <3>1 DEF ItemType, TypeInv
  <2>3. CASE ~right /\ d.ok
    <3>1. item' = [item EXCEPT !.current = cur]
      BY <1>2, <2>3
    <3> HIDE DEF cur
    <3>2. QED
      BY <1>1, <1>2, <2>1, <2>3, <3>1 DEF ItemType, TypeInv
  <2>4. CASE ~d.ok
    BY <1>1, <1>2, <2>4 DEF TypeInv
  <2>5. QED
    BY <2>2, <2>3, <2>4
<1> HIDE DEF b
<1>11. Steps(c)
  BY <1>2, <1>4, <1>10 DEF Steps
<1>12. OnTrack(c)'
  <2>1. Consumed(c)' = k
    BY <1>2, <1>8, <1>9, <1>10 DEF Consumed, AnnexB, k
  <2>2. DecoderAt(setup', dec'[c], Consumed(c)', item'.current[c] + 1)
    BY <1>2, <1>8, <1>9, <1>10, <2>1
  <2>3. /\ ~(AnnexB /\ engine = "FFMpeg") /\ item.repush /\ ~dec[c].flushing
        => file[c].pos > 0 /\ file[c].last = Unit(file[c].pos - 1)
    BY <1>2, <1>4 DEF OnTrack
  <2>4. dec'[c].flushing = dec[c].flushing
    BY <1>8, <1>9, <1>10
  <2> HIDE DEF Consumed
  <2>5. QED
    BY <1>2, <1>10, <2>2, <2>3, <2>4 DEF OnTrack, AnnexB, Unit
<1>13. item'.current[c] = f => right
  BY <1>2, <1>10
<1>14. ThreadOK(c)'
  <2>1. call'[c] = call[c] /\ call'[c].pc = "decode"
    BY <1>2
  <2>2. item'.current[c] = f =>
          /\ item'.raw = f /\ item'.rawIndex = f
          /\ item'.statistics => item'.statFrame = f
    BY <1>4, <1>8, <1>10, <1>13 DEF Thread
  <2>3. c = "loading" /\ call[c].kind = "video" => f # item'.loaded
    BY <1>2, <1>4, <1>10 DEF ThreadOK, DecodeOK
  <2>4. DecodeOK(c)' /\ ReplyOK(c)'
    BY <2>1, <2>2, <2>3 DEF DecodeOK, ReplyOK
  <2>5. QED
    BY <1>4, <1>10, <2>1, <2>4 DEF ThreadOK
<1>15. BufferOK'
  <2>1. CASE right
    <3>1. item'.raw = item'.rawIndex /\ item'.raw # NoPicture
      BY <1>3, <1>8, <1>10, <2>1 DEF NoPicture
    <3>2. QED
      BY <3>1 DEF BufferOK
  <2>2. CASE ~right
    <3>1. BufferOK /\ Shared' = Shared
      BY <1>2 DEF ServiceInv, Shared
    <3>2. c = "loading" => call["loading"].pc # "reply"
      BY <1>2
    <3>3. c # "loading" => Shared
      BY <1>4 DEF Thread
    <3>4. c = "loading" => call'["loading"].pc = "decode"
      BY <1>2
    <3>5. QED
      BY <1>2, <1>10, <2>2, <3>1, <3>2, <3>3, <3>4, BufferKeeps
  <2>3. QED
    BY <2>1, <2>2
<1>16. TroubleOK'
  <2>1. \A t \in Thread : HasFailed(t)' => HasFailed(t)
    <3>1. ~HasFailed(c)'
      BY <1>8, <1>9, <1>10 DEF HasFailed
    <3>2. QED
      BY <1>10, <3>1 DEF HasFailed
  <2>2. TroubleOK /\ faults' \in Nat /\ faults' <= faults
    BY <1>1, <1>2 DEF ServiceInv
  <2>3. QED
    BY <1>2, <1>10, <2>1, <2>2, TroubleKeeps
<1>17. c = "loading" => IdleOK'
  BY <1>2 DEF IdleOK
<1>18. QED
  BY <1>11, <1>12, <1>14, <1>15, <1>16, <1>17, StepKeeps

\* The file is read on, or its last unit is taken once more.
LEMMA ReadOn ==
    ASSUME setup \in Setup, NEW f \in FileType(setup), NEW again \in BOOLEAN,
           NEW flushing \in BOOLEAN, NEW k,
           k = IF again /\ ~flushing THEN f.pos - 1 ELSE f.pos,
           again /\ ~flushing => f.pos > 0 /\ f.last = Unit(f.pos - 1),
           flushing => k = Length(setup),
           NEW ok \in BOOLEAN, NEW after \in BOOLEAN,
           ~ok /\ after => k = Length(setup), k = Length(setup) => ok \/ after
    PROVE  /\ Data(f, again) = NextUnit(setup, k) \/ flushing
           /\ (IF ~ok /\ ~after THEN Read(f, again).pos - 1 ELSE Read(f, again).pos)
                 = IF ok /\ k < Length(setup) THEN k + 1 ELSE k
           /\ ~ok /\ ~after => /\ Read(f, again).pos > 0
                               /\ Read(f, again).last = Unit(Read(f, again).pos - 1)
<1> DEFINE o == Read(f, again)
<1>1. /\ N = Length(setup) /\ N \in Nat /\ f.pos \in 0..N
      /\ \A i : Unit(i) = UnitOf(setup, i)
  BY OfSetup, StreamFacts DEF FileType
<1>2. CASE again /\ flushing
  <2>1. o = f /\ k = f.pos /\ k = N
    BY <1>1, <1>2 DEF Read
  <2> HIDE DEF o
  <2>2. k \in 0..N /\ ~(k < N) /\ (ok \/ after)
    BY <1>1, <2>1
  <2>3. ~(~ok /\ ~after)
    BY <2>2
  <2>4. (IF ~ok /\ ~after THEN o.pos - 1 ELSE o.pos) = IF ok /\ k < N THEN k + 1 ELSE k
    BY <2>1, <2>2, <2>3
  <2>5. QED
    BY <1>1, <1>2, <2>3, <2>4 DEF o
<1>3. CASE again /\ ~flushing
  <2>1. /\ o = f /\ Data(f, again) = f.last /\ k = f.pos - 1 /\ f.pos > 0
        /\ f.last = Unit(f.pos - 1)
    BY <1>1, <1>3 DEF Read, Data
  <2>2. k < N /\ k \in 0..N /\ k # N /\ k + 1 = f.pos
    BY <1>1, <2>1
  <2>3. Data(f, again) = NextUnit(setup, k)
    BY <1>1, <2>1, <2>2 DEF NextUnit
  <2>4. ~ok => ~after
    BY <1>1, <2>2
  <2> HIDE DEF o
  <2>5. (IF ~ok /\ ~after THEN o.pos - 1 ELSE o.pos) = IF ok /\ k < N THEN k + 1 ELSE k
    BY <2>1, <2>2, <2>4
  <2>6. QED
    BY <1>1, <2>1, <2>3, <2>5 DEF o
<1>4. CASE ~again /\ f.pos < N
  <2>1. /\ o.pos = f.pos + 1 /\ o.last = Unit(f.pos)
        /\ Data(f, again) = Unit(f.pos) /\ k = f.pos
    BY <1>1, <1>4 DEF Read, Data, AtEnd
  <2>2. k < N /\ k \in 0..N /\ k # N /\ o.pos - 1 = k /\ o.pos > 0
    BY <1>1, <1>4, <2>1
  <2>3. Data(f, again) = NextUnit(setup, k)
    BY <1>1, <2>1, <2>2 DEF NextUnit
  <2>4. ~ok => ~after
    BY <1>1, <2>2
  <2> HIDE DEF o
  <2>5. (IF ~ok /\ ~after THEN o.pos - 1 ELSE o.pos) = IF ok /\ k < N THEN k + 1 ELSE k
    BY <2>1, <2>2, <2>4
  <2>6. QED
    BY <1>1, <2>1, <2>2, <2>3, <2>5 DEF o
<1>5. CASE ~again /\ ~(f.pos < N)
  <2>1. f.pos = N /\ k = N /\ AtEnd(f) /\ ~(k < N)
    BY <1>1, <1>5 DEF AtEnd
  <2>2. o.pos = f.pos /\ Data(f, again) = EmptyData
    <3>1. o = f \/ o = [f EXCEPT !.last = EmptyData]
      BY <1>5, <2>1 DEF Read
    <3>2. QED
      BY <1>5, <2>1, <3>1 DEF FileType, Data
  <2>3. Data(f, again) = NextUnit(setup, k)
    BY <1>1, <2>1, <2>2 DEF NextUnit
  <2>4. ~(~ok /\ ~after)
    BY <1>1, <2>1
  <2> HIDE DEF o
  <2>5. (IF ~ok /\ ~after THEN o.pos - 1 ELSE o.pos) = IF ok /\ k < N THEN k + 1 ELSE k
    BY <2>1, <2>2, <2>4
  <2>6. QED
    BY <1>1, <2>3, <2>4, <2>5 DEF o
<1>6. QED
  BY <1>2, <1>3, <1>4, <1>5

\* What is pushed next.
LEMMA DataOn ==
    ASSUME setup \in Setup, NEW f \in FileType(setup), NEW again \in BOOLEAN,
           NEW flushing \in BOOLEAN, NEW k,
           k = IF again /\ ~flushing THEN f.pos - 1 ELSE f.pos,
           again /\ ~flushing => f.pos > 0 /\ f.last = Unit(f.pos - 1),
           flushing => k = Length(setup)
    PROVE  Data(f, again) = NextUnit(setup, k) \/ flushing
<1>1. PICK ok \in BOOLEAN : ok
  BY TypedValues
<1>2. QED
  BY <1>1, ReadOn

\* The decoder of a thread on its track, after it was given the next unit.
LEMMA PushedWell ==
    ASSUME ServiceAssumption, TypeInv, ServiceInv, NEW c \in Thread,
           call[c].pc = "decode", dec[c].state = "NeedsMoreData",
           NEW u \in Material(setup), u = NextUnit(setup, Consumed(c)) \/ dec[c].flushing,
           NEW d \in MayFail(pushData(dec[c], u))
    PROVE  /\ d \in DecoderType(setup) /\ d.engine = engine
           /\ \/ d.state = "Error" /\ ~d.ok /\ faults > 0
              \/ d.state # "Error" /\ PushedAt(setup, d, Consumed(c), item.current[c] + 1)
<1> DEFINE k == Consumed(c)
           e == item.current[c] + 1
<1>1. /\ InUse(c) /\ setup \in Setup /\ dec[c] \in DecoderType(setup)
      /\ dec[c].engine = engine /\ engine \in setup.engines
      /\ item.current[c] \in -1..LastFrame /\ LastFrame \in Nat
  BY ItemFacts DEF TypeInv, InUse
<1>2. OnTrack(c)
  BY <1>1, AtWork DEF ServiceInv
<1>3. k \in 0..Length(setup) /\ DecoderAt(setup, dec[c], k, e) /\ e \in Nat
  BY <1>1, <1>2, ConsumedType DEF OnTrack
<1> HIDE DEF k, e
<1>4. PushedAt(setup, pushData(dec[c], u), k, e)
  BY <1>1, <1>3, PushAt DEF k
<1>5. QED
  BY <1>4, PushedType DEF k, e

\* A thread has pushed data; `d' is its decoder afterwards.
LEMMA PushDone ==
    ASSUME ServiceAssumption, TypeInv, ServiceInv, NEW c \in Thread,
           call[c].pc = "decode", setup' = setup, engine' = engine,
           NEW d \in DecoderType(setup), dec' = [dec EXCEPT ![c] = d],
           faults' = FaultsAfter(d.state = "Error"),
           \/ d.state = "Error" /\ faults > 0
           \/ d.state # "Error" /\ PushedAt(setup, d, Consumed(c), item.current[c] + 1),
           \A t \in Thread \ {c} : file'[t] = file[t] /\ call'[t] = call[t],
           item'.current = item.current, item'.raw = item.raw, item'.rawIndex = item.rawIndex,
           item'.loaded = item.loaded, item'.statistics = item.statistics,
           item'.statFrame = item.statFrame,
           Shared => item'.repush = FALSE /\ item'.notAfter = NoFrame,
           item'.notAfter = item.notAfter \/ d.state = "Error",
           d.state \in {"NeedsMoreData", "RetrieveFrames"} =>
                Consumed(c)' = IF d.ok /\ Consumed(c) < Length(setup)
                               THEN Consumed(c) + 1 ELSE Consumed(c),
           ~(AnnexB /\ engine = "FFMpeg") /\ item'.repush /\ ~d.flushing
                /\ d.state \in {"NeedsMoreData", "RetrieveFrames"}
                => file'[c].pos > 0 /\ file'[c].last = Unit(file'[c].pos - 1),
           \/ call'[c] = call[c]
           \/ /\ d.state = "Error" /\ call'[c].pc = "reply" /\ ~item.statistics
              /\ call'[c].kind = call[c].kind /\ call'[c].frame = call[c].frame
    PROVE  ServiceInv'
<1> DEFINE k == Consumed(c)
           e == item.current[c] + 1
<1>1. /\ InUse(c) /\ faults \in Nat /\ call[c].frame >= 0
      /\ dec'[c] = d /\ \A t \in Thread \ {c} : dec'[t] = dec[t]
  BY DEF TypeInv, InUse
<1>2. /\ c \in setup.threads /\ ThreadOK(c) /\ OnTrack(c)
      /\ c = "loading" => (Shared => call["caching"].pc # "decode")
      /\ c = "caching" => Shared /\ call["loading"].pc = "idle"
      /\ item.statistics => setup.statistics
  BY <1>1, AtWork DEF ServiceInv
<1>3. Shared => d.state # "Error"
  BY NoFailure DEF ServiceInv
<1>4. Steps(c)
  BY <1>1, <1>2 DEF Steps
<1>5. OnTrack(c)'
  <2>1. DecoderAt(setup, d, Consumed(c)', e)
    <3>1. CASE d.state = "Error"
      BY <3>1 DEF DecoderAt
    <3>2. CASE d.state # "Error" /\ d.state \in {"NeedsMoreData", "RetrieveFrames"}
      BY <3>2 DEF PushedAt
    <3>3. CASE d.state # "Error" /\ d.state \notin {"NeedsMoreData", "RetrieveFrames"}
      <4>1. d.state = "EndOfBitstream" => Over(setup, d.engine, e)
        BY <3>3 DEF PushedAt, DecoderAt
      <4>2. QED
        BY <3>3, <4>1 DEF DecoderAt
    <3>4. QED
      BY <3>1, <3>2, <3>3
  <2>2. DecoderAt(setup', dec'[c], Consumed(c)', item'.current[c] + 1)
    BY <1>1, <2>1
  <2> HIDE DEF Consumed
  <2>3. QED
    BY <1>1, <2>2 DEF OnTrack, AnnexB, Unit
<1>6. ThreadOK(c)'
  <2>1. CASE call'[c] = call[c]
    BY <1>2, <2>1 DEF ThreadOK, DecodeOK, ReplyOK
  <2>2. CASE d.state = "Error" /\ call'[c].pc = "reply"
    <3>1. c = "loading"
      BY <1>2, <1>3, <2>2 DEF Thread
    <3>2. call'[c].kind = call[c].kind /\ call'[c].frame = call[c].frame
      BY <2>2
    <3>3. HasFailed(c)'
      BY <1>1, <2>2 DEF HasFailed
    <3>4. c = "loading" /\ call[c].kind = "video" => call[c].frame # item.loaded
      BY <1>2 DEF ThreadOK, DecodeOK
    <3>5. DecodeOK(c)' /\ ReplyOK(c)'
      BY <1>1, <2>2, <3>1, <3>2, <3>3, <3>4 DEF DecodeOK, ReplyOK
    <3>6. QED
      BY <1>2, <2>2, <3>2, <3>5 DEF ThreadOK
  <2>3. QED
    BY <2>1, <2>2
<1>7. BufferOK'
  <2>1. Shared \/ call["loading"].pc # "reply"
    BY <1>2 DEF Thread
  <2>2. Shared \/ ~item.statistics \/ (item'.statistics /\ call'["loading"].pc = "decode")
    BY <1>2 DEF Thread
  <2>3. QED
    BY <2>1, <2>2, BufferKeeps DEF ServiceInv
<1>8. TroubleOK'
  <2>1. faults' \in Nat /\ faults' <= faults /\ (d.state = "Error" => faults' < faults)
    BY <1>1 DEF FaultsAfter
  <2>2. \A t \in Thread : HasFailed(t)' => HasFailed(t) \/ faults' < faults
    BY <1>1, <2>1 DEF HasFailed
  <2>3. QED
    BY <2>1, <2>2, TroubleKeeps DEF ServiceInv
<1>9. c = "loading" => IdleOK'
  BY DEF IdleOK
<1>10. QED
  BY <1>4, <1>5, <1>6, <1>7, <1>8, <1>9, StepKeeps

\* The next unit of the file is pushed, which `reads' the file on.
LEMMA PushRead ==
    ASSUME ServiceAssumption, TypeInv, ServiceInv, NEW c \in Thread,
           call[c].pc = "decode", dec[c].state = "NeedsMoreData", setup' = setup, engine' = engine,
           ~(AnnexB /\ engine = "FFMpeg"),
           NEW d \in MayFail(pushData(dec[c], Data(file[c], item.repush))),
           dec' = [dec EXCEPT ![c] = d], file' = [file EXCEPT ![c] = Read(@, item.repush)],
           faults' = FaultsAfter(d.state = "Error"),
           NEW again \in BOOLEAN, d.state # "Error" => again = ~d.ok, Shared => ~again,
           item' = [item EXCEPT !.repush = again],
           \A t \in Thread \ {c} : call'[t] = call[t],
           \/ call'[c] = call[c]
           \/ /\ d.state = "Error" /\ call'[c].pc = "reply" /\ ~item.statistics
              /\ call'[c].kind = call[c].kind /\ call'[c].frame = call[c].frame
    PROVE  ServiceInv'
<1> DEFINE k == Consumed(c)
           u == Data(file[c], item.repush)
<1>1. /\ InUse(c) /\ setup \in Setup /\ dec[c] \in DecoderType(setup) /\ file[c] \in FileType(setup)
      /\ item \in ItemType(setup) /\ item.repush \in BOOLEAN /\ dec[c].flushing \in BOOLEAN
      /\ Length(setup) \in Nat
  BY ItemFacts, StreamFacts DEF TypeInv, InUse, ItemType, DecoderType
<1>2. OnTrack(c) /\ (Shared => item.repush = FALSE /\ item.notAfter = NoFrame)
  BY <1>1, AtWork DEF ServiceInv
<1>3. k \in 0..Length(setup)
  BY <1>1, <1>2, ConsumedType
<1>4. k = IF item.repush /\ ~dec[c].flushing THEN file[c].pos - 1 ELSE file[c].pos
  BY DEF Consumed
<1>5. dec[c].flushing => k = Length(setup)
  BY <1>2 DEF OnTrack, DecoderAt
<1>6. item.repush /\ ~dec[c].flushing => file[c].pos > 0 /\ file[c].last = Unit(file[c].pos - 1)
  BY <1>2 DEF OnTrack
<1>7. u \in Material(setup)
  BY <1>1, ReadType
<1>8. u = NextUnit(setup, k) \/ dec[c].flushing
  BY <1>1, <1>4, <1>5, <1>6, DataOn
<1> HIDE DEF u, k
<1>9. /\ d \in DecoderType(setup)
      /\ \/ d.state = "Error" /\ ~d.ok /\ faults > 0
         \/ d.state # "Error" /\ PushedAt(setup, d, k, item.current[c] + 1)
  BY <1>7, <1>8, PushedWell DEF u, k
<1>10. /\ item'.current = item.current /\ item'.raw = item.raw /\ item'.rawIndex = item.rawIndex
       /\ item'.loaded = item.loaded /\ item'.statistics = item.statistics
       /\ item'.statFrame = item.statFrame /\ item'.notAfter = item.notAfter
       /\ item'.repush = again /\ item'.counter = item.counter
  BY <1>1 DEF ItemType
<1>11. /\ dec'[c] = d /\ file'[c] = Read(file[c], item.repush)
       /\ \A t \in Thread \ {c} : file'[t] = file[t]
       /\ d.ok \in BOOLEAN /\ d.flushing \in BOOLEAN
  BY <1>9 DEF TypeInv, DecoderType
<1>12. ASSUME d.state \in {"NeedsMoreData", "RetrieveFrames"}
       PROVE  /\ Consumed(c)' = IF d.ok /\ k < Length(setup) THEN k + 1 ELSE k
              /\ item'.repush /\ ~d.flushing =>
                    file'[c].pos > 0 /\ file'[c].last = Unit(file'[c].pos - 1)
  <2>1. d.state # "Error" /\ PushedAt(setup, d, k, item.current[c] + 1) /\ again = ~d.ok
    BY <1>9, <1>12
  <2>2. k = Length(setup) => d.ok \/ d.flushing
    BY <2>1 DEF PushedAt
  <2>3. ~d.ok /\ d.flushing => k = Length(setup)
    BY <1>12, <2>1 DEF PushedAt, DecoderAt
  <2>4. /\ (IF ~d.ok /\ ~d.flushing THEN file'[c].pos - 1 ELSE file'[c].pos)
                 = IF d.ok /\ k < Length(setup) THEN k + 1 ELSE k
        /\ ~d.ok /\ ~d.flushing => /\ file'[c].pos > 0
                                   /\ file'[c].last = Unit(file'[c].pos - 1)
    BY <1>1, <1>4, <1>5, <1>6, <1>11, <2>2, <2>3, ReadOn
  <2>5. Consumed(c)' = IF ~d.ok /\ ~d.flushing THEN file'[c].pos - 1 ELSE file'[c].pos
    <3>1. Consumed(c)' = IF item'.repush /\ ~dec'[c].flushing THEN file'[c].pos - 1 ELSE file'[c].pos
      BY DEF Consumed, AnnexB
    <3>2. (item'.repush /\ ~dec'[c].flushing) <=> (~d.ok /\ ~d.flushing)
      BY <1>10, <1>11, <2>1
    <3>3. CASE ~d.ok /\ ~d.flushing
      BY <3>1, <3>2, <3>3
    <3>4. CASE ~(~d.ok /\ ~d.flushing)
      BY <3>1, <3>2, <3>4
    <3>5. QED
      BY <3>3, <3>4
  <2>6. QED
    BY <1>10, <1>11, <2>1, <2>4, <2>5
<1>13. Shared => item'.repush = FALSE /\ item'.notAfter = NoFrame
  BY <1>2, <1>10
<1>14. QED
  BY <1>9, <1>10, <1>11, <1>12, <1>13, PushDone DEF k

\* Pushing keeps the invariant.
LEMMA PushKeeps ==
    ASSUME ServiceAssumption, TypeInv, ServiceInv, NEW c \in Thread, Push(c)
    PROVE  ServiceInv'
<1>1. /\ call[c].pc = "decode" /\ dec[c].state = "NeedsMoreData"
      /\ setup' = setup /\ engine' = engine
  BY DEF Push, Decoding
<1>2. /\ InUse(c) /\ setup \in Setup /\ dec[c] \in DecoderType(setup) /\ dec[c].engine = engine
      /\ item \in ItemType(setup) /\ call[c] \in CallType(setup) /\ item.repush \in BOOLEAN
      /\ item.raw \in Int /\ N = Length(setup) /\ N \in Nat
      /\ \A i : Unit(i) = UnitOf(setup, i)
  BY <1>1, ItemFacts, OfSetup DEF TypeInv, InUse, ItemType
<1>3. OnTrack(c) /\ (Shared => item.repush = FALSE /\ item.notAfter = NoFrame)
  BY <1>1, <1>2, AtWork DEF ServiceInv
<1>4. Consumed(c) \in 0..Length(setup) /\ (dec[c].flushing => Consumed(c) = Length(setup))
  BY <1>1, <1>2, <1>3, ConsumedType DEF OnTrack, DecoderAt
<1>5. CASE PushPacket(c)
  <2>1. PICK d \in MayFail(pushData(dec[c], Data(file[c], item.repush))) :
          LET stop == ~d.ok /\ d.state # "RetrieveFrames"
          IN  /\ dec' = [dec EXCEPT ![c] = d]
              /\ file' = [file EXCEPT ![c] = Read(@, item.repush)]
              /\ item' = [item EXCEPT !.repush = ~d.ok /\ ~stop]
              /\ call' = IF stop THEN [call EXCEPT ![c].pc = "reply", ![c].copy = item.raw] ELSE call
              /\ faults' = FaultsAfter(d.state = "Error")
    BY <1>5 DEF PushPacket
  <2> DEFINE stop == ~d.ok /\ d.state # "RetrieveFrames"
             again == ~d.ok /\ ~stop
  <2>2. engine = "FFMpeg" /\ ~AnnexB /\ ~Shared
    BY <1>5, SetupFacts DEF PushPacket
  <2>3. /\ d.engine = engine
        /\ d.state # "Error" => PushedAt(setup, d, Consumed(c), item.current[c] + 1)
        /\ d.state = "Error" => faults > 0
    <3>1. Data(file[c], item.repush) \in Material(setup)
      BY <1>2, ItemFacts, ReadType
    <3>2. Data(file[c], item.repush) = NextUnit(setup, Consumed(c)) \/ dec[c].flushing
      <4>1. Consumed(c) = IF item.repush /\ ~dec[c].flushing THEN file[c].pos - 1 ELSE file[c].pos
        BY <2>2 DEF Consumed
      <4>2. item.repush /\ ~dec[c].flushing => file[c].pos > 0 /\ file[c].last = Unit(file[c].pos - 1)
        BY <1>1, <1>3, <2>2 DEF OnTrack
      <4>3. dec[c].flushing \in BOOLEAN /\ file[c] \in FileType(setup)
        BY <1>2, ItemFacts DEF DecoderType
      <4> HIDE DEF Consumed
      <4>4. QED
        BY <1>2, <1>4, <4>1, <4>2, <4>3, DataOn
    <3> HIDE DEF Consumed
    <3>3. QED
      BY <1>1, <3>1, <3>2, PushedWell
  <2>4. stop => d.state = "Error"
    BY <2>2, <2>3 DEF PushedAt
  <2>5. d.state # "Error" => again = ~d.ok
    BY <2>4
  <2>6. \A t \in Thread \ {c} : call'[t] = call[t]
    BY <2>1 DEF TypeInv
  <2>7. \/ call'[c] = call[c]
        \/ /\ d.state = "Error" /\ call'[c].pc = "reply" /\ ~item.statistics
           /\ call'[c].kind = call[c].kind /\ call'[c].frame = call[c].frame
    <3>1. CASE ~stop
      BY <2>1, <3>1
    <3>2. CASE stop
      <4>1. call'[c] = [call[c] EXCEPT !.pc = "reply", !.copy = item.raw]
        BY <2>1, <3>2 DEF TypeInv
      <4>2. faults > 0
        BY <2>3, <2>4, <3>2
      <4>3. ~item.statistics
        BY <2>2, <4>2, NoFailureShown
      <4>4. QED
        BY <1>2, <2>4, <3>2, <4>1, <4>3 DEF CallType
    <3>3. QED
      BY <3>1, <3>2
  <2>8. again \in BOOLEAN
    OBVIOUS
  <2>9. item' = [item EXCEPT !.repush = again]
    BY <2>1
  <2> HIDE DEF again, stop
  <2>10. QED
    BY <1>1, <2>1, <2>2, <2>5, <2>6, <2>7, <2>8, <2>9, PushRead
<1>6. CASE PushUnit(c)
  <2>1. PICK d \in MayFail(pushData(dec[c], Data(file[c], item.repush))) :
              /\ dec' = [dec EXCEPT ![c] = d]
              /\ item' = [item EXCEPT !.repush = ~d.ok]
              /\ faults' = FaultsAfter(d.state = "Error")
    BY <1>6 DEF PushUnit
  <2>2. file' = [file EXCEPT ![c] = Read(@, item.repush)] /\ call' = call /\ engine # "FFMpeg"
    BY <1>6 DEF PushUnit
  <2> DEFINE again == ~d.ok
  <2>3. Shared => ~again
    <3>1. SUFFICES ASSUME Shared PROVE d.ok
      OBVIOUS
    <3>2. engine \in {"Libde265", "VVDec"} /\ faults = 0 /\ AnnexB /\ ~item.repush
      BY <1>3, <3>1, SetupFacts, NoFailure DEF ServiceInv
    <3>3. Data(file[c], item.repush) \in Material(setup)
      BY <1>2, ItemFacts, ReadType
    <3>4. Data(file[c], item.repush) = NextUnit(setup, Consumed(c))
      <4>1. Consumed(c) = file[c].pos /\ file[c].pos \in 0..N
        BY <1>2, <2>2, <3>2, ItemFacts DEF Consumed, FileType
      <4>2. QED
        BY <1>2, <3>2, <4>1 DEF Data, AtEnd, NextUnit
    <3>5. d.state # "Error" /\ d.engine = engine
          /\ PushedAt(setup, d, Consumed(c), item.current[c] + 1)
      BY <1>1, <3>2, <3>3, <3>4, PushedWell
    <3>6. QED
      BY <3>2, <3>5 DEF PushedAt
  <2>4. again \in BOOLEAN /\ (d.state # "Error" => again = ~d.ok)
    OBVIOUS
  <2>5. item' = [item EXCEPT !.repush = again]
    BY <2>1
  <2> HIDE DEF again
  <2>6. QED
    BY <1>1, <2>1, <2>2, <2>3, <2>4, <2>5, PushRead
<1>7. CASE PushPicture(c)
  <2> DEFINE u == IF item.counter >= N THEN EmptyData ELSE Unit(item.counter)
             k == Consumed(c)
  <2>1. PICK d \in MayFail(pushData(dec[c], u)) :
            /\ dec' = [dec EXCEPT ![c] = d]
            /\ item' = [item EXCEPT
                 !.counter = IF d.ok THEN @ + 1 ELSE @,
                 !.notAfter = IF ~d.ok /\ d.state # "RetrieveFrames" THEN call[c].frame ELSE @]
            /\ faults' = FaultsAfter(d.state = "Error")
    BY <1>7 DEF PushPicture
  <2>2. file' = file /\ call' = call /\ engine = "FFMpeg" /\ AnnexB /\ ~Shared
    BY <1>7, SetupFacts DEF PushPicture
  <2>3. k = item.counter /\ k \in 0..Length(setup)
    BY <1>4, <2>2 DEF Consumed
  <2> HIDE DEF k
  <2>4. u = NextUnit(setup, k)
    BY <1>2, <2>3 DEF NextUnit
  <2>5. u \in Material(setup)
    BY <1>2, <2>3, <2>4, NextUnitFacts
  <2> HIDE DEF u
  <2>6. /\ d \in DecoderType(setup) /\ d.engine = engine
        /\ \/ d.state = "Error" /\ faults > 0
           \/ d.state # "Error" /\ PushedAt(setup, d, Consumed(c), item.current[c] + 1)
    BY <1>1, <2>1, <2>4, <2>5, PushedWell DEF k
  <2>7. d.state # "Error" => d.ok \/ d.state = "RetrieveFrames"
    BY <2>2, <2>6 DEF PushedAt
  <2>8. /\ item'.current = item.current /\ item'.raw = item.raw /\ item'.rawIndex = item.rawIndex
        /\ item'.loaded = item.loaded /\ item'.statistics = item.statistics
        /\ item'.statFrame = item.statFrame /\ item'.repush = item.repush
        /\ item'.counter = IF d.ok THEN item.counter + 1 ELSE item.counter
        /\ item'.notAfter = item.notAfter \/ d.state = "Error"
    BY <1>2, <2>1, <2>7 DEF ItemType
  <2>9. item'.counter \in -1..Length(setup)
    <3>1. TypeInv'
      BY PushStepType
    <3>2. QED
      BY <1>1, <3>1 DEF TypeInv, ItemType
  <2>10. Consumed(c)' = IF d.ok /\ k < Length(setup) THEN k + 1 ELSE k
    <3>1. Consumed(c)' = item'.counter
      BY <1>1, <2>2 DEF Consumed, AnnexB
    <3>2. d.ok => k < Length(setup)
      BY <1>2, <2>3, <2>8, <2>9
    <3>3. CASE d.ok
      BY <2>3, <2>8, <3>1, <3>2, <3>3
    <3>4. CASE ~d.ok
      BY <2>3, <2>8, <3>1, <3>4
    <3>5. QED
      BY <3>3, <3>4
  <2>11. QED
    BY <1>1, <2>1, <2>2, <2>6, <2>8, <2>10, PushDone DEF k
<1>8. QED
  BY <1>5, <1>6, <1>7 DEF Push

\* After a seek the decoder starts where the item begins to count.
LEMMA SeekAt ==
    ASSUME ServiceAssumption, TypeInv, NEW c \in Thread, NEW f \in 0..LastFrame,
           Primed(dec[c]).state # "Error"
    PROVE  DecoderAt(setup, Primed(dec[c]),
                     IF AnnexB /\ engine = "FFMpeg" THEN SeekFrame(f) ELSE SeekPosition(SeekFrame(f)),
                     SeekFrame(f))
<1>1. /\ setup \in Setup /\ engine \in setup.engines /\ dec[c] \in DecoderType(setup)
      /\ N = Length(setup) /\ N \in Nat
  BY ItemFacts, OfSetup DEF TypeInv
<1>2. PICK e \in 0..(N - 1) :
        /\ e = SeekFrame(f) /\ e <= f
        /\ AnnexB => e \in setup.random /\ SeekPosition(e) = Position(setup, e)
        /\ ~AnnexB => setup.coding[e + 1] \in setup.random /\ SeekPosition(e) = e
  BY <1>1, SeekFacts
<1>3. setup.format = "FFmpeg" \/ "FFMpeg" \in setup.engines =>
        \A i \in 1..N : setup.coding[i] \in setup.random => setup.coding[i] = i - 1
  BY <1>1 DEF ServiceAssumption, Countable
<1>4. setup.format \in {"AnnexB", "FFmpeg"}
  BY <1>1, CompressedAssumption
<1>5. Position(setup, e) \in 0..(N - 1) /\ setup.coding[Position(setup, e) + 1] = e
      /\ Position(setup, setup.coding[e + 1]) = e
  BY <1>1, <1>2, PositionFacts
<1>6. /\ e \in setup.random
      /\ Position(setup, e) = IF AnnexB /\ engine = "FFMpeg" THEN e ELSE SeekPosition(e)
  <2>1. CASE AnnexB /\ engine = "FFMpeg"
    <3>1. PICK i \in 1..N : i = Position(setup, e) + 1
      BY <1>1, <1>5
    <3>2. setup.coding[i] = e /\ e \in setup.random /\ "FFMpeg" \in setup.engines
      BY <1>1, <1>2, <1>5, <2>1, <3>1
    <3>3. e = i - 1
      BY <1>3, <3>2
    <3>4. QED
      BY <1>1, <1>5, <2>1, <3>1, <3>2, <3>3
  <2>2. CASE AnnexB /\ engine # "FFMpeg"
    BY <1>2, <2>2
  <2>3. CASE ~AnnexB
    <3>1. PICK i \in 1..N : i = e + 1
      BY <1>1, <1>2
    <3>2. setup.coding[i] \in setup.random /\ setup.format = "FFmpeg"
      BY <1>2, <1>4, <2>3, <3>1 DEF AnnexB
    <3>3. setup.coding[i] = i - 1
      BY <1>3, <3>2
    <3>4. setup.coding[e + 1] = e
      BY <1>1, <1>2, <3>1, <3>3
    <3>5. QED
      BY <1>2, <1>5, <2>3, <3>1, <3>2, <3>4
  <2>4. QED
    BY <2>1, <2>2, <2>3
<1>7. DecoderAt(setup, Primed(dec[c]), Position(setup, e), e)
  BY <1>1, <1>2, <1>6, PrimedAt
<1>8. QED
  BY <1>2, <1>6, <1>7

\* The picture of f and its statistics are already there; statistics are asked for before
\* anything has been decoded.
BufferHas(f, it) ==
    /\ item.raw = f /\ item.rawIndex = f
    /\ it.statistics => item.statFrame = f
NothingYet(c, kind, f, it) ==
    /\ c = "loading" /\ kind = "statistics"
    /\ f = NoFrame /\ it.current[c] = NoFrame /\ item.loaded = NoFrame

\* A thread makes a request, with the members `it'.
Asks(c, kind, f, it) ==
    /\ c \in setup.threads /\ call[c] = Idle /\ setup' = setup /\ engine' = engine
    /\ Members(it, c) /\ Request(c, kind, f, it)
    /\ it.raw = item.raw /\ it.rawIndex = item.rawIndex /\ it.loaded = item.loaded
    /\ it.notAfter = item.notAfter /\ it.repush = item.repush /\ it.statFrame = item.statFrame
    /\ (item.statistics => it.statistics) /\ (it.statistics => setup.statistics)
    /\ IF Ignored(it, c, f) THEN HasFailed(c) \/ NothingYet(c, kind, f, it)
       ELSE f # it.current[c] \/ BufferHas(f, it)
    /\ c = "loading" /\ kind = "video" => f # item.loaded /\ f >= 0
    /\ kind = "statistics" => c = "loading" /\ it.statistics
    /\ c = "caching" => call["loading"].pc = "idle"
    /\ c = "loading" => (Shared => call["caching"].pc # "decode")

\* A request, with its seek, keeps the invariant.
LEMMA RequestKeeps ==
    ASSUME ServiceAssumption, TypeInv, ServiceInv, NEW c \in Thread,
           NEW kind \in {"video", "statistics"}, NEW f \in -1..LastFrame, NEW it,
           Asks(c, kind, f, it)
    PROVE  ServiceInv'
<1>1. /\ c \in setup.threads /\ call[c] = Idle /\ setup' = setup /\ engine' = engine
      /\ it \in ItemType(setup) /\ it.counter = item.counter
      /\ it.current[c] \in {item.current[c], NoFrame}
      /\ \A t \in Thread \ {c} : it.current[t] = item.current[t]
      /\ it.raw = item.raw /\ it.rawIndex = item.rawIndex /\ it.loaded = item.loaded
      /\ it.notAfter = item.notAfter /\ it.repush = item.repush /\ it.statFrame = item.statFrame
      /\ (item.statistics => it.statistics) /\ (it.statistics => setup.statistics)
      /\ Ignored(it, c, f) => HasFailed(c) \/ NothingYet(c, kind, f, it)
      /\ ~Ignored(it, c, f) => f # it.current[c] \/ BufferHas(f, it)
      /\ c = "loading" /\ kind = "video" => f # item.loaded /\ f >= 0
      /\ kind = "statistics" => c = "loading" /\ it.statistics
      /\ c = "caching" => call["loading"].pc = "idle"
      /\ c = "loading" => (Shared => call["caching"].pc # "decode")
      /\ Request(c, kind, f, it)
  BY DEF Asks, Members
<1>2. /\ setup \in Setup /\ dec[c] \in DecoderType(setup) /\ dec[c].engine = engine
      /\ N = Length(setup) /\ N \in Nat /\ LastFrame \in Nat /\ NoFrame = -1
      /\ faults \in Nat /\ item.repush \in BOOLEAN
  BY ItemFacts, OfSetup DEF TypeInv, ItemType
<1>3. /\ Shared => ~HasFailed(c) /\ item.repush = FALSE /\ item.notAfter = NoFrame
      /\ Idle.pc = "idle" /\ Idle.kind = "none"
      /\ BufferOK /\ TroubleOK /\ (c # "loading" => Shared)
      /\ item.statistics \in BOOLEAN
  <2>1. Shared => ~HasFailed(c)
    BY NoFailure DEF ServiceInv
  <2>2. QED
    BY <1>1, <1>2, <2>1, ItemFacts DEF ServiceInv, SharedOK, Idle, Shared, Thread, ItemType
<1>4. Shared \/ call["loading"].pc # "reply"
  BY <1>1, <1>3
<1>5. CASE Ignored(it, c, f)
  <2> DEFINE r == [kind |-> kind, frame |-> f, pc |-> "reply", copy |-> it.raw]
  <2>1. /\ call' = [call EXCEPT ![c] = r] /\ item' = it /\ UNCHANGED <<dec, file, faults>>
    BY <1>1, <1>5 DEF Request
  <2>2. call'[c] = r /\ \A t \in Thread \ {c} : call'[t] = call[t]
    BY <2>1 DEF TypeInv
  <2>3. (HasFailed(c) \/ NothingYet(c, kind, f, it)) /\ c = "loading"
    BY <1>1, <1>3, <1>5 DEF NothingYet
  <2>4. Steps(c)
    BY <1>1, <1>3, <2>1, <2>2 DEF Steps
  <2>5. InUse(c)' => OnTrack(c)'
    <3>1. CASE HasFailed(c)
      BY <2>1, <3>1 DEF OnTrack, DecoderAt, HasFailed
    <3>2. CASE NothingYet(c, kind, f, it)
      BY <2>1, <2>2, <3>2 DEF NothingYet, InUse
    <3>3. QED
      BY <2>3, <3>1, <3>2
  <2>6. ThreadOK(c)'
    <3>1. r.pc = "reply" /\ r.kind = kind /\ r.frame = f
      OBVIOUS
    <3> HIDE DEF r
    <3>2. DecodeOK(c)'
      BY <2>2, <3>1 DEF DecodeOK
    <3>3. ~HasFailed(c) => AtFrame' /\ item'.current[c] = f /\ kind = "statistics"
      BY <1>1, <2>1, <2>3 DEF NothingYet, AtFrame
    <3>4. ReplyOK(c)'
      BY <1>1, <2>1, <2>2, <2>3, <3>1, <3>3 DEF ReplyOK, HasFailed
    <3>5. QED
      BY <1>1, <2>1, <2>2, <3>1, <3>2, <3>4 DEF ThreadOK
  <2>7. BufferOK'
    <3>1. call["loading"].pc # "decode" \/ Shared
      BY <1>1, <1>3
    <3>2. \/ Shared \/ ~item.statistics
          \/ item'.statistics /\ call["loading"].pc # "decode" /\ item'.notAfter = item.notAfter
      BY <1>1, <2>1, <3>1
    <3>3. QED
      BY <1>1, <1>3, <1>4, <2>1, <3>2, BufferKeeps
  <2>8. TroubleOK'
    <3>1. \A t \in Thread : HasFailed(t)' => HasFailed(t)
      BY <2>1 DEF HasFailed
    <3>2. faults' \in Nat /\ faults' <= faults /\ item'.notAfter = item.notAfter
      BY <1>1, <1>2, <2>1
    <3>3. QED
      BY <1>1, <1>3, <3>1, <3>2, TroubleKeeps
  <2>9. IdleOK'
    BY <2>2, <2>3 DEF IdleOK
  <2>10. QED
    BY <2>4, <2>5, <2>6, <2>7, <2>8, <2>9, StepKeeps
<1>6. CASE ~Ignored(it, c, f)
  <2> DEFINE r == [Idle EXCEPT !.kind = kind, !.frame = f, !.pc = "decode"]
             p == Primed(dec[c])
             e == SeekFrame(f)
  <2>1. /\ call' = [call EXCEPT ![c] = r] /\ f \in 0..LastFrame
        /\ IF MustSeek(it, c, f)
           THEN \E d \in MayFail(p) :
                    /\ dec' = [dec EXCEPT ![c] = d]
                    /\ file' = [file EXCEPT ![c].pos = SeekPosition(e)]
                    /\ item' = Sought(it, c, e, d)
                    /\ faults' = FaultsAfter(d # p)
           ELSE item' = it /\ UNCHANGED <<dec, file, faults>>
    BY <1>1, <1>2, <1>6 DEF Request, Ignored
  <2>2. r.kind = kind /\ r.frame = f /\ r.pc = "decode"
    BY DEF Idle
  <2>3. call'[c] = r /\ \A t \in Thread \ {c} : call'[t] = call[t]
    BY <2>1 DEF TypeInv
  <2> HIDE DEF r
  <2>4. c = "loading" => IdleOK'
    BY <2>2, <2>3 DEF IdleOK
  <2>8. \/ Shared \/ ~item.statistics
        \/ (it.statistics /\ call'["loading"].pc = "decode")
    BY <1>1, <1>3, <2>2, <2>3
  <2>9. call[c].pc = "idle"
    BY <1>1, <1>3
  <2>5. CASE ~MustSeek(it, c, f)
    <3>1. item' = it /\ UNCHANGED <<dec, file, faults>>
      BY <2>1, <2>5
    <3>2. it.current[c] # NoFrame
      BY <2>5 DEF MustSeek
    <3>3. it.current[c] = item.current[c] /\ InUse(c)
      BY <1>1, <3>2 DEF InUse
    <3>4. OnTrack(c)
      BY <1>1, <3>3 DEF ServiceInv
    <3>5. Steps(c)
      BY <1>1, <1>3, <2>3, <3>1 DEF Steps
    <3>6. OnTrack(c)'
      <4>1. Consumed(c)' = Consumed(c)
        BY <1>1, <3>1 DEF Consumed, AnnexB
      <4>2. DecoderAt(setup', dec'[c], Consumed(c)', item'.current[c] + 1)
        BY <1>1, <3>1, <3>3, <3>4, <4>1 DEF OnTrack
      <4>3. /\ ~(AnnexB /\ engine = "FFMpeg") /\ item.repush /\ ~dec[c].flushing
            /\ dec[c].state \in {"NeedsMoreData", "RetrieveFrames"}
            => file[c].pos > 0 /\ file[c].last = Unit(file[c].pos - 1)
        BY <3>4 DEF OnTrack
      <4> HIDE DEF Consumed
      <4>4. QED
        BY <1>1, <3>1, <4>2, <4>3 DEF OnTrack, AnnexB, Unit
    <3>7. ThreadOK(c)'
      BY <1>1, <1>6, <2>2, <2>3, <3>1 DEF ThreadOK, DecodeOK, ReplyOK, BufferHas
    <3>8. BufferOK'
      BY <1>1, <1>3, <1>4, <2>8, <3>1, BufferKeeps
    <3>9. TroubleOK'
      <4>1. \A t \in Thread : HasFailed(t)' => HasFailed(t)
        BY <3>1 DEF HasFailed
      <4>2. faults' \in Nat /\ faults' <= faults /\ item'.notAfter = item.notAfter
        BY <1>1, <1>2, <3>1
      <4>3. QED
        BY <1>1, <1>3, <4>1, <4>2, TroubleKeeps
    <3>10. QED
      BY <2>4, <3>5, <3>6, <3>7, <3>8, <3>9, StepKeeps
  <2>6. CASE MustSeek(it, c, f)
    <3>1. PICK d \in MayFail(p) :
                    /\ dec' = [dec EXCEPT ![c] = d]
                    /\ file' = [file EXCEPT ![c].pos = SeekPosition(e)]
                    /\ item' = Sought(it, c, e, d)
                    /\ faults' = FaultsAfter(d # p)
      BY <2>1, <2>6
    <3>2. /\ p \in DecoderType(setup) /\ p.ok /\ (p.state = "Error" => HasFailed(c))
      BY <1>2, PrimedType DEF HasFailed
    <3>3. p.state # "Error" =>
            DecoderAt(setup, p, IF AnnexB /\ engine = "FFMpeg" THEN e ELSE SeekPosition(e), e)
      BY <2>1, SeekAt
    <3> HIDE DEF p
    <3>4. Failed(p) \in DecoderType(setup) /\ ~Failed(p).ok /\ Failed(p).state = "Error"
      BY <1>2, <3>2, FailedType
    <3>5. d = p \/ (d = Failed(p) /\ d # p /\ faults > 0)
      BY <3>2, <3>4 DEF MayFail
    <3>6. d \in DecoderType(setup) /\ (d.state = "Error" => HasFailed(c) \/ d # p)
          /\ (d.state # "Error" => d = p /\ d.ok)
      BY <3>2, <3>4, <3>5
    <3>7. faults' \in Nat /\ faults' <= faults /\ (d # p => faults' < faults)
      BY <1>2, <3>1, <3>5 DEF FaultsAfter
    <3>8. e \in 0..(N - 1) /\ e <= f
      BY <1>2, <2>1, SeekFacts
    <3> HIDE DEF e
    <3>9. AfterSeek(item', it, c, e, d)
      BY <1>1, <1>2, <3>1, <3>6, <3>8, SoughtType
    <3>10. /\ ~item'.repush /\ item'.repush \in BOOLEAN /\ item'.notAfter = NoFrame
           /\ item'.counter = e /\ (d.ok => item'.current[c] = e - 1)
           /\ ~d.ok => item'.current[c] = it.current[c]
           /\ \A t \in Thread \ {c} : item'.current[t] = item.current[t]
           /\ item'.raw = item.raw /\ item'.rawIndex = item.rawIndex
           /\ item'.loaded = item.loaded /\ item'.statistics = it.statistics
      BY <1>1, <3>9 DEF AfterSeek, ItemType
    <3>11. /\ dec'[c] = d /\ file'[c].pos = SeekPosition(e)
           /\ \A t \in Thread \ {c} : dec'[t] = dec[t] /\ file'[t] = file[t]
      BY <3>1 DEF TypeInv, FileType
    <3>12. Steps(c)
      BY <1>1, <2>3, <3>10, <3>11 DEF Steps
    <3>13. OnTrack(c)'
      <4>1. CASE d.state = "Error"
        BY <3>11, <4>1 DEF OnTrack, DecoderAt
      <4>2. CASE d.state # "Error"
        <5>1. Consumed(c)' = IF AnnexB /\ engine = "FFMpeg" THEN e ELSE SeekPosition(e)
          BY <1>1, <3>10, <3>11 DEF Consumed, AnnexB
        <5>2. item'.current[c] + 1 = e
          BY <1>2, <3>6, <3>8, <3>10, <4>2
        <5>3. DecoderAt(setup', dec'[c], Consumed(c)', item'.current[c] + 1)
          BY <1>1, <3>3, <3>6, <3>11, <4>2, <5>1, <5>2
        <5> HIDE DEF Consumed
        <5>4. QED
          BY <3>10, <5>3 DEF OnTrack
      <4>3. QED
        BY <4>1, <4>2
    <3>14. item'.current[c] # f
      <4>1. f # it.current[c]
        <5>1. SeekThreshold \in Nat /\ f \in Nat
          BY <1>2, <2>1, CompressedAssumption
        <5>2. QED
          BY <1>2, <2>6, <5>1 DEF MustSeek
      <4>2. QED
        BY <1>1, <1>2, <2>1, <3>8, <3>10, <4>1
    <3>15. ThreadOK(c)'
      BY <1>1, <1>6, <2>2, <2>3, <3>10, <3>14 DEF ThreadOK, DecodeOK, ReplyOK
    <3>16. BufferOK'
      BY <1>1, <1>3, <1>4, <2>8, <3>10, BufferKeeps
    <3>17. TroubleOK'
      <4>1. \A t \in Thread : HasFailed(t)' => HasFailed(t) \/ faults' < faults
        BY <3>6, <3>7, <3>11 DEF HasFailed
      <4>2. QED
        BY <1>1, <1>3, <3>7, <3>10, <4>1, TroubleKeeps
    <3>18. QED
      BY <2>4, <3>12, <3>13, <3>15, <3>16, <3>17, StepKeeps
  <2>7. QED
    BY <2>5, <2>6
<1>7. QED
  BY <1>5, <1>6

\* A request for a frame is such a request.
LEMMA RequestFrameKeeps ==
    ASSUME ServiceAssumption, TypeInv, ServiceInv, NEW c \in Thread, RequestFrame(c)
    PROVE  ServiceInv'
<1>1. PICK f \in 0..LastFrame :
        /\ c = "loading" =>
            /\ item.enabled /\ item.loaded # f
            /\ ~(NotDecodable(f) /\ f >= item.current["loading"])
        /\ c = "caching" => CachesAgain \/ item.current["caching"] # f
        /\ Request(c, "video", f, item)
  BY DEF RequestFrame
<1>2. /\ c \in setup.threads /\ call[c] = Idle /\ setup' = setup /\ engine' = engine
      /\ ~\E t \in Thread : call[t].kind = "video" /\ (t = "loading" \/ call[t].pc # "reply")
  BY DEF RequestFrame
<1>3. /\ Members(item, c) /\ LastFrame \in Nat /\ item.current[c] \in -1..LastFrame
      /\ Thread = {"loading", "caching"} /\ Idle.pc = "idle"
      /\ \A t \in Thread : call[t].pc \in {"idle", "decode", "reply"} /\ ThreadOK(t)
  BY ItemFacts DEF Thread, Idle, ServiceInv, CallType
<1>4. Ignored(item, c, f) => HasFailed(c)
  BY <1>3 DEF Ignored, HasFailed
<1>5. ~Ignored(item, c, f) => f # item.current[c] \/ BufferHas(f, item)
  <2>1. SUFFICES ASSUME ~Ignored(item, c, f), f = item.current[c]
        PROVE  BufferHas(f, item)
    OBVIOUS
  <2>2. c = "loading"
    BY <1>1, <1>3, <2>1 DEF ServiceAssumption
  <2>3. ~HasFailed(c)
    BY <1>3, <2>1, <2>2 DEF Ignored, HasFailed
  <2>4. AtFrame /\ ~NotDecodable(f) /\ f # item.loaded /\ f # NoFrame
    BY <1>1, <1>2, <1>3, <2>1, <2>2, <2>3 DEF ServiceInv, IdleOK, NoFrame, NoPicture
  <2>5. QED
    BY <2>1, <2>2, <2>4 DEF AtFrame, BufferHas
<1>6. c = "caching" => call["loading"].pc = "idle"
  <2>1. SUFFICES ASSUME c = "caching", call["loading"].pc # "idle" PROVE FALSE
    OBVIOUS
  <2>2. call["loading"].kind = "statistics" /\ setup.statistics
    BY <1>2, <1>3, <2>1 DEF ThreadOK, ServiceInv, SharedOK
  <2>3. Shared
    BY <1>2, <2>1 DEF Shared
  <2>4. QED
    BY <2>2, <2>3, SetupFacts
<1>7. call["caching"].pc # "decode"
  BY <1>2, <1>3 DEF ThreadOK
<1>8. Asks(c, "video", f, item)
  BY <1>1, <1>2, <1>3, <1>4, <1>5, <1>6, <1>7 DEF Asks, ServiceInv, SharedOK
<1>9. f \in -1..LastFrame
  OBVIOUS
<1>10. QED
  BY <1>8, <1>9, RequestKeeps

\* So is a request for statistics that decodes.
LEMMA StatisticsAsk ==
    ASSUME ServiceAssumption, TypeInv, ServiceInv, setup.statistics, call["loading"] = Idle,
           setup' = setup, engine' = engine, NEW g \in -1..LastFrame, NEW it,
           Members(it, "loading"), Request("loading", "statistics", g, it),
           \/ it = item /\ item.statistics /\ g # item.current["loading"] /\ g >= 0
           \/ /\ g = item.current["loading"]
              /\ it = [item EXCEPT !.statistics = TRUE, !.current["loading"] = NoFrame]
    PROVE  ServiceInv'
<1> DEFINE c == "loading"
<1>1. /\ item \in ItemType(setup) /\ c \in Thread /\ LastFrame \in Nat /\ NoFrame = -1
      /\ Idle.pc = "idle" /\ it.current[c] \in -1..LastFrame
      /\ ~Shared /\ c \in setup.threads
  BY ItemFacts, SetupFacts DEF Thread, TypeInv, ItemType, Idle, Members
<1>2. CASE it = item /\ item.statistics /\ g # item.current[c] /\ g >= 0
  <2>1. Ignored(it, c, g) => HasFailed(c)
    BY <1>1, <1>2 DEF Ignored, HasFailed
  <2>2. Asks(c, "statistics", g, it)
    BY <1>1, <1>2, <2>1 DEF Asks
  <2>3. QED
    BY <1>1, <2>2, RequestKeeps
<1>3. CASE g = item.current[c]
           /\ it = [item EXCEPT !.statistics = TRUE, !.current["loading"] = NoFrame]
  <2> DEFINE cur == [item.current EXCEPT !["loading"] = NoFrame]
  <2>1. it = [item EXCEPT !.statistics = TRUE, !.current = cur]
    BY <1>1, <1>3 DEF ItemType
  <2>2. cur[c] = NoFrame
    BY <1>1 DEF ItemType
  <2> HIDE DEF cur
  <2>3. /\ it.current[c] = NoFrame /\ it.statistics = TRUE
        /\ it.raw = item.raw /\ it.rawIndex = item.rawIndex /\ it.loaded = item.loaded
        /\ it.notAfter = item.notAfter /\ it.repush = item.repush
        /\ it.statFrame = item.statFrame
    BY <1>1, <2>1, <2>2 DEF ItemType
  <2>4. Ignored(it, c, g) => HasFailed(c) \/ NothingYet(c, "statistics", g, it)
    <3>1. SUFFICES ASSUME Ignored(it, c, g), ~HasFailed(c)
          PROVE  g = NoFrame /\ item.loaded = NoFrame
      BY <2>3 DEF NothingYet
    <3>2. g = NoFrame
      BY <1>1, <3>1 DEF Ignored, HasFailed
    <3>3. AtFrame
      BY <1>1, <3>1 DEF ServiceInv, IdleOK
    <3>4. item.loaded = NoFrame
      <4>1. item.raw = NoPicture => item.loaded = NoFrame
        BY DEF ServiceInv, BufferOK
      <4>2. NoPicture = NoFrame
        BY DEF NoFrame
      <4>3. item.notAfter \in Int
        BY <1>1 DEF ItemType
      <4>4. ~NotDecodable(NoFrame)
        BY <1>1, <4>3 DEF NotDecodable
      <4>5. item.current["loading"] = NoFrame
        BY <1>3, <3>2
      <4>6. \/ NoFrame = item.loaded
            \/ item.raw = NoPicture /\ NotDecodable(NoFrame)
            \/ /\ item.rawIndex = NoFrame
               /\ item.raw = NoFrame \/ NotDecodable(NoFrame)
        BY <3>3, <4>5 DEF AtFrame
      <4>7. QED
        BY <4>1, <4>2, <4>4, <4>6
    <3>5. QED
      BY <3>2, <3>4
  <2>5. ~Ignored(it, c, g) => g # it.current[c]
    BY <1>1, <2>3 DEF Ignored
  <2>6. Asks(c, "statistics", g, it)
    BY <1>1, <2>3, <2>4, <2>5 DEF Asks
  <2>7. QED
    BY <1>1, <2>6, RequestKeeps
<1>4. QED
  BY <1>2, <1>3

\* One that has nothing to decode finds the statistics of the frame already there.
LEMMA ReturnKeeps ==
    ASSUME ServiceAssumption, TypeInv, ServiceInv, setup.statistics, call["loading"] = Idle,
           setup' = setup, engine' = engine, NEW f \in 0..LastFrame, Return("statistics", f),
           item.statistics, item.current["loading"] = f
    PROVE  ServiceInv'
<1> DEFINE c == "loading"
           r == [Idle EXCEPT !.kind = "statistics", !.frame = f, !.pc = "reply"]
<1>1. /\ call' = [call EXCEPT !["loading"] = r] /\ UNCHANGED <<dec, file, item, faults>>
      /\ c \in Thread /\ Idle.pc = "idle" /\ ~Shared /\ c \in setup.threads
      /\ faults \in Nat /\ ItemType(setup) # {}
  BY SetupFacts DEF Return, Thread, TypeInv, Idle
<1>2. r.pc = "reply" /\ r.kind = "statistics" /\ r.frame = f
  BY DEF Idle
<1> HIDE DEF r
<1>3. call'[c] = r /\ \A t \in Thread \ {c} : call'[t] = call[t]
  BY <1>1 DEF TypeInv
<1>4. Steps(c)
  BY <1>1, <1>3 DEF Steps
<1>5. InUse(c)' => OnTrack(c)'
  <2>1. SUFFICES ASSUME InUse(c)' PROVE OnTrack(c)'
    OBVIOUS
  <2>2. OnTrack(c)
    BY <1>1, <1>2, <1>3, <2>1 DEF ServiceInv, InUse
  <2>3. QED
    BY <1>1, <2>2 DEF OnTrack, Consumed, AnnexB, Unit
<1>6. ThreadOK(c)'
  <2>1. ~HasFailed(c) => AtFrame
    BY <1>1 DEF ServiceInv, IdleOK
  <2>2. AtFrame' = AtFrame /\ HasFailed(c)' = HasFailed(c)
    BY <1>1 DEF AtFrame, HasFailed, NotDecodable
  <2>3. DecodeOK(c)' /\ ReplyOK(c)'
    BY <1>1, <1>2, <1>3, <2>1, <2>2 DEF DecodeOK, ReplyOK
  <2>4. QED
    BY <1>1, <1>2, <1>3, <2>3 DEF ThreadOK
<1>7. BufferOK'
  BY <1>1, BufferKeeps DEF ServiceInv
<1>8. TroubleOK'
  <2>1. \A t \in Thread : HasFailed(t)' => HasFailed(t)
    BY <1>1 DEF HasFailed
  <2>2. TroubleOK /\ faults' \in Nat /\ faults' <= faults /\ item'.notAfter = item.notAfter
    BY <1>1 DEF ServiceInv
  <2>3. QED
    BY <1>1, <2>1, <2>2, TroubleKeeps
<1>9. IdleOK'
  BY <1>2, <1>3 DEF IdleOK
<1>10. QED
  BY <1>1, <1>4, <1>5, <1>6, <1>7, <1>8, <1>9, StepKeeps

\* A request for statistics keeps the invariant.
LEMMA LoadStatisticsKeeps ==
    ASSUME ServiceAssumption, TypeInv, ServiceInv, NEW f \in 0..LastFrame, LoadStatistics(f)
    PROVE  ServiceInv'
<1>1. setup.statistics /\ call["loading"] = Idle /\ setup' = setup /\ engine' = engine
  BY StatisticsRequest
<1>2. CASE Return("statistics", f) /\ item.statistics /\ item.current["loading"] = f
  BY <1>1, <1>2, ReturnKeeps
<1>3. ASSUME NEW g \in -1..LastFrame, NEW it,
             Request("loading", "statistics", g, it), Members(it, "loading"),
             \/ g = f /\ it = item /\ item.statistics /\ g # item.current["loading"]
             \/ /\ g = item.current["loading"]
                /\ it = [item EXCEPT !.statistics = TRUE, !.current["loading"] = NoFrame]
      PROVE  ServiceInv'
  <2>1. f >= 0
    OBVIOUS
  <2>2. QED
    BY <1>1, <1>3, <2>1, StatisticsAsk
<1>4. QED
  BY <1>2, <1>3, StatisticsRequest

\* Nobody works, no decoder is counted on and the buffer has no frame.
Afresh ==
    /\ \A c \in Thread : call[c] = Idle /\ item.current[c] = NoFrame
    /\ item.loaded = NoFrame /\ item.rawIndex = NoFrame
    /\ Shared => ~item.repush /\ item.notAfter = NoFrame
    /\ item.statistics => setup.statistics
    /\ TroubleOK

\* The invariant holds when nothing has been decoded.
LEMMA AfreshWell ==
    ASSUME Afresh, setup.threads \subseteq Thread
    PROVE  ServiceInv
<1>1. Idle.pc = "idle" /\ Idle.kind = "none" /\ "loading" \in Thread /\ "caching" \in Thread
  BY DEF Idle, Thread
<1>2. \A c \in Thread : ~InUse(c) /\ ThreadOK(c)
  BY <1>1 DEF Afresh, InUse, ThreadOK, DecodeOK, ReplyOK
<1>3. BufferOK /\ IdleOK /\ SharedOK /\ TroubleOK
  BY <1>1 DEF Afresh, BufferOK, IdleOK, SharedOK, AtFrame
<1>4. QED
  BY <1>2, <1>3 DEF ServiceInv

\* A change of the signal starts afresh, between requests.
LEMMA ChangeSignalKeeps ==
    ASSUME ServiceAssumption, TypeInv, ServiceInv, ChangeSignal
    PROVE  ServiceInv'
<1>1. /\ dec' = [c \in Thread |-> resetDecoder(dec[c])] /\ item' = Invalidated
      /\ UNCHANGED <<setup, engine, file, call, answer, faults>>
      /\ \A c \in Thread : call[c] = Idle
  BY DEF ChangeSignal, ServiceAssumption, Undisturbed
<1>2. /\ setup \in Setup /\ setup.threads \subseteq Thread /\ faults \in Nat
      /\ \A c \in Thread : dec[c] \in DecoderType(setup)
  BY ItemFacts, SetupFacts DEF TypeInv
<1>3. \A c \in Thread : HasFailed(c)' => HasFailed(c)
  BY <1>1, <1>2, ResetType DEF HasFailed
<1>4. /\ \A c \in Thread : item'.current[c] = NoFrame
      /\ item'.loaded = NoFrame /\ item'.rawIndex = NoFrame
      /\ item'.notAfter = item.notAfter /\ item'.repush = item.repush
      /\ item'.statistics = item.statistics
  BY <1>1, InvalidatedType
<1>5. TroubleOK /\ faults' \in Nat /\ faults' <= faults
  BY <1>1, <1>2 DEF ServiceInv
<1>6. TroubleOK'
  BY <1>1, <1>3, <1>4, <1>5, TroubleKeeps
<1>7. Shared' => ~item'.repush /\ item'.notAfter = NoFrame
  BY <1>1, <1>4 DEF ServiceInv, SharedOK, Shared
<1>8. Afresh'
  BY <1>1, <1>4, <1>6, <1>7 DEF Afresh, ServiceInv, SharedOK
<1>9. setup'.threads \subseteq Thread
  BY <1>1, <1>2
<1>10. (Afresh /\ setup.threads \subseteq Thread => ServiceInv)'
  BY AfreshWell, PTL
<1>11. QED
  BY <1>8, <1>9, <1>10

\* Another decoder starts afresh.
LEMMA ChangeDecoderKeeps ==
    ASSUME ServiceAssumption, TypeInv, ServiceInv, ChangeDecoder
    PROVE  ServiceInv'
<1>1. PICK e \in setup.engines \ {engine} :
        engine' = e /\ dec' = [c \in Thread |-> NewDecoder(e, setup.delay)]
  BY DEF ChangeDecoder
<1>2. /\ \A c \in Thread : call[c] = Idle
      /\ item' = [Invalidated EXCEPT !.notAfter = NoFrame, !.enabled = TRUE, !.statistics = FALSE]
      /\ UNCHANGED <<setup, file, call, answer, faults>>
  BY DEF ChangeDecoder, Undisturbed
<1>3. /\ setup \in Setup /\ setup.threads \subseteq Thread /\ faults \in Nat /\ e \in Engine
  BY SetupFacts, StreamFacts DEF TypeInv
<1>4. \A c \in Thread : ~HasFailed(c)'
  BY <1>1, <1>3, NewFacts DEF HasFailed
<1>5. /\ \A c \in Thread : item'.current[c] = NoFrame
      /\ item'.loaded = NoFrame /\ item'.rawIndex = NoFrame
      /\ item'.notAfter = NoFrame /\ item'.repush = item.repush /\ ~item'.statistics
  BY <1>2, InvalidatedType DEF ItemType
<1>6. TroubleOK'
  <2>1. ~(NoFrame >= 0)
    BY DEF NoFrame, NoPicture
  <2>2. faults' <= setup'.faults
    BY <1>2 DEF ServiceInv, TroubleOK
  <2>3. QED
    BY <1>4, <1>5, <2>1, <2>2 DEF TroubleOK
<1>7. Shared' => ~item'.repush /\ item'.notAfter = NoFrame
  BY <1>2, <1>5 DEF ServiceInv, SharedOK, Shared
<1>8. Afresh'
  BY <1>2, <1>5, <1>6, <1>7 DEF Afresh
<1>9. setup'.threads \subseteq Thread
  BY <1>2, <1>3
<1>10. (Afresh /\ setup.threads \subseteq Thread => ServiceInv)'
  BY AfreshWell, PTL
<1>11. QED
  BY <1>8, <1>9, <1>10

\* The invariant holds at the start.
LEMMA InitWell ==
    ASSUME Init
    PROVE  ServiceInv
<1>1. /\ setup \in Setup /\ engine \in setup.engines /\ faults = setup.faults
      /\ dec = [c \in Thread |-> Primed(NewDecoder(engine, setup.delay))]
      /\ item = Fresh /\ call = [c \in Thread |-> Idle]
  BY DEF Init
<1>2. /\ setup.threads \subseteq Thread /\ engine \in Engine /\ setup.faults \in Nat
      /\ ~(NoFrame >= 0)
  BY <1>1, StreamFacts DEF NoFrame, NoPicture
<1>3. \A c \in Thread : ~HasFailed(c)
  <2>1. /\ NewDecoder(engine, setup.delay) \in DecoderType(setup)
        /\ NewDecoder(engine, setup.delay).state = "NeedsMoreData"
    BY <1>1, <1>2, NewFacts
  <2>2. Primed(NewDecoder(engine, setup.delay)).state = "NeedsMoreData"
    BY <1>1, <2>1, PrimedType
  <2>3. QED
    BY <1>1, <2>2 DEF HasFailed
<1>4. /\ \A c \in Thread : item.current[c] = NoFrame
      /\ item.loaded = NoFrame /\ item.rawIndex = NoFrame
      /\ item.notAfter = NoFrame /\ ~item.repush /\ ~item.statistics
  BY <1>1 DEF Fresh
<1>5. TroubleOK
  BY <1>1, <1>2, <1>3, <1>4 DEF TroubleOK
<1>6. QED
  BY <1>1, <1>2, <1>4, <1>5, AfreshWell DEF Afresh

\* Every step keeps the invariant.
LEMMA NextKeeps ==
    ASSUME ServiceAssumption, TypeInv, ServiceInv, [Next]_vars
    PROVE  ServiceInv'
<1>1. CASE UNCHANGED vars
  <2>1. UNCHANGED <<setup, engine, dec, file, item, call, answer, faults>>
    BY <1>1 DEF vars
  <2>2. \A c \in Thread : InUse(c)' = InUse(c) /\ OnTrack(c)' = OnTrack(c) /\ ThreadOK(c)' = ThreadOK(c)
    BY <2>1 DEF InUse, OnTrack, Consumed, ThreadOK, DecodeOK, ReplyOK, HasFailed, NotDecodable,
                AnnexB, Unit, AtFrame
  <2>3. /\ BufferOK' = BufferOK /\ TroubleOK' = TroubleOK /\ SharedOK' = SharedOK
        /\ IdleOK' = IdleOK
    BY <2>1 DEF BufferOK, TroubleOK, SharedOK, IdleOK, AtFrame, HasFailed, NotDecodable, Shared,
                Unavailable, LastFrame, N, AnnexB
  <2>4. setup.threads \subseteq Thread
    BY SetupFacts
  <2>5. QED
    BY <2>1, <2>2, <2>3, <2>4 DEF ServiceInv
<1>2. ASSUME NEW c \in Thread, RequestFrame(c) \/ Work(c)
      PROVE  ServiceInv'
  BY <1>2, RequestFrameKeeps, PushKeeps, RetrieveKeeps, FinishKeeps, DeliverKeeps DEF Work
<1>3. CASE \E f \in 0..LastFrame : LoadStatistics(f)
  BY <1>3, LoadStatisticsKeeps
<1>4. CASE ChangeSignal
  BY <1>4, ChangeSignalKeeps
<1>5. CASE ChangeDecoder
  BY <1>5, ChangeDecoderKeeps
<1>6. QED
  BY <1>1, <1>2, <1>3, <1>4, <1>5 DEF Next

\* The item counts right: as long as nothing of what ServiceAssumption rules out
\* happens, the picture a decoder in use gives next is the one with the number
\* the item has counted to, whatever was pushed, refused, held back or sought.
THEOREM CompressedOnTrack ==
    ASSUME ServiceAssumption
    PROVE  Spec => []ServiceInv
<1>1. Init => ServiceInv
  BY InitWell
<1>2. TypeInv /\ ServiceInv /\ [Next]_vars => ServiceInv'
  BY NextKeeps
<1>3. QED
  BY <1>1, <1>2, CompressedTypes, PTL DEF Spec

-----------------------------------------------------------------------------
(* What the item serves.                                                   *)

\* The frame each thread waits for.
Awaited(c) == IF call[c].kind = "video" THEN call[c].frame ELSE NoFrame
Waiting == [c \in Thread |-> Awaited(c)]
Served == UNION {0..Length(s) : s \in Setup}

\* The frames that can be asked for are frames of the service.
LEMMA FramesServed ==
    ASSUME setup \in Setup
    PROVE  0..LastFrame \subseteq Served /\ Unavailable \in SUBSET Served
<1>1. 0..LastFrame \subseteq 0..Length(setup)
  BY OfSetup, StreamFacts
<1>2. 0..LastFrame \subseteq Served
  BY <1>1 DEF Served
<1>3. QED
  BY <1>2 DEF Unavailable

\* One thread waits for another frame, or no longer.
LEMMA WaitingChange ==
    ASSUME NEW c \in Thread, NEW f, Awaited(c)' = f,
           \A t \in Thread \ {c} : Awaited(t)' = Awaited(t)
    PROVE  Waiting' = [Waiting EXCEPT ![c] = f] /\ Waiting[c] = Awaited(c)
<1>1. \A t \in Thread : Waiting'[t] = IF t = c THEN f ELSE Waiting[t]
  BY DEF Waiting
<1>2. Waiting' = [t \in Thread |-> Waiting'[t]] /\ Waiting = [t \in Thread |-> Waiting[t]]
  BY DEF Waiting
<1>3. Waiting[c] = Awaited(c)
  BY DEF Waiting
<1> HIDE DEF Waiting
<1>4. QED
  BY <1>1, <1>2, <1>3

\* An answer with the picture of its frame is a Serve of the service.
LEMMA ServeGiven ==
    ASSUME NEW c \in Thread, Waiting[c] # NoFrame, Unavailable' = Unavailable,
           answer' = [answer EXCEPT ![c] = [frame |-> Waiting[c], picture |-> Waiting[c]]],
           Waiting' = [Waiting EXCEPT ![c] = NoFrame]
    PROVE  Service!Serve(c)
  BY DEF Service!Serve, Service!Reply, Waiting, Awaited

\* An answer with none is a Refuse of the service, where it may refuse.
LEMMA RefuseGiven ==
    ASSUME NEW c \in Thread, Waiting[c] # NoFrame, Unavailable' = Unavailable,
           InTrouble \/ Waiting[c] \in Unavailable \/ c = "caching",
           answer' = [answer EXCEPT ![c] = [frame |-> Waiting[c], picture |-> NoFrame]],
           Waiting' = [Waiting EXCEPT ![c] = NoFrame]
    PROVE  Service!Refuse(c)
  BY DEF Service!Refuse, Service!Reply, Waiting, Awaited

\* The statement of FrameService for a step nobody outside sees.
LEMMA Unseen ==
    ASSUME UNCHANGED <<setup, engine, answer>>, \A t \in Thread : Awaited(t)' = Awaited(t)
    PROVE  Service!Next
<1>1. Waiting' = Waiting /\ Unavailable' = Unavailable
  BY DEF Waiting, Unavailable, LastFrame, N, AnnexB
<1>2. InTrouble' \in BOOLEAN
  BY DEF InTrouble
<1>3. QED
  BY <1>1, <1>2 DEF Service!Next, Waiting, Awaited

\* The initial states are states in which the service starts.
LEMMA ServiceInit ==
    ASSUME Init
    PROVE  Service!Init
<1>1. /\ setup \in Setup /\ faults = setup.faults /\ call = [c \in Thread |-> Idle]
      /\ answer = [c \in Thread |-> Nothing]
  BY DEF Init
<1>2. setup.faults \in Nat /\ Unavailable \in SUBSET Served
  BY <1>1, StreamFacts, FramesServed
<1>3. Waiting = [c \in Thread |-> NoFrame]
  BY <1>1 DEF Waiting, Awaited, Idle
<1>4. InTrouble = FALSE
  BY <1>1, <1>2 DEF InTrouble
<1>5. answer = [c \in Thread |-> Service!Nothing]
  BY <1>1 DEF Nothing, Service!Nothing, NoFrame
<1>6. QED
  BY <1>2, <1>3, <1>4, <1>5 DEF Service!Init, Waiting, Awaited, Served

\* A request is an Ask of the service, or is not seen there.
LEMMA RequestServes ==
    ASSUME TypeInv, NEW c \in Thread, RequestFrame(c)
    PROVE  Service!Next
<1>1. PICK f \in 0..LastFrame : Request(c, "video", f, item)
  BY DEF RequestFrame
<1>2. /\ call[c] = Idle /\ UNCHANGED <<setup, engine>>
      /\ answer' = [answer EXCEPT ![c] = Nothing] /\ f \in Served
  BY FramesServed DEF RequestFrame, TypeInv
<1>3. Unavailable' = Unavailable
  BY <1>2 DEF Unavailable, LastFrame, N, AnnexB
<1>4. call'[c].kind = "video" /\ call'[c].frame = f /\ \A t \in Thread \ {c} : call'[t] = call[t]
  <2>1. CASE Ignored(item, c, f)
    <3>1. call' = [call EXCEPT ![c] = [kind |-> "video", frame |-> f, pc |-> "reply", copy |-> item.raw]]
      BY <1>1, <2>1 DEF Request
    <3>2. QED
      BY <3>1 DEF TypeInv
  <2>2. CASE ~Ignored(item, c, f)
    <3>1. call' = [call EXCEPT ![c] = [Idle EXCEPT !.kind = "video", !.frame = f, !.pc = "decode"]]
      BY <1>1, <2>2 DEF Request
    <3>2. QED
      BY <3>1 DEF TypeInv, Idle
  <2>3. QED
    BY <2>1, <2>2
<1>5. Waiting' = [Waiting EXCEPT ![c] = f] /\ Waiting[c] = NoFrame
  <2>1. /\ Awaited(c)' = f /\ Awaited(c) = NoFrame
        /\ \A t \in Thread \ {c} : Awaited(t)' = Awaited(t)
    BY <1>2, <1>4 DEF Awaited, Idle
  <2>2. QED
    BY <2>1, WaitingChange
<1>6. InTrouble' \in BOOLEAN
  BY DEF InTrouble
<1>7. answer' = [answer EXCEPT ![c] = Service!Nothing]
  BY <1>2 DEF Nothing, Service!Nothing, NoFrame
<1>8. Service!Ask(c)
  BY <1>2, <1>3, <1>5, <1>7 DEF Service!Ask, Waiting, Awaited, Served
<1>9. QED
  BY <1>6, <1>8 DEF Service!Next

\* What the video handler gets for a frame.
LEMMA DeliverServes ==
    ASSUME ServiceAssumption, TypeInv, ServiceInv, NEW c \in Thread, Deliver(c)
    PROVE  Service!Next
<1> DEFINE f == call[c].frame
           there == item.rawIndex = f /\ (c = "loading" => item.raw # NoPicture)
           shown == IF c = "caching" THEN call[c].copy
                    ELSE IF NotDecodable(f) THEN NoPicture ELSE item.raw
           picture == IF there THEN shown ELSE NoPicture
<1>1. /\ call[c].pc = "reply" /\ UNCHANGED <<setup, engine, dec, file, faults>>
      /\ call' = [call EXCEPT ![c] = Idle]
      /\ call[c].kind = "statistics" => UNCHANGED answer
      /\ call[c].kind # "statistics" =>
            answer' = [answer EXCEPT ![c] = [frame |-> f, picture |-> picture]]
  BY DEF Deliver
<1>2. /\ Thread = {"loading", "caching"} /\ ThreadOK(c)
      /\ c = "caching" => Shared
      /\ f \in -1..LastFrame /\ LastFrame \in Nat /\ NoFrame = -1 /\ NoPicture = -1
      /\ item.notAfter \in -1..LastFrame
  <2>1. LastFrame = EndOf(setup)
    BY OfSetup
  <2>2. QED
    BY <1>1, <2>1, ItemFacts, AtWork DEF Thread, ItemType, NoFrame
<1>3. /\ call'[c] = Idle /\ Idle.kind = "none" /\ \A t \in Thread \ {c} : call'[t] = call[t]
  BY <1>1 DEF TypeInv, Idle
<1>4. Unavailable' = Unavailable /\ InTrouble' \in BOOLEAN
  <2>1. Unavailable' = Unavailable
    BY <1>1 DEF Unavailable, LastFrame, N, AnnexB
  <2>2. InTrouble' \in BOOLEAN
    BY DEF InTrouble
  <2>3. QED
    BY <2>1, <2>2
<1>5. CASE call[c].kind = "statistics"
  <2>1. \A t \in Thread : Awaited(t)' = Awaited(t)
    BY <1>3, <1>5 DEF Awaited
  <2>2. QED
    BY <1>1, <1>5, <2>1, Unseen
<1>6. CASE call[c].kind = "video"
  <2>1. f >= 0 /\ Waiting[c] = f /\ Waiting' = [Waiting EXCEPT ![c] = NoFrame]
    <3>1. f >= 0
      BY <1>1, <1>2, <1>6 DEF ThreadOK, ReplyOK
    <3>2. /\ Awaited(c)' = NoFrame /\ Awaited(c) = f
          /\ \A t \in Thread \ {c} : Awaited(t)' = Awaited(t)
      BY <1>3, <1>6 DEF Awaited
    <3>3. QED
      BY <3>1, <3>2, WaitingChange
  <2>2. HasFailed(c) => InTrouble
    BY DEF ServiceInv, TroubleOK, InTrouble, HasFailed
  <2>3. NotDecodable(f) => InTrouble \/ f \in Unavailable
    <3>1. SUFFICES ASSUME NotDecodable(f), ~(faults < setup.faults)
          PROVE  f \in Unavailable
      BY <1>2 DEF NotDecodable, InTrouble
    <3>2. item.notAfter >= 0 /\ f \in item.notAfter..LastFrame
      BY <1>2, <3>1 DEF NotDecodable
    <3>3. QED
      BY <3>1, <3>2 DEF ServiceInv, TroubleOK
  <2>4. picture = f \/ (picture = NoFrame /\ (InTrouble \/ f \in Unavailable \/ c = "caching"))
    <3>1. CASE c = "caching"
      BY <1>1, <1>2, <3>1 DEF ThreadOK, ReplyOK
    <3>2. CASE c = "loading"
      <4>1. /\ f # item.loaded
            /\ HasFailed(c) \/ (item.rawIndex = f /\ (item.raw = f \/ NotDecodable(f)))
        BY <1>1, <1>2, <1>6, <3>2 DEF ThreadOK, ReplyOK
      <4>2. CASE ~there
        BY <1>2, <2>1, <2>2, <2>3, <3>2, <4>1, <4>2
      <4>3. CASE there /\ NotDecodable(f)
        BY <1>2, <2>3, <3>2, <4>3
      <4>4. CASE there /\ ~NotDecodable(f)
        <5>1. item.raw = f
          <6>1. CASE HasFailed(c)
            <7>1. ~Shared
              BY <6>1, NoFailure DEF ServiceInv
            <7>2. item.raw # NoPicture /\ item.rawIndex = f /\ f # NoFrame
              BY <1>2, <2>1, <3>2, <4>4
            <7>3. \/ item.raw = f \/ item.loaded = f \/ NotDecodable(f)
              BY <1>1, <3>2, <7>1, <7>2 DEF ServiceInv, BufferOK
            <7>4. QED
              BY <4>1, <4>4, <7>3
          <6>2. CASE ~HasFailed(c)
            BY <4>1, <4>4, <6>2
          <6>3. QED
            BY <6>1, <6>2
        <5>2. QED
          BY <3>2, <4>4, <5>1
      <4>5. QED
        BY <4>2, <4>3, <4>4
    <3>3. QED
      BY <1>2, <3>1, <3>2
  <2>5. answer' = [answer EXCEPT ![c] = [frame |-> f, picture |-> picture]]
    BY <1>1, <1>6
  <2> HIDE DEF picture
  <2>6. CASE picture = f
    <3>1. answer' = [answer EXCEPT ![c] = [frame |-> Waiting[c], picture |-> Waiting[c]]]
      BY <2>1, <2>5, <2>6
    <3>2. Waiting[c] # NoFrame
      BY <1>2, <2>1
    <3>3. Service!Serve(c)
      BY <1>4, <2>1, <3>1, <3>2, ServeGiven
    <3>4. QED
      BY <1>4, <3>3 DEF Service!Next, Service!Answer
  <2>7. CASE picture = NoFrame /\ (InTrouble \/ f \in Unavailable \/ c = "caching")
    <3>1. answer' = [answer EXCEPT ![c] = [frame |-> Waiting[c], picture |-> NoFrame]]
      BY <2>1, <2>5, <2>7
    <3>2. Waiting[c] # NoFrame /\ (InTrouble \/ Waiting[c] \in Unavailable \/ c = "caching")
      BY <1>2, <2>1, <2>7
    <3>3. Service!Refuse(c)
      BY <1>4, <2>1, <3>1, <3>2, RefuseGiven
    <3>4. QED
      BY <1>4, <3>3 DEF Service!Next, Service!Answer
  <2>8. QED
    BY <2>4, <2>6, <2>7
<1>7. QED
  BY <1>1, <1>2, <1>5, <1>6 DEF ThreadOK

\* A step that decodes changes nothing of what is asked.
LEMMA DecodingUnseen ==
    ASSUME TypeInv, NEW t \in Thread, Push(t) \/ Retrieve(t) \/ Finish(t)
    PROVE  /\ UNCHANGED <<setup, engine, answer>>
           /\ \A c \in Thread : call'[c].kind = call[c].kind /\ call'[c].frame = call[c].frame
<1>1. call \in [Thread -> CallType(setup)] /\ call[t] \in CallType(setup)
  BY DEF TypeInv
<1>2. /\ UNCHANGED <<setup, engine, answer>>
      /\ \/ call' = call
         \/ call' = [call EXCEPT ![t].pc = "reply", ![t].copy = item.raw]
  BY DEF Push, PushPacket, PushPicture, PushUnit, Retrieve, Finish
<1>3. CASE call' = call
  BY <1>2, <1>3
<1>4. CASE call' = [call EXCEPT ![t].pc = "reply", ![t].copy = item.raw]
  <2> DEFINE r == [call[t] EXCEPT !.pc = "reply", !.copy = item.raw]
  <2>1. r.kind = call[t].kind /\ r.frame = call[t].frame
    BY <1>1 DEF CallType
  <2>2. call' = [call EXCEPT ![t] = r]
    BY <1>4
  <2> HIDE DEF r
  <2>3. \A c \in Thread : call'[c] = IF c = t THEN r ELSE call[c]
    BY <1>1, <2>2
  <2>4. QED
    BY <1>2, <2>1, <2>3
<1>5. QED
  BY <1>2, <1>3, <1>4

\* A request for statistics is not one for a frame.
LEMMA LoadStatisticsUnseen ==
    ASSUME TypeInv, NEW f \in 0..LastFrame, LoadStatistics(f)
    PROVE  /\ UNCHANGED <<setup, engine, answer>> /\ call["loading"] = Idle
           /\ \A c \in Thread : Awaited(c)' = Awaited(c)
           /\ \A c \in Thread \ {"loading"} : call'[c] = call[c]
<1>1. /\ UNCHANGED <<setup, engine, answer>> /\ call["loading"] = Idle /\ "loading" \in Thread
      /\ \/ Return("statistics", f)
         \/ \E g \in -1..LastFrame : \E it : Request("loading", "statistics", g, it)
  BY StatisticsRequest DEF Thread
<1>2. CASE Return("statistics", f)
  <2>1. call' = [call EXCEPT !["loading"] = [Idle EXCEPT !.kind = "statistics", !.frame = f,
                                                         !.pc = "reply"]]
    BY <1>2 DEF Return
  <2>2. call'["loading"].kind = "statistics" /\ \A c \in Thread \ {"loading"} : call'[c] = call[c]
    BY <1>1, <2>1 DEF TypeInv, Idle
  <2>3. QED
    BY <1>1, <2>2 DEF Awaited, Idle
<1>3. ASSUME NEW g \in -1..LastFrame, NEW it, Request("loading", "statistics", g, it)
      PROVE  call'["loading"].kind = "statistics"
             /\ \A c \in Thread \ {"loading"} : call'[c] = call[c]
  <2>1. CASE Ignored(it, "loading", g)
    <3>1. call' = [call EXCEPT !["loading"] = [kind |-> "statistics", frame |-> g, pc |-> "reply",
                                               copy |-> it.raw]]
      BY <1>3, <2>1 DEF Request
    <3>2. QED
      BY <1>1, <3>1 DEF TypeInv
  <2>2. CASE ~Ignored(it, "loading", g)
    <3>1. call' = [call EXCEPT !["loading"] = [Idle EXCEPT !.kind = "statistics", !.frame = g,
                                                           !.pc = "decode"]]
      BY <1>3, <2>2 DEF Request
    <3>2. QED
      BY <1>1, <3>1 DEF TypeInv, Idle
  <2>3. QED
    BY <2>1, <2>2
<1>4. CASE \E g \in -1..LastFrame : \E it : Request("loading", "statistics", g, it)
  <2>1. call'["loading"].kind = "statistics" /\ \A c \in Thread \ {"loading"} : call'[c] = call[c]
    BY <1>3, <1>4
  <2>2. QED
    BY <1>1, <2>1 DEF Awaited, Idle
<1>5. QED
  BY <1>1, <1>2, <1>4

\* Another decoder is a Replace of the service.
LEMMA ChangeDecoderReplaces ==
    ASSUME TypeInv, ChangeDecoder
    PROVE  Service!Next
<1>1. /\ \A c \in Thread : call[c] = Idle
      /\ UNCHANGED <<setup, call, answer>> /\ setup \in Setup
  BY DEF ChangeDecoder, Undisturbed, TypeInv
<1>2. 0..LastFrame' \subseteq Served /\ LastFrame' = LastFrame
  BY <1>1, FramesServed DEF LastFrame, N, AnnexB
<1>3. Unavailable' \in SUBSET Served
  BY <1>2 DEF Unavailable
<1>4. Waiting' = Waiting /\ \A t \in Thread : Waiting[t] = NoFrame
  BY <1>1 DEF Waiting, Awaited, Idle
<1>5. InTrouble' \in BOOLEAN
  BY DEF InTrouble
<1>6. Service!Replace
  BY <1>1, <1>3, <1>4 DEF Service!Replace, Waiting, Awaited, Served
<1>7. QED
  BY <1>5, <1>6 DEF Service!Next

\* Every step is a step of the service, or a stutter.
LEMMA NextServes ==
    ASSUME ServiceAssumption, TypeInv, ServiceInv, [Next]_vars
    PROVE  [Service!Next]_(Service!vars)
<1>1. CASE UNCHANGED vars
  <2>1. UNCHANGED <<setup, engine, answer, call>>
    BY <1>1 DEF vars
  <2>2. \A t \in Thread : Awaited(t)' = Awaited(t)
    BY <2>1 DEF Awaited
  <2>3. QED
    BY <2>1, <2>2, Unseen
<1>2. ASSUME NEW c \in Thread, RequestFrame(c) \/ Work(c)
      PROVE  Service!Next
  <2>1. CASE RequestFrame(c)
    BY <2>1, RequestServes
  <2>2. CASE Push(c) \/ Retrieve(c) \/ Finish(c)
    <3>1. /\ UNCHANGED <<setup, engine, answer>>
          /\ \A t \in Thread : call'[t].kind = call[t].kind /\ call'[t].frame = call[t].frame
      BY <2>2, DecodingUnseen
    <3>2. \A t \in Thread : Awaited(t)' = Awaited(t)
      BY <3>1 DEF Awaited
    <3>3. QED
      BY <3>1, <3>2, Unseen
  <2>3. CASE Deliver(c)
    BY <2>3, DeliverServes
  <2>4. QED
    BY <1>2, <2>1, <2>2, <2>3 DEF Work
<1>3. CASE \E f \in 0..LastFrame : LoadStatistics(f)
  <2>1. UNCHANGED <<setup, engine, answer>> /\ \A t \in Thread : Awaited(t)' = Awaited(t)
    BY <1>3, LoadStatisticsUnseen
  <2>2. QED
    BY <2>1, Unseen
<1>4. CASE ChangeSignal
  <2>1. UNCHANGED <<setup, engine, answer, call>>
    BY <1>4 DEF ChangeSignal
  <2>2. \A t \in Thread : Awaited(t)' = Awaited(t)
    BY <2>1 DEF Awaited
  <2>3. QED
    BY <2>1, <2>2, Unseen
<1>5. CASE ChangeDecoder
  BY <1>5, ChangeDecoderReplaces
<1>6. QED
  BY <1>1, <1>2, <1>3, <1>4, <1>5 DEF Next

\* loadRawData: the item implements the frame service. Every request gets the
\* picture of its frame, and gets none only if the bitstream has none, a decoder
\* has failed or the cache has asked. It holds for every stream and decoder, as
\* long as nothing of what ServiceAssumption rules out happens.
THEOREM CompressedServes ==
    ASSUME ServiceAssumption
    PROVE  Spec => ServesFrames
<1>1. Init => Service!Init
  BY ServiceInit
<1>2. TypeInv /\ ServiceInv /\ [Next]_vars => [Service!Next]_(Service!vars)
  BY NextServes
<1>3. QED
  BY <1>1, <1>2, CompressedTypes, CompressedOnTrack, PTL DEF Spec, ServesFrames, Service!Spec

\* loadStatistics: when a request for statistics has ended they are those of the frame it
\* was for: the frame on the screen or, for the request that switches the retrieval on,
\* the frame the decoder was at. (Unless the frame cannot be decoded or the decoder has
\* failed.)
THEOREM CompressedStatistics ==
    ASSUME ServiceAssumption
    PROVE  Spec => StatisticsMatchFrame
<1>1. ASSUME TypeInv, ServiceInv, Next, NEW c \in Thread,
             call[c].kind = "statistics", call'[c] = Idle, call[c].frame >= 0,
             ~NotDecodable(call[c].frame), dec[c].state # "Error"
      PROVE  item.statFrame = call[c].frame
  <2>1. call[c] # Idle /\ Idle.kind = "none"
    BY <1>1 DEF Idle
  <2>2. ASSUME NEW t \in Thread, RequestFrame(t) \/ Work(t)
        PROVE  Deliver(c)
    <3>1. CASE RequestFrame(t)
      <4>1. call[t] = Idle /\ c # t
        BY <2>1, <3>1 DEF RequestFrame
      <4>2. PICK f, k : call' = [call EXCEPT ![t] = k]
        BY <3>1 DEF RequestFrame, Request
      <4>3. call'[c] = call[c]
        BY <1>1, <4>1, <4>2 DEF TypeInv
      <4>4. QED
        BY <1>1, <2>1, <4>3
    <3>2. CASE Push(t) \/ Retrieve(t) \/ Finish(t)
      <4>1. call'[c].kind = call[c].kind
        BY <1>1, <3>2, DecodingUnseen
      <4>2. QED
        BY <1>1, <2>1, <4>1
    <3>3. CASE Deliver(t)
      <4>1. call' = [call EXCEPT ![t] = Idle]
        BY <3>3 DEF Deliver
      <4>2. CASE c = t
        BY <3>3, <4>2
      <4>3. CASE c # t
        BY <1>1, <2>1, <4>1, <4>3 DEF TypeInv
      <4>4. QED
        BY <4>2, <4>3
    <3>4. QED
      BY <2>2, <3>1, <3>2, <3>3 DEF Work
  <2>3. CASE \E f \in 0..LastFrame : LoadStatistics(f)
    <3>1. c # "loading" /\ call'[c] = call[c]
      BY <1>1, <2>1, <2>3, LoadStatisticsUnseen
    <3>2. QED
      BY <1>1, <2>1, <3>1
  <2>4. CASE ChangeSignal \/ ChangeDecoder
    <3>1. call' = call
      BY <2>4 DEF ChangeSignal, ChangeDecoder
    <3>2. QED
      BY <1>1, <2>1, <3>1
  <2>5. CASE Deliver(c)
    <3>1. call[c].pc = "reply" /\ ReplyOK(c) /\ c = "loading" /\ item.statistics
      BY <1>1, <2>5 DEF Deliver, ServiceInv, ThreadOK
    <3>2. item.current[c] = call[c].frame /\ AtFrame
      BY <1>1, <3>1 DEF ReplyOK, HasFailed
    <3>3. call[c].frame # NoFrame
      BY <1>1 DEF NoFrame, NoPicture
    <3>4. QED
      BY <1>1, <3>1, <3>2, <3>3 DEF AtFrame
  <2>6. QED
    BY <1>1, <2>2, <2>3, <2>4, <2>5 DEF Next
<1>2. TypeInv /\ ServiceInv /\ [Next]_vars =>
        [\A c \in Thread :
            (call[c].kind = "statistics" /\ call'[c] = Idle /\ call[c].frame >= 0
             /\ ~NotDecodable(call[c].frame) /\ dec[c].state # "Error")
            => item.statFrame = call[c].frame]_vars
  BY <1>1
<1>3. QED
  BY <1>2, CompressedTypes, CompressedOnTrack, PTL DEF Spec, StatisticsMatchFrame
=============================================================================
