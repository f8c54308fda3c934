--------------------------- MODULE YUVConversion ---------------------------
(***************************************************************************)
(* The conversion of a raw YUV frame to the picture on screen, and the     *)
(* pixel values shown beside it (video/yuv/videoHandlerYUV.cpp,            *)
(* PixelFormatYUV.cpp).                                                    *)
(*                                                                         *)
(* The values of the samples do not matter here, only which sample of the  *)
(* frame goes where.  A sample is the place of its bits in the frame: the  *)
(* byte offset of the sample or of the group of bytes it is packed in, its *)
(* position in the group, and the way it is read.  A picture gives every   *)
(* pixel the samples its Y, U and V are computed from: one sample, or      *)
(* several if chroma is interpolated.  The matrix to R, G and B and the    *)
(* YUV math act on each pixel alone and are left out.                      *)
(***************************************************************************)
EXTENDS Integers

CONSTANTS
    Formats,     \* the pixel formats the user can choose
    Sizes,       \* the frame sizes, pairs of width and height
    Settings     \* the conversion settings

VARIABLES
    srcPixelFormat,
    frameSize,
    conversionSettings,
    currentImage   \* NoImage, or a function from pixels to samples

vars == <<srcPixelFormat, frameSize, conversionSettings, currentImage>>

NoImage == <<>>

PredefinedSub(name) == CASE name \in {"V210", "NV20"} -> "422"
                         [] name = "NV15" -> "420"
                         [] name = "NV30" -> "444"

(* A predefined format has the fields that its accessors answer; none of   *)
(* the others matter.                                                      *)
PixelFormats ==
    {f \in [sub : {"444", "422", "420", "440", "410", "411", "400"}, bits : Nat,
            planar : BOOLEAN, be : BOOLEAN, interleaved : BOOLEAN, bytePacking : BOOLEAN,
            order : {"YUV", "YVU", "YUVA", "YVUA", "AYUV", "VUYA",
                     "UYVY", "VYUY", "YUYV", "YVYU"},
            predefined : {"none", "V210", "NV15", "NV20", "NV30"}, offsetY : Nat] :
        IF f.planar THEN f.order \in {"YUV", "YVU", "YUVA", "YVUA"} /\ f.predefined = "none"
                    ELSE f.order # "YVUA" /\ (f.predefined # "none" =>
                                              f.bits = 10 /\ f.sub = PredefinedSub(f.predefined))}

ConversionSettings ==
    [interpolation : {"NearestNeighbor", "Bilinear", "Interstitial"},
     component : {"All", "Y", "Cb", "Cr"}, swapped : BOOLEAN, strideY : Nat, strideUV : Nat]

ASSUME ConversionAssumption ==
    /\ Formats \subseteq PixelFormats
    /\ Sizes \subseteq (Nat \ {0}) \X (Nat \ {0})
    /\ Settings \subseteq ConversionSettings

-----------------------------------------------------------------------------
(* Samples, sizes and formats *)

Sample(at, part, as) == [at |-> at, part |-> part, as |-> as]

LastByteOf(s) == CASE s.as = "byte" -> s.at
                   [] s.as \in {"le", "be"} -> s.at + 1
                   [] OTHER -> s.at + s.part + 1

RoundUp(n, m) == ((n + m - 1) \div m) * m

SubsamplingHor(sub) == CASE sub \in {"410", "411"} -> 4
                         [] sub \in {"422", "420"} -> 2
                         [] OTHER -> 1

SubsamplingVer(sub) == CASE sub = "410" -> 4
                         [] sub \in {"420", "440"} -> 2
                         [] OTHER -> 1

\* Mutant: the chroma planes are taken for as high as the frame.
ChromaSizeMutant(sub, sz) == (sz[1] \div SubsamplingHor(sub)) * sz[2]

PlaneSize(sz)       == sz[1] * sz[2]
ChromaSize(sub, sz) == (sz[1] \div SubsamplingHor(sub)) * (sz[2] \div SubsamplingVer(sub))

BytesPerSample(f) == IF f.bits > 8 THEN 2 ELSE 1
HasAlpha(f)       == f.order \in {"YUVA", "YVUA", "AYUV", "VUYA"}
UFirst(f)         == f.order \in {"YUV", "YUVA"}

(* Four samples of ten bits in five bytes; all other formats with packed   *)
(* bytes are read as if every sample had bytes of its own.                 *)
PackedInBytes(f) == /\ f.predefined = "none" /\ ~f.planar
                    /\ f.bytePacking /\ f.sub = "422" /\ f.bits = 10

MaxChromaOffsetVer(sub) == CASE sub = "410" -> 7
                             [] sub \in {"420", "440"} -> 3
                             [] OTHER -> 1

IsValid(f) ==
    /\ \/ f.planar
       \/ /\ f.sub = IF f.order \in {"UYVY", "VYUY", "YUYV", "YVYU"} THEN "422" ELSE "444"
          /\ ~f.interleaved
    /\ f.sub = "400" \/ f.offsetY <= MaxChromaOffsetVer(f.sub)
    /\ f.bits >= 7

(* Predefined formats pass whatever the size. *)
CanConvertToRGB(f, sz) ==
    \/ f.predefined # "none"
    \/ /\ IsValid(f)
       /\ f.bits \in 8 .. 16
       /\ sz[1] % SubsamplingHor(f.sub) = 0
       /\ sz[2] % SubsamplingVer(f.sub) = 0
       /\ f.planar \/ f.sub \in {"422", "444"}

(* The lines of NV15, NV20 and NV30: groups of four samples in five bytes, *)
(* or more if the user has set a larger stride.                            *)
StrideY(sz, set) ==
    LET least == (RoundUp(sz[1], 4) \div 4) * 5
    IN  IF set.strideY > least THEN set.strideY ELSE least

StrideUV(f, sz, set) ==
    LET lines == IF f.predefined = "NV30" THEN 2 ELSE 1
        least == (RoundUp(sz[1], 4) \div 4) * 5 * lines
        given == IF set.strideUV > 0 THEN set.strideUV ELSE StrideY(sz, set) * lines
    IN  IF given > least THEN given ELSE least

BytesPerFrame(f, sz, set) ==
    CASE f.predefined = "V210" -> (sz[2] * RoundUp(sz[1], 48) * 16) \div 6
      [] f.predefined = "NV15" ->
             LET lines == RoundUp(sz[2], 2)
             IN  StrideY(sz, set) * lines + (StrideUV(f, sz, set) * lines) \div 2
      [] f.predefined \in {"NV20", "NV30"} ->
             (StrideY(sz, set) + StrideUV(f, sz, set)) * sz[2]
      [] f.predefined = "none" /\ ~f.planar /\ f.bytePacking ->
             IF f.sub = "422" THEN ((f.bits * 4 + 7) \div 8) * (sz[1] \div 2) * sz[2]
             ELSE ((f.bits * (IF HasAlpha(f) THEN 4 ELSE 3) + 7) \div 8) * PlaneSize(sz)
      [] OTHER ->
             LET chroma == CASE f.sub = "444" -> PlaneSize(sz)
                             [] f.sub \in {"422", "440"} -> (sz[1] \div 2) * sz[2]
                             [] f.sub = "420" -> (sz[1] \div 2) * (sz[2] \div 2)
                             [] f.sub = "410" -> (sz[1] \div 4) * (sz[2] \div 4)
                             [] f.sub = "411" -> (sz[1] \div 4) * sz[2]
                             [] f.sub = "400" -> 0
                 alpha  == IF HasAlpha(f) THEN PlaneSize(sz) ELSE 0
             IN  (PlaneSize(sz) + 2 * chroma + alpha) * BytesPerSample(f)

-----------------------------------------------------------------------------
(* From packed formats to planes.  A buffer is a function from the index   *)
(* of a sample to the sample of the frame that is there: in a planar frame *)
(* the one read there, in the temporary buffer the one copied to it.       *)

PackedOffsets(order) ==
    CASE order = "UYVY" -> [y |-> 1, u |-> 0, v |-> 2]
      [] order = "VYUY" -> [y |-> 1, u |-> 2, v |-> 0]
      [] order = "YUYV" -> [y |-> 0, u |-> 1, v |-> 3]
      [] order = "YVYU" -> [y |-> 0, u |-> 3, v |-> 1]
      [] order = "YUV"  -> [y |-> 0, u |-> 1, v |-> 2]
      [] order = "YVU"  -> [y |-> 0, u |-> 2, v |-> 1]
      [] order = "AYUV" -> [y |-> 1, u |-> 2, v |-> 3]
      [] order = "YUVA" -> [y |-> 0, u |-> 1, v |-> 2]
      [] order = "VUYA" -> [y |-> 2, u |-> 1, v |-> 0]

(* One sample of one or two bytes, number idx of the frame. *)
ValueFromSource(f, idx) ==
    Sample(idx * BytesPerSample(f), 0,
           IF f.bits = 8 THEN "byte" ELSE IF f.be THEN "be" ELSE "le")

(* Three planes in one buffer, each a function of the index in the plane. *)
Planes(luma, chroma, Y(_), U(_), V(_)) ==
    [i \in 0 .. (luma + 2 * chroma - 1) |->
        IF i < luma THEN Y(i)
        ELSE IF i < luma + chroma THEN U(i - luma)
        ELSE V(i - luma - chroma)]

PackedToPlanar(f, sz) ==
    LET o     == PackedOffsets(f.order)
        n     == PlaneSize(sz)
        next  == IF f.order \in {"YUV", "YVU"} THEN 3 ELSE 4
        In(block, k) == IF PackedInBytes(f) THEN Sample(5 * block, k, "packed10")
                                            ELSE ValueFromSource(f, 4 * block + k)
        Pixel(i, k) == ValueFromSource(f, i * next + k)
    IN  IF f.sub = "422"
        THEN LET Y(i) == In(i \div 2, o.y + 2 * (i % 2))
                 U(i) == In(i, o.u)
                 V(i) == In(i, o.v)
             IN  Planes(n, (sz[1] \div 2) * sz[2], Y, U, V)
        ELSE LET Y(i) == Pixel(i, o.y)
                 U(i) == Pixel(i, o.u)
                 V(i) == Pixel(i, o.v)
             IN  Planes(n, n, Y, U, V)

(* Six pixels in four words of three values of ten bits: *)
(* Cb0 Y0 Cr0, Y1 Cb1 Y2, Cr1 Y3 Cb2, Y4 Cr2 Y5.         *)
V210ToPlanar(sz) ==
    LET w == sz[1]
        stride == (RoundUp(w, 48) \div 6) * 16
        In(line, six, k) == Sample(line * stride + six * 16 + 4 * (k \div 3), k % 3, "word10")
        Y(i) == In(i \div w, (i % w) \div 6, 1 + 2 * ((i % w) % 6))
        C(i, k) == LET cw == w \div 2
                   IN  In(i \div cw, (i % cw) \div 3, k + 4 * ((i % cw) % 3))
        U(i) == C(i, 0)
        V(i) == C(i, 2)
    IN  Planes(PlaneSize(sz), (w \div 2) * sz[2], Y, U, V)

(* NV15, NV20 and NV30: four samples in five bytes; in the second plane    *)
(* the chroma values of two positions, U0 V0 U1 V1.                        *)
NVToPlanar(f, sz, set) ==
    LET w  == sz[1]
        cw == w \div SubsamplingHor(f.sub)
        uv == StrideY(sz, set) * sz[2]
        Y(i) == Sample((i \div w) * StrideY(sz, set) + ((i % w) \div 4) * 5, (i % w) % 4, "nv10")
        C(i, k) == Sample(uv + (i \div cw) * StrideUV(f, sz, set) + ((i % cw) \div 2) * 5,
                          2 * ((i % cw) % 2) + k, "nv10")
        U(i) == C(i, IF set.swapped THEN 1 ELSE 0)
        V(i) == C(i, IF set.swapped THEN 0 ELSE 1)
    IN  Planes(PlaneSize(sz), ChromaSize(f.sub, sz), Y, U, V)

(* A planar frame; the indices go beyond its end. *)
PlanarFrame(f, sz) == [i \in 0 .. 8 * PlaneSize(sz) |-> ValueFromSource(f, i)]

(* The format the temporary buffer has; unpacked bytes and predefined      *)
(* formats get the default chroma offset.                                  *)
PlanarFormat(f) ==
    LET kept == f.predefined = "none" /\ ~PackedInBytes(f)
    IN  [f EXCEPT !.planar = TRUE, !.order = "YUV", !.predefined = "none",
                  !.bytePacking = FALSE, !.be = kept /\ f.be,
                  !.interleaved = kept /\ f.interleaved,
                  !.offsetY = IF kept THEN f.offsetY ELSE IF f.sub = "420" THEN 1 ELSE 0]

-----------------------------------------------------------------------------
(* From planes to the picture *)

\* Mutant: interleaved alpha is not skipped.
ChromaIndexMutant(f, sz, comp, i) ==
    LET first == UFirst(f) = (comp = "u")
        skip  == IF f.interleaved THEN 2 ELSE 1
        next  == IF f.interleaved THEN 1 ELSE ChromaSize(f.sub, sz)
    IN  PlaneSize(sz) + (IF first THEN 0 ELSE next) + i * skip

(* The index in the buffer of sample i of a chroma plane. *)
ChromaIndex(f, sz, comp, i) ==
    LET first == UFirst(f) = (comp = "u")
        skip  == IF ~f.interleaved THEN 1 ELSE IF HasAlpha(f) THEN 3 ELSE 2
        next  == IF f.interleaved THEN 1 ELSE ChromaSize(f.sub, sz)
    IN  PlaneSize(sz) + (IF first THEN 0 ELSE next) + i * skip

(* The samples of the chroma plane that are mixed for the pixel: the one   *)
(* of the block the pixel is in and, if chroma is interpolated, the next   *)
(* ones.  One function of the code per subsampling.                        *)
Mix(bilinear, next) == IF bilinear /\ next THEN {0, 1} ELSE {0}

Taps_444(sz, bilinear, x, y) == {y * sz[1] + x}

\* Mutant: the right border is not kept from being mixed.
Taps_422Mutant(sz, bilinear, x, y) ==
    {(y * sz[1]) \div 2 + x \div 2 + dx : dx \in Mix(bilinear, x % 2 = 1)}

Taps_422(sz, bilinear, x, y) ==
    LET last == x \div 2 = sz[1] \div 2 - 1
    IN  {(y * sz[1]) \div 2 + x \div 2 + dx : dx \in Mix(bilinear, x % 2 = 1 /\ ~last)}

Taps_411(sz, bilinear, x, y) ==
    LET last == x \div 4 = sz[1] \div 4 - 1
    IN  {(y * sz[1]) \div 4 + x \div 4 + dx : dx \in Mix(bilinear, x % 4 # 0 /\ ~last)}

(* The "next" sample is read in the line of the current one, so that from  *)
(* the second line on the current sample is that of the line before.       *)
Taps_440(sz, bilinear, x, y) ==
    LET line == y \div 2
        cur  == IF line = 0 THEN 0 ELSE line - 1
        last == line = sz[2] \div 2 - 1
    IN  {l * sz[1] + x : l \in IF bilinear /\ y % 2 = 1 /\ ~last THEN {cur, line} ELSE {cur}}

Taps_420(sz, bilinear, x, y) ==
    LET wh == sz[1] \div 2
        right  == x \div 2 = wh - 1
        bottom == y \div 2 = sz[2] \div 2 - 1
    IN  {(y \div 2 + dy) * wh + x \div 2 + dx :
            dx \in Mix(bilinear, x % 2 = 1 /\ ~right),
            dy \in Mix(bilinear, y % 2 = 1 /\ ~bottom)}

(* In the last line only the first sample is kept from being mixed with    *)
(* the line below it.                                                      *)
Taps_410(sz, bilinear, x, y) ==
    LET wq == sz[1] \div 4
        right  == x \div 4 = wq - 1
        bottom == y \div 4 = sz[2] \div 4 - 1
    IN  UNION {{(y \div 4 + dy) * wq + x \div 4 + dx :
                   dy \in Mix(bilinear, y % 4 # 0 /\ (~bottom \/ x \div 4 + dx > 0))} :
                   dx \in Mix(bilinear, x % 4 # 0 /\ ~right)}

Taps(sub, sz, bilinear, x, y) ==
    CASE sub = "444" -> Taps_444(sz, bilinear, x, y)
      [] sub = "422" -> Taps_422(sz, bilinear, x, y)
      [] sub = "411" -> Taps_411(sz, bilinear, x, y)
      [] sub = "440" -> Taps_440(sz, bilinear, x, y)
      [] sub = "420" -> Taps_420(sz, bilinear, x, y)
      [] sub = "410" -> Taps_410(sz, bilinear, x, y)

(* Unless the nearest sample is taken, chroma with a vertical offset is    *)
(* moved to the luma lines before it is used: every sample but those of    *)
(* the first line is mixed with the one above it.                          *)
Resampled(f, sz, set, i) ==
    LET w == sz[1] \div SubsamplingHor(f.sub)
    IN  IF set.interpolation # "NearestNeighbor" /\ f.offsetY # 0 /\ i >= w
        THEN {i - w, i} ELSE {i}

(* One component shown as gray: every sample of the plane is held for its  *)
(* block.                                                                  *)
MonochromeIndex(f, sz, x, y) ==
    (y \div SubsamplingVer(f.sub)) * (sz[1] \div SubsamplingHor(f.sub)) + x \div SubsamplingHor(f.sub)

Pixels(sz) == (0 .. sz[1] - 1) \X (0 .. sz[2] - 1)

Drawn(y, u, v) == [y |-> y, u |-> u, v |-> v]

PlanarToRGB(buf, f, sz, set) ==
    LET bilinear == set.interpolation = "Bilinear"
        Luma(p) == {buf[p[2] * sz[1] + p[1]]}
        Gray(comp, p) == {buf[ChromaIndex(f, sz, comp, MonochromeIndex(f, sz, p[1], p[2]))]}
        Chroma(comp, p) ==
            {buf[ChromaIndex(f, sz, comp, i)] :
                i \in UNION {Resampled(f, sz, set, t) : t \in Taps(f.sub, sz, bilinear, p[1], p[2])}}
    IN  [p \in Pixels(sz) |->
            CASE set.component = "Y" \/ f.sub = "400" -> Drawn(Luma(p), {}, {})
              [] set.component = "Cb" /\ f.sub # "400" -> Drawn({}, Gray("u", p), {})
              [] set.component = "Cr" /\ f.sub # "400" -> Drawn({}, {}, Gray("v", p))
              [] OTHER -> Drawn(Luma(p), Chroma("u", p), Chroma("v", p))]

(* The short cut for 4:2:0: it reads two bytes in the order of the machine. *)
YUV420ToRGB(f, sz) ==
    LET lengthY  == PlaneSize(sz)
        lengthUV == lengthY \div 4
        In(i)    == ValueFromSource([f EXCEPT !.be = FALSE], i)
        UV(p)    == ((p[2] \div 2) * sz[1]) \div 2 + p[1] \div 2
        U(p)     == In(lengthY + (IF UFirst(f) THEN 0 ELSE lengthUV) + UV(p))
        V(p)     == In(lengthY + (IF UFirst(f) THEN lengthUV ELSE 0) + UV(p))
    IN  [p \in Pixels(sz) |-> Drawn({In(p[2] * sz[1] + p[1])}, {U(p)}, {V(p)})]

TakesShortCut(f, set) ==
    /\ f.bits \in {8, 10}
    /\ f.sub = "420"
    /\ set.interpolation = "NearestNeighbor"
    /\ f.offsetY = 1
    /\ set.component = "All"
    /\ ~f.interleaved

YUVToImage(f, sz, set) ==
    IF f.planar
    THEN IF TakesShortCut(f, set) THEN YUV420ToRGB(f, sz)
                                  ELSE PlanarToRGB(PlanarFrame(f, sz), f, sz, set)
    ELSE LET buf == CASE f.predefined = "none" -> PackedToPlanar(f, sz)
                      [] f.predefined = "V210" -> V210ToPlanar(sz)
                      [] OTHER -> NVToPlanar(f, sz, set)
         IN  PlanarToRGB(buf, PlanarFormat(f), sz, set)

-----------------------------------------------------------------------------
(* The values shown for a pixel *)

ValueV210(sz, x, y) ==
    LET start == y * ((RoundUp(sz[1], 48) \div 6) * 16) + (x \div 6) * 16
        sub   == x % 6
        Word(word, k) == Sample(start + word, k, "word10")
    IN  [y |-> CASE sub = 0 -> Word(0, 1)
                 [] sub = 1 -> Word(4, 0)
                 [] sub = 2 -> Word(4, 2)
                 [] sub = 3 -> Word(8, 1)
                 [] sub = 4 -> Word(12, 0)
                 [] sub = 5 -> Word(12, 2),
         u |-> CASE sub \in {0, 1} -> Word(0, 0)
                 [] sub \in {2, 3} -> Word(4, 1)
                 [] sub \in {4, 5} -> Word(8, 2),
         v |-> CASE sub \in {0, 1} -> Word(0, 2)
                 [] sub \in {2, 3} -> Word(8, 0)
                 [] sub \in {4, 5} -> Word(12, 1)]

ValueNV(f, sz, set, x, y) ==
    LET cx == x \div SubsamplingHor(f.sub)
        cy == y \div SubsamplingVer(f.sub)
        uv == StrideY(sz, set) * sz[2] + cy * StrideUV(f, sz, set) + (cx \div 2) * 5
        C(k) == Sample(uv, (cx % 2) * 2 + k, "nv10")
    IN  [y |-> Sample(y * StrideY(sz, set) + (x \div 4) * 5, x % 4, "nv10"),
         u |-> C(IF set.swapped THEN 1 ELSE 0),
         v |-> C(IF set.swapped THEN 0 ELSE 1)]

ValuePlanar(f, sz, x, y) ==
    LET luma   == PlaneSize(sz)
        chroma == ChromaSize(f.sub, sz)
        i      == (sz[1] \div SubsamplingHor(f.sub)) * (y \div SubsamplingVer(f.sub))
                      + x \div SubsamplingHor(f.sub)
        step   == IF HasAlpha(f) THEN 3 ELSE 2
        C(first) == IF f.interleaved THEN luma + i * step + (IF first THEN 0 ELSE 1)
                    ELSE luma + (IF first THEN 0 ELSE chroma) + i
    IN  [y |-> ValueFromSource(f, sz[1] * y + x),
         u |-> ValueFromSource(f, C(UFirst(f))),
         v |-> ValueFromSource(f, C(~UFirst(f)))]

(* In the byte packed case the line is multiplied with the block.          *)
ValuePacked(f, sz, x, y) ==
    LET o    == PackedOffsets(f.order)
        next == IF f.order \in {"YUV", "YVU"} THEN 3 ELSE 4
        In(k) == CASE f.sub = "444" -> ValueFromSource(f, (sz[1] * y + x) * next + k)
                   [] PackedInBytes(f) -> Sample(y * (x \div 2) * 5, k, "packed10")
                   [] OTHER -> ValueFromSource(f, sz[1] * 2 * y + (x \div 2) * 4 + k)
    IN  [y |-> In(o.y + (IF f.sub = "422" THEN 2 * (x % 2) ELSE 0)),
         u |-> In(o.u), v |-> In(o.v)]

PixelValue(f, sz, set, x, y) ==
    CASE f.predefined = "V210" -> ValueV210(sz, x, y)
      [] f.predefined \in {"NV15", "NV20", "NV30"} -> ValueNV(f, sz, set, x, y)
      [] f.predefined = "none" /\ f.planar -> ValuePlanar(f, sz, x, y)
      [] f.predefined = "none" /\ ~f.planar -> ValuePacked(f, sz, x, y)

-----------------------------------------------------------------------------
(* The handler *)

Init == /\ srcPixelFormat \in Formats
        /\ frameSize \in Sizes
        /\ conversionSettings \in Settings
        /\ currentImage = NoImage

SetSrcPixelFormat(f) == /\ f # srcPixelFormat
                        /\ srcPixelFormat' = f
                        /\ currentImage' = NoImage
                        /\ UNCHANGED <<frameSize, conversionSettings>>

SetFrameSize(sz) == /\ sz # frameSize
                    /\ frameSize' = sz
                    /\ currentImage' = NoImage
                    /\ UNCHANGED <<srcPixelFormat, conversionSettings>>

SlotYUVControlChanged(set) == /\ set # conversionSettings
                              /\ conversionSettings' = set
                              /\ currentImage' = NoImage
                              /\ UNCHANGED <<srcPixelFormat, frameSize>>

(* Not modelled: a predefined format with a line, or for NV15 a pair of    *)
(* lines, that does not fill its groups.  The code accepts it and leaves   *)
(* the last samples of the temporary buffer unset.                         *)
WholeGroups(f, sz) == CASE f.predefined = "none" -> TRUE
                        [] f.predefined = "V210" -> sz[1] % 2 = 0
                        [] f.predefined = "NV15" -> sz[1] % 4 = 0 /\ sz[2] % 2 = 0
                        [] OTHER -> sz[1] % 4 = 0

LoadFrame == /\ currentImage = NoImage
             /\ CanConvertToRGB(srcPixelFormat, frameSize)
             /\ WholeGroups(srcPixelFormat, frameSize)
             /\ currentImage' = YUVToImage(srcPixelFormat, frameSize, conversionSettings)
             /\ UNCHANGED <<srcPixelFormat, frameSize, conversionSettings>>

Next == \/ \E f \in Formats : SetSrcPixelFormat(f)
        \/ \E sz \in Sizes : SetFrameSize(sz)
        \/ \E set \in Settings : SlotYUVControlChanged(set)
        \/ LoadFrame

Spec == Init /\ [][Next]_vars

-----------------------------------------------------------------------------
(* Properties *)

HasImage == currentImage # NoImage
ValueAt(p) == PixelValue(srcPixelFormat, frameSize, conversionSettings, p[1], p[2])

NotMixed == \/ conversionSettings.component # "All"
            \/ conversionSettings.interpolation = "NearestNeighbor"

\* Known to fail: 4:4:0 in colour is a line off, the values of packed bytes are taken from
\* a wrong place, and the short cut ignores the order of the bytes.
Agrees == /\ ~(srcPixelFormat.sub = "440" /\ conversionSettings.component = "All")
          /\ ~PackedInBytes(srcPixelFormat)
          /\ ~(srcPixelFormat.be /\ TakesShortCut(srcPixelFormat, conversionSettings))

(* Where nothing is interpolated, a pixel is drawn from the very samples   *)
(* whose values are shown for it: the conversion to planes and to RGB and  *)
(* getPixelValue, written apart for every format, agree on the layout.     *)
PixelValueIsDrawn ==
    HasImage /\ NotMixed /\ Agrees =>
        \A p \in Pixels(frameSize) : \A c \in {"y", "u", "v"} :
            currentImage[p][c] \in {{}, {ValueAt(p)[c]}}

(* Interpolated chroma is a mixture of the sample the pixel lies in with   *)
(* those of adjacent ones only: no line wraps around, no border reads the  *)
(* other plane.  Known to fail for 4:4:0 and the bottom of 4:1:0.          *)
ChromaFromNeighbours ==
    LET f == srcPixelFormat
        sub == f.sub
        w == SubsamplingHor(sub)
        h == SubsamplingVer(sub)
        Near(p) == {q \in Pixels(frameSize) : /\ q[1] \in (p[1] - w) .. (p[1] + w)
                                              /\ q[2] \in (p[2] - h) .. (p[2] + h)}
        Excluded(p) == sub = "440" \/ (sub = "410" /\ p[2] >= frameSize[2] - h)
    IN  HasImage /\ ~NotMixed /\ ~PackedInBytes(f) /\ sub # "400" =>
            \A p \in Pixels(frameSize) : \A c \in {"u", "v"} :
                \/ Excluded(p)
                \/ /\ ValueAt(p)[c] \in currentImage[p][c]
                   /\ currentImage[p][c] \subseteq {ValueAt(q)[c] : q \in Near(p)}

(* Neither the picture nor a pixel value is made from bytes behind the     *)
(* frame, whose size is computed apart, from the format alone.  Known to   *)
(* fail for odd widths of 4:4:0, the bottom of 4:1:0 and packed bytes that *)
(* are read as if they were not.                                           *)
ReadsInsideFrame ==
    LET f == srcPixelFormat
        size == BytesPerFrame(f, frameSize, conversionSettings)
        Excluded(p) == \/ f.sub = "440" /\ frameSize[1] % 2 = 1
                       \/ /\ f.sub = "410"
                          /\ p[2] >= frameSize[2] - 4
                          /\ ~NotMixed
                       \/ /\ f.predefined = "none" /\ ~f.planar /\ f.bytePacking
                          /\ ~PackedInBytes(f) /\ f.bits \notin {8, 16}
    IN  HasImage =>
            \A p \in Pixels(frameSize) : \A c \in {"y", "u", "v"} :
                \/ Excluded(p)
                \/ /\ \A s \in currentImage[p][c] : LastByteOf(s) < size
                   /\ f.sub # "400" \/ c = "y" => LastByteOf(ValueAt(p)[c]) < size
=============================================================================
