------------------------- MODULE YUVConversionProofs -------------------------
(***************************************************************************)
(* Proofs about YUVConversion, for every format, frame size and setting:   *)
(* the picture is drawn from the samples whose values are shown,           *)
(* interpolated chroma comes from adjacent samples, and nothing behind the *)
(* frame is read.                                                          *)
(*                                                                         *)
(* Each layout of a frame gets three lemmas: which sample of the frame is  *)
(* where in the planar buffer (Cells), that it lies in the frame (Bytes),  *)
(* and that it is the one getPixelValue reads (Value).  The rest of the    *)
(* argument is about the planes alone.                                     *)
(***************************************************************************)
EXTENDS YUVConversion, TLAPS

\* What loadFrame converts.
Drawable(f, sz, set) ==
    /\ f \in PixelFormats
    /\ sz \in (Nat \ {0}) \X (Nat \ {0})
    /\ set \in ConversionSettings
    /\ CanConvertToRGB(f, sz)
    /\ WholeGroups(f, sz)

\* The planes that are drawn: the frame itself, or the temporary buffer.
Shape(f) == IF f.planar THEN f ELSE PlanarFormat(f)

Buffer(f, sz, set) ==
    CASE f.planar -> PlanarFrame(f, sz)
      [] f.predefined = "none" /\ ~f.planar -> PackedToPlanar(f, sz)
      [] f.predefined = "V210" -> V210ToPlanar(sz)
      [] f.predefined \in {"NV15", "NV20", "NV30"} -> NVToPlanar(f, sz, set)

ChromaWidth(f, sz)  == sz[1] \div SubsamplingHor(f.sub)
ChromaHeight(f, sz) == sz[2] \div SubsamplingVer(f.sub)

\* Sample i of a chroma plane.
Cell(f, sz, set, comp, i) == Buffer(f, sz, set)[ChromaIndex(Shape(f), sz, comp, i)]
-----------------------------------------------------------------------------
(* Rows and columns *)

LEMMA GridLemma ==
    ASSUME NEW x \in Nat, NEW y \in Nat, NEW m \in Nat \ {0}, x < m
    PROVE  (y * m + x) \div m = y /\ (y * m + x) % m = x
OBVIOUS

LEMMA GridBound ==
    ASSUME NEW x \in Nat, NEW y \in Nat, NEW m \in Nat, NEW n \in Nat, x < m, y < n
    PROVE  y * m + x \in 0 .. n * m - 1
OBVIOUS

LEMMA GridInverse ==
    ASSUME NEW m \in Nat \ {0}, NEW n \in Nat, NEW i \in 0 .. n * m - 1
    PROVE  i \div m \in 0 .. n - 1 /\ i % m \in 0 .. m - 1 /\ i = (i \div m) * m + (i % m)
OBVIOUS

\* A plane fills its frame evenly.
LEMMA PlaneLemma ==
    ASSUME NEW f, NEW sz, NEW set, Drawable(f, sz, set)
    PROVE  /\ sz = <<sz[1], sz[2]>> /\ sz[1] \in Nat \ {0} /\ sz[2] \in Nat \ {0}
           /\ SubsamplingHor(f.sub) \in {1, 2, 4} /\ SubsamplingVer(f.sub) \in {1, 2, 4}
           /\ ChromaWidth(f, sz) \in Nat \ {0} /\ ChromaHeight(f, sz) \in Nat \ {0}
           /\ sz[1] = SubsamplingHor(f.sub) * ChromaWidth(f, sz)
           /\ sz[2] = SubsamplingVer(f.sub) * ChromaHeight(f, sz)
           /\ ChromaSize(f.sub, sz) = ChromaWidth(f, sz) * ChromaHeight(f, sz)
<1>1. SubsamplingHor(f.sub) \in {1, 2, 4} /\ SubsamplingVer(f.sub) \in {1, 2, 4}
  BY DEF SubsamplingHor, SubsamplingVer
<1>2. sz = <<sz[1], sz[2]>> /\ sz[1] \in Nat \ {0} /\ sz[2] \in Nat \ {0}
  BY DEF Drawable
<1>3. sz[1] % SubsamplingHor(f.sub) = 0 /\ sz[2] % SubsamplingVer(f.sub) = 0
  <2>1. CASE f.predefined = "none"
    BY <2>1 DEF Drawable, CanConvertToRGB
  <2>2. CASE f.predefined # "none"
    <3>1. f.sub = PredefinedSub(f.predefined) /\ f.predefined \in {"V210", "NV15", "NV20", "NV30"}
      BY <2>2 DEF Drawable, PixelFormats
    <3>2. QED
      BY <1>2, <3>1 DEF Drawable, WholeGroups, PredefinedSub, SubsamplingHor, SubsamplingVer
  <2>3. QED
    BY <2>1, <2>2
<1>4. QED
  <2> DEFINE w == sz[1]  h == sz[2]  s == SubsamplingHor(f.sub)  t == SubsamplingVer(f.sub)
  <2>1. w \in Nat \ {0} /\ h \in Nat \ {0} /\ s \in {1, 2, 4} /\ t \in {1, 2, 4}
        /\ w % s = 0 /\ h % t = 0
    BY <1>1, <1>2, <1>3
  <2>2. ChromaWidth(f, sz) = w \div s /\ ChromaHeight(f, sz) = h \div t
        /\ ChromaSize(f.sub, sz) = (w \div s) * (h \div t)
    BY DEF ChromaWidth, ChromaHeight, ChromaSize
  <2> HIDE DEF w, h, s, t
  <2>3. w \div s \in Nat \ {0} /\ h \div t \in Nat \ {0}
        /\ w = s * (w \div s) /\ h = t * (h \div t)
    BY <2>1
  <2>4. QED
    BY <1>1, <1>2, <2>2, <2>3 DEF w, h, s, t
\* Where a pixel lies in its planes.
LEMMA PixelLemma ==
    ASSUME NEW f, NEW sz, NEW set, Drawable(f, sz, set),
           NEW x \in 0 .. sz[1] - 1, NEW y \in 0 .. sz[2] - 1
    PROVE  /\ x \div SubsamplingHor(f.sub) \in 0 .. ChromaWidth(f, sz) - 1
           /\ y \div SubsamplingVer(f.sub) \in 0 .. ChromaHeight(f, sz) - 1
           /\ MonochromeIndex(f, sz, x, y) \in 0 .. ChromaSize(f.sub, sz) - 1
           /\ y * sz[1] + x \in 0 .. PlaneSize(sz) - 1
<1> DEFINE w == sz[1]  h == sz[2]  s == SubsamplingHor(f.sub)  t == SubsamplingVer(f.sub)
           cw == ChromaWidth(f, sz)  ch == ChromaHeight(f, sz)
<1>1. /\ w \in Nat \ {0} /\ h \in Nat \ {0} /\ s \in {1, 2, 4} /\ t \in {1, 2, 4}
      /\ cw \in Nat \ {0} /\ ch \in Nat \ {0} /\ w = s * cw /\ h = t * ch
      /\ ChromaSize(f.sub, sz) = cw * ch
  BY PlaneLemma
<1>2. x \in 0 .. w - 1 /\ y \in 0 .. h - 1
  OBVIOUS
<1>3. MonochromeIndex(f, sz, x, y) = (y \div t) * cw + x \div s /\ PlaneSize(sz) = w * h
  BY DEF MonochromeIndex, PlaneSize, ChromaWidth
<1> HIDE DEF w, h, s, t, cw, ch
<1>4. x \div s \in 0 .. cw - 1 /\ y \div t \in 0 .. ch - 1
  BY <1>1, <1>2
<1>5. (y \div t) * cw + x \div s \in 0 .. ch * cw - 1
  BY <1>1, <1>4, GridBound
<1>6. y * w + x \in 0 .. h * w - 1
  BY <1>1, <1>2, GridBound
<1>7. ch * cw = cw * ch /\ h * w = w * h
  BY <1>1
<1>8. QED
  BY <1>1, <1>3, <1>4, <1>5, <1>6, <1>7 DEF w, h, s, t, cw, ch

\* A chroma plane is no larger than the luma plane.
LEMMA ChromaIsSmaller ==
    ASSUME NEW f, NEW sz, NEW set, Drawable(f, sz, set)
    PROVE  /\ PlaneSize(sz) \in Nat \ {0} /\ ChromaSize(f.sub, sz) \in Nat \ {0}
           /\ ChromaSize(f.sub, sz) <= PlaneSize(sz)
           /\ PlaneSize(sz) =
                SubsamplingHor(f.sub) * SubsamplingVer(f.sub) * ChromaSize(f.sub, sz)
<1> DEFINE w == sz[1]  h == sz[2]  s == SubsamplingHor(f.sub)  t == SubsamplingVer(f.sub)
           cw == ChromaWidth(f, sz)  ch == ChromaHeight(f, sz)
<1>1. /\ w \in Nat \ {0} /\ h \in Nat \ {0} /\ s \in {1, 2, 4} /\ t \in {1, 2, 4}
      /\ cw \in Nat \ {0} /\ ch \in Nat \ {0} /\ w = s * cw /\ h = t * ch
      /\ ChromaSize(f.sub, sz) = cw * ch
  BY PlaneLemma
<1>2. PlaneSize(sz) = w * h
  BY DEF PlaneSize
<1> HIDE DEF w, h, s, t, cw, ch
<1>3. cw * ch \in Nat \ {0}
  BY <1>1
<1>4. w * h = s * t * (cw * ch)
  BY <1>1
<1>5. cw * ch <= s * t * (cw * ch)
  BY <1>1, <1>3
<1>6. QED
  BY <1>1, <1>2, <1>3, <1>4, <1>5 DEF s, t
-----------------------------------------------------------------------------
(* Planar formats *)

LEMMA PlanarLemma ==
    ASSUME NEW f, NEW sz, NEW set, Drawable(f, sz, set), f.planar
    PROVE  /\ f.predefined = "none" /\ Shape(f) = f
           /\ f.order \in {"YUV", "YVU", "YUVA", "YVUA"}
           /\ f.bits \in 8 .. 16 /\ BytesPerSample(f) \in {1, 2}
           /\ f.interleaved \in BOOLEAN
           /\ Buffer(f, sz, set) = PlanarFrame(f, sz)
BY DEF Drawable, PixelFormats, CanConvertToRGB, IsValid, Shape, Buffer, BytesPerSample

LEMMA PlanarCells ==
    ASSUME NEW f, NEW sz, NEW set, Drawable(f, sz, set), f.planar
    PROVE  /\ \A j \in 0 .. PlaneSize(sz) - 1 : Buffer(f, sz, set)[j] = ValueFromSource(f, j)
           /\ \A i \in 0 .. ChromaSize(f.sub, sz) - 1 : \A comp \in {"u", "v"} :
                 Cell(f, sz, set, comp, i) = ValueFromSource(f, ChromaIndex(f, sz, comp, i))
           /\ f.sub # "400" => \A i \in 0 .. ChromaSize(f.sub, sz) - 1 : \A comp \in {"u", "v"} :
                 ChromaIndex(f, sz, comp, i) \in
                     0 .. PlaneSize(sz) + 2 * ChromaSize(f.sub, sz)
                            + (IF HasAlpha(f) THEN PlaneSize(sz) ELSE 0) - 1
<1> DEFINE n == PlaneSize(sz)  c == ChromaSize(f.sub, sz)
<1>1. n \in Nat \ {0} /\ c \in Nat \ {0} /\ c <= n
  BY ChromaIsSmaller
<1>2. Buffer(f, sz, set) = [i \in 0 .. 8 * n |-> ValueFromSource(f, i)] /\ Shape(f) = f
  BY PlanarLemma DEF PlanarFrame
<1>3. ASSUME NEW i \in 0 .. c - 1, NEW comp \in {"u", "v"}
      PROVE  ChromaIndex(f, sz, comp, i) \in
                 0 .. n + 2 * c + (IF HasAlpha(f) THEN n ELSE 0) - 1
  <2> HIDE DEF n, c
  <2>1. PICK first \in BOOLEAN : first = (UFirst(f) = (comp = "u"))
    OBVIOUS
  <2>2. ChromaIndex(f, sz, comp, i) =
            n + (IF first THEN 0 ELSE IF f.interleaved THEN 1 ELSE c)
              + i * (IF ~f.interleaved THEN 1 ELSE IF HasAlpha(f) THEN 3 ELSE 2)
    BY <2>1 DEF ChromaIndex, n, c
  <2>3. HasAlpha(f) \in BOOLEAN /\ f.interleaved \in BOOLEAN
    BY PlanarLemma DEF HasAlpha
  <2>4. QED
    BY <1>1, <2>2, <2>3
<1>4. QED
  <2> HIDE DEF n, c
  <2>1. \A i \in 0 .. c - 1 : \A comp \in {"u", "v"} : ChromaIndex(f, sz, comp, i) \in 0 .. 8 * n
    BY <1>1, <1>3
  <2>2. \A j \in 0 .. n - 1 : j \in 0 .. 8 * n
    BY <1>1
  <2>3. QED
    BY <1>2, <1>3, <2>1, <2>2 DEF Cell, n, c
\* A sample with bytes of its own lies in the frame if its index does.
LEMMA OwnBytes ==
    ASSUME NEW f, f.bits \in 8 .. 16, NEW idx \in Int, NEW n \in Int, idx < n
    PROVE  LastByteOf(ValueFromSource(f, idx)) < n * BytesPerSample(f)
<1>1. CASE f.bits = 8
  <2>1. BytesPerSample(f) = 1
    BY <1>1 DEF BytesPerSample
  <2>2. ValueFromSource(f, idx) = [at |-> idx, part |-> 0, as |-> "byte"]
    BY <1>1, <2>1 DEF ValueFromSource, Sample
  <2>3. QED
    BY <2>1, <2>2 DEF LastByteOf
<1>2. CASE f.bits # 8 /\ f.be
  <2>1. LastByteOf(ValueFromSource(f, idx)) = idx * 2 + 1 /\ BytesPerSample(f) = 2
    BY <1>2 DEF LastByteOf, ValueFromSource, Sample, BytesPerSample
  <2>2. QED
    BY <2>1
<1>3. CASE f.bits # 8 /\ ~f.be
  <2>1. LastByteOf(ValueFromSource(f, idx)) = idx * 2 + 1 /\ BytesPerSample(f) = 2
    BY <1>3 DEF LastByteOf, ValueFromSource, Sample, BytesPerSample
  <2>2. QED
    BY <2>1
<1>4. QED
  BY <1>1, <1>2, <1>3

\* The size of a planar frame, and of a packed one whose samples have bytes of their own.
LEMMA FrameSize ==
    ASSUME NEW f, NEW sz, NEW set, Drawable(f, sz, set), f.predefined = "none",
           ~PackedInBytes(f), ~f.planar /\ f.bytePacking => f.bits \in {8, 16},
           ~(f.sub = "440" /\ sz[1] % 2 = 1)
    PROVE  BytesPerFrame(f, sz, set) =
               (PlaneSize(sz)
                  + 2 * (IF f.sub = "400" THEN 0 ELSE ChromaSize(f.sub, sz))
                  + (IF HasAlpha(f) THEN PlaneSize(sz) ELSE 0)) * BytesPerSample(f)
<1> DEFINE w == sz[1]  h == sz[2]  n == PlaneSize(sz)
<1>1. w \in Nat \ {0} /\ h \in Nat \ {0} /\ n = w * h /\ n \in Nat
  BY PlaneLemma, ChromaIsSmaller DEF PlaneSize
<1>2. f.bits \in 8 .. 16 /\ w % SubsamplingHor(f.sub) = 0 /\ h % SubsamplingVer(f.sub) = 0
      /\ f.sub \in {"444", "422", "420", "440", "410", "411", "400"}
      /\ f.planar \in BOOLEAN /\ f.bytePacking \in BOOLEAN
  BY DEF Drawable, PixelFormats, CanConvertToRGB
<1>3. CASE ~f.planar /\ f.bytePacking
  <2>1. f.bits \in {8, 16}
    BY <1>3
  <2>2. CASE f.sub = "422"
    <3>1. BytesPerFrame(f, sz, set) = ((f.bits * 4 + 7) \div 8) * (w \div 2) * h
      BY <1>3, <2>2 DEF BytesPerFrame
    <3>2. ChromaSize(f.sub, sz) = (w \div 2) * h /\ ~HasAlpha(f) /\ w % 2 = 0
      <4>1. f.order \in {"UYVY", "VYUY", "YUYV", "YVYU"}
        BY <1>3, <2>2 DEF Drawable, CanConvertToRGB, IsValid
      <4>2. h \div 1 = h
        BY <1>1
      <4>3. QED
        BY <1>2, <2>2, <4>1, <4>2 DEF ChromaSize, HasAlpha, SubsamplingHor, SubsamplingVer
    <3> HIDE DEF w, h, n
    <3>3. n = 2 * ((w \div 2) * h)
      <4>1. w = 2 * (w \div 2)
        BY <1>1, <3>2
      <4>2. (2 * (w \div 2)) * h = 2 * ((w \div 2) * h)
        BY <1>1
      <4>3. QED
        BY <1>1, <4>1, <4>2
    <3>4. PICK c \in Nat : c = (w \div 2) * h
      BY <1>1
    <3>5. ((f.bits * 4 + 7) \div 8) * (w \div 2) * h = ((f.bits * 4 + 7) \div 8) * c
      <4>1. PICK k \in Nat : k = (f.bits * 4 + 7) \div 8
        BY <2>1
      <4>2. k * (w \div 2) * h = k * ((w \div 2) * h)
        BY <1>1
      <4>3. QED
        BY <3>4, <4>1, <4>2
    <3>6. BytesPerFrame(f, sz, set) = 4 * c * BytesPerSample(f)
      BY <2>1, <3>1, <3>5 DEF BytesPerSample
    <3>7. BytesPerSample(f) \in Nat
      BY DEF BytesPerSample
    <3>8. QED
      BY <2>2, <3>2, <3>3, <3>4, <3>6, <3>7 DEF n
  <2>3. CASE f.sub = "444"
    <3>1. BytesPerFrame(f, sz, set) = ((f.bits * (IF HasAlpha(f) THEN 4 ELSE 3) + 7) \div 8) * n
      BY <1>3, <2>3 DEF BytesPerFrame
    <3>2. ChromaSize(f.sub, sz) = n
      BY <1>1, <2>3 DEF ChromaSize, SubsamplingHor, SubsamplingVer
    <3> HIDE DEF n
    <3>3. QED
      BY <1>1, <2>1, <2>3, <3>1, <3>2 DEF BytesPerSample, n
  <2>4. QED
    BY <1>3, <2>2, <2>3 DEF Drawable, CanConvertToRGB, IsValid
<1>4. CASE ~(~f.planar /\ f.bytePacking)
  <2> DEFINE c == CASE f.sub = "444" -> PlaneSize(sz)
                    [] f.sub \in {"422", "440"} -> (w \div 2) * h
                    [] f.sub = "420" -> (w \div 2) * (h \div 2)
                    [] f.sub = "410" -> (w \div 4) * (h \div 4)
                    [] f.sub = "411" -> (w \div 4) * h
                    [] f.sub = "400" -> 0
  <2>1. BytesPerFrame(f, sz, set) =
            (n + 2 * c + (IF HasAlpha(f) THEN n ELSE 0)) * BytesPerSample(f)
    BY <1>4 DEF BytesPerFrame
  <2>2. w \div 1 = w /\ h \div 1 = h
    BY <1>1
  <2>3. c = IF f.sub = "400" THEN 0 ELSE ChromaSize(f.sub, sz)
    <3>1. CASE f.sub # "440"
      BY <1>1, <1>2, <2>2, <3>1 DEF ChromaSize, SubsamplingHor, SubsamplingVer, PlaneSize
    <3>2. CASE f.sub = "440"
      <4>1. w % 2 = 0 /\ h % 2 = 0
        BY <1>1, <1>2, <3>2 DEF SubsamplingVer
      <4>2. ChromaSize(f.sub, sz) = w * (h \div 2) /\ c = (w \div 2) * h
        BY <2>2, <3>2 DEF ChromaSize, SubsamplingHor, SubsamplingVer
      <4>3. w = 2 * (w \div 2) /\ h = 2 * (h \div 2)
        BY <1>1, <4>1
      <4>4. (2 * (w \div 2)) * (h \div 2) = (w \div 2) * (2 * (h \div 2))
        BY <1>1
      <4>5. QED
        BY <3>2, <4>2, <4>3, <4>4
    <3>3. QED
      BY <3>1, <3>2
  <2>4. QED
    BY <2>1, <2>3
<1>5. QED
  BY <1>2, <1>3, <1>4

LEMMA PlanarBytes ==
    ASSUME NEW f, NEW sz, NEW set, Drawable(f, sz, set), f.planar,
           ~(f.sub = "440" /\ sz[1] % 2 = 1)
    PROVE  /\ \A j \in 0 .. PlaneSize(sz) - 1 :
                 LastByteOf(Buffer(f, sz, set)[j]) < BytesPerFrame(f, sz, set)
           /\ f.sub # "400" =>
                 \A i \in 0 .. ChromaSize(f.sub, sz) - 1 : \A comp \in {"u", "v"} :
                     LastByteOf(Cell(f, sz, set, comp, i)) < BytesPerFrame(f, sz, set)
<1> DEFINE n == PlaneSize(sz)  c == ChromaSize(f.sub, sz)
           all == n + 2 * (IF f.sub = "400" THEN 0 ELSE c) + (IF HasAlpha(f) THEN n ELSE 0)
<1>1. n \in Nat \ {0} /\ c \in Nat \ {0} /\ f.bits \in 8 .. 16
  BY ChromaIsSmaller, PlanarLemma
<1>2. BytesPerFrame(f, sz, set) = all * BytesPerSample(f)
  BY FrameSize, PlanarLemma DEF PackedInBytes
<1>3. all \in Int /\ n <= all
  <2> HIDE DEF n, c
  <2>1. QED
    BY <1>1
<1>4. ASSUME NEW j \in 0 .. n - 1
      PROVE  LastByteOf(Buffer(f, sz, set)[j]) < BytesPerFrame(f, sz, set)
  <2>1. Buffer(f, sz, set)[j] = ValueFromSource(f, j)
    BY PlanarCells
  <2> HIDE DEF n, all
  <2>2. j \in Int /\ j < all
    BY <1>1, <1>3
  <2>3. LastByteOf(ValueFromSource(f, j)) < all * BytesPerSample(f)
    BY <1>1, <1>3, <2>2, OwnBytes
  <2>4. QED
    BY <1>2, <2>1, <2>3
<1>5. ASSUME f.sub # "400", NEW i \in 0 .. c - 1, NEW comp \in {"u", "v"}
      PROVE  LastByteOf(Cell(f, sz, set, comp, i)) < BytesPerFrame(f, sz, set)
  <2> DEFINE idx == ChromaIndex(f, sz, comp, i)
  <2>1. Cell(f, sz, set, comp, i) = ValueFromSource(f, idx)
        /\ idx \in 0 .. n + 2 * c + (IF HasAlpha(f) THEN n ELSE 0) - 1
    BY <1>5, PlanarCells
  <2>2. all = n + 2 * c + (IF HasAlpha(f) THEN n ELSE 0)
    BY <1>5
  <2> HIDE DEF idx, all
  <2>3. idx \in Int /\ idx < all
    BY <1>1, <1>3, <2>1, <2>2
  <2>4. LastByteOf(ValueFromSource(f, idx)) < all * BytesPerSample(f)
    BY <1>1, <1>3, <2>3, OwnBytes
  <2>5. QED
    BY <1>2, <2>1, <2>4
<1>6. QED
  BY <1>4, <1>5

LEMMA PlanarValue ==
    ASSUME NEW f, NEW sz, NEW set, Drawable(f, sz, set), f.planar,
           NEW x \in 0 .. sz[1] - 1, NEW y \in 0 .. sz[2] - 1
    PROVE  /\ PixelValue(f, sz, set, x, y).y = Buffer(f, sz, set)[y * sz[1] + x]
           /\ f.sub # "400" => \A comp \in {"u", "v"} :
                 PixelValue(f, sz, set, x, y)[comp] =
                     Cell(f, sz, set, comp, MonochromeIndex(f, sz, x, y))
<1> DEFINE i == MonochromeIndex(f, sz, x, y)
           w == sz[1]  cw == ChromaWidth(f, sz)
           a == x \div SubsamplingHor(f.sub)  b == y \div SubsamplingVer(f.sub)
<1>1. PixelValue(f, sz, set, x, y) = ValuePlanar(f, sz, x, y)
  BY PlanarLemma DEF PixelValue
<1>2. w \in Nat /\ cw \in Nat /\ a \in Nat /\ b \in Nat
      /\ i \in 0 .. ChromaSize(f.sub, sz) - 1 /\ y * w + x \in 0 .. PlaneSize(sz) - 1
  BY PlaneLemma, PixelLemma
<1>3. i = b * cw + a /\ cw = w \div SubsamplingHor(f.sub)
  BY DEF MonochromeIndex, ChromaWidth
<1>4. w * y + x = y * w + x /\ cw * b + a = b * cw + a
  <2> HIDE DEF w, cw, a, b
  <2>1. x \in Int /\ y \in Int
    OBVIOUS
  <2>2. QED
    BY <1>2, <2>1
<1>5. PixelValue(f, sz, set, x, y).y = Buffer(f, sz, set)[y * sz[1] + x]
  BY <1>1, <1>2, <1>4, PlanarCells DEF ValuePlanar
<1>6. ASSUME f.sub # "400", NEW comp \in {"u", "v"}
      PROVE  PixelValue(f, sz, set, x, y)[comp] = Cell(f, sz, set, comp, i)
  <2> DEFINE first == UFirst(f) = (comp = "u")
             n == PlaneSize(sz)  c == ChromaSize(f.sub, sz)
             step == IF HasAlpha(f) THEN 3 ELSE 2
  <2>1. n \in Nat /\ c \in Nat /\ i \in Nat /\ step \in Nat
    BY <1>2, ChromaIsSmaller
  <2>2. PixelValue(f, sz, set, x, y)[comp] = ValueFromSource(f,
            IF f.interleaved THEN n + i * step + (IF first THEN 0 ELSE 1)
            ELSE n + (IF first THEN 0 ELSE c) + i)
    <3>1. i = (sz[1] \div SubsamplingHor(f.sub)) * (y \div SubsamplingVer(f.sub))
                + x \div SubsamplingHor(f.sub)
      BY <1>3, <1>4
    <3> HIDE DEF i
    <3>2. UFirst(f) \in BOOLEAN
      BY DEF UFirst
    <3>3. CASE comp = "u"
      <4>1. first = UFirst(f)
        BY <3>2, <3>3
      <4>2. PixelValue(f, sz, set, x, y).u = ValueFromSource(f,
                IF f.interleaved THEN n + i * step + (IF UFirst(f) THEN 0 ELSE 1)
                ELSE n + (IF UFirst(f) THEN 0 ELSE c) + i)
        BY <1>1, <3>1 DEF ValuePlanar
      <4> HIDE DEF first
      <4>3. QED
        BY <3>3, <4>1, <4>2
    <3>4. CASE comp = "v"
      <4>1. first = ~UFirst(f)
        BY <3>2, <3>4
      <4>2. PixelValue(f, sz, set, x, y).v = ValueFromSource(f,
                IF f.interleaved THEN n + i * step + (IF ~UFirst(f) THEN 0 ELSE 1)
                ELSE n + (IF ~UFirst(f) THEN 0 ELSE c) + i)
        BY <1>1, <3>1 DEF ValuePlanar
      <4> HIDE DEF first
      <4>3. QED
        BY <3>4, <4>1, <4>2
    <3>5. QED
      BY <3>3, <3>4
  <2>3. ChromaIndex(f, sz, comp, i) =
            n + (IF first THEN 0 ELSE IF f.interleaved THEN 1 ELSE c)
              + i * (IF ~f.interleaved THEN 1 ELSE step)
    BY DEF ChromaIndex
  <2> HIDE DEF first, n, c, i, step
  <2>4. ChromaIndex(f, sz, comp, i) =
            IF f.interleaved THEN n + i * step + (IF first THEN 0 ELSE 1)
            ELSE n + (IF first THEN 0 ELSE c) + i
    BY <2>1, <2>3
  <2>5. Cell(f, sz, set, comp, i) = ValueFromSource(f, ChromaIndex(f, sz, comp, i))
    BY <1>2, PlanarCells
  <2>6. QED
    BY <2>2, <2>4, <2>5
<1>7. QED
  BY <1>5, <1>6
-----------------------------------------------------------------------------
(* The temporary buffer: Y, U and V one after the other *)

LEMMA TemporaryIndex ==
    ASSUME NEW f, NEW sz, NEW set, Drawable(f, sz, set), ~f.planar
    PROVE  /\ Shape(f) = PlanarFormat(f) /\ Shape(f).sub = f.sub /\ f.sub # "400" /\ f.sub # "440"
           /\ f.predefined \in {"none", "V210", "NV15", "NV20", "NV30"}
           /\ \A i \in Nat :
                 /\ ChromaIndex(Shape(f), sz, "u", i) = PlaneSize(sz) + i
                 /\ ChromaIndex(Shape(f), sz, "v", i) =
                        PlaneSize(sz) + ChromaSize(f.sub, sz) + i
<1>1. f \in PixelFormats
  BY DEF Drawable
<1>2. f.sub # "400" /\ f.sub # "440"
  <2>1. CASE f.predefined = "none"
    BY <2>1 DEF Drawable, CanConvertToRGB, IsValid
  <2>2. CASE f.predefined # "none"
    BY <1>1, <2>2 DEF PixelFormats, PredefinedSub
  <2>3. QED
    BY <2>1, <2>2
<1>3. f.predefined = "none" => ~f.interleaved
  BY DEF Drawable, CanConvertToRGB, IsValid
<1>4. Shape(f) = PlanarFormat(f)
  BY DEF Shape
<1>5. /\ Shape(f).sub = f.sub /\ Shape(f).order = "YUV" /\ ~Shape(f).interleaved
  BY <1>1, <1>3, <1>4 DEF PlanarFormat, PixelFormats
<1>6. PlaneSize(sz) \in Nat /\ ChromaSize(f.sub, sz) \in Nat
  BY ChromaIsSmaller
<1>7. f.predefined \in {"none", "V210", "NV15", "NV20", "NV30"}
  BY <1>1 DEF PixelFormats
<1>8. ASSUME NEW i \in Nat
      PROVE  /\ ChromaIndex(Shape(f), sz, "u", i) = PlaneSize(sz) + i
             /\ ChromaIndex(Shape(f), sz, "v", i) = PlaneSize(sz) + ChromaSize(f.sub, sz) + i
  <2>1. UFirst(Shape(f)) = TRUE
    BY <1>5 DEF UFirst
  <2> DEFINE n == PlaneSize(sz)  c == ChromaSize(f.sub, sz)
  <2>2. /\ ChromaIndex(Shape(f), sz, "u", i) = n + 0 + i * 1
        /\ ChromaIndex(Shape(f), sz, "v", i) = n + c + i * 1
    BY <1>5, <2>1 DEF ChromaIndex
  <2> HIDE DEF n, c
  <2>3. n + 0 + i * 1 = n + i /\ n + c + i * 1 = n + c + i
    BY <1>6 DEF n, c
  <2>4. QED
    BY <2>2, <2>3 DEF n, c
<1>9. QED
  BY <1>2, <1>4, <1>5, <1>7, <1>8
-----------------------------------------------------------------------------
(* Packed formats *)

\* The offsets are those of four samples, or of the three or four of a pixel.
LEMMA OffsetsLemma ==
    ASSUME NEW f, NEW sz, NEW set, Drawable(f, sz, set), ~f.planar, f.predefined = "none"
    PROVE  LET o == PackedOffsets(f.order)
           IN  \/ /\ f.sub = "422" /\ f.order \notin {"YUV", "YVU"} /\ ~HasAlpha(f)
                  /\ o.y \in {0, 1} /\ {o.u, o.v} \subseteq {0, 1, 2, 3}
               \/ /\ f.sub = "444" /\ ~PackedInBytes(f)
                  /\ HasAlpha(f) = (f.order \notin {"YUV", "YVU"})
                  /\ {o.y, o.u, o.v} \subseteq IF HasAlpha(f) THEN {0, 1, 2, 3} ELSE {0, 1, 2}
<1>1. /\ f.order \in {"YUV", "YVU", "YUVA", "AYUV", "VUYA", "UYVY", "VYUY", "YUYV", "YVYU"}
      /\ f.sub = IF f.order \in {"UYVY", "VYUY", "YUYV", "YVYU"} THEN "422" ELSE "444"
  BY DEF Drawable, PixelFormats, CanConvertToRGB, IsValid
<1>2. CASE f.sub = "422"
  <2>1. f.order \in {"UYVY", "VYUY", "YUYV", "YVYU"}
    BY <1>1, <1>2
  <2>2. QED
    BY <1>2, <2>1 DEF PackedOffsets, HasAlpha
<1>3. CASE f.sub = "444"
  <2>1. f.order \in {"YUV", "YVU", "YUVA", "AYUV", "VUYA"}
    BY <1>1, <1>3
  <2>2. ~PackedInBytes(f)
    BY <1>3 DEF PackedInBytes
  <2>3. CASE f.order \in {"YUV", "YVU"}
    <3>1. HasAlpha(f) = FALSE /\ (f.order \notin {"YUV", "YVU"}) = FALSE
      BY <2>3 DEF HasAlpha
    <3>2. /\ PackedOffsets(f.order).y \in {0, 1, 2} /\ PackedOffsets(f.order).u \in {0, 1, 2}
          /\ PackedOffsets(f.order).v \in {0, 1, 2}
      BY <2>3 DEF PackedOffsets
    <3>3. QED
      BY <1>3, <2>2, <3>1, <3>2
  <2>4. CASE f.order \in {"YUVA", "AYUV", "VUYA"}
    <3>1. HasAlpha(f) = TRUE /\ (f.order \notin {"YUV", "YVU"}) = TRUE
      BY <2>4 DEF HasAlpha
    <3>2. /\ PackedOffsets(f.order).y \in {0, 1, 2, 3} /\ PackedOffsets(f.order).u \in {0, 1, 2, 3}
          /\ PackedOffsets(f.order).v \in {0, 1, 2, 3}
      BY <2>4 DEF PackedOffsets
    <3>3. QED
      BY <1>3, <2>2, <3>1, <3>2
  <2>5. QED
    BY <2>1, <2>3, <2>4
<1>4. QED
  BY <1>1, <1>2, <1>3

LEMMA Packed422Cells ==
    ASSUME NEW f, NEW sz, NEW set, Drawable(f, sz, set), ~f.planar, f.predefined = "none",
           f.sub = "422"
    PROVE  LET o == PackedOffsets(f.order)
               In(block, k) == IF PackedInBytes(f) THEN Sample(5 * block, k, "packed10")
                                                   ELSE ValueFromSource(f, 4 * block + k)
           IN  /\ \A j \in 0 .. PlaneSize(sz) - 1 :
                     Buffer(f, sz, set)[j] = In(j \div 2, o.y + 2 * (j % 2))
               /\ \A i \in 0 .. ChromaSize(f.sub, sz) - 1 :
                     /\ Cell(f, sz, set, "u", i) = In(i, o.u)
                     /\ Cell(f, sz, set, "v", i) = In(i, o.v)
<1> DEFINE o == PackedOffsets(f.order)
           In(block, k) == IF PackedInBytes(f) THEN Sample(5 * block, k, "packed10")
                                               ELSE ValueFromSource(f, 4 * block + k)
           n == PlaneSize(sz)  c == ChromaSize(f.sub, sz)
<1>1. n \in Nat /\ c \in Nat
  BY ChromaIsSmaller
<1>2. c = (sz[1] \div 2) * sz[2]
  <2>1. sz[2] \div 1 = sz[2]
    BY PlaneLemma
  <2>2. QED
    BY <2>1 DEF ChromaSize, SubsamplingHor, SubsamplingVer
<1>3. Buffer(f, sz, set) =
          [i \in 0 .. (n + 2 * c - 1) |->
              IF i < n THEN In(i \div 2, o.y + 2 * (i % 2))
              ELSE IF i < n + c THEN In(i - n, o.u)
              ELSE In(i - n - c, o.v)]
  <2>1. Buffer(f, sz, set) = PackedToPlanar(f, sz)
    BY DEF Buffer
  <2> HIDE DEF n, c
  <2>2. QED
    BY <1>2, <2>1 DEF PackedToPlanar, Planes, n
<1> HIDE DEF n, c, In
<1>4. ASSUME NEW j \in 0 .. n - 1
      PROVE  Buffer(f, sz, set)[j] = In(j \div 2, o.y + 2 * (j % 2))
  BY <1>1, <1>3
<1>5. ASSUME NEW i \in 0 .. c - 1
      PROVE  Cell(f, sz, set, "u", i) = In(i, o.u) /\ Cell(f, sz, set, "v", i) = In(i, o.v)
  <2>1. /\ Cell(f, sz, set, "u", i) = Buffer(f, sz, set)[n + i]
        /\ Cell(f, sz, set, "v", i) = Buffer(f, sz, set)[n + c + i]
    BY TemporaryIndex DEF Cell, n, c
  <2> DEFINE j == n + i  k == n + c + i
  <2>2. /\ j \in 0 .. (n + 2 * c - 1) /\ ~(j < n) /\ j < n + c /\ j - n = i
        /\ k \in 0 .. (n + 2 * c - 1) /\ ~(k < n) /\ ~(k < n + c) /\ k - n - c = i
    BY <1>1
  <2> HIDE DEF j, k
  <2>3. Buffer(f, sz, set)[j] = In(j - n, o.u)
    BY <1>3, <2>2
  <2>4. Buffer(f, sz, set)[k] = In(k - n - c, o.v)
    BY <1>3, <2>2
  <2>5. QED
    BY <2>1, <2>2, <2>3, <2>4 DEF j, k
<1>6. QED
  BY <1>4, <1>5 DEF n, c, In

LEMMA Packed444Cells ==
    ASSUME NEW f, NEW sz, NEW set, Drawable(f, sz, set), ~f.planar, f.predefined = "none",
           f.sub = "444"
    PROVE  LET o    == PackedOffsets(f.order)
               next == IF HasAlpha(f) THEN 4 ELSE 3
           IN  /\ \A j \in 0 .. PlaneSize(sz) - 1 :
                     Buffer(f, sz, set)[j] = ValueFromSource(f, j * next + o.y)
               /\ \A i \in 0 .. ChromaSize(f.sub, sz) - 1 :
                     /\ Cell(f, sz, set, "u", i) = ValueFromSource(f, i * next + o.u)
                     /\ Cell(f, sz, set, "v", i) = ValueFromSource(f, i * next + o.v)
<1> DEFINE o == PackedOffsets(f.order)
           next == IF HasAlpha(f) THEN 4 ELSE 3
           n == PlaneSize(sz)
<1>1. n \in Nat /\ ChromaSize(f.sub, sz) = n
  <2>1. sz[1] \div 1 = sz[1] /\ sz[2] \div 1 = sz[2]
    BY PlaneLemma
  <2>2. QED
    BY <2>1, ChromaIsSmaller DEF ChromaSize, SubsamplingHor, SubsamplingVer, PlaneSize
<1>2. next = IF f.order \in {"YUV", "YVU"} THEN 3 ELSE 4
  BY OffsetsLemma
<1>3. Buffer(f, sz, set) =
          [i \in 0 .. (n + 2 * n - 1) |->
              IF i < n THEN ValueFromSource(f, i * next + o.y)
              ELSE IF i < n + n THEN ValueFromSource(f, (i - n) * next + o.u)
              ELSE ValueFromSource(f, (i - n - n) * next + o.v)]
  <2>1. Buffer(f, sz, set) = PackedToPlanar(f, sz)
    BY DEF Buffer
  <2> HIDE DEF n, next
  <2>2. QED
    BY <1>2, <2>1 DEF PackedToPlanar, Planes, n
<1> HIDE DEF n, next
<1>4. ASSUME NEW j \in 0 .. n - 1
      PROVE  Buffer(f, sz, set)[j] = ValueFromSource(f, j * next + o.y)
  BY <1>1, <1>3
<1>5. ASSUME NEW i \in 0 .. n - 1
      PROVE  /\ Cell(f, sz, set, "u", i) = ValueFromSource(f, i * next + o.u)
             /\ Cell(f, sz, set, "v", i) = ValueFromSource(f, i * next + o.v)
  <2>1. /\ Cell(f, sz, set, "u", i) = Buffer(f, sz, set)[n + i]
        /\ Cell(f, sz, set, "v", i) = Buffer(f, sz, set)[n + n + i]
    BY <1>1, TemporaryIndex DEF Cell, n
  <2> DEFINE j == n + i  k == n + n + i
  <2>2. /\ j \in 0 .. (n + 2 * n - 1) /\ ~(j < n) /\ j < n + n /\ j - n = i
        /\ k \in 0 .. (n + 2 * n - 1) /\ ~(k < n) /\ ~(k < n + n) /\ k - n - n = i
    BY <1>1
  <2> HIDE DEF j, k
  <2>3. Buffer(f, sz, set)[j] = ValueFromSource(f, (j - n) * next + o.u)
    BY <1>3, <2>2
  <2>4. Buffer(f, sz, set)[k] = ValueFromSource(f, (k - n - n) * next + o.v)
    BY <1>3, <2>2
  <2>5. QED
    BY <2>1, <2>2, <2>3, <2>4 DEF j, k
<1>6. QED
  BY <1>1, <1>4, <1>5 DEF n, next
\* Bytes that are packed but read as if they were not are left out.
LEMMA PackedBytes ==
    ASSUME NEW f, NEW sz, NEW set, Drawable(f, sz, set), ~f.planar, f.predefined = "none",
           f.bytePacking /\ ~PackedInBytes(f) => f.bits \in {8, 16}
    PROVE  /\ \A j \in 0 .. PlaneSize(sz) - 1 :
                 LastByteOf(Buffer(f, sz, set)[j]) < BytesPerFrame(f, sz, set)
           /\ \A i \in 0 .. ChromaSize(f.sub, sz) - 1 : \A comp \in {"u", "v"} :
                 LastByteOf(Cell(f, sz, set, comp, i)) < BytesPerFrame(f, sz, set)
<1> DEFINE o == PackedOffsets(f.order)
           n == PlaneSize(sz)  c == ChromaSize(f.sub, sz)
<1>1. n \in Nat \ {0} /\ c \in Nat \ {0} /\ n = SubsamplingHor(f.sub) * SubsamplingVer(f.sub) * c
      /\ f.bits \in 8 .. 16 /\ f.sub # "400" /\ f.sub # "440"
  BY ChromaIsSmaller, TemporaryIndex DEF Drawable, CanConvertToRGB
<1>2. CASE PackedInBytes(f)
  <2>1. f.sub = "422" /\ f.bits = 10 /\ f.bytePacking /\ n = 2 * c
    BY <1>1, <1>2 DEF PackedInBytes, SubsamplingHor, SubsamplingVer
  <2>2. BytesPerFrame(f, sz, set) = 5 * c
    <3>1. BytesPerFrame(f, sz, set) = ((10 * 4 + 7) \div 8) * (sz[1] \div 2) * sz[2]
      BY <2>1 DEF BytesPerFrame
    <3> DEFINE a == sz[1] \div 2  h == sz[2]
    <3>2. a \in Nat /\ h \in Nat
      BY PlaneLemma
    <3>3. c = a * h
      <4>1. h \div 1 = h
        BY <3>2
      <4>2. QED
        BY <2>1, <4>1 DEF ChromaSize, SubsamplingHor, SubsamplingVer
    <3> HIDE DEF a, h, c
    <3>4. ((10 * 4 + 7) \div 8) = 5 /\ 5 * a * h = 5 * (a * h)
      BY <3>2
    <3>5. QED
      BY <3>1, <3>3, <3>4 DEF a, h
  <2>3. ASSUME NEW block \in 0 .. c - 1, NEW k \in 0 .. 3
        PROVE  LastByteOf(Sample(5 * block, k, "packed10")) < BytesPerFrame(f, sz, set)
    <3>1. LastByteOf(Sample(5 * block, k, "packed10")) = 5 * block + k + 1
      BY DEF LastByteOf, Sample
    <3> HIDE DEF c
    <3>2. QED
      BY <1>1, <2>2, <3>1
  <2>4. o.y \in {0, 1} /\ o.u \in {0, 1, 2, 3} /\ o.v \in {0, 1, 2, 3}
    BY <2>1, OffsetsLemma
  <2>5. ASSUME NEW j \in 0 .. n - 1
        PROVE  LastByteOf(Buffer(f, sz, set)[j]) < BytesPerFrame(f, sz, set)
    <3>1. Buffer(f, sz, set)[j] = Sample(5 * (j \div 2), o.y + 2 * (j % 2), "packed10")
      BY <1>2, <2>1, Packed422Cells
    <3> DEFINE y == o.y
    <3>2. y \in {0, 1}
      BY <2>4
    <3> HIDE DEF n, c, y
    <3>3. j \div 2 \in 0 .. c - 1 /\ y + 2 * (j % 2) \in 0 .. 3
      BY <1>1, <2>1, <3>2
    <3>4. QED
      BY <2>3, <3>1, <3>3 DEF y
  <2>6. ASSUME NEW i \in 0 .. c - 1
        PROVE  /\ LastByteOf(Cell(f, sz, set, "u", i)) < BytesPerFrame(f, sz, set)
               /\ LastByteOf(Cell(f, sz, set, "v", i)) < BytesPerFrame(f, sz, set)
    <3>1. /\ Cell(f, sz, set, "u", i) = Sample(5 * i, o.u, "packed10")
          /\ Cell(f, sz, set, "v", i) = Sample(5 * i, o.v, "packed10")
      BY <1>2, <2>1, Packed422Cells
    <3>2. o.u \in 0 .. 3 /\ o.v \in 0 .. 3
      BY <2>4
    <3>3. QED
      BY <2>3, <3>1, <3>2
  <2>7. QED
    BY <2>5, <2>6
<1>3. CASE ~PackedInBytes(f) /\ f.sub = "422"
  <2>1. n = 2 * c /\ ~HasAlpha(f)
    BY <1>1, <1>3, OffsetsLemma DEF SubsamplingHor, SubsamplingVer
  <2>2. BytesPerFrame(f, sz, set) = (n + 2 * c + 0) * BytesPerSample(f)
    BY <1>1, <1>3, <2>1, FrameSize
  <2>3. ASSUME NEW block \in 0 .. c - 1, NEW k \in 0 .. 3
        PROVE  LastByteOf(ValueFromSource(f, 4 * block + k)) < BytesPerFrame(f, sz, set)
    <3> DEFINE idx == 4 * block + k  all == n + 2 * c + 0
    <3> HIDE DEF n, c
    <3>1. idx \in Int /\ all \in Int /\ idx < all
      BY <1>1, <2>1
    <3> HIDE DEF idx, all
    <3>2. LastByteOf(ValueFromSource(f, idx)) < all * BytesPerSample(f)
      BY <1>1, <3>1, OwnBytes
    <3>3. QED
      BY <2>2, <3>2 DEF idx, all
  <2>4. o.y \in {0, 1} /\ o.u \in {0, 1, 2, 3} /\ o.v \in {0, 1, 2, 3}
    BY <1>3, OffsetsLemma
  <2>5. ASSUME NEW j \in 0 .. n - 1
        PROVE  LastByteOf(Buffer(f, sz, set)[j]) < BytesPerFrame(f, sz, set)
    <3>1. Buffer(f, sz, set)[j] = ValueFromSource(f, 4 * (j \div 2) + (o.y + 2 * (j % 2)))
      BY <1>3, Packed422Cells
    <3> DEFINE y == o.y
    <3>2. y \in {0, 1}
      BY <2>4
    <3> HIDE DEF n, c, y
    <3>3. j \div 2 \in 0 .. c - 1 /\ y + 2 * (j % 2) \in 0 .. 3
      BY <1>1, <2>1, <3>2
    <3>4. QED
      BY <2>3, <3>1, <3>3 DEF y
  <2>6. ASSUME NEW i \in 0 .. c - 1
        PROVE  /\ LastByteOf(Cell(f, sz, set, "u", i)) < BytesPerFrame(f, sz, set)
               /\ LastByteOf(Cell(f, sz, set, "v", i)) < BytesPerFrame(f, sz, set)
    <3>1. /\ Cell(f, sz, set, "u", i) = ValueFromSource(f, 4 * i + o.u)
          /\ Cell(f, sz, set, "v", i) = ValueFromSource(f, 4 * i + o.v)
      BY <1>3, Packed422Cells
    <3>2. o.u \in 0 .. 3 /\ o.v \in 0 .. 3
      BY <2>4
    <3>3. QED
      BY <2>3, <3>1, <3>2
  <2>7. QED
    BY <2>5, <2>6
<1>4. CASE f.sub = "444"
  <2> DEFINE next == IF HasAlpha(f) THEN 4 ELSE 3
  <2>1. n = c /\ ~PackedInBytes(f)
    BY <1>1, <1>4, OffsetsLemma DEF SubsamplingHor, SubsamplingVer
  <2>2. BytesPerFrame(f, sz, set) = (n * next) * BytesPerSample(f)
    <3>1. BytesPerFrame(f, sz, set) =
              (n + 2 * c + (IF HasAlpha(f) THEN n ELSE 0)) * BytesPerSample(f)
      BY <1>1, <1>4, <2>1, FrameSize
    <3>2. n + 2 * c + (IF HasAlpha(f) THEN n ELSE 0) = n * next
      <4> HIDE DEF n, c
      <4>1. QED
        BY <1>1, <2>1
    <3>3. QED
      BY <3>1, <3>2
  <2>3. ASSUME NEW i \in 0 .. n - 1, NEW k \in 0 .. next - 1
        PROVE  LastByteOf(ValueFromSource(f, i * next + k)) < BytesPerFrame(f, sz, set)
    <3> DEFINE idx == i * next + k  all == n * next
    <3>1. next \in {3, 4}
      OBVIOUS
    <3> HIDE DEF n, next
    <3>2. idx \in Int /\ all \in Int /\ idx < all
      BY <1>1, <3>1
    <3> HIDE DEF idx, all
    <3>3. LastByteOf(ValueFromSource(f, idx)) < all * BytesPerSample(f)
      BY <1>1, <3>2, OwnBytes
    <3>4. QED
      BY <2>2, <3>3 DEF idx, all
  <2>4. o.y \in 0 .. next - 1 /\ o.u \in 0 .. next - 1 /\ o.v \in 0 .. next - 1
    <3>1. {o.y, o.u, o.v} \subseteq IF HasAlpha(f) THEN {0, 1, 2, 3} ELSE {0, 1, 2}
      BY <1>4, OffsetsLemma
    <3>2. \A k \in (IF HasAlpha(f) THEN {0, 1, 2, 3} ELSE {0, 1, 2}) : k \in 0 .. next - 1
      OBVIOUS
    <3>3. QED
      BY <3>1, <3>2
  <2>5. \A j \in 0 .. n - 1 : Buffer(f, sz, set)[j] = ValueFromSource(f, j * next + o.y)
    BY <1>4, Packed444Cells
  <2>6. \A i \in 0 .. c - 1 :
            /\ Cell(f, sz, set, "u", i) = ValueFromSource(f, i * next + o.u)
            /\ Cell(f, sz, set, "v", i) = ValueFromSource(f, i * next + o.v)
    BY <1>4, Packed444Cells
  <2> HIDE DEF n, c, o, next
  <2>7. QED
    BY <2>1, <2>3, <2>4, <2>5, <2>6 DEF n, c
<1>5. QED
  BY <1>2, <1>3, <1>4, OffsetsLemma
LEMMA PackedValue ==
    ASSUME NEW f, NEW sz, NEW set, Drawable(f, sz, set), ~f.planar, f.predefined = "none",
           ~PackedInBytes(f), NEW x \in 0 .. sz[1] - 1, NEW y \in 0 .. sz[2] - 1
    PROVE  /\ PixelValue(f, sz, set, x, y).y = Buffer(f, sz, set)[y * sz[1] + x]
           /\ \A comp \in {"u", "v"} :
                 PixelValue(f, sz, set, x, y)[comp] =
                     Cell(f, sz, set, comp, MonochromeIndex(f, sz, x, y))
<1> DEFINE o == PackedOffsets(f.order)
           i == MonochromeIndex(f, sz, x, y)
           w == sz[1]
<1>1. PixelValue(f, sz, set, x, y) = ValuePacked(f, sz, x, y)
  BY DEF PixelValue
<1>2. /\ i \in 0 .. ChromaSize(f.sub, sz) - 1 /\ y * w + x \in 0 .. PlaneSize(sz) - 1
      /\ w \in Nat \ {0} /\ x \in 0 .. w - 1 /\ y \in Nat
  BY PixelLemma, PlaneLemma
<1>3. CASE f.sub = "422"
  <2> DEFINE cw == w \div 2  a == x \div 2
  <2>1. /\ i = y * cw + a /\ w = 2 * cw /\ cw \in Nat
    <3>1. SubsamplingHor(f.sub) = 2 /\ SubsamplingVer(f.sub) = 1
      BY <1>3 DEF SubsamplingHor, SubsamplingVer
    <3>2. i = (y \div 1) * cw + a
      BY <3>1 DEF MonochromeIndex
    <3>3. y \div 1 = y
      BY <1>2
    <3>4. w = 2 * cw /\ cw \in Nat
      BY <3>1, PlaneLemma DEF ChromaWidth
    <3>5. QED
      BY <3>2, <3>3, <3>4
  <2>2. y * w + x = 2 * (y * cw) + x
    <3> HIDE DEF w, cw
    <3>1. QED
      BY <1>2, <2>1
  <2>3. (y * w + x) \div 2 = y * cw + a /\ (y * w + x) % 2 = x % 2
    <3> HIDE DEF w, cw
    <3>1. PICK k \in Nat : k = y * cw
      BY <1>2, <2>1
    <3>2. QED
      BY <1>2, <2>2, <3>1
  <2>4. w * 2 * y + a * 4 = 4 * (y * cw + a)
    <3> HIDE DEF w, cw
    <3>1. w * 2 * y = 4 * (y * cw)
      BY <1>2, <2>1
    <3>2. QED
      BY <1>2, <2>1, <3>1
  <2>5. /\ ValuePacked(f, sz, x, y).y = ValueFromSource(f, w * 2 * y + a * 4 + (o.y + 2 * (x % 2)))
        /\ ValuePacked(f, sz, x, y).u = ValueFromSource(f, w * 2 * y + a * 4 + o.u)
        /\ ValuePacked(f, sz, x, y).v = ValueFromSource(f, w * 2 * y + a * 4 + o.v)
    BY <1>3 DEF ValuePacked
  <2>6. Buffer(f, sz, set)[y * w + x] =
            ValueFromSource(f, 4 * ((y * w + x) \div 2) + (o.y + 2 * ((y * w + x) % 2)))
    BY <1>2, <1>3, Packed422Cells
  <2>7. /\ Cell(f, sz, set, "u", i) = ValueFromSource(f, 4 * i + o.u)
        /\ Cell(f, sz, set, "v", i) = ValueFromSource(f, 4 * i + o.v)
    BY <1>2, <1>3, Packed422Cells
  <2> HIDE DEF i, o, w, cw, a
  <2>8. QED
    BY <1>1, <2>1, <2>3, <2>4, <2>5, <2>6, <2>7 DEF i, w
<1>4. CASE f.sub = "444"
  <2> DEFINE next == IF HasAlpha(f) THEN 4 ELSE 3
  <2>1. i = y * w + x
    <3>1. i = (y \div 1) * (w \div 1) + x \div 1
      BY <1>4 DEF MonochromeIndex, SubsamplingHor, SubsamplingVer
    <3>2. y \div 1 = y /\ w \div 1 = w /\ x \div 1 = x
      BY <1>2
    <3>3. QED
      BY <3>1, <3>2
  <2>2. w * y + x = y * w + x
    <3> HIDE DEF w
    <3>1. QED
      BY <1>2
  <2>3. next = IF f.order \in {"YUV", "YVU"} THEN 3 ELSE 4
    BY <1>4, OffsetsLemma
  <2>4. o.y \in {0, 1, 2, 3}
    BY <1>4, OffsetsLemma
  <2>5. /\ ValuePacked(f, sz, x, y).y = ValueFromSource(f, (w * y + x) * next + (o.y + 0))
        /\ ValuePacked(f, sz, x, y).u = ValueFromSource(f, (w * y + x) * next + o.u)
        /\ ValuePacked(f, sz, x, y).v = ValueFromSource(f, (w * y + x) * next + o.v)
    <3> HIDE DEF next
    <3>1. QED
      BY <1>4, <2>3 DEF ValuePacked
  <2>6. o.y + 0 = o.y
    BY <2>4
  <2>7. Buffer(f, sz, set)[y * w + x] = ValueFromSource(f, (y * w + x) * next + o.y)
    BY <1>2, <1>4, Packed444Cells
  <2>8. /\ Cell(f, sz, set, "u", i) = ValueFromSource(f, i * next + o.u)
        /\ Cell(f, sz, set, "v", i) = ValueFromSource(f, i * next + o.v)
    BY <1>2, <1>4, Packed444Cells
  <2> HIDE DEF i, o, w, next
  <2>9. QED
    BY <1>1, <2>1, <2>2, <2>5, <2>6, <2>7, <2>8 DEF i, w
<1>5. QED
  BY <1>3, <1>4, OffsetsLemma
-----------------------------------------------------------------------------
(* V210: lines of groups of six pixels in sixteen bytes *)

V210Stride(sz) == (RoundUp(sz[1], 48) \div 6) * 16

\* Value k of the group of six pixels.
V210Sample(sz, line, six, k) ==
    Sample(line * V210Stride(sz) + six * 16 + 4 * (k \div 3), k % 3, "word10")

LEMMA V210Size ==
    ASSUME NEW sz, sz[1] \in Nat \ {0}, sz[2] \in Nat \ {0}
    PROVE  /\ V210Stride(sz) \in Nat
           /\ (sz[2] * RoundUp(sz[1], 48) * 16) \div 6 = sz[2] * V210Stride(sz)
           /\ \A c \in 0 .. sz[1] - 1 : (c \div 6) * 16 + 16 <= V210Stride(sz)
<1> DEFINE w == sz[1]  h == sz[2]  m == (w + 48 - 1) \div 48
<1>1. w \in Nat \ {0} /\ h \in Nat \ {0}
  OBVIOUS
<1>2. RoundUp(w, 48) = m * 48
  BY DEF RoundUp
<1> HIDE DEF w, h
<1>3. m \in Nat /\ w <= m * 48
  BY <1>1
<1> HIDE DEF m
<1>4. (RoundUp(w, 48) \div 6) * 16 = 128 * m
  BY <1>2, <1>3
<1>5. (h * RoundUp(w, 48) * 16) \div 6 = h * (128 * m)
  <2>1. PICK k \in Nat : k = h * m
    BY <1>1, <1>3
  <2>2. h * (m * 48) * 16 = 768 * k /\ h * (128 * m) = 128 * k
    BY <1>1, <1>3, <2>1
  <2>3. (768 * k) \div 6 = 128 * k
    OBVIOUS
  <2>4. QED
    BY <1>2, <2>2, <2>3
<1>6. \A c \in 0 .. w - 1 : (c \div 6) * 16 + 16 <= 128 * m
  BY <1>1, <1>3
<1>7. QED
  BY <1>3, <1>4, <1>5, <1>6 DEF w, h, V210Stride
LEMMA V210Shape ==
    ASSUME NEW f, NEW sz, NEW set, Drawable(f, sz, set), f.predefined = "V210"
    PROVE  /\ ~f.planar /\ f.sub = "422"
           /\ ChromaWidth(f, sz) = sz[1] \div 2 /\ ChromaHeight(f, sz) = sz[2]
           /\ SubsamplingHor(f.sub) = 2 /\ SubsamplingVer(f.sub) = 1
           /\ ChromaSize(f.sub, sz) = (sz[1] \div 2) * sz[2]
<1>1. ~f.planar /\ f.sub = "422"
  BY DEF Drawable, PixelFormats, PredefinedSub
<1>2. SubsamplingHor(f.sub) = 2 /\ SubsamplingVer(f.sub) = 1
  BY <1>1 DEF SubsamplingHor, SubsamplingVer
<1>3. ChromaWidth(f, sz) = sz[1] \div 2 /\ ChromaHeight(f, sz) = sz[2] \div 1
  BY <1>2 DEF ChromaWidth, ChromaHeight
<1>4. sz[2] \div 1 = sz[2]
  BY PlaneLemma
<1>5. QED
  BY <1>1, <1>2, <1>3, <1>4, PlaneLemma

LEMMA V210Cells ==
    ASSUME NEW f, NEW sz, NEW set, Drawable(f, sz, set), f.predefined = "V210"
    PROVE  LET w == sz[1]
               cw == ChromaWidth(f, sz)
           IN  /\ \A j \in 0 .. PlaneSize(sz) - 1 :
                     Buffer(f, sz, set)[j] =
                         V210Sample(sz, j \div w, (j % w) \div 6, 1 + 2 * ((j % w) % 6))
               /\ \A i \in 0 .. ChromaSize(f.sub, sz) - 1 :
                     /\ Cell(f, sz, set, "u", i) =
                            V210Sample(sz, i \div cw, (i % cw) \div 3, 0 + 4 * ((i % cw) % 3))
                     /\ Cell(f, sz, set, "v", i) =
                            V210Sample(sz, i \div cw, (i % cw) \div 3, 2 + 4 * ((i % cw) % 3))
<1> DEFINE w == sz[1]  cw == ChromaWidth(f, sz)
           n == PlaneSize(sz)  c == ChromaSize(f.sub, sz)
           Y(i) == V210Sample(sz, i \div w, (i % w) \div 6, 1 + 2 * ((i % w) % 6))
           C(i, k) == V210Sample(sz, i \div cw, (i % cw) \div 3, k + 4 * ((i % cw) % 3))
<1>1. n \in Nat /\ c \in Nat /\ c = (w \div 2) * sz[2] /\ cw = w \div 2 /\ ~f.planar
  BY ChromaIsSmaller, V210Shape
<1>2. Buffer(f, sz, set) =
          [i \in 0 .. (n + 2 * c - 1) |->
              IF i < n THEN Y(i) ELSE IF i < n + c THEN C(i - n, 0) ELSE C(i - n - c, 2)]
  <2>1. Buffer(f, sz, set) = V210ToPlanar(sz)
    BY <1>1 DEF Buffer
  <2> HIDE DEF n, c, cw
  <2>2. QED
    BY <1>1, <2>1 DEF V210ToPlanar, Planes, V210Sample, V210Stride, n
<1> HIDE DEF n, c, Y, C
<1>3. ASSUME NEW j \in 0 .. n - 1
      PROVE  Buffer(f, sz, set)[j] = Y(j)
  BY <1>1, <1>2
<1>4. ASSUME NEW i \in 0 .. c - 1
      PROVE  Cell(f, sz, set, "u", i) = C(i, 0) /\ Cell(f, sz, set, "v", i) = C(i, 2)
  <2>1. /\ Cell(f, sz, set, "u", i) = Buffer(f, sz, set)[n + i]
        /\ Cell(f, sz, set, "v", i) = Buffer(f, sz, set)[n + c + i]
    BY <1>1, TemporaryIndex DEF Cell, n, c
  <2> DEFINE j == n + i  k == n + c + i
  <2>2. /\ j \in 0 .. (n + 2 * c - 1) /\ ~(j < n) /\ j < n + c /\ j - n = i
        /\ k \in 0 .. (n + 2 * c - 1) /\ ~(k < n) /\ ~(k < n + c) /\ k - n - c = i
    BY <1>1
  <2> HIDE DEF j, k
  <2>3. Buffer(f, sz, set)[j] = C(j - n, 0)
    BY <1>2, <2>2
  <2>4. Buffer(f, sz, set)[k] = C(k - n - c, 2)
    BY <1>2, <2>2
  <2>5. QED
    BY <2>1, <2>2, <2>3, <2>4 DEF j, k
<1>5. QED
  BY <1>3, <1>4 DEF n, c, Y, C

LEMMA V210Bytes ==
    ASSUME NEW f, NEW sz, NEW set, Drawable(f, sz, set), f.predefined = "V210"
    PROVE  /\ \A j \in 0 .. PlaneSize(sz) - 1 :
                 LastByteOf(Buffer(f, sz, set)[j]) < BytesPerFrame(f, sz, set)
           /\ \A i \in 0 .. ChromaSize(f.sub, sz) - 1 : \A comp \in {"u", "v"} :
                 LastByteOf(Cell(f, sz, set, comp, i)) < BytesPerFrame(f, sz, set)
<1> DEFINE w == sz[1]  h == sz[2]  cw == ChromaWidth(f, sz)  S == V210Stride(sz)
<1>1. /\ w \in Nat \ {0} /\ h \in Nat \ {0} /\ cw \in Nat \ {0} /\ w = 2 * cw /\ S \in Nat
      /\ \A x \in 0 .. w - 1 : (x \div 6) * 16 + 16 <= S
      /\ ChromaSize(f.sub, sz) = h * cw /\ PlaneSize(sz) = h * w
  <2>1. w \in Nat \ {0} /\ h \in Nat \ {0} /\ cw \in Nat \ {0} /\ w = 2 * cw
        /\ ChromaSize(f.sub, sz) = cw * h /\ PlaneSize(sz) = w * h
    BY PlaneLemma, V210Shape DEF PlaneSize
  <2>2. S \in Nat /\ \A x \in 0 .. w - 1 : (x \div 6) * 16 + 16 <= S
    BY <2>1, V210Size
  <2> HIDE DEF w, h, cw, S
  <2>3. cw * h = h * cw /\ w * h = h * w
    BY <2>1
  <2>4. QED
    BY <2>1, <2>2, <2>3
<1>2. BytesPerFrame(f, sz, set) = h * S
  <2>1. BytesPerFrame(f, sz, set) = (sz[2] * RoundUp(sz[1], 48) * 16) \div 6
    BY DEF BytesPerFrame
  <2>2. QED
    BY <1>1, <2>1, V210Size
<1>3. ASSUME NEW line \in 0 .. h - 1, NEW six \in Nat, NEW k \in 0 .. 11, six * 16 + 16 <= S
      PROVE  LastByteOf(V210Sample(sz, line, six, k)) < BytesPerFrame(f, sz, set)
  <2>1. LastByteOf(V210Sample(sz, line, six, k)) =
            line * S + six * 16 + 4 * (k \div 3) + (k % 3) + 1
    BY DEF V210Sample, LastByteOf, Sample
  <2> HIDE DEF h, S
  <2>2. 4 * (k \div 3) + (k % 3) + 1 < 16
    OBVIOUS
  <2>3. PICK a \in Nat : a = six * 16 + 4 * (k \div 3) + (k % 3) + 1 /\ a < S
    BY <1>1, <1>3, <2>2
  <2>4. line * S + a \in 0 .. h * S - 1
    BY <1>1, <2>3, GridBound
  <2>5. PICK b \in Nat : b = line * S
    BY <1>1
  <2>6. b + six * 16 + 4 * (k \div 3) + (k % 3) + 1 = b + a
    BY <2>3
  <2>7. QED
    BY <1>1, <1>2, <2>1, <2>4, <2>5, <2>6
<1> HIDE DEF w, h, cw, S
<1>4. ASSUME NEW j \in 0 .. PlaneSize(sz) - 1
      PROVE  LastByteOf(Buffer(f, sz, set)[j]) < BytesPerFrame(f, sz, set)
  <2>1. j \div w \in 0 .. h - 1 /\ j % w \in 0 .. w - 1
    BY <1>1, GridInverse
  <2>2. (j % w) \div 6 \in Nat /\ 1 + 2 * ((j % w) % 6) \in 0 .. 11
        /\ ((j % w) \div 6) * 16 + 16 <= S
    BY <1>1, <2>1
  <2>3. Buffer(f, sz, set)[j] =
            V210Sample(sz, j \div w, (j % w) \div 6, 1 + 2 * ((j % w) % 6))
    BY V210Cells DEF w
  <2>4. QED
    BY <1>3, <2>1, <2>2, <2>3
<1>5. ASSUME NEW i \in 0 .. ChromaSize(f.sub, sz) - 1, NEW comp \in {"u", "v"}
      PROVE  LastByteOf(Cell(f, sz, set, comp, i)) < BytesPerFrame(f, sz, set)
  <2> DEFINE a == i % cw  six == a \div 3
  <2>1. i \div cw \in 0 .. h - 1 /\ a \in 0 .. cw - 1
    BY <1>1, GridInverse
  <2>2. six \in Nat /\ 0 + 4 * (a % 3) \in 0 .. 11 /\ 2 + 4 * (a % 3) \in 0 .. 11
        /\ six * 16 + 16 <= S
    <3>1. 2 * a \in 0 .. w - 1 /\ (2 * a) \div 6 = a \div 3
      BY <1>1, <2>1
    <3>2. six * 16 + 16 <= S
      BY <1>1, <3>1
    <3>3. QED
      BY <2>1, <3>2
  <2>3. /\ Cell(f, sz, set, "u", i) = V210Sample(sz, i \div cw, six, 0 + 4 * (a % 3))
        /\ Cell(f, sz, set, "v", i) = V210Sample(sz, i \div cw, six, 2 + 4 * (a % 3))
    BY V210Cells DEF cw
  <2> HIDE DEF a, six
  <2>4. QED
    BY <1>3, <2>1, <2>2, <2>3
<1>6. QED
  BY <1>4, <1>5

LEMMA V210Value ==
    ASSUME NEW f, NEW sz, NEW set, Drawable(f, sz, set), f.predefined = "V210",
           NEW x \in 0 .. sz[1] - 1, NEW y \in 0 .. sz[2] - 1
    PROVE  /\ PixelValue(f, sz, set, x, y).y = Buffer(f, sz, set)[y * sz[1] + x]
           /\ \A comp \in {"u", "v"} :
                 PixelValue(f, sz, set, x, y)[comp] =
                     Cell(f, sz, set, comp, MonochromeIndex(f, sz, x, y))
<1> DEFINE w == sz[1]  cw == ChromaWidth(f, sz)  i == MonochromeIndex(f, sz, x, y)
           j == y * w + x  six == x \div 6  sub == x % 6
           start == y * V210Stride(sz) + six * 16
<1>1. /\ w \in Nat \ {0} /\ cw \in Nat \ {0} /\ x \in 0 .. w - 1 /\ y \in Nat
      /\ i \in 0 .. ChromaSize(f.sub, sz) - 1 /\ j \in 0 .. PlaneSize(sz) - 1
      /\ x \div 2 \in 0 .. cw - 1 /\ start \in Int
  <2>1. V210Stride(sz) \in Nat
    BY PlaneLemma, V210Size
  <2>2. y \in Nat /\ six \in Nat
    BY PlaneLemma
  <2>3. y * V210Stride(sz) \in Nat
    BY <2>1, <2>2
  <2>4. start \in Int
    BY <2>2, <2>3
  <2>5. QED
    BY <2>4, PlaneLemma, PixelLemma, V210Shape
<1>2. i = y * cw + x \div 2
  <2>1. i = (y \div 1) * cw + x \div 2
    BY V210Shape DEF MonochromeIndex
  <2>2. y \div 1 = y
    BY <1>1
  <2>3. QED
    BY <2>1, <2>2
<1>3. PixelValue(f, sz, set, x, y) = ValueV210(sz, x, y)
  BY DEF PixelValue
<1>4. /\ Buffer(f, sz, set)[j] = V210Sample(sz, y, six, 1 + 2 * sub)
      /\ Cell(f, sz, set, "u", i) = V210Sample(sz, y, six, 0 + 4 * ((x \div 2) % 3))
      /\ Cell(f, sz, set, "v", i) = V210Sample(sz, y, six, 2 + 4 * ((x \div 2) % 3))
  <2> HIDE DEF w, cw, i, j
  <2>1. j \div w = y /\ j % w = x
    <3>1. x \in Nat /\ x < w
      BY <1>1
    <3>2. QED
      BY <1>1, <3>1, GridLemma DEF j
  <2>2. i \div cw = y /\ i % cw = x \div 2
    <3>1. x \div 2 \in Nat /\ x \div 2 < cw
      BY <1>1
    <3>2. QED
      BY <1>1, <1>2, <3>1, GridLemma
  <2>3. (x \div 2) \div 3 = six
    BY <1>1
  <2>4. /\ Buffer(f, sz, set)[j] =
               V210Sample(sz, j \div w, (j % w) \div 6, 1 + 2 * ((j % w) % 6))
        /\ Cell(f, sz, set, "u", i) =
               V210Sample(sz, i \div cw, (i % cw) \div 3, 0 + 4 * ((i % cw) % 3))
        /\ Cell(f, sz, set, "v", i) =
               V210Sample(sz, i \div cw, (i % cw) \div 3, 2 + 4 * ((i % cw) % 3))
    BY <1>1, V210Cells DEF w, cw
  <2> HIDE DEF six, sub
  <2>5. QED
    BY <2>1, <2>2, <2>3, <2>4 DEF sub
<1>5. \A k \in 0 .. 11 :
          V210Sample(sz, y, six, k) = Sample(start + 4 * (k \div 3), k % 3, "word10")
  BY DEF V210Sample
<1>6. ValueV210(sz, x, y) =
          [y |-> CASE sub = 0 -> Sample(start + 0, 1, "word10")
                   [] sub = 1 -> Sample(start + 4, 0, "word10")
                   [] sub = 2 -> Sample(start + 4, 2, "word10")
                   [] sub = 3 -> Sample(start + 8, 1, "word10")
                   [] sub = 4 -> Sample(start + 12, 0, "word10")
                   [] sub = 5 -> Sample(start + 12, 2, "word10"),
           u |-> CASE sub \in {0, 1} -> Sample(start + 0, 0, "word10")
                   [] sub \in {2, 3} -> Sample(start + 4, 1, "word10")
                   [] sub \in {4, 5} -> Sample(start + 8, 2, "word10"),
           v |-> CASE sub \in {0, 1} -> Sample(start + 0, 2, "word10")
                   [] sub \in {2, 3} -> Sample(start + 8, 0, "word10")
                   [] sub \in {4, 5} -> Sample(start + 12, 1, "word10")]
  BY DEF ValueV210, V210Stride
<1>7. sub \in 0 .. 5 /\ (x \div 2) % 3 = sub \div 2
  BY <1>1
<1> HIDE DEF w, cw, i, j, six, sub, start
<1>8. /\ ValueV210(sz, x, y).y = V210Sample(sz, y, six, 1 + 2 * sub)
      /\ ValueV210(sz, x, y).u = V210Sample(sz, y, six, 0 + 4 * (sub \div 2))
      /\ ValueV210(sz, x, y).v = V210Sample(sz, y, six, 2 + 4 * (sub \div 2))
  <2>1. CASE sub = 0
    BY <1>5, <1>6, <2>1
  <2>2. CASE sub = 1
    BY <1>5, <1>6, <2>2
  <2>3. CASE sub = 2
    BY <1>5, <1>6, <2>3
  <2>4. CASE sub = 3
    BY <1>5, <1>6, <2>4
  <2>5. CASE sub = 4
    BY <1>5, <1>6, <2>5
  <2>6. CASE sub = 5
    BY <1>5, <1>6, <2>6
  <2>7. QED
    BY <1>7, <2>1, <2>2, <2>3, <2>4, <2>5, <2>6
<1>9. QED
  BY <1>3, <1>4, <1>7, <1>8 DEF i, j, w
-----------------------------------------------------------------------------
(* NV15, NV20 and NV30: lines of groups of four samples in five bytes *)

IsNV(f) == f.predefined \in {"NV15", "NV20", "NV30"}

\* Sample k of the group in the luma lines, and in the chroma lines behind them.
LumaSample(sz, set, line, group, k) ==
    Sample(line * StrideY(sz, set) + group * 5, k, "nv10")
ChromaSample(f, sz, set, line, group, k) ==
    Sample(StrideY(sz, set) * sz[2] + line * StrideUV(f, sz, set) + group * 5, k, "nv10")

\* Which value of a pair is U, which one V.
FirstOf(set, comp) == IF set.swapped = (comp = "u") THEN 1 ELSE 0

LEMMA NVShape ==
    ASSUME NEW f, NEW sz, NEW set, Drawable(f, sz, set), IsNV(f)
    PROVE  /\ ~f.planar /\ set.swapped \in BOOLEAN
           /\ sz[1] = 4 * (sz[1] \div 4)
           /\ f.sub = IF f.predefined = "NV15" THEN "420"
                      ELSE IF f.predefined = "NV20" THEN "422" ELSE "444"
           /\ SubsamplingHor(f.sub) = IF f.predefined = "NV30" THEN 1 ELSE 2
           /\ SubsamplingVer(f.sub) = IF f.predefined = "NV15" THEN 2 ELSE 1
<1>1. ~f.planar /\ f.sub = PredefinedSub(f.predefined) /\ set.swapped \in BOOLEAN
  BY DEF Drawable, PixelFormats, IsNV, ConversionSettings
<1>2. f.sub = IF f.predefined = "NV15" THEN "420"
              ELSE IF f.predefined = "NV20" THEN "422" ELSE "444"
  BY <1>1 DEF PredefinedSub, IsNV
<1>3. sz[1] % 4 = 0
  BY DEF Drawable, WholeGroups, IsNV
<1>4. sz[1] \in Nat
  BY PlaneLemma
<1> DEFINE w == sz[1]
<1> HIDE DEF w
<1>5. w = 4 * (w \div 4)
  BY <1>3, <1>4 DEF w
<1>6. QED
  BY <1>1, <1>2, <1>5 DEF SubsamplingHor, SubsamplingVer, IsNV, w

\* The lines are long enough for their groups.
LEMMA NVSize ==
    ASSUME NEW f, NEW sz, NEW set, Drawable(f, sz, set), IsNV(f)
    PROVE  /\ StrideY(sz, set) \in Nat /\ StrideUV(f, sz, set) \in Nat
           /\ \A x \in 0 .. sz[1] - 1 : (x \div 4) * 5 + 5 <= StrideY(sz, set)
           /\ \A x \in 0 .. ChromaWidth(f, sz) - 1 : (x \div 2) * 5 + 5 <= StrideUV(f, sz, set)
           /\ BytesPerFrame(f, sz, set) =
                  StrideY(sz, set) * sz[2] + StrideUV(f, sz, set) * ChromaHeight(f, sz)
<1> DEFINE w == sz[1]  h == sz[2]  cw == ChromaWidth(f, sz)  ch == ChromaHeight(f, sz)
           S == StrideY(sz, set)  T == StrideUV(f, sz, set)  q == w \div 4
<1>1. /\ w \in Nat \ {0} /\ h \in Nat \ {0} /\ q \in Nat /\ w = 4 * q
      /\ cw \in Nat \ {0} /\ ch \in Nat \ {0}
      /\ w = SubsamplingHor(f.sub) * cw /\ h = SubsamplingVer(f.sub) * ch
      /\ set.strideY \in Nat /\ set.strideUV \in Nat
  BY PlaneLemma, NVShape DEF Drawable, ConversionSettings
<1>2. RoundUp(w, 4) \div 4 = q
  <2> HIDE DEF w
  <2>1. ((w + 4 - 1) \div 4) * 4 = 4 * q
    BY <1>1
  <2>2. (4 * q) \div 4 = q
    BY <1>1
  <2>3. QED
    BY <2>1, <2>2 DEF RoundUp
<1>3. S \in Nat /\ q * 5 <= S
  <2>1. S = IF set.strideY > q * 5 THEN set.strideY ELSE q * 5
    BY <1>2 DEF StrideY
  <2> HIDE DEF S, q
  <2>2. QED
    BY <1>1, <2>1
<1>4. T \in Nat /\ q * 5 <= T /\ (f.predefined = "NV30" => q * 5 * 2 <= T)
  <2> DEFINE lines == IF f.predefined = "NV30" THEN 2 ELSE 1
             given == IF set.strideUV > 0 THEN set.strideUV ELSE S * lines
  <2>1. T = IF given > q * 5 * lines THEN given ELSE q * 5 * lines
    BY <1>2 DEF StrideUV
  <2> HIDE DEF S, T, q
  <2>2. given \in Nat
    BY <1>1, <1>3
  <2>3. lines \in {1, 2} /\ (f.predefined = "NV30" => lines = 2)
    OBVIOUS
  <2> HIDE DEF given, lines
  <2>4. QED
    BY <1>1, <2>1, <2>2, <2>3
<1>5. \A x \in 0 .. w - 1 : (x \div 4) * 5 + 5 <= S
  <2> HIDE DEF w, S, q
  <2>1. QED
    BY <1>1, <1>3
<1>6. \A x \in 0 .. cw - 1 : (x \div 2) * 5 + 5 <= T
  <2>1. SubsamplingHor(f.sub) = IF f.predefined = "NV30" THEN 1 ELSE 2
    BY NVShape
  <2>2. CASE f.predefined = "NV30"
    <3>1. cw = 4 * q
      BY <1>1, <2>1, <2>2
    <3> HIDE DEF cw, T, q
    <3>2. QED
      BY <1>1, <1>4, <2>2, <3>1
  <2>3. CASE f.predefined # "NV30"
    <3>1. SubsamplingHor(f.sub) = 2
      BY <2>1, <2>3
    <3> HIDE DEF w, cw, T, q
    <3>2. cw = 2 * q
      BY <1>1, <3>1
    <3>3. QED
      BY <1>1, <1>4, <3>2
  <2>4. QED
    BY <2>2, <2>3
<1>7. BytesPerFrame(f, sz, set) = S * h + T * ch
  <2>1. SubsamplingVer(f.sub) = IF f.predefined = "NV15" THEN 2 ELSE 1
    BY NVShape
  <2>2. CASE f.predefined = "NV15"
    <3>1. h = 2 * ch
      BY <1>1, <2>1, <2>2
    <3>2. RoundUp(h, 2) = h
      <4> HIDE DEF h, ch
      <4>1. ((h + 2 - 1) \div 2) * 2 = h
        BY <1>1, <3>1
      <4>2. QED
        BY <4>1 DEF RoundUp
    <3>3. BytesPerFrame(f, sz, set) = S * h + (T * h) \div 2
      BY <2>2, <3>2 DEF BytesPerFrame
    <3> HIDE DEF S, T, h, ch
    <3>4. (T * h) \div 2 = T * ch
      <4>1. PICK k \in Nat : k = T * ch
        BY <1>1, <1>4
      <4>2. T * (2 * ch) = 2 * (T * ch)
        BY <1>1, <1>4
      <4>3. QED
        BY <3>1, <4>1, <4>2
    <3>5. QED
      BY <3>3, <3>4
  <2>3. CASE f.predefined # "NV15"
    <3>1. h = ch
      BY <1>1, <2>1, <2>3
    <3>2. BytesPerFrame(f, sz, set) = (S + T) * h
      BY <2>3 DEF BytesPerFrame, IsNV
    <3> HIDE DEF S, T, h, ch
    <3>3. (S + T) * h = S * h + T * h
      BY <1>1, <1>3, <1>4
    <3>4. QED
      BY <3>1, <3>2, <3>3
  <2>4. QED
    BY <2>2, <2>3
<1>8. QED
  BY <1>3, <1>4, <1>5, <1>6, <1>7

LEMMA NVCells ==
    ASSUME NEW f, NEW sz, NEW set, Drawable(f, sz, set), IsNV(f)
    PROVE  LET w == sz[1]
               cw == ChromaWidth(f, sz)
           IN  /\ \A j \in 0 .. PlaneSize(sz) - 1 :
                     Buffer(f, sz, set)[j] =
                         LumaSample(sz, set, j \div w, (j % w) \div 4, (j % w) % 4)
               /\ \A i \in 0 .. ChromaSize(f.sub, sz) - 1 : \A comp \in {"u", "v"} :
                     Cell(f, sz, set, comp, i) =
                         ChromaSample(f, sz, set, i \div cw, (i % cw) \div 2,
                                      2 * ((i % cw) % 2) + FirstOf(set, comp))
<1> DEFINE w == sz[1]  cw == ChromaWidth(f, sz)
           n == PlaneSize(sz)  c == ChromaSize(f.sub, sz)
           Y(i) == LumaSample(sz, set, i \div w, (i % w) \div 4, (i % w) % 4)
           C(i, k) == ChromaSample(f, sz, set, i \div cw, (i % cw) \div 2, 2 * ((i % cw) % 2) + k)
           ku == IF set.swapped THEN 1 ELSE 0
           kv == IF set.swapped THEN 0 ELSE 1
<1>1. n \in Nat /\ c \in Nat /\ ~f.planar /\ set.swapped \in BOOLEAN
  BY ChromaIsSmaller, NVShape
<1>2. Buffer(f, sz, set) =
          [i \in 0 .. (n + 2 * c - 1) |->
              IF i < n THEN Y(i) ELSE IF i < n + c THEN C(i - n, ku) ELSE C(i - n - c, kv)]
  <2>1. Buffer(f, sz, set) = NVToPlanar(f, sz, set)
    BY <1>1 DEF Buffer, IsNV
  <2> HIDE DEF n, c, ku, kv
  <2>2. QED
    BY <2>1 DEF NVToPlanar, Planes, LumaSample, ChromaSample, ChromaWidth, n, c, ku, kv
<1>3. ku = FirstOf(set, "u") /\ kv = FirstOf(set, "v")
  BY <1>1 DEF FirstOf
<1> HIDE DEF n, c, Y, C, ku, kv
<1>4. ASSUME NEW j \in 0 .. n - 1
      PROVE  Buffer(f, sz, set)[j] = Y(j)
  BY <1>1, <1>2
<1>5. ASSUME NEW i \in 0 .. c - 1
      PROVE  Cell(f, sz, set, "u", i) = C(i, ku) /\ Cell(f, sz, set, "v", i) = C(i, kv)
  <2>1. /\ Cell(f, sz, set, "u", i) = Buffer(f, sz, set)[n + i]
        /\ Cell(f, sz, set, "v", i) = Buffer(f, sz, set)[n + c + i]
    BY <1>1, TemporaryIndex DEF Cell, n, c
  <2> DEFINE j == n + i  k == n + c + i
  <2>2. /\ j \in 0 .. (n + 2 * c - 1) /\ ~(j < n) /\ j < n + c /\ j - n = i
        /\ k \in 0 .. (n + 2 * c - 1) /\ ~(k < n) /\ ~(k < n + c) /\ k - n - c = i
    BY <1>1
  <2> HIDE DEF j, k
  <2>3. Buffer(f, sz, set)[j] = C(j - n, ku)
    BY <1>2, <2>2
  <2>4. Buffer(f, sz, set)[k] = C(k - n - c, kv)
    BY <1>2, <2>2
  <2>5. QED
    BY <2>1, <2>2, <2>3, <2>4 DEF j, k
<1>6. QED
  BY <1>3, <1>4, <1>5 DEF n, c, Y, C
LEMMA NVBytes ==
    ASSUME NEW f, NEW sz, NEW set, Drawable(f, sz, set), IsNV(f)
    PROVE  /\ \A j \in 0 .. PlaneSize(sz) - 1 :
                 LastByteOf(Buffer(f, sz, set)[j]) < BytesPerFrame(f, sz, set)
           /\ \A i \in 0 .. ChromaSize(f.sub, sz) - 1 : \A comp \in {"u", "v"} :
                 LastByteOf(Cell(f, sz, set, comp, i)) < BytesPerFrame(f, sz, set)
<1> DEFINE w == sz[1]  h == sz[2]  cw == ChromaWidth(f, sz)  ch == ChromaHeight(f, sz)
           S == StrideY(sz, set)  T == StrideUV(f, sz, set)
<1>1. /\ w \in Nat \ {0} /\ h \in Nat \ {0} /\ cw \in Nat \ {0} /\ ch \in Nat \ {0}
      /\ ChromaSize(f.sub, sz) = ch * cw /\ PlaneSize(sz) = h * w
  <2>1. /\ w \in Nat \ {0} /\ h \in Nat \ {0} /\ cw \in Nat \ {0} /\ ch \in Nat \ {0}
        /\ ChromaSize(f.sub, sz) = cw * ch /\ PlaneSize(sz) = w * h
    BY PlaneLemma DEF PlaneSize
  <2> HIDE DEF w, h, cw, ch
  <2>2. cw * ch = ch * cw /\ w * h = h * w
    BY <2>1
  <2>3. QED
    BY <2>1, <2>2
<1>2. /\ S \in Nat /\ T \in Nat
      /\ \A x \in 0 .. w - 1 : (x \div 4) * 5 + 5 <= S
      /\ \A x \in 0 .. cw - 1 : (x \div 2) * 5 + 5 <= T
      /\ BytesPerFrame(f, sz, set) = S * h + T * ch
  BY NVSize
<1> HIDE DEF w, h, cw, ch, S, T
<1>3. S * h \in Nat /\ T * ch \in Nat /\ h * S = S * h /\ ch * T = T * ch
  BY <1>1, <1>2
<1>4. ASSUME NEW j \in 0 .. PlaneSize(sz) - 1
      PROVE  LastByteOf(Buffer(f, sz, set)[j]) < BytesPerFrame(f, sz, set)
  <2> DEFINE line == j \div w  a == j % w
  <2>1. line \in 0 .. h - 1 /\ a \in 0 .. w - 1
    BY <1>1, GridInverse
  <2>2. Buffer(f, sz, set)[j] = Sample(line * S + (a \div 4) * 5, a % 4, "nv10")
    BY NVCells DEF LumaSample, w, S
  <2>3. LastByteOf(Buffer(f, sz, set)[j]) = line * S + (a \div 4) * 5 + (a % 4) + 1
    BY <2>2 DEF LastByteOf, Sample
  <2> HIDE DEF line, a
  <2>4. (a \div 4) * 5 + (a % 4) + 1 \in Nat /\ (a \div 4) * 5 + (a % 4) + 1 < S
    <3>1. a % 4 \in 0 .. 3 /\ a \div 4 \in Nat
      BY <1>1, <2>1
    <3>2. (a \div 4) * 5 + 5 <= S
      BY <1>2, <2>1
    <3>3. QED
      BY <1>2, <3>1, <3>2
  <2>5. PICK b \in Nat : b = (a \div 4) * 5 + (a % 4) + 1
    BY <2>4
  <2>6. line * S + b \in 0 .. h * S - 1
    BY <1>1, <1>2, <2>1, <2>4, <2>5, GridBound
  <2>7. PICK m \in Nat : m = line * S
    BY <1>2, <2>1
  <2>8. m + (a \div 4) * 5 + (a % 4) + 1 = m + b
    BY <2>1, <2>5
  <2>9. QED
    BY <1>2, <1>3, <2>3, <2>6, <2>7, <2>8
<1>5. ASSUME NEW i \in 0 .. ChromaSize(f.sub, sz) - 1, NEW comp \in {"u", "v"}
      PROVE  LastByteOf(Cell(f, sz, set, comp, i)) < BytesPerFrame(f, sz, set)
  <2> DEFINE line == i \div cw  a == i % cw  k == FirstOf(set, comp)
  <2>1. line \in 0 .. ch - 1 /\ a \in 0 .. cw - 1
    BY <1>1, GridInverse
  <2>2. Cell(f, sz, set, comp, i) =
            Sample(S * h + line * T + (a \div 2) * 5, 2 * (a % 2) + k, "nv10")
    BY NVCells DEF ChromaSample, cw, S, T, h
  <2>3. LastByteOf(Cell(f, sz, set, comp, i)) =
            S * h + line * T + (a \div 2) * 5 + (2 * (a % 2) + k) + 1
    BY <2>2 DEF LastByteOf, Sample
  <2>4. k \in {0, 1}
    BY DEF FirstOf
  <2> HIDE DEF line, a, k
  <2>5. (a \div 2) * 5 + (2 * (a % 2) + k) + 1 \in Nat
        /\ (a \div 2) * 5 + (2 * (a % 2) + k) + 1 < T
    <3>1. a % 2 \in 0 .. 1 /\ a \div 2 \in Nat
      BY <1>1, <2>1
    <3>2. (a \div 2) * 5 + 5 <= T
      BY <1>2, <2>1
    <3>3. QED
      BY <1>2, <2>4, <3>1, <3>2
  <2>6. PICK b \in Nat : b = (a \div 2) * 5 + (2 * (a % 2) + k) + 1
    BY <2>5
  <2>7. line * T + b \in 0 .. ch * T - 1
    BY <1>1, <1>2, <2>1, <2>5, <2>6, GridBound
  <2>8. PICK m \in Nat : m = line * T
    BY <1>2, <2>1
  <2>9. S * h + m + (a \div 2) * 5 + (2 * (a % 2) + k) + 1 = S * h + (m + b)
    BY <1>3, <2>1, <2>4, <2>6
  <2>10. S * h + (m + b) < S * h + T * ch
    BY <1>3, <2>7, <2>8
  <2>11. QED
    BY <1>2, <2>3, <2>8, <2>9, <2>10
<1>6. QED
  BY <1>4, <1>5

LEMMA NVValue ==
    ASSUME NEW f, NEW sz, NEW set, Drawable(f, sz, set), IsNV(f),
           NEW x \in 0 .. sz[1] - 1, NEW y \in 0 .. sz[2] - 1
    PROVE  /\ PixelValue(f, sz, set, x, y).y = Buffer(f, sz, set)[y * sz[1] + x]
           /\ \A comp \in {"u", "v"} :
                 PixelValue(f, sz, set, x, y)[comp] =
                     Cell(f, sz, set, comp, MonochromeIndex(f, sz, x, y))
<1> DEFINE w == sz[1]  cw == ChromaWidth(f, sz)  i == MonochromeIndex(f, sz, x, y)
           j == y * w + x
           cx == x \div SubsamplingHor(f.sub)  cy == y \div SubsamplingVer(f.sub)
<1>1. /\ w \in Nat \ {0} /\ cw \in Nat \ {0} /\ x \in 0 .. w - 1 /\ y \in Nat
      /\ i \in 0 .. ChromaSize(f.sub, sz) - 1 /\ j \in 0 .. PlaneSize(sz) - 1
      /\ cx \in 0 .. cw - 1 /\ cy \in Nat /\ i = cy * cw + cx
  BY PlaneLemma, PixelLemma DEF MonochromeIndex, ChromaWidth
<1>2. PixelValue(f, sz, set, x, y) = ValueNV(f, sz, set, x, y)
  BY DEF PixelValue, IsNV
<1>3. j \div w = y /\ j % w = x /\ i \div cw = cy /\ i % cw = cx
  <2> HIDE DEF w, cw, i, j, cx, cy
  <2>1. x \in Nat /\ x < w /\ cx \in Nat /\ cx < cw
    BY <1>1
  <2>2. QED
    BY <1>1, <2>1, GridLemma DEF j
<1>4. /\ Buffer(f, sz, set)[j] = LumaSample(sz, set, y, x \div 4, x % 4)
      /\ \A comp \in {"u", "v"} : Cell(f, sz, set, comp, i) =
             ChromaSample(f, sz, set, cy, cx \div 2, 2 * (cx % 2) + FirstOf(set, comp))
  <2>1. /\ Buffer(f, sz, set)[j] =
               LumaSample(sz, set, j \div w, (j % w) \div 4, (j % w) % 4)
        /\ \A comp \in {"u", "v"} : Cell(f, sz, set, comp, i) =
               ChromaSample(f, sz, set, i \div cw, (i % cw) \div 2,
                            2 * ((i % cw) % 2) + FirstOf(set, comp))
    BY <1>1, NVCells
  <2> HIDE DEF w, cw, i, j, cx, cy
  <2>2. QED
    BY <1>3, <2>1
<1>5. set.swapped \in BOOLEAN
  BY NVShape
<1>6. ValueNV(f, sz, set, x, y).y = LumaSample(sz, set, y, x \div 4, x % 4)
  BY DEF ValueNV, LumaSample
<1>7. \A k \in {0, 1} : 2 * (cx % 2) + k = (cx % 2) * 2 + k
  BY <1>1
<1>8. /\ ValueNV(f, sz, set, x, y).u =
             ChromaSample(f, sz, set, cy, cx \div 2, (cx % 2) * 2 + FirstOf(set, "u"))
      /\ ValueNV(f, sz, set, x, y).v =
             ChromaSample(f, sz, set, cy, cx \div 2, (cx % 2) * 2 + FirstOf(set, "v"))
  <2>1. /\ FirstOf(set, "u") = IF set.swapped THEN 1 ELSE 0
        /\ FirstOf(set, "v") = IF set.swapped THEN 0 ELSE 1
    BY <1>5 DEF FirstOf
  <2>2. QED
    BY <2>1 DEF ValueNV, ChromaSample
<1>9. FirstOf(set, "u") \in {0, 1} /\ FirstOf(set, "v") \in {0, 1}
  BY DEF FirstOf
<1> HIDE DEF w, cw, i, j, cx, cy
<1>10. QED
  BY <1>2, <1>4, <1>6, <1>7, <1>8, <1>9 DEF i, j, w
-----------------------------------------------------------------------------
(* All layouts *)

\* Packed bytes that are read as if they were not packed.
ReadAsUnpacked(f) == /\ f.predefined = "none" /\ ~f.planar /\ f.bytePacking
                     /\ ~PackedInBytes(f) /\ f.bits \notin {8, 16}

LEMMA FrameBytes ==
    ASSUME NEW f, NEW sz, NEW set, Drawable(f, sz, set),
           ~(f.sub = "440" /\ sz[1] % 2 = 1), ~ReadAsUnpacked(f)
    PROVE  /\ \A j \in 0 .. PlaneSize(sz) - 1 :
                 LastByteOf(Buffer(f, sz, set)[j]) < BytesPerFrame(f, sz, set)
           /\ f.sub # "400" =>
                 \A i \in 0 .. ChromaSize(f.sub, sz) - 1 : \A comp \in {"u", "v"} :
                     LastByteOf(Cell(f, sz, set, comp, i)) < BytesPerFrame(f, sz, set)
<1>1. CASE f.planar
  BY <1>1, PlanarBytes
<1>2. CASE ~f.planar /\ f.predefined = "none"
  BY <1>2, PackedBytes DEF ReadAsUnpacked
<1>3. CASE ~f.planar /\ f.predefined = "V210"
  BY <1>3, V210Bytes
<1>4. CASE ~f.planar /\ IsNV(f)
  BY <1>4, NVBytes
<1>5. QED
  BY <1>1, <1>2, <1>3, <1>4, TemporaryIndex DEF IsNV

LEMMA FrameValue ==
    ASSUME NEW f, NEW sz, NEW set, Drawable(f, sz, set), ~PackedInBytes(f),
           NEW x \in 0 .. sz[1] - 1, NEW y \in 0 .. sz[2] - 1
    PROVE  /\ PixelValue(f, sz, set, x, y).y = Buffer(f, sz, set)[y * sz[1] + x]
           /\ f.sub # "400" => \A comp \in {"u", "v"} :
                 PixelValue(f, sz, set, x, y)[comp] =
                     Cell(f, sz, set, comp, MonochromeIndex(f, sz, x, y))
<1>1. CASE f.planar
  BY <1>1, PlanarValue
<1>2. CASE ~f.planar /\ f.predefined = "none"
  BY <1>2, PackedValue
<1>3. CASE ~f.planar /\ f.predefined = "V210"
  BY <1>3, V210Value
<1>4. CASE ~f.planar /\ IsNV(f)
  BY <1>4, NVValue
<1>5. QED
  BY <1>1, <1>2, <1>3, <1>4, TemporaryIndex DEF IsNV

LEMMA ShapeSub ==
    ASSUME NEW f, NEW sz, NEW set, Drawable(f, sz, set)
    PROVE  /\ Shape(f).sub = f.sub
           /\ f.sub \in {"444", "422", "420", "440", "410", "411", "400"}
<1>1. CASE f.planar
  BY <1>1 DEF Shape, Drawable, PixelFormats
<1>2. CASE ~f.planar
  BY <1>2, TemporaryIndex DEF Drawable, PixelFormats
<1>3. QED
  BY <1>1, <1>2
-----------------------------------------------------------------------------
(* Interpolation *)

\* The sample of a chroma plane that is dx columns and dy lines from the one of the
\* pixel.
TapAt(f, sz, x, y, dx, dy) ==
    (y \div SubsamplingVer(f.sub) + dy) * ChromaWidth(f, sz) + x \div SubsamplingHor(f.sub) + dx

InPlane(f, sz, x, y, dx, dy) ==
    /\ x \div SubsamplingHor(f.sub) + dx < ChromaWidth(f, sz)
    /\ y \div SubsamplingVer(f.sub) + dy \in 0 .. ChromaHeight(f, sz) - 1

Bottom(f, sz, y) == f.sub = "410" /\ y >= sz[2] - 4

\* The samples taken are that of the pixel, the next ones in its line and those below.
TapsAreNext(f, sz, bilinear, x, y) ==
    LET taps == Taps(f.sub, sz, bilinear, x, y)
    IN  /\ MonochromeIndex(f, sz, x, y) \in taps
        /\ ~bilinear => taps = {MonochromeIndex(f, sz, x, y)}
        /\ ~Bottom(f, sz, y) => \A t \in taps : \E dx \in {0, 1}, dy \in {0, 1} :
              t = TapAt(f, sz, x, y, dx, dy) /\ InPlane(f, sz, x, y, dx, dy)

\* The shape of the sets, whatever the guards of the mixtures are.
LEMMA MixLemma ==
    ASSUME NEW bilinear \in BOOLEAN, NEW next
    PROVE  /\ 0 \in Mix(bilinear, next) /\ Mix(bilinear, next) \subseteq {0, 1}
           /\ ~bilinear => Mix(bilinear, next) = {0}
           /\ 1 \in Mix(bilinear, next) => next
BY DEF Mix

LEMMA Taps444Lemma ==
    ASSUME NEW f, NEW sz, NEW set, Drawable(f, sz, set), f.sub = "444",
           NEW bilinear \in BOOLEAN, NEW x \in 0 .. sz[1] - 1, NEW y \in 0 .. sz[2] - 1
    PROVE  TapsAreNext(f, sz, bilinear, x, y)
<1> DEFINE w == sz[1]  h == sz[2]  cw == ChromaWidth(f, sz)  ch == ChromaHeight(f, sz)
<1>1. /\ w \in Nat \ {0} /\ h \in Nat \ {0} /\ x \in 0 .. w - 1 /\ y \in 0 .. h - 1
      /\ SubsamplingHor(f.sub) = 1 /\ SubsamplingVer(f.sub) = 1
  BY PlaneLemma DEF SubsamplingHor, SubsamplingVer
<1>2. cw = w \div 1 /\ ch = h \div 1
  BY <1>1 DEF ChromaWidth, ChromaHeight
<1>3. Taps(f.sub, sz, bilinear, x, y) = {y * w + x}
  BY DEF Taps, Taps_444
<1> HIDE DEF w, h, cw, ch
<1>4. cw = w /\ ch = h /\ x \div 1 = x /\ y \div 1 = y
  BY <1>1, <1>2
<1>5. MonochromeIndex(f, sz, x, y) = y * w + x
  BY <1>1, <1>4 DEF MonochromeIndex, ChromaWidth, cw
<1>6. TapAt(f, sz, x, y, 0, 0) = (y + 0) * w + x + 0
  BY <1>1, <1>4 DEF TapAt, cw
<1>7. (y + 0) * w + x + 0 = y * w + x
  <2>1. y + 0 = y
    BY <1>1
  <2>2. PICK k \in Nat : k = y * w
    BY <1>1
  <2>3. k + x + 0 = k + x
    BY <1>1
  <2>4. QED
    BY <2>1, <2>2, <2>3
<1>8. InPlane(f, sz, x, y, 0, 0)
  <2>1. x + 0 < w /\ y + 0 \in 0 .. h - 1
    BY <1>1
  <2>2. QED
    BY <1>1, <1>4, <2>1 DEF InPlane, cw, ch
<1>9. QED
  BY <1>3, <1>5, <1>6, <1>7, <1>8 DEF TapsAreNext
\* The formats that take samples of one line (4:2:2 and 4:1:1).
LEMMA LineLemma ==
    ASSUME NEW f, NEW sz, NEW set, Drawable(f, sz, set), NEW s \in {2, 4},
           SubsamplingHor(f.sub) = s, SubsamplingVer(f.sub) = 1,
           NEW bilinear \in BOOLEAN, NEW x \in 0 .. sz[1] - 1, NEW y \in 0 .. sz[2] - 1,
           NEW next, next => x \div s # sz[1] \div s - 1,
           Taps(f.sub, sz, bilinear, x, y) =
               {(y * sz[1]) \div s + x \div s + dx : dx \in Mix(bilinear, next)}
    PROVE  TapsAreNext(f, sz, bilinear, x, y)
<1> DEFINE w == sz[1]  h == sz[2]  cw == ChromaWidth(f, sz)  ch == ChromaHeight(f, sz)
           cx == x \div s  mix == Mix(bilinear, next)
<1>1. /\ w \in Nat \ {0} /\ h \in Nat \ {0} /\ x \in 0 .. w - 1 /\ y \in 0 .. h - 1
      /\ w = s * cw /\ cw \in Nat \ {0} /\ cx \in 0 .. cw - 1 /\ cw = w \div s /\ ch = h
  <2>1. ch = h \div 1 /\ h \div 1 = h
    BY PlaneLemma DEF ChromaHeight
  <2>2. QED
    BY <2>1, PlaneLemma, PixelLemma DEF ChromaWidth
<1>2. /\ 0 \in mix /\ mix \subseteq {0, 1} /\ (~bilinear => mix = {0}) /\ (1 \in mix => next)
  BY MixLemma
<1>3. (y * w) \div s = y * cw /\ y * cw \in Nat
  <2> HIDE DEF w, cw
  <2>1. PICK k \in Nat : k = y * cw
    BY <1>1
  <2>2. y * w = s * k
    BY <1>1, <2>1
  <2>3. (s * k) \div s = k
    OBVIOUS
  <2>4. QED
    BY <2>1, <2>2, <2>3
<1>4. y \div 1 = y /\ y + 0 = y
  BY <1>1
<1>5. MonochromeIndex(f, sz, x, y) = y * cw + cx
  BY <1>1, <1>4 DEF MonochromeIndex, ChromaWidth
<1>6. Taps(f.sub, sz, bilinear, x, y) = {y * cw + cx + dx : dx \in mix}
  <2> HIDE DEF mix, cw, cx
  <2>1. QED
    BY <1>3 DEF mix, cx
<1>7. \A dx \in {0, 1} : TapAt(f, sz, x, y, dx, 0) = y * cw + cx + dx
  BY <1>4 DEF TapAt
<1>8. \A dx \in mix : cx + dx < cw
  <2> HIDE DEF w, cw, cx, mix
  <2>1. 1 \in mix => cx # cw - 1
    BY <1>1, <1>2 DEF cx, w
  <2>2. QED
    BY <1>1, <1>2, <2>1
<1>9. \A dx \in mix : InPlane(f, sz, x, y, dx, 0)
  BY <1>1, <1>4, <1>8 DEF InPlane
<1>10. y * cw + cx + 0 = y * cw + cx
  <2> HIDE DEF cw, cx
  <2>1. QED
    BY <1>1, <1>3
<1> HIDE DEF w, h, cw, ch, cx, mix
<1>11. /\ y * cw + cx \in {y * cw + cx + dx : dx \in mix}
       /\ ~bilinear => {y * cw + cx + dx : dx \in mix} = {y * cw + cx}
  BY <1>2, <1>10
<1>12. \A dx \in mix : /\ y * cw + cx + dx = TapAt(f, sz, x, y, dx, 0)
                       /\ InPlane(f, sz, x, y, dx, 0) /\ dx \in {0, 1}
  BY <1>2, <1>7, <1>9
<1>13. QED
  BY <1>5, <1>6, <1>11, <1>12 DEF TapsAreNext

\* The formats that take samples of two lines: those of the columns MX, and of the lines
\* MY[dx].
BlockTaps(s, sz, bilinear, x, y, taps, MX, MY) ==
    /\ \A t : t \in taps <=> \E dx \in MX : \E dy \in MY[dx] :
                 t = (y \div s + dy) * (sz[1] \div s) + x \div s + dx
    /\ 0 \in MX /\ MX \subseteq {0, 1} /\ (1 \in MX => x \div s # sz[1] \div s - 1)
    /\ \A dx \in MX : 0 \in MY[dx] /\ MY[dx] \subseteq {0, 1}
    /\ ~bilinear => MX = {0} /\ MY[0] = {0}

TapsInWidth(f, sz, bilinear, x, y, taps, MX, MY) ==
    /\ MonochromeIndex(f, sz, x, y) \in taps
    /\ ~bilinear => taps = {MonochromeIndex(f, sz, x, y)}
    /\ \A t \in taps : \E dx \in MX : \E dy \in MY[dx] :
          /\ t = TapAt(f, sz, x, y, dx, dy)
          /\ dx \in {0, 1} /\ dy \in {0, 1}
          /\ x \div SubsamplingHor(f.sub) + dx < ChromaWidth(f, sz)

LEMMA BlockLemma ==
    ASSUME NEW f, NEW sz, NEW set, Drawable(f, sz, set), NEW s \in {2, 4},
           SubsamplingHor(f.sub) = s, SubsamplingVer(f.sub) = s,
           NEW bilinear \in BOOLEAN, NEW x \in 0 .. sz[1] - 1, NEW y \in 0 .. sz[2] - 1,
           NEW taps, NEW MX, NEW MY, BlockTaps(s, sz, bilinear, x, y, taps, MX, MY)
    PROVE  TapsInWidth(f, sz, bilinear, x, y, taps, MX, MY)
<1>0. /\ \A t : t \in taps <=> \E dx \in MX : \E dy \in MY[dx] :
                   t = (y \div s + dy) * (sz[1] \div s) + x \div s + dx
      /\ 0 \in MX /\ MX \subseteq {0, 1} /\ (1 \in MX => x \div s # sz[1] \div s - 1)
      /\ \A dx \in MX : 0 \in MY[dx] /\ MY[dx] \subseteq {0, 1}
      /\ ~bilinear => MX = {0} /\ MY[0] = {0}
  BY DEF BlockTaps
<1> DEFINE w == sz[1]  cw == ChromaWidth(f, sz)  cx == x \div s  cy == y \div s
           At(dx, dy) == (cy + dy) * cw + cx + dx
<1>1. /\ cw \in Nat \ {0} /\ cw = w \div s /\ cx \in 0 .. cw - 1 /\ cy \in Nat
      /\ MonochromeIndex(f, sz, x, y) = cy * cw + cx
  BY PlaneLemma, PixelLemma DEF ChromaWidth, MonochromeIndex
<1>2. \A dx, dy : TapAt(f, sz, x, y, dx, dy) = At(dx, dy)
  BY DEF TapAt
<1>3. \A t : t \in taps <=> \E dx \in MX : \E dy \in MY[dx] : t = At(dx, dy)
  BY <1>0, <1>1
<1>4. 1 \in MX => cx # cw - 1
  BY <1>0, <1>1
<1> HIDE DEF w, cw, cx, cy
<1>5. At(0, 0) = cy * cw + cx
  <2>1. cy + 0 = cy
    BY <1>1
  <2>2. PICK k \in Nat : k = cy * cw
    BY <1>1
  <2>3. k + cx + 0 = k + cx
    BY <1>1, <2>2
  <2>4. QED
    BY <2>1, <2>2, <2>3
<1> HIDE DEF At
<1>6. ASSUME NEW dx \in MX
      PROVE  cx + dx < cw
  <2>1. CASE dx = 0
    BY <1>1, <2>1
  <2>2. CASE dx = 1
    BY <1>1, <1>4, <2>2
  <2>3. QED
    BY <1>0, <2>1, <2>2
<1>7. MonochromeIndex(f, sz, x, y) \in taps
  BY <1>0, <1>1, <1>3, <1>5
<1>8. ~bilinear => taps = {MonochromeIndex(f, sz, x, y)}
  BY <1>0, <1>1, <1>3, <1>5
<1>9. ASSUME NEW t \in taps
      PROVE  \E dx \in MX : \E dy \in MY[dx] :
                 /\ t = TapAt(f, sz, x, y, dx, dy)
                 /\ dx \in {0, 1} /\ dy \in {0, 1}
                 /\ x \div SubsamplingHor(f.sub) + dx < ChromaWidth(f, sz)
  <2>1. PICK dx \in MX : \E dy \in MY[dx] : t = At(dx, dy)
    BY <1>3
  <2>2. PICK dy \in MY[dx] : t = At(dx, dy)
    BY <2>1
  <2>3. x \div SubsamplingHor(f.sub) + dx < ChromaWidth(f, sz)
    BY <1>6 DEF cx, cw
  <2>4. dx \in {0, 1} /\ dy \in {0, 1} /\ t = TapAt(f, sz, x, y, dx, dy)
    BY <1>0, <1>2, <2>2
  <2>5. QED
    BY <2>3, <2>4
<1>10. QED
  BY <1>7, <1>8, <1>9 DEF TapsInWidth

LEMMA Taps420Lemma ==
    ASSUME NEW f, NEW sz, NEW set, Drawable(f, sz, set), f.sub = "420",
           NEW bilinear \in BOOLEAN, NEW x \in 0 .. sz[1] - 1, NEW y \in 0 .. sz[2] - 1
    PROVE  TapsAreNext(f, sz, bilinear, x, y)
<1> DEFINE w == sz[1]  h == sz[2]  ch == ChromaHeight(f, sz)
           right == x \div 2 = w \div 2 - 1
           bottom == y \div 2 = h \div 2 - 1
           MX == Mix(bilinear, x % 2 = 1 /\ ~right)
           L == Mix(bilinear, y % 2 = 1 /\ ~bottom)
           MY == [dx \in {0, 1} |-> L]
           taps == Taps(f.sub, sz, bilinear, x, y)
<1>1. SubsamplingHor(f.sub) = 2 /\ SubsamplingVer(f.sub) = 2
  BY DEF SubsamplingHor, SubsamplingVer
<1>2. /\ 0 \in MX /\ MX \subseteq {0, 1} /\ (~bilinear => MX = {0}) /\ (1 \in MX => ~right)
      /\ 0 \in L /\ L \subseteq {0, 1} /\ (~bilinear => L = {0}) /\ (1 \in L => ~bottom)
  BY MixLemma
<1>3. taps = {(y \div 2 + dy) * (w \div 2) + x \div 2 + dx : dx \in MX, dy \in L}
  BY DEF Taps, Taps_420
<1> HIDE DEF MX, L, taps, right, bottom
<1>4. \A t : t \in taps <=> \E dx \in MX : \E dy \in MY[dx] :
                 t = (y \div 2 + dy) * (w \div 2) + x \div 2 + dx
  <2>1. \A dx \in MX : MY[dx] = L
    BY <1>2
  <2> HIDE DEF MY
  <2>2. QED
    BY <1>3, <2>1
<1>5. \A dx \in {0, 1} : MY[dx] = L
  OBVIOUS
<1> HIDE DEF MY
<1>6. /\ MonochromeIndex(f, sz, x, y) \in taps
      /\ ~bilinear => taps = {MonochromeIndex(f, sz, x, y)}
      /\ \A t \in taps : \E dx \in MX : \E dy \in MY[dx] :
            /\ t = TapAt(f, sz, x, y, dx, dy)
            /\ dx \in {0, 1} /\ dy \in {0, 1}
            /\ x \div SubsamplingHor(f.sub) + dx < ChromaWidth(f, sz)
  <2>1. 1 \in MX => x \div 2 # sz[1] \div 2 - 1
    BY <1>2 DEF right
  <2>2. \A dx \in MX : 0 \in MY[dx] /\ MY[dx] \subseteq {0, 1}
    BY <1>2, <1>5
  <2>3. ~bilinear => MX = {0} /\ MY[0] = {0}
    BY <1>2, <1>5
  <2>4. BlockTaps(2, sz, bilinear, x, y, taps, MX, MY)
    BY <1>2, <1>4, <2>1, <2>2, <2>3 DEF BlockTaps
  <2>5. TapsInWidth(f, sz, bilinear, x, y, taps, MX, MY)
    BY <1>1, <2>4, BlockLemma
  <2>6. QED
    BY <2>5 DEF TapsInWidth
<1>7. \A dy \in L : y \div 2 + dy \in 0 .. ch - 1
  <2>1. ch = h \div 2 /\ ch \in Nat \ {0} /\ y \div 2 \in 0 .. ch - 1
    BY <1>1, PlaneLemma, PixelLemma DEF ChromaHeight
  <2> HIDE DEF ch, h
  <2>2. 1 \in L => y \div 2 # ch - 1
    BY <1>2, <2>1 DEF bottom
  <2>3. QED
    BY <1>2, <2>1, <2>2
<1>8. \A dx \in MX : \A dy \in MY[dx] :
          x \div SubsamplingHor(f.sub) + dx < ChromaWidth(f, sz) => InPlane(f, sz, x, y, dx, dy)
  BY <1>1, <1>2, <1>5, <1>7 DEF InPlane
<1>9. QED
  BY <1>6, <1>8 DEF TapsAreNext, taps

LEMMA Taps410Lemma ==
    ASSUME NEW f, NEW sz, NEW set, Drawable(f, sz, set), f.sub = "410",
           NEW bilinear \in BOOLEAN, NEW x \in 0 .. sz[1] - 1, NEW y \in 0 .. sz[2] - 1
    PROVE  TapsAreNext(f, sz, bilinear, x, y)
<1> DEFINE w == sz[1]  h == sz[2]  ch == ChromaHeight(f, sz)
           right == x \div 4 = w \div 4 - 1
           bottom == y \div 4 = h \div 4 - 1
           MX == Mix(bilinear, x % 4 # 0 /\ ~right)
           L(dx) == Mix(bilinear, y % 4 # 0 /\ (~bottom \/ x \div 4 + dx > 0))
           MY == [dx \in {0, 1} |-> L(dx)]
           taps == Taps(f.sub, sz, bilinear, x, y)
<1>1. SubsamplingHor(f.sub) = 4 /\ SubsamplingVer(f.sub) = 4
  BY DEF SubsamplingHor, SubsamplingVer
<1>2. /\ 0 \in MX /\ MX \subseteq {0, 1} /\ (~bilinear => MX = {0}) /\ (1 \in MX => ~right)
      /\ \A dx \in {0, 1} : 0 \in L(dx) /\ L(dx) \subseteq {0, 1} /\ (~bilinear => L(dx) = {0})
  BY MixLemma
<1>3. taps = UNION {{(y \div 4 + dy) * (w \div 4) + x \div 4 + dx : dy \in L(dx)} : dx \in MX}
  BY DEF Taps, Taps_410
<1> HIDE DEF MX, L, taps, right, bottom
<1>4. \A dx \in {0, 1} : MY[dx] = L(dx)
  OBVIOUS
<1> HIDE DEF MY
<1>5. \A t : t \in taps <=> \E dx \in MX : \E dy \in MY[dx] :
                 t = (y \div 4 + dy) * (w \div 4) + x \div 4 + dx
  <2>1. \A dx \in MX : MY[dx] = L(dx)
    BY <1>2, <1>4
  <2>2. QED
    BY <1>3, <2>1
<1>6. /\ MonochromeIndex(f, sz, x, y) \in taps
      /\ ~bilinear => taps = {MonochromeIndex(f, sz, x, y)}
      /\ \A t \in taps : \E dx \in MX : \E dy \in MY[dx] :
            /\ t = TapAt(f, sz, x, y, dx, dy)
            /\ dx \in {0, 1} /\ dy \in {0, 1}
            /\ x \div SubsamplingHor(f.sub) + dx < ChromaWidth(f, sz)
  <2>1. 1 \in MX => x \div 4 # sz[1] \div 4 - 1
    BY <1>2 DEF right
  <2>2. \A dx \in MX : 0 \in MY[dx] /\ MY[dx] \subseteq {0, 1}
    BY <1>2, <1>4
  <2>3. ~bilinear => MX = {0} /\ MY[0] = {0}
    BY <1>2, <1>4
  <2>4. BlockTaps(4, sz, bilinear, x, y, taps, MX, MY)
    BY <1>2, <1>5, <2>1, <2>2, <2>3 DEF BlockTaps
  <2>5. TapsInWidth(f, sz, bilinear, x, y, taps, MX, MY)
    BY <1>1, <2>4, BlockLemma
  <2>6. QED
    BY <2>5 DEF TapsInWidth
<1>7. ~Bottom(f, sz, y) => \A dy \in {0, 1} : y \div 4 + dy \in 0 .. ch - 1
  <2>1. ch \in Nat \ {0} /\ h = 4 * ch /\ y \in 0 .. h - 1
    BY <1>1, PlaneLemma
  <2> HIDE DEF ch, h
  <2>2. ~(y >= h - 4) => y \div 4 + 1 <= ch - 1
    BY <2>1
  <2>3. QED
    BY <2>1, <2>2 DEF Bottom, h
<1>8. ~Bottom(f, sz, y) => \A dx, dy \in {0, 1} :
          x \div SubsamplingHor(f.sub) + dx < ChromaWidth(f, sz) => InPlane(f, sz, x, y, dx, dy)
  BY <1>1, <1>7 DEF InPlane
<1>9. QED
  BY <1>6, <1>8 DEF TapsAreNext, taps
LEMMA TapsLemma ==
    ASSUME NEW f, NEW sz, NEW set, Drawable(f, sz, set), f.sub \notin {"400", "440"},
           NEW bilinear \in BOOLEAN, NEW x \in 0 .. sz[1] - 1, NEW y \in 0 .. sz[2] - 1
    PROVE  TapsAreNext(f, sz, bilinear, x, y)
<1>1. CASE f.sub = "444"
  BY <1>1, Taps444Lemma
<1>2. CASE f.sub = "422"
  <2> DEFINE next == x % 2 = 1 /\ ~(x \div 2 = sz[1] \div 2 - 1)
  <2>1. Taps(f.sub, sz, bilinear, x, y) =
            {(y * sz[1]) \div 2 + x \div 2 + dx : dx \in Mix(bilinear, next)}
    BY <1>2 DEF Taps, Taps_422
  <2>2. SubsamplingHor(f.sub) = 2 /\ SubsamplingVer(f.sub) = 1 /\ 2 \in {2, 4}
    BY <1>2 DEF SubsamplingHor, SubsamplingVer
  <2>3. next => x \div 2 # sz[1] \div 2 - 1
    OBVIOUS
  <2> HIDE DEF next
  <2>4. QED
    BY <2>1, <2>2, <2>3, LineLemma
<1>3. CASE f.sub = "411"
  <2> DEFINE next == x % 4 # 0 /\ ~(x \div 4 = sz[1] \div 4 - 1)
  <2>1. Taps(f.sub, sz, bilinear, x, y) =
            {(y * sz[1]) \div 4 + x \div 4 + dx : dx \in Mix(bilinear, next)}
    BY <1>3 DEF Taps, Taps_411
  <2>2. SubsamplingHor(f.sub) = 4 /\ SubsamplingVer(f.sub) = 1 /\ 4 \in {2, 4}
    BY <1>3 DEF SubsamplingHor, SubsamplingVer
  <2>3. next => x \div 4 # sz[1] \div 4 - 1
    OBVIOUS
  <2> HIDE DEF next
  <2>4. QED
    BY <2>1, <2>2, <2>3, LineLemma
<1>4. CASE f.sub = "420"
  BY <1>4, Taps420Lemma
<1>5. CASE f.sub = "410"
  BY <1>5, Taps410Lemma
<1>6. QED
  BY <1>1, <1>2, <1>3, <1>4, <1>5, ShapeSub

\* A sample in the plane has an index in the plane.
LEMMA InPlaneLemma ==
    ASSUME NEW f, NEW sz, NEW set, Drawable(f, sz, set),
           NEW x \in 0 .. sz[1] - 1, NEW y \in 0 .. sz[2] - 1,
           NEW dx \in {0, 1}, NEW dy \in {-1, 0, 1}, InPlane(f, sz, x, y, dx, dy)
    PROVE  TapAt(f, sz, x, y, dx, dy) \in 0 .. ChromaSize(f.sub, sz) - 1
<1> DEFINE cw == ChromaWidth(f, sz)  ch == ChromaHeight(f, sz)
           cx == x \div SubsamplingHor(f.sub)  cy == y \div SubsamplingVer(f.sub)
<1>1. /\ cw \in Nat /\ ch \in Nat /\ cx \in Nat /\ cy \in Nat /\ cx + dx < cw
      /\ cy + dy \in 0 .. ch - 1 /\ ChromaSize(f.sub, sz) = cw * ch
  BY PlaneLemma, PixelLemma DEF InPlane
<1>2. TapAt(f, sz, x, y, dx, dy) = (cy + dy) * cw + cx + dx
  BY DEF TapAt
<1> HIDE DEF cw, ch, cx, cy
<1>3. PICK a \in Nat, b \in Nat : a = cx + dx /\ b = cy + dy /\ a < cw /\ b < ch
  BY <1>1
<1>4. b * cw + a \in 0 .. ch * cw - 1
  BY <1>1, <1>3, GridBound
<1>5. PICK k \in Nat : k = b * cw
  BY <1>1
<1>6. k + cx + dx = k + a
  BY <1>1, <1>3
<1>7. cw * ch = ch * cw
  BY <1>1
<1>8. QED
  BY <1>1, <1>2, <1>3, <1>4, <1>5, <1>6, <1>7

LEMMA ResampledLemma ==
    ASSUME NEW f, NEW sz, NEW set, Drawable(f, sz, set),
           NEW i \in 0 .. ChromaSize(f.sub, sz) - 1
    PROVE  /\ i \in Resampled(Shape(f), sz, set, i)
           /\ Resampled(Shape(f), sz, set, i) \subseteq 0 .. ChromaSize(f.sub, sz) - 1
           /\ set.interpolation = "NearestNeighbor" => Resampled(Shape(f), sz, set, i) = {i}
           /\ \A j \in Resampled(Shape(f), sz, set, i) :
                 j = i \/ (i >= ChromaWidth(f, sz) /\ j = i - ChromaWidth(f, sz))
<1>1. ChromaWidth(f, sz) \in Nat /\ ChromaSize(f.sub, sz) \in Nat
  BY PlaneLemma, ChromaIsSmaller
<1>2. Resampled(Shape(f), sz, set, i) =
          IF set.interpolation # "NearestNeighbor" /\ Shape(f).offsetY # 0
             /\ i >= ChromaWidth(f, sz)
          THEN {i - ChromaWidth(f, sz), i} ELSE {i}
  BY ShapeSub DEF Resampled, ChromaWidth
<1>3. i >= ChromaWidth(f, sz) =>
          i - ChromaWidth(f, sz) \in 0 .. ChromaSize(f.sub, sz) - 1
  BY <1>1
<1>4. QED
  BY <1>2, <1>3

\* All samples of a chroma plane the pixel is drawn from.
ChromaTaps(f, sz, set, x, y) ==
    UNION {Resampled(Shape(f), sz, set, t) :
               t \in Taps(f.sub, sz, set.interpolation = "Bilinear", x, y)}

\* They are adjacent to the sample of the pixel.
LEMMA ChromaTapsLemma ==
    ASSUME NEW f, NEW sz, NEW set, Drawable(f, sz, set), f.sub \notin {"400", "440"},
           NEW x \in 0 .. sz[1] - 1, NEW y \in 0 .. sz[2] - 1
    PROVE  /\ MonochromeIndex(f, sz, x, y) \in ChromaTaps(f, sz, set, x, y)
           /\ set.interpolation = "NearestNeighbor" =>
                 ChromaTaps(f, sz, set, x, y) = {MonochromeIndex(f, sz, x, y)}
           /\ ~Bottom(f, sz, y) =>
                 \A i \in ChromaTaps(f, sz, set, x, y) : \E dx \in {0, 1}, dy \in {-1, 0, 1} :
                    i = TapAt(f, sz, x, y, dx, dy) /\ InPlane(f, sz, x, y, dx, dy)
<1> DEFINE bilinear == set.interpolation = "Bilinear"
           taps == Taps(f.sub, sz, bilinear, x, y)
           mono == MonochromeIndex(f, sz, x, y)
<1>1. /\ mono \in taps /\ (~bilinear => taps = {mono})
      /\ ~Bottom(f, sz, y) => \A t \in taps : \E dx \in {0, 1}, dy \in {0, 1} :
            t = TapAt(f, sz, x, y, dx, dy) /\ InPlane(f, sz, x, y, dx, dy)
  <2>1. bilinear \in BOOLEAN
    OBVIOUS
  <2> HIDE DEF bilinear
  <2>2. TapsAreNext(f, sz, bilinear, x, y)
    BY <2>1, TapsLemma
  <2>3. QED
    BY <2>2 DEF TapsAreNext
<1>2. mono \in 0 .. ChromaSize(f.sub, sz) - 1
  BY PixelLemma
<1>3. ChromaTaps(f, sz, set, x, y) = UNION {Resampled(Shape(f), sz, set, t) : t \in taps}
  BY DEF ChromaTaps
<1>4. set.interpolation = "NearestNeighbor" => ~bilinear
  OBVIOUS
<1> HIDE DEF bilinear, taps, mono
<1>5. mono \in ChromaTaps(f, sz, set, x, y)
  BY <1>1, <1>2, <1>3, ResampledLemma
<1>6. set.interpolation = "NearestNeighbor" => ChromaTaps(f, sz, set, x, y) = {mono}
  BY <1>1, <1>2, <1>3, <1>4, ResampledLemma
<1>7. ASSUME ~Bottom(f, sz, y), NEW i \in ChromaTaps(f, sz, set, x, y)
      PROVE  \E dx \in {0, 1}, dy \in {-1, 0, 1} :
                 i = TapAt(f, sz, x, y, dx, dy) /\ InPlane(f, sz, x, y, dx, dy)
  <2>1. PICK t \in taps : i \in Resampled(Shape(f), sz, set, t)
    BY <1>3
  <2>2. PICK dx \in {0, 1}, dy \in {0, 1} :
            t = TapAt(f, sz, x, y, dx, dy) /\ InPlane(f, sz, x, y, dx, dy)
    BY <1>1, <1>7
  <2>3. t \in 0 .. ChromaSize(f.sub, sz) - 1
    BY <2>2, InPlaneLemma
  <2>4. CASE i = t
    BY <2>2, <2>4
  <2>5. CASE t >= ChromaWidth(f, sz) /\ i = t - ChromaWidth(f, sz)
    <3> DEFINE cw == ChromaWidth(f, sz)  ch == ChromaHeight(f, sz)
               cx == x \div SubsamplingHor(f.sub)  cy == y \div SubsamplingVer(f.sub)
    <3>1. /\ cw \in Nat \ {0} /\ ch \in Nat /\ cx \in Nat /\ cy \in Nat
          /\ cx + dx < cw /\ cy + dy \in 0 .. ch - 1
      BY <2>2, PlaneLemma, PixelLemma DEF InPlane
    <3>2. t = (cy + dy) * cw + cx + dx /\ t >= cw /\ i = t - cw
      BY <2>2, <2>5 DEF TapAt
    <3>3. TapAt(f, sz, x, y, dx, dy - 1) = (cy + (dy - 1)) * cw + cx + dx
      BY DEF TapAt
    <3>4. InPlane(f, sz, x, y, dx, dy - 1) <=> cx + dx < cw /\ cy + (dy - 1) \in 0 .. ch - 1
      BY DEF InPlane
    <3> HIDE DEF cw, ch, cx, cy
    <3>5. PICK b \in Nat : b = cy + dy
      BY <3>1
    <3>6. b # 0
      <4>1. 0 * cw = 0
        BY <3>1
      <4>2. QED
        BY <3>1, <3>2, <3>5, <4>1
    <3>7. PICK c \in Nat : c = b - 1
      BY <3>6
    <3>8. b * cw = c * cw + cw /\ c * cw \in Nat
      BY <3>1, <3>7
    <3>9. PICK k \in Nat : k = c * cw
      BY <3>8
    <3>10. i = k + cx + dx
      BY <3>1, <3>2, <3>5, <3>8, <3>9
    <3>11. cy + (dy - 1) = c
      BY <3>1, <3>5, <3>7
    <3>12. dy - 1 \in {-1, 0, 1} /\ c \in 0 .. ch - 1
      BY <3>1, <3>5, <3>7
    <3>13. i = TapAt(f, sz, x, y, dx, dy - 1) /\ InPlane(f, sz, x, y, dx, dy - 1)
      BY <3>1, <3>3, <3>4, <3>9, <3>10, <3>11, <3>12
    <3>14. QED
      BY <3>12, <3>13
  <2>6. QED
    BY <2>1, <2>3, <2>4, <2>5, ResampledLemma
<1>8. QED
  BY <1>5, <1>6, <1>7 DEF mono

\* They lie in the plane, for 4:4:0 too.
LEMMA ChromaTapsInPlane ==
    ASSUME NEW f, NEW sz, NEW set, Drawable(f, sz, set), f.sub # "400",
           NEW x \in 0 .. sz[1] - 1, NEW y \in 0 .. sz[2] - 1,
           ~Bottom(f, sz, y) \/ set.interpolation = "NearestNeighbor"
    PROVE  ChromaTaps(f, sz, set, x, y) \subseteq 0 .. ChromaSize(f.sub, sz) - 1
<1>1. CASE f.sub # "440" /\ set.interpolation = "NearestNeighbor"
  BY <1>1, ChromaTapsLemma, PixelLemma
<1>2. CASE f.sub # "440" /\ ~Bottom(f, sz, y)
  BY <1>2, ChromaTapsLemma, InPlaneLemma
<1>3. CASE f.sub = "440"
  <2> DEFINE bilinear == set.interpolation = "Bilinear"
             taps == Taps(f.sub, sz, bilinear, x, y)
             w == sz[1]  ch == ChromaHeight(f, sz)  line == y \div 2
             cur == IF line = 0 THEN 0 ELSE line - 1
  <2>1. /\ w \in Nat \ {0} /\ ch \in Nat \ {0} /\ ChromaSize(f.sub, sz) = ch * w
        /\ x \in 0 .. w - 1 /\ line \in 0 .. ch - 1
    <3>1. SubsamplingHor(f.sub) = 1 /\ SubsamplingVer(f.sub) = 2
      BY <1>3 DEF SubsamplingHor, SubsamplingVer
    <3>2. /\ w \in Nat \ {0} /\ ch \in Nat \ {0} /\ ChromaSize(f.sub, sz) = ChromaWidth(f, sz) * ch
          /\ w = 1 * ChromaWidth(f, sz) /\ ChromaWidth(f, sz) \in Nat
      BY <3>1, PlaneLemma
    <3>3. w = ChromaWidth(f, sz)
      BY <3>2
    <3> HIDE DEF w, ch
    <3>4. w * ch = ch * w
      BY <3>2
    <3>5. QED
      BY <3>1, <3>2, <3>3, <3>4, PixelLemma DEF w, ch
  <2>2. \A t \in taps : t = cur * w + x \/ t = line * w + x
    BY <1>3 DEF Taps, Taps_440
  <2> HIDE DEF w, ch, line
  <2>3. cur \in 0 .. ch - 1
    BY <2>1
  <2> HIDE DEF cur
  <2>4. cur * w + x \in 0 .. ch * w - 1 /\ line * w + x \in 0 .. ch * w - 1
    BY <2>1, <2>3, GridBound
  <2>5. taps \subseteq 0 .. ChromaSize(f.sub, sz) - 1
    BY <2>1, <2>2, <2>4
  <2> HIDE DEF taps
  <2>6. ChromaTaps(f, sz, set, x, y) = UNION {Resampled(Shape(f), sz, set, t) : t \in taps}
    BY DEF ChromaTaps, taps
  <2>7. QED
    BY <2>5, <2>6, ResampledLemma
<1>4. QED
  BY <1>1, <1>2, <1>3
-----------------------------------------------------------------------------
(* The picture *)

\* A pixel is drawn from its own sample of the luma plane and, in each chroma plane, from
\* none, the one of its block, or the ones that are mixed.
DrawnFrom(f, sz, set, x, y, d) ==
    /\ d.y \in {{}, {Buffer(f, sz, set)[y * sz[1] + x]}}
    /\ \A comp \in {"u", "v"} :
          \/ d[comp] = {} /\ (f.sub = "400" \/ set.component # "All")
          \/ /\ f.sub # "400" /\ set.component # "All"
             /\ d[comp] = {Cell(f, sz, set, comp, MonochromeIndex(f, sz, x, y))}
          \/ /\ f.sub # "400" /\ set.component = "All"
             /\ d[comp] = {Cell(f, sz, set, comp, i) : i \in ChromaTaps(f, sz, set, x, y)}

LEMMA PlanesDrawn ==
    ASSUME NEW f, NEW sz, NEW set, Drawable(f, sz, set),
           NEW x \in 0 .. sz[1] - 1, NEW y \in 0 .. sz[2] - 1
    PROVE  DrawnFrom(f, sz, set, x, y,
                     PlanarToRGB(Buffer(f, sz, set), Shape(f), sz, set)[<<x, y>>])
<1> DEFINE buf == Buffer(f, sz, set)
           g == Shape(f)
           bilinear == set.interpolation = "Bilinear"
           Gray(comp) == {Cell(f, sz, set, comp, MonochromeIndex(f, sz, x, y))}
           Mixed(comp) == {Cell(f, sz, set, comp, i) : i \in ChromaTaps(f, sz, set, x, y)}
           luma == {buf[y * sz[1] + x]}
           d == PlanarToRGB(buf, g, sz, set)[<<x, y>>]
<1>1. <<x, y>> \in Pixels(sz) /\ <<x, y>>[1] = x /\ <<x, y>>[2] = y
  BY DEF Pixels
<1>2. g.sub = f.sub /\ MonochromeIndex(g, sz, x, y) = MonochromeIndex(f, sz, x, y)
  BY ShapeSub DEF MonochromeIndex
<1>3. ASSUME NEW comp
      PROVE  /\ {buf[ChromaIndex(g, sz, comp, MonochromeIndex(g, sz, x, y))]} = Gray(comp)
             /\ {buf[ChromaIndex(g, sz, comp, i)] :
                   i \in UNION {Resampled(g, sz, set, t) : t \in Taps(g.sub, sz, bilinear, x, y)}}
                = Mixed(comp)
  BY <1>2 DEF Cell, ChromaTaps
<1>4. d = CASE set.component = "Y" \/ g.sub = "400" -> Drawn(luma, {}, {})
            [] set.component = "Cb" /\ g.sub # "400" -> Drawn({}, Gray("u"), {})
            [] set.component = "Cr" /\ g.sub # "400" -> Drawn({}, {}, Gray("v"))
            [] OTHER -> Drawn(luma, Mixed("u"), Mixed("v"))
  <2> HIDE DEF buf, g, bilinear, Gray, Mixed
  <2>1. d = CASE set.component = "Y" \/ g.sub = "400" -> Drawn(luma, {}, {})
            [] set.component = "Cb" /\ g.sub # "400" ->
                 Drawn({}, {buf[ChromaIndex(g, sz, "u", MonochromeIndex(g, sz, x, y))]}, {})
            [] set.component = "Cr" /\ g.sub # "400" ->
                 Drawn({}, {}, {buf[ChromaIndex(g, sz, "v", MonochromeIndex(g, sz, x, y))]})
            [] OTHER -> Drawn(luma,
                 {buf[ChromaIndex(g, sz, "u", i)] :
                   i \in UNION {Resampled(g, sz, set, t) : t \in Taps(g.sub, sz, bilinear, x, y)}},
                 {buf[ChromaIndex(g, sz, "v", i)] :
                   i \in UNION {Resampled(g, sz, set, t) : t \in Taps(g.sub, sz, bilinear, x, y)}})
    BY <1>1 DEF PlanarToRGB, bilinear
  <2>2. QED
    BY <1>3, <2>1
<1> HIDE DEF g, Gray, Mixed, luma, d
<1>5. CASE set.component = "Y" \/ f.sub = "400"
  <2>1. d = Drawn(luma, {}, {})
    BY <1>2, <1>4, <1>5
  <2>2. QED
    BY <1>5, <2>1 DEF Drawn, DrawnFrom, d, g, luma
<1>6. CASE set.component = "Cb" /\ f.sub # "400"
  <2>1. d = Drawn({}, Gray("u"), {})
    BY <1>2, <1>4, <1>6
  <2>2. QED
    BY <1>6, <2>1 DEF Drawn, DrawnFrom, d, g, luma, Gray
<1>7. CASE set.component = "Cr" /\ f.sub # "400"
  <2>1. d = Drawn({}, {}, Gray("v"))
    BY <1>2, <1>4, <1>7
  <2>2. QED
    BY <1>7, <2>1 DEF Drawn, DrawnFrom, d, g, luma, Gray
<1>8. CASE set.component = "All" /\ f.sub # "400"
  <2>1. d = Drawn(luma, Mixed("u"), Mixed("v"))
    BY <1>2, <1>4, <1>8
  <2>2. QED
    BY <1>8, <2>1 DEF Drawn, DrawnFrom, d, g, luma, Mixed
<1>9. QED
  BY <1>5, <1>6, <1>7, <1>8 DEF Drawable, ConversionSettings

\* The short cut for 4:2:0 finds the same samples, unless their bytes are swapped.
LEMMA ShortCutDrawn ==
    ASSUME NEW f, NEW sz, NEW set, Drawable(f, sz, set), f.planar, ~f.be,
           TakesShortCut(f, set),
           NEW x \in 0 .. sz[1] - 1, NEW y \in 0 .. sz[2] - 1
    PROVE  DrawnFrom(f, sz, set, x, y, YUV420ToRGB(f, sz)[<<x, y>>])
<1> DEFINE n == PlaneSize(sz)  c == ChromaSize(f.sub, sz)  cw == ChromaWidth(f, sz)
           mono == MonochromeIndex(f, sz, x, y)  d == YUV420ToRGB(f, sz)[<<x, y>>]
           uv == ((y \div 2) * sz[1]) \div 2 + x \div 2
           First(comp) == UFirst(f) = (comp = "u")
<1>1. f.sub = "420" /\ f.sub # "440" /\ f.sub # "400" /\ ~f.interleaved /\ set.component = "All"
      /\ set.interpolation = "NearestNeighbor"
  BY DEF TakesShortCut
<1>2. SubsamplingHor(f.sub) = 2 /\ SubsamplingVer(f.sub) = 2
  BY <1>1 DEF SubsamplingHor, SubsamplingVer
<1>3. n \in Nat /\ c \in Nat /\ n \div 4 = c
  <2>1. n \in Nat /\ c \in Nat /\ n = 2 * 2 * c
    BY <1>2, ChromaIsSmaller
  <2> HIDE DEF n, c
  <2>2. QED
    BY <2>1
<1>4. uv = mono
  <2>1. sz[1] = 2 * cw /\ cw \in Nat /\ mono = (y \div 2) * cw + x \div 2
    BY <1>2, PlaneLemma DEF MonochromeIndex, ChromaWidth
  <2> HIDE DEF cw, mono
  <2>2. PICK b \in Nat : b = y \div 2
    BY PlaneLemma
  <2>3. b * sz[1] = 2 * (b * cw) /\ b * cw \in Nat
    BY <2>1, <2>2
  <2>4. (b * sz[1]) \div 2 = b * cw
    BY <2>3
  <2>5. QED
    BY <2>1, <2>2, <2>4
<1>5. f = [f EXCEPT !.be = FALSE]
  BY DEF Drawable, PixelFormats
<1>6. <<x, y>> \in Pixels(sz) /\ <<x, y>>[1] = x /\ <<x, y>>[2] = y
  BY DEF Pixels
<1>7. d = Drawn({ValueFromSource(f, y * sz[1] + x)},
                {ValueFromSource(f, n + (IF UFirst(f) THEN 0 ELSE n \div 4) + uv)},
                {ValueFromSource(f, n + (IF UFirst(f) THEN n \div 4 ELSE 0) + uv)})
  BY <1>5, <1>6 DEF YUV420ToRGB
<1>8. mono \in 0 .. c - 1 /\ y * sz[1] + x \in 0 .. n - 1
  BY PixelLemma
<1>9. \A comp \in {"u", "v"} : Cell(f, sz, set, comp, mono) = ValueFromSource(f, ChromaIndex(f, sz, comp, mono))
  BY <1>1, <1>8, PlanarCells
<1>10. \A comp \in {"u", "v"} :
          ChromaIndex(f, sz, comp, mono) = n + (IF First(comp) THEN 0 ELSE c) + mono * 1
  BY <1>1 DEF ChromaIndex
<1>11. First("u") = UFirst(f) /\ First("v") = ~UFirst(f) /\ mono * 1 = mono
  BY <1>8 DEF UFirst
<1>12. Buffer(f, sz, set)[y * sz[1] + x] = ValueFromSource(f, y * sz[1] + x)
  BY <1>8, PlanarCells
<1>13. ChromaTaps(f, sz, set, x, y) = {mono}
  BY <1>1, ChromaTapsLemma
<1> HIDE DEF n, c, cw, mono, d, uv, First
<1>14. /\ d.y = {Buffer(f, sz, set)[y * sz[1] + x]}
       /\ d.u = {Cell(f, sz, set, "u", mono)}
       /\ d.v = {Cell(f, sz, set, "v", mono)}
  BY <1>3, <1>4, <1>7, <1>9, <1>10, <1>11, <1>12 DEF Drawn
<1>15. QED
  BY <1>1, <1>13, <1>14 DEF DrawnFrom, d, mono

LEMMA ImageLemma ==
    ASSUME NEW f, NEW sz, NEW set, Drawable(f, sz, set),
           ~(f.be /\ f.planar /\ TakesShortCut(f, set)),
           NEW x \in 0 .. sz[1] - 1, NEW y \in 0 .. sz[2] - 1
    PROVE  DrawnFrom(f, sz, set, x, y, YUVToImage(f, sz, set)[<<x, y>>])
<1>1. CASE f.planar /\ TakesShortCut(f, set)
  BY <1>1, ShortCutDrawn DEF YUVToImage
<1>2. CASE ~(f.planar /\ TakesShortCut(f, set))
  <2>1. YUVToImage(f, sz, set) = PlanarToRGB(Buffer(f, sz, set), Shape(f), sz, set)
    <3>1. CASE f.planar
      BY <1>2, <3>1, PlanarLemma DEF YUVToImage
    <3>2. CASE ~f.planar
      <4>1. f.predefined \in {"none", "V210", "NV15", "NV20", "NV30"}
        BY DEF Drawable, PixelFormats
      <4>2. QED
        BY <3>2, <4>1 DEF YUVToImage, Buffer, Shape
    <3>3. QED
      BY <3>1, <3>2
  <2>2. QED
    BY <2>1, PlanesDrawn
<1>3. QED
  BY <1>1, <1>2
\* Every sample is in the plane of the pixel it is nearest to.
LEMMA NearLemma ==
    ASSUME NEW f, NEW sz, NEW set, Drawable(f, sz, set),
           NEW x \in 0 .. sz[1] - 1, NEW y \in 0 .. sz[2] - 1,
           NEW dx \in {0, 1}, NEW dy \in {-1, 0, 1}, InPlane(f, sz, x, y, dx, dy)
    PROVE  \E qx \in 0 .. sz[1] - 1, qy \in 0 .. sz[2] - 1 :
              /\ MonochromeIndex(f, sz, qx, qy) = TapAt(f, sz, x, y, dx, dy)
              /\ qx \in (x - SubsamplingHor(f.sub)) .. (x + SubsamplingHor(f.sub))
              /\ qy \in (y - SubsamplingVer(f.sub)) .. (y + SubsamplingVer(f.sub))
<1> DEFINE w == sz[1]  h == sz[2]  s == SubsamplingHor(f.sub)  t == SubsamplingVer(f.sub)
           cw == ChromaWidth(f, sz)  ch == ChromaHeight(f, sz)
           cx == x \div s  cy == y \div t  qx == x + s * dx  qy == y + t * dy
<1>1. /\ w \in Nat \ {0} /\ h \in Nat \ {0} /\ s \in {1, 2, 4} /\ t \in {1, 2, 4}
      /\ cw \in Nat \ {0} /\ ch \in Nat \ {0} /\ w = s * cw /\ h = t * ch
  BY PlaneLemma
<1>2. cx + dx < cw /\ cy + dy \in 0 .. ch - 1 /\ x \in 0 .. w - 1 /\ y \in 0 .. h - 1
  BY DEF InPlane
<1>3. /\ TapAt(f, sz, x, y, dx, dy) = (cy + dy) * cw + cx + dx
      /\ MonochromeIndex(f, sz, qx, qy) = (qy \div t) * cw + (qx \div s)
  BY DEF TapAt, MonochromeIndex, ChromaWidth
<1> HIDE DEF w, h, s, t, cw, ch
<1>4. qx \in 0 .. w - 1 /\ qx \div s = cx + dx /\ qx \in (x - s) .. (x + s)
  <2>1. CASE s = 1
    BY <1>1, <1>2, <2>1
  <2>2. CASE s = 2
    BY <1>1, <1>2, <2>2
  <2>3. CASE s = 4
    BY <1>1, <1>2, <2>3
  <2>4. QED
    BY <1>1, <2>1, <2>2, <2>3
<1>5. qy \in 0 .. h - 1 /\ qy \div t = cy + dy /\ qy \in (y - t) .. (y + t)
  <2>1. CASE t = 1
    BY <1>1, <1>2, <2>1
  <2>2. CASE t = 2
    BY <1>1, <1>2, <2>2
  <2>3. CASE t = 4
    BY <1>1, <1>2, <2>3
  <2>4. QED
    BY <1>1, <2>1, <2>2, <2>3
<1> HIDE DEF qx, qy
<1>6. (cy + dy) * cw + cx + dx = (qy \div t) * cw + (qx \div s)
  <2>1. PICK a \in Nat, b \in Nat : a = cx + dx /\ b = cy + dy /\ cx \in Nat
    BY <1>1, <1>2
  <2>2. PICK k \in Nat : k = b * cw
    BY <1>1
  <2>3. (cy + dy) * cw = k /\ (qy \div t) * cw = k /\ qx \div s = a
    BY <1>4, <1>5, <2>1, <2>2
  <2>4. QED
    BY <2>1, <2>3
<1>7. QED
  BY <1>3, <1>4, <1>5, <1>6 DEF w, h, s, t

\* What is drawn lies in the frame.
LEMMA DrawnBytes ==
    ASSUME NEW f, NEW sz, NEW set, Drawable(f, sz, set),
           ~(f.sub = "440" /\ sz[1] % 2 = 1), ~ReadAsUnpacked(f),
           NEW x \in 0 .. sz[1] - 1, NEW y \in 0 .. sz[2] - 1,
           \/ ~Bottom(f, sz, y)
           \/ set.interpolation = "NearestNeighbor"
           \/ set.component # "All",
           NEW d, DrawnFrom(f, sz, set, x, y, d),
           NEW c \in {"y", "u", "v"}, NEW s \in d[c]
    PROVE  LastByteOf(s) < BytesPerFrame(f, sz, set)
<1> DEFINE size == BytesPerFrame(f, sz, set)
<1>1. y * sz[1] + x \in 0 .. PlaneSize(sz) - 1
      /\ MonochromeIndex(f, sz, x, y) \in 0 .. ChromaSize(f.sub, sz) - 1
  BY PixelLemma
<1>2. CASE c = "y"
  <2>1. s = Buffer(f, sz, set)[y * sz[1] + x]
    BY <1>2 DEF DrawnFrom
  <2>2. QED
    BY <1>1, <2>1, FrameBytes
<1>3. CASE c \in {"u", "v"}
  <2>1. f.sub # "400"
    BY <1>3 DEF DrawnFrom
  <2>2. CASE set.component # "All"
    <3>1. s = Cell(f, sz, set, c, MonochromeIndex(f, sz, x, y))
      BY <1>3, <2>2 DEF DrawnFrom
    <3>2. QED
      BY <1>1, <1>3, <2>1, <3>1, FrameBytes
  <2>3. CASE set.component = "All"
    <3>1. PICK i \in ChromaTaps(f, sz, set, x, y) : s = Cell(f, sz, set, c, i)
      BY <1>3, <2>3 DEF DrawnFrom
    <3>2. ChromaTaps(f, sz, set, x, y) \subseteq 0 .. ChromaSize(f.sub, sz) - 1
      BY <2>1, <2>3, ChromaTapsInPlane
    <3>3. i \in 0 .. ChromaSize(f.sub, sz) - 1
      BY <3>1, <3>2
    <3>4. QED
      BY <1>3, <2>1, <3>1, <3>3, FrameBytes
  <2>4. QED
    BY <2>2, <2>3
<1>4. QED
  BY <1>2, <1>3

\* So do the values, those of packed bytes too, wrong as their place is.
LEMMA ValueBytes ==
    ASSUME NEW f, NEW sz, NEW set, Drawable(f, sz, set),
           ~(f.sub = "440" /\ sz[1] % 2 = 1), ~ReadAsUnpacked(f),
           NEW x \in 0 .. sz[1] - 1, NEW y \in 0 .. sz[2] - 1,
           NEW c \in {"y", "u", "v"}, f.sub # "400" \/ c = "y"
    PROVE  LastByteOf(PixelValue(f, sz, set, x, y)[c]) < BytesPerFrame(f, sz, set)
<1>1. CASE ~PackedInBytes(f)
  <2>1. y * sz[1] + x \in 0 .. PlaneSize(sz) - 1
        /\ MonochromeIndex(f, sz, x, y) \in 0 .. ChromaSize(f.sub, sz) - 1
    BY PixelLemma
  <2>2. CASE c = "y"
    BY <1>1, <2>1, <2>2, FrameValue, FrameBytes
  <2>3. CASE c \in {"u", "v"}
    <3>1. PixelValue(f, sz, set, x, y)[c] =
             Cell(f, sz, set, c, MonochromeIndex(f, sz, x, y))
      BY <1>1, <2>3, FrameValue
    <3>2. QED
      BY <2>1, <2>3, <3>1, FrameBytes
  <2>4. QED
    BY <2>2, <2>3
<1>2. CASE PackedInBytes(f)
  <2>1. f.predefined = "none" /\ ~f.planar /\ f.sub = "422" /\ f.bits = 10 /\ f.bytePacking
    BY <1>2 DEF PackedInBytes
  <2>2. f.order \in {"UYVY", "VYUY", "YUYV", "YVYU"}
    BY <2>1 DEF Drawable, CanConvertToRGB, IsValid
  <2> DEFINE cw == ChromaWidth(f, sz)  cx == x \div 2  h == sz[2]
  <2>3. cw \in Nat \ {0} /\ h \in Nat \ {0} /\ cx \in 0 .. cw - 1 /\ y \in 0 .. h - 1
        /\ sz[1] \div 2 = cw
    <3>1. SubsamplingHor(f.sub) = 2
      BY <2>1 DEF SubsamplingHor
    <3>2. QED
      BY <3>1, PlaneLemma, PixelLemma DEF ChromaWidth
  <2>4. BytesPerFrame(f, sz, set) = 5 * cw * h
    <3>1. BytesPerFrame(f, sz, set) = ((f.bits * 4 + 7) \div 8) * (sz[1] \div 2) * sz[2]
      BY <2>1 DEF BytesPerFrame
    <3>2. (f.bits * 4 + 7) \div 8 = 5
      BY <2>1
    <3>3. QED
      BY <2>3, <3>1, <3>2
  <2>5. PICK k \in 0 .. 3 : PixelValue(f, sz, set, x, y)[c] = Sample(y * cx * 5, k, "packed10")
    <3> DEFINE o == PackedOffsets(f.order)
               In(j) == Sample(y * cx * 5, j, "packed10")
               part == IF c = "y" THEN o.y + 2 * (x % 2) ELSE IF c = "u" THEN o.u ELSE o.v
    <3>1. PixelValue(f, sz, set, x, y) = ValuePacked(f, sz, x, y)
      BY <2>1 DEF PixelValue
    <3>2. ValuePacked(f, sz, x, y) = [y |-> In(o.y + 2 * (x % 2)), u |-> In(o.u), v |-> In(o.v)]
      BY <1>2, <2>1 DEF ValuePacked
    <3>3. o.y \in {0, 1} /\ o.u \in {0, 1, 2, 3} /\ o.v \in {0, 1, 2, 3} /\ x % 2 \in {0, 1}
      <4>1. x % 2 \in {0, 1}
        BY PlaneLemma
      <4>2. QED
        BY <2>2, <4>1 DEF PackedOffsets
    <3> HIDE DEF o
    <3>4. part \in 0 .. 3
      BY <3>3
    <3>5. PixelValue(f, sz, set, x, y)[c] = In(part)
      BY <3>1, <3>2
    <3>6. QED
      BY <3>4, <3>5
  <2>6. LastByteOf(PixelValue(f, sz, set, x, y)[c]) = y * cx * 5 + k + 1
    BY <2>5 DEF LastByteOf, Sample
  <2> HIDE DEF cw, cx, h
  <2>7. y * cx + 1 <= cw * h
    <3>1. y * cx \in Nat /\ y * cx <= y * (cw - 1)
      BY <2>3
    <3>2. y * (cw - 1) <= (h - 1) * (cw - 1)
      BY <2>3
    <3>3. (h - 1) * (cw - 1) + 1 <= h * cw
      BY <2>3
    <3>4. QED
      BY <2>3, <3>1, <3>2, <3>3
  <2>8. PICK a \in Nat, b \in Nat : a = y * cx /\ b = cw * h
    BY <2>3
  <2>9. y * cx * 5 = 5 * a /\ 5 * cw * h = 5 * b
    BY <2>3, <2>8
  <2>10. QED
    BY <2>4, <2>6, <2>7, <2>8, <2>9
<1>3. QED
  BY <1>1, <1>2
-----------------------------------------------------------------------------
(* The handler *)

\* The picture is the one of the format, size and settings that are set.
ConversionInv ==
    /\ srcPixelFormat \in Formats
    /\ frameSize \in Sizes
    /\ conversionSettings \in Settings
    /\ HasImage => /\ Drawable(srcPixelFormat, frameSize, conversionSettings)
                   /\ currentImage = YUVToImage(srcPixelFormat, frameSize, conversionSettings)

\* Whatever is set, the picture that is kept was made from it: a change of the format,
\* the size or the settings throws the picture away.
THEOREM ConversionInvariant == Spec => []ConversionInv
<1>1. Init => ConversionInv
  BY DEF Init, ConversionInv, HasImage
<1>2. ConversionInv /\ [Next]_vars => ConversionInv'
  <2> SUFFICES ASSUME ConversionInv, [Next]_vars
               PROVE  ConversionInv'
    OBVIOUS
  <2>1. CASE \E f \in Formats : SetSrcPixelFormat(f)
    BY <2>1 DEF SetSrcPixelFormat, ConversionInv, HasImage
  <2>2. CASE \E sz \in Sizes : SetFrameSize(sz)
    BY <2>2 DEF SetFrameSize, ConversionInv, HasImage
  <2>3. CASE \E set \in Settings : SlotYUVControlChanged(set)
    BY <2>3 DEF SlotYUVControlChanged, ConversionInv, HasImage
  <2>4. CASE LoadFrame
    <3>1. Drawable(srcPixelFormat, frameSize, conversionSettings)
      BY <2>4, ConversionAssumption DEF ConversionInv, LoadFrame, Drawable
    <3>2. QED
      BY <2>4, <3>1 DEF LoadFrame, ConversionInv, HasImage
  <2>5. CASE UNCHANGED vars
    BY <2>5 DEF vars, ConversionInv, HasImage
  <2>6. QED
    BY <2>1, <2>2, <2>3, <2>4, <2>5 DEF Next
<1>3. QED
  BY <1>1, <1>2, PTL DEF Spec

LEMMA DrawnImage ==
    ASSUME ConversionInv, HasImage,
           ~(srcPixelFormat.be /\ srcPixelFormat.planar
             /\ TakesShortCut(srcPixelFormat, conversionSettings)),
           NEW p \in Pixels(frameSize)
    PROVE  /\ Drawable(srcPixelFormat, frameSize, conversionSettings)
           /\ p = <<p[1], p[2]>> /\ p[1] \in 0 .. frameSize[1] - 1
           /\ p[2] \in 0 .. frameSize[2] - 1
           /\ DrawnFrom(srcPixelFormat, frameSize, conversionSettings, p[1], p[2], currentImage[p])
<1>1. p = <<p[1], p[2]>> /\ p[1] \in 0 .. frameSize[1] - 1 /\ p[2] \in 0 .. frameSize[2] - 1
  BY DEF Pixels
<1>2. Drawable(srcPixelFormat, frameSize, conversionSettings)
      /\ currentImage[p] =
           YUVToImage(srcPixelFormat, frameSize, conversionSettings)[<<p[1], p[2]>>]
  BY <1>1 DEF ConversionInv
<1>3. QED
  BY <1>1, <1>2, ImageLemma

LEMMA ValueIsDrawnLemma ==
    ASSUME ConversionInv, HasImage, NotMixed, Agrees, NEW p \in Pixels(frameSize),
           NEW c \in {"y", "u", "v"}
    PROVE  currentImage[p][c] \in {{}, {ValueAt(p)[c]}}
<1> DEFINE f == srcPixelFormat  sz == frameSize  set == conversionSettings  x == p[1]  y == p[2]
           d == currentImage[p]  mono == MonochromeIndex(f, sz, x, y)
<1>1. ~PackedInBytes(f) /\ ~(f.be /\ TakesShortCut(f, set))
      /\ ~(f.sub = "440" /\ set.component = "All")
  BY DEF Agrees
<1>2. Drawable(f, sz, set) /\ x \in 0 .. sz[1] - 1 /\ y \in 0 .. sz[2] - 1
      /\ DrawnFrom(f, sz, set, x, y, d)
  BY <1>1, DrawnImage
<1>3. ValueAt(p) = PixelValue(f, sz, set, x, y)
  BY DEF ValueAt
<1>4. set.component # "All" \/ set.interpolation = "NearestNeighbor"
  BY DEF NotMixed
<1> HIDE DEF f, sz, set, x, y, d, mono
<1>5. CASE c = "y"
  <2>1. PixelValue(f, sz, set, x, y).y = Buffer(f, sz, set)[y * sz[1] + x]
    BY <1>1, <1>2, FrameValue
  <2>2. d.y \in {{}, {Buffer(f, sz, set)[y * sz[1] + x]}}
    BY <1>2 DEF DrawnFrom
  <2>3. QED
    BY <1>3, <1>5, <2>1, <2>2 DEF d
<1>6. CASE c \in {"u", "v"}
  <2>1. CASE d[c] = {}
    BY <2>1 DEF d
  <2>2. CASE d[c] = {Cell(f, sz, set, c, mono)} /\ f.sub # "400"
    <3>1. PixelValue(f, sz, set, x, y)[c] = Cell(f, sz, set, c, mono)
      BY <1>1, <1>2, <1>6, <2>2, FrameValue DEF mono
    <3>2. QED
      BY <1>3, <2>2, <3>1 DEF d
  <2>3. CASE /\ d[c] = {Cell(f, sz, set, c, i) : i \in ChromaTaps(f, sz, set, x, y)}
             /\ f.sub # "400" /\ set.component = "All"
    <3>1. ChromaTaps(f, sz, set, x, y) = {mono}
      BY <1>1, <1>2, <1>4, <2>3, ChromaTapsLemma DEF mono
    <3>2. d[c] = {Cell(f, sz, set, c, mono)}
      BY <2>3, <3>1
    <3>3. QED
      BY <2>2, <2>3, <3>2
  <2>4. QED
    BY <1>2, <1>6, <2>1, <2>2, <2>3 DEF DrawnFrom, mono
<1>7. QED
  BY <1>5, <1>6 DEF d

\* For every layout of a frame, every size and every setting under which nothing is mixed,
\* the samples a pixel is drawn from are those getPixelValue shows for it, with the three
\* exceptions of Agrees.
THEOREM PixelValueIsDrawnTheorem == Spec => []PixelValueIsDrawn
<1>1. ConversionInv => PixelValueIsDrawn
  BY ValueIsDrawnLemma DEF PixelValueIsDrawn
<1>2. QED
  BY <1>1, ConversionInvariant, PTL

LEMMA NeighboursLemma ==
    ASSUME ConversionInv, HasImage, ~NotMixed, ~PackedInBytes(srcPixelFormat),
           srcPixelFormat.sub \notin {"400", "440"}, NEW p \in Pixels(frameSize),
           ~Bottom(srcPixelFormat, frameSize, p[2]), NEW c \in {"u", "v"}
    PROVE  /\ ValueAt(p)[c] \in currentImage[p][c]
           /\ \A s \in currentImage[p][c] : \E q \in Pixels(frameSize) :
                 /\ s = ValueAt(q)[c]
                 /\ q[1] \in (p[1] - SubsamplingHor(srcPixelFormat.sub))
                                .. (p[1] + SubsamplingHor(srcPixelFormat.sub))
                 /\ q[2] \in (p[2] - SubsamplingVer(srcPixelFormat.sub))
                                .. (p[2] + SubsamplingVer(srcPixelFormat.sub))
<1> DEFINE f == srcPixelFormat  sz == frameSize  set == conversionSettings  x == p[1]  y == p[2]
           d == currentImage[p]  taps == ChromaTaps(f, sz, set, x, y)
<1>1. set.component = "All" /\ set.interpolation # "NearestNeighbor" /\ ~TakesShortCut(f, set)
  BY DEF NotMixed, TakesShortCut
<1>2. Drawable(f, sz, set) /\ x \in 0 .. sz[1] - 1 /\ y \in 0 .. sz[2] - 1
      /\ DrawnFrom(f, sz, set, x, y, d)
  BY <1>1, DrawnImage
<1>3. d[c] = {Cell(f, sz, set, c, i) : i \in taps}
  BY <1>1, <1>2 DEF DrawnFrom
<1>4. /\ MonochromeIndex(f, sz, x, y) \in taps
      /\ \A i \in taps : \E dx \in {0, 1}, dy \in {-1, 0, 1} :
            i = TapAt(f, sz, x, y, dx, dy) /\ InPlane(f, sz, x, y, dx, dy)
  BY <1>2, ChromaTapsLemma
<1>5. ASSUME NEW qx \in 0 .. sz[1] - 1, NEW qy \in 0 .. sz[2] - 1
      PROVE  PixelValue(f, sz, set, qx, qy)[c]
                = Cell(f, sz, set, c, MonochromeIndex(f, sz, qx, qy))
  BY <1>2, FrameValue
<1>6. ValueAt(p)[c] \in d[c]
  <2>1. ValueAt(p)[c] = Cell(f, sz, set, c, MonochromeIndex(f, sz, x, y))
    BY <1>2, <1>5 DEF ValueAt
  <2>2. QED
    BY <1>3, <1>4, <2>1
<1>7. ASSUME NEW s \in d[c]
      PROVE  \E q \in Pixels(sz) : /\ s = ValueAt(q)[c]
                                   /\ q[1] \in (x - SubsamplingHor(f.sub)) .. (x + SubsamplingHor(f.sub))
                                   /\ q[2] \in (y - SubsamplingVer(f.sub)) .. (y + SubsamplingVer(f.sub))
  <2>1. PICK i \in taps : s = Cell(f, sz, set, c, i)
    BY <1>3, <1>7
  <2>2. PICK dx \in {0, 1}, dy \in {-1, 0, 1} :
            i = TapAt(f, sz, x, y, dx, dy) /\ InPlane(f, sz, x, y, dx, dy)
    BY <1>4, <2>1
  <2>3. PICK qx \in 0 .. sz[1] - 1, qy \in 0 .. sz[2] - 1 :
              /\ MonochromeIndex(f, sz, qx, qy) = TapAt(f, sz, x, y, dx, dy)
              /\ qx \in (x - SubsamplingHor(f.sub)) .. (x + SubsamplingHor(f.sub))
              /\ qy \in (y - SubsamplingVer(f.sub)) .. (y + SubsamplingVer(f.sub))
    BY <1>2, <2>2, NearLemma
  <2>4. <<qx, qy>> \in Pixels(sz) /\ <<qx, qy>>[1] = qx /\ <<qx, qy>>[2] = qy
    BY DEF Pixels
  <2>5. ValueAt(<<qx, qy>>)[c] = s
    BY <1>5, <2>1, <2>2, <2>3, <2>4 DEF ValueAt
  <2>6. QED
    BY <2>3, <2>4, <2>5
<1>8. QED
  BY <1>6, <1>7

\* For every format and frame size, interpolated chroma takes the sample of the pixel and
\* samples of pixels at most one block away, with the exceptions the property names.
THEOREM ChromaFromNeighboursTheorem == Spec => []ChromaFromNeighbours
<1>1. ConversionInv => ChromaFromNeighbours
  <2> DEFINE f == srcPixelFormat
             w == SubsamplingHor(f.sub)
             h == SubsamplingVer(f.sub)
             Near(p) == {q \in Pixels(frameSize) : /\ q[1] \in (p[1] - w) .. (p[1] + w)
                                                   /\ q[2] \in (p[2] - h) .. (p[2] + h)}
             Excluded(p) == f.sub = "440" \/ (f.sub = "410" /\ p[2] >= frameSize[2] - h)
  <2>1. ASSUME ConversionInv, HasImage, ~NotMixed, ~PackedInBytes(f), f.sub # "400",
               NEW p \in Pixels(frameSize), NEW c \in {"u", "v"}, ~Excluded(p)
        PROVE  /\ ValueAt(p)[c] \in currentImage[p][c]
               /\ currentImage[p][c] \subseteq {ValueAt(q)[c] : q \in Near(p)}
    <3>1. ~Bottom(f, frameSize, p[2]) /\ f.sub \notin {"400", "440"}
      BY <2>1 DEF Bottom, SubsamplingVer
    <3>2. /\ ValueAt(p)[c] \in currentImage[p][c]
          /\ \A s \in currentImage[p][c] : \E q \in Pixels(frameSize) :
                /\ s = ValueAt(q)[c]
                /\ q[1] \in (p[1] - w) .. (p[1] + w)
                /\ q[2] \in (p[2] - h) .. (p[2] + h)
      BY <2>1, <3>1, NeighboursLemma
    <3>3. QED
      BY <3>2
  <2> HIDE DEF Near, Excluded
  <2>2. QED
    BY <2>1 DEF ChromaFromNeighbours, Near, Excluded
<1>2. QED
  BY <1>1, ConversionInvariant, PTL

\* The short cut reads the same bytes, in whatever order.
LEMMA ByteOrder ==
    ASSUME NEW f, NEW sz, NEW set, Drawable(f, sz, set), f.planar, TakesShortCut(f, set)
    PROVE  LET g == [f EXCEPT !.be = FALSE]
           IN  /\ Drawable(g, sz, set) /\ g.sub = f.sub /\ ~g.be /\ ~ReadAsUnpacked(g)
               /\ YUVToImage(g, sz, set) = YUVToImage(f, sz, set)
               /\ BytesPerFrame(g, sz, set) = BytesPerFrame(f, sz, set)
<1> DEFINE g == [f EXCEPT !.be = FALSE]
<1>1. /\ g \in PixelFormats /\ g.sub = f.sub /\ g.bits = f.bits /\ g.planar = f.planar
      /\ g.order = f.order /\ g.interleaved = f.interleaved /\ g.predefined = f.predefined
      /\ g.offsetY = f.offsetY /\ ~g.be /\ [g EXCEPT !.be = FALSE] = g
      /\ g.bytePacking = f.bytePacking
  BY DEF Drawable, PixelFormats
<1>2. f.planar /\ TakesShortCut(f, set) /\ Drawable(f, sz, set)
  OBVIOUS
<1> HIDE DEF g
<1>3. IsValid(g)
  BY <1>1, <1>2, PlanarLemma DEF IsValid, Drawable, CanConvertToRGB
<1>4. Drawable(g, sz, set)
  BY <1>1, <1>2, <1>3 DEF Drawable, CanConvertToRGB, WholeGroups
<1>5. TakesShortCut(g, set) /\ ~ReadAsUnpacked(g)
  BY <1>1, <1>2 DEF TakesShortCut, ReadAsUnpacked
<1>6. YUV420ToRGB(g, sz) = YUV420ToRGB(f, sz)
  BY <1>1 DEF YUV420ToRGB, UFirst, g
<1>7. YUVToImage(g, sz, set) = YUVToImage(f, sz, set)
  BY <1>1, <1>2, <1>5, <1>6 DEF YUVToImage
<1>8. BytesPerFrame(g, sz, set) = BytesPerFrame(f, sz, set)
  <2>1. f.predefined = "none" /\ HasAlpha(g) = HasAlpha(f) /\ BytesPerSample(g) = BytesPerSample(f)
    BY <1>1, <1>2, PlanarLemma DEF HasAlpha, BytesPerSample
  <2>2. QED
    BY <1>1, <1>2, <2>1 DEF BytesPerFrame
<1>9. QED
  BY <1>1, <1>4, <1>5, <1>7, <1>8 DEF g

\* No byte behind the frame is used, neither for the picture nor for the values, whatever the
\* format, the size of the frame and the settings, with the exceptions the property names.
THEOREM ReadsInsideFrameTheorem == Spec => []ReadsInsideFrame
<1>1. ConversionInv => ReadsInsideFrame
  <2> DEFINE f == srcPixelFormat  sz == frameSize  set == conversionSettings
             size == BytesPerFrame(f, sz, set)
             Excluded(p) == \/ f.sub = "440" /\ sz[1] % 2 = 1
                            \/ /\ f.sub = "410"
                               /\ p[2] >= sz[2] - 4
                               /\ ~NotMixed
                            \/ /\ f.predefined = "none" /\ ~f.planar /\ f.bytePacking
                               /\ ~PackedInBytes(f) /\ f.bits \notin {8, 16}
  <2>1. ASSUME ConversionInv, HasImage, NEW p \in Pixels(sz), NEW c \in {"y", "u", "v"},
               ~Excluded(p)
        PROVE  /\ \A s \in currentImage[p][c] : LastByteOf(s) < size
               /\ f.sub # "400" \/ c = "y" => LastByteOf(ValueAt(p)[c]) < size
    <3>1. ~(f.sub = "440" /\ sz[1] % 2 = 1) /\ ~ReadAsUnpacked(f)
      BY <2>1 DEF ReadAsUnpacked
    <3>2. \/ ~Bottom(f, sz, p[2]) \/ set.interpolation = "NearestNeighbor"
          \/ set.component # "All"
      BY <2>1 DEF Bottom, NotMixed
    <3>3. /\ Drawable(f, sz, set) /\ currentImage = YUVToImage(f, sz, set)
          /\ p = <<p[1], p[2]>> /\ p[1] \in 0 .. sz[1] - 1 /\ p[2] \in 0 .. sz[2] - 1
      BY <2>1 DEF ConversionInv, Pixels
    <3>4. ASSUME NEW s \in currentImage[p][c]
          PROVE  LastByteOf(s) < size
      <4>1. CASE ~(f.be /\ f.planar /\ TakesShortCut(f, set))
        <5>1. DrawnFrom(f, sz, set, p[1], p[2], currentImage[p])
          BY <2>1, <4>1, DrawnImage
        <5> HIDE DEF f, sz, set, Excluded
        <5>2. QED
          BY <2>1, <3>1, <3>2, <3>3, <3>4, <5>1, DrawnBytes
      <4>2. CASE f.be /\ f.planar /\ TakesShortCut(f, set)
        <5> DEFINE g == [f EXCEPT !.be = FALSE]
        <5> HIDE DEF f, sz, set, Excluded
        <5>1. /\ Drawable(g, sz, set) /\ g.sub = f.sub /\ ~g.be /\ ~ReadAsUnpacked(g)
              /\ currentImage = YUVToImage(g, sz, set) /\ BytesPerFrame(g, sz, set) = size
          BY <3>3, <4>2, ByteOrder
        <5> HIDE DEF g
        <5>2. DrawnFrom(g, sz, set, p[1], p[2], YUVToImage(g, sz, set)[<<p[1], p[2]>>])
          BY <3>3, <5>1, ImageLemma
        <5>3. DrawnFrom(g, sz, set, p[1], p[2], currentImage[p])
          BY <3>3, <5>1, <5>2
        <5>4. ~Bottom(g, sz, p[2]) \/ set.interpolation = "NearestNeighbor"
              \/ set.component # "All"
          BY <3>2, <5>1 DEF Bottom
        <5>5. LastByteOf(s) < BytesPerFrame(g, sz, set)
          BY <2>1, <3>1, <3>3, <3>4, <5>1, <5>3, <5>4, DrawnBytes
        <5>6. QED
          BY <5>1, <5>5
      <4>3. QED
        BY <4>1, <4>2
    <3>5. f.sub # "400" \/ c = "y" => LastByteOf(ValueAt(p)[c]) < size
      <4>1. ValueAt(p) = PixelValue(f, sz, set, p[1], p[2])
        BY DEF ValueAt
      <4> HIDE DEF f, sz, set, Excluded
      <4>2. QED
        BY <2>1, <3>1, <3>3, <4>1, ValueBytes
    <3>6. QED
      BY <3>4, <3>5
  <2> HIDE DEF Excluded
  <2>2. QED
    BY <2>1 DEF ReadsInsideFrame, Excluded
<1>2. QED
  BY <1>1, ConversionInvariant, PTL
=============================================================================
