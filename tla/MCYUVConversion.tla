---------------------------- MODULE MCYUVConversion ----------------------------
(***************************************************************************)
(* The formats of YUVConversion: every way the code has to lay out a       *)
(* frame, with frames of a few blocks.                                     *)
(***************************************************************************)
EXTENDS YUVConversion

Planar(sub, bits, order) ==
    [sub |-> sub, bits |-> bits, planar |-> TRUE, order |-> order, be |-> FALSE,
     interleaved |-> FALSE, bytePacking |-> FALSE, predefined |-> "none",
     offsetY |-> IF sub = "420" THEN 1 ELSE 0]

Packed(sub, bits, order) == [Planar(sub, bits, order) EXCEPT !.planar = FALSE]
Predefined(name) == [Packed(PredefinedSub(name), 10, "YUV") EXCEPT !.predefined = name, !.offsetY = 0]

MCFormats ==
    {Planar(sub, 8, "YUV") : sub \in {"444", "422", "420", "440", "410", "411", "400"}}
    \cup {Planar("420", 10, order) : order \in {"YVU", "YUVA"}}
    \cup {[Planar("420", bits, "YUV") EXCEPT !.be = TRUE, !.offsetY = y] :
              bits \in {10, 12}, y \in {0, 1}}
    \cup {[Planar(sub, 8, order) EXCEPT !.interleaved = TRUE] :
              sub \in {"420", "422"}, order \in {"YUV", "YVUA"}}
    \cup {Packed("422", 8, order) : order \in {"UYVY", "VYUY", "YUYV", "YVYU"}}
    \cup {Packed("444", 8, order) : order \in {"YUV", "YVU", "AYUV", "YUVA", "VUYA"}}
    \cup {[Packed(sub[1], 16, sub[2]) EXCEPT !.be = TRUE] :
              sub \in {<<"422", "YUYV">>, <<"444", "AYUV">>}}
    \cup {[Packed("422", bits, "UYVY") EXCEPT !.bytePacking = TRUE] : bits \in {10, 12}}
    \cup {[Packed("444", 8, "YUVA") EXCEPT !.bytePacking = TRUE]}
    \cup {Predefined(name) : name \in {"V210", "NV15", "NV20", "NV30"}}

MCSizes == {<<3, 3>>, <<3, 4>>, <<2, 2>>, <<4, 4>>, <<6, 4>>, <<8, 8>>, <<4, 6>>, <<12, 8>>, <<52, 2>>}

Setting(interpolation, component) ==
    [interpolation |-> interpolation, component |-> component, swapped |-> FALSE,
     strideY |-> 0, strideUV |-> 0]

MCSettings ==
    {Setting("NearestNeighbor", "All"), Setting("Bilinear", "All"),
     Setting("Interstitial", "All"), Setting("Bilinear", "Cb"), Setting("NearestNeighbor", "Cr"),
     [Setting("NearestNeighbor", "All") EXCEPT !.swapped = TRUE, !.strideY = 16],
     [Setting("Bilinear", "All") EXCEPT !.strideY = 16, !.strideUV = 24]}
=============================================================================
