------------------------ MODULE MCPlaybackController ------------------------
(***************************************************************************)
(* PlaybackController on small playlists.                                  *)
(***************************************************************************)
EXTENDS PlaybackController

CONSTANTS a, b, text        \* two videos and a static item

Videos == {a, b}
ThreeItems == {a, b, text}
ThreeInOrder == <<a, text, b>>
TwoInOrder == <<a, b>>
NoneCached == [i \in Item |-> {}]
SecondCached == [i \in Item |-> IF i = b THEN 0 .. 1 ELSE {}]

\* A video of two frames, one of three that does not begin with frame 0 (a file
\* whose first key frame comes later), one of a single frame.
Short == <<0, 1>>
Late == <<1, 3>>
Single == <<0, 0>>
LateAndShort == [i \in Item |-> IF i = a THEN Late ELSE IF i = b THEN Short ELSE NoRange]
OneFrameEach == [i \in Item |-> IF i \in Indexed THEN Single ELSE NoRange]
TwoRanges == {Short, Late}
OneRange == {Single}
=============================================================================
