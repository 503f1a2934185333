------------------------ MODULE MCStylophonePipeline ------------------------
(***************************************************************************)
(* StylophonePipeline for TLC: two fingers, and channels of one event, so  *)
(* that both overflow from one poll to the next.                           *)
(***************************************************************************)
EXTENDS StylophonePipeline

CONSTANTS thumb, index

\* Of a pad of 24, two for each key: the first two keys, those in the middle,
\* the last one with the pad's edge, and beyond both sides.
OnAndOffThePad == {-3, -1, 0, 1, 2, 11, 12, 23, 24, 25}

TwoFingers == {thumb, index}
=============================================================================
