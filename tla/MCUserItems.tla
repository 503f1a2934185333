---------------------------- MODULE MCUserItems ----------------------------
(***************************************************************************)
(* UserItems for TLC: two DELETE requests overlap each other and the       *)
(* additions, in a collection of synth configurations and one of melodies, *)
(* with items that share an id and items that have none.  Of the melodies  *)
(* that are submitted, two are refused: for a note of a second track, and  *)
(* for a snapshot without a name.                                          *)
(***************************************************************************)
EXTENDS UserItems

CONSTANTS synths, melodies, r1, r2, id1, id2, organ

TwoCollections == {synths, melodies}
OneOfMelodies == {melodies}
TwoRequests == {r1, r2}
TwoIds == {id1, id2}
OneSound == {organ}

Melody(snapshots, notes, tracks) ==
  [snapshots |-> snapshots, notes |-> notes, tracks |-> tracks]

ThreeMelodies ==
  { Melody(<<organ>>, <<Absent, organ>>, <<<<organ>>>>),
    Melody(<< >>, << >>, <<<<Absent>>, <<organ>>>>),
    Melody(<<Invalid>>, << >>, << >>) }

Symmetry == Permutations(TwoRequests) \cup Permutations(TwoIds)
=============================================================================
