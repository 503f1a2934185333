--------------------------- MODULE TouchpadMapper ---------------------------
(***************************************************************************)
(* hardware/stylophone_mapper.go: what the mapper makes of a position on   *)
(* the touchpad and of an octave.  The pad is twelve keys wide; its height *)
(* sets the effect, in per cent.                                           *)
(*                                                                         *)
(* A coordinate is a number of Width-ths of the pad's width or height.     *)
(* The driver's coordinates are passed on as they are, so they may lie     *)
(* beyond the pad.                                                         *)
(***************************************************************************)
EXTENDS Integers, FiniteSets

CONSTANTS
  Width,
  Coordinates,             \* those that the driver reports
  MinOctave, MaxOctave

ASSUME PadAssumption == Width \in Nat \ {0} /\ Coordinates \subseteq Int
ASSUME OctaveAssumption ==
  MinOctave \in Int /\ MaxOctave \in Int /\ MinOctave <= MaxOctave

notesPerOctave == 12

Octaves == MinOctave..MaxOctave

\* Mutant: no upper limit.
clampOctave_NoMax(octave) == IF octave < MinOctave THEN MinOctave ELSE octave

clampOctave(octave) ==
  IF octave < MinOctave THEN MinOctave
  ELSE IF octave > MaxOctave THEN MaxOctave ELSE octave

\* 0 stays 0 and 1, which is Width here, stays 1.
clamp01(value) ==
  IF value < 0 THEN 0 ELSE IF value > Width THEN Width ELSE value

\* Mutant: the right edge of the pad is not given to the last key.
noteIndexFromX_NoEdge(x) == (clamp01(x) * notesPerOctave) \div Width

noteIndexFromX(x) ==
  LET idx == (clamp01(x) * notesPerOctave) \div Width IN
  IF idx >= notesPerOctave THEN notesPerOctave - 1 ELSE idx

\* math.Round, which rounds halves up; its result needs no more clamping.
effectLevelFromY(y) == (200 * clamp01(y) + Width) \div (2 * Width)

\* The note, chromaticScale[noteIndex] and the octave, in semitones.
Note(x, octave) == notesPerOctave * octave + noteIndexFromX(x)

-----------------------------------------------------------------------------
\* What the pad's layout asks for.

\* As many keys begin at or to the left of x, the first not counted.
KeysBefore(x) ==
  Cardinality({key \in 1 .. notesPerOctave - 1 : key * Width <= notesPerOctave * x})

\* The level is within half a per cent of y, or that of the nearest edge.
Nearest(level, y) ==
  IF y < 0 THEN level = 0
  ELSE IF y > Width THEN level = 100
  ELSE 200 * y - Width <= 2 * level * Width /\ 2 * level * Width <= 200 * y + Width
=============================================================================
