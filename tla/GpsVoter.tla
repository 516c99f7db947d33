------------------------------ MODULE GpsVoter ------------------------------
(***************************************************************************)
(* osd_parser.GpsVoter: the readings of the GPS text of a video's frames,  *)
(* one after the other, and the position each frame gets.  A reading is a  *)
(* position, in whole units of degrees, or Missing where the text gives no *)
(* position or half of one; x is the latitude.                             *)
(***************************************************************************)
EXTENDS Plane, SequencesExt

CONSTANTS
  Window,   \* GpsVoter.WINDOW
  MaxJump   \* GpsVoter.MAX_JUMP

ASSUME VoterAssumption == Window \in Nat \ {0} /\ MaxJump \in Nat

Missing == [x |-> -1, y |-> -1]

\* What a GpsVoter holds, and what its last update returned.
Fresh == [window |-> <<>>, fix |-> Missing, interpolated |-> FALSE]

Jumps(p, q) == Magnitude(p.x - q.x) > MaxJump \/ Magnitude(p.y - q.y) > MaxJump

\* Mutant of Outlier: the latitude is not looked at.
OutlierInLongitude(window, reading) ==
  window # <<>> /\ Magnitude(reading.y - Last(window).y) > MaxJump

\* Mutant of Outlier: the oldest fix is looked at.
OutlierFromOldest(window, reading) ==
  window # <<>> /\ Jumps(reading, Head(window))

Outlier(window, reading) ==
  window # <<>> /\ Jumps(reading, Last(window))

Keep(window, reading) ==
  IF Len(window) < Window THEN Append(window, reading) ELSE Append(Tail(window), reading)

\* sorted(values)[len(values) // 2]: at most that many values are less, and more
\* are not greater.
Below(values, v) == {i \in DOMAIN values : values[i] < v}
UpTo(values, v) == {i \in DOMAIN values : values[i] <= v}
Middle(values) ==
  CHOOSE v \in ToSet(values) :
    /\ Cardinality(Below(values, v)) <= Len(values) \div 2
    /\ Cardinality(UpTo(values, v)) > Len(values) \div 2
Median(window) ==
  [x |-> Middle([i \in DOMAIN window |-> window[i].x]),
   y |-> Middle([i \in DOMAIN window |-> window[i].y])]

Update(voter, reading) ==
  IF reading # Missing /\ ~Outlier(voter.window, reading)
  THEN [window |-> Keep(voter.window, reading), fix |-> reading, interpolated |-> FALSE]
  ELSE IF voter.window # <<>>
  THEN [voter EXCEPT !.fix = Median(voter.window), !.interpolated = TRUE]
  ELSE Fresh

\* The voter before the first frame and after each of them.
Voters(readings) ==
  LET voter[n \in 0..Len(readings)] ==
        IF n = 0 THEN Fresh ELSE Update(voter[n - 1], readings[n])
  IN  voter
AfterReadings(readings) == Voters(readings)[Len(readings)]
-----------------------------------------------------------------------------
\* The estimate a frame gets without a reading of its own is, in each
\* coordinate, no farther from the last fix than half a window of jumps:
\* GpsVoter.update takes the medians of latitude and longitude apart.
EstimateNear(readings) ==
  LET voter == AfterReadings(readings)
      reach == (Len(voter.window) \div 2) * MaxJump
  IN  voter.interpolated =>
        /\ Magnitude(voter.fix.x - Last(voter.window).x) <= reach
        /\ Magnitude(voter.fix.y - Last(voter.window).y) <= reach

Steady(readings) ==
  \A i \in 1..Len(readings) - 1 :
    ~(Missing \in {readings[i], readings[i + 1]}) /\ ~Jumps(readings[i], readings[i + 1])

\* A vehicle whose every frame is read, with steps of at most MAX_JUMP, keeps
\* every reading however far it goes: update compares with the last fix.  After an
\* unread frame or a wrong fix it may refuse one that agrees with the frame before,
\* although osd_parser.py:319-320 speaks of "consecutive frames".
SteadyIsKept(readings) ==
  readings # <<>> /\ readings[1] # Missing /\ Steady(readings) =>
    AfterReadings(readings).fix = Last(readings)
==============================================================================
