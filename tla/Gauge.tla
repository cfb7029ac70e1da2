------------------------------- MODULE Gauge -------------------------------
(***************************************************************************)
(* A latency gauge (class Gauge, src/app/utils.h; the benchmarks under     *)
(* src/extra have copies of it).  It keeps two lists of times and takes    *)
(* the n-th time of one and the n-th of the other for the beginning and    *)
(* the end of the same thing.  Here a probe is a name for the thing it was *)
(* set for, and a printed interval is the pair of them.                    *)
(***************************************************************************)
EXTENDS Naturals, Sequences

NewGauge == [probe1 |-> << >>, probe2 |-> << >>, disable |-> FALSE, last |-> 0]

SetProbe1(g, x) == IF g.disable THEN g ELSE [g EXCEPT !.probe1 = Append(@, x)]
SetProbe2(g, x) == IF g.disable THEN g ELSE [g EXCEPT !.probe2 = Append(@, x)]
SetDisable(g, b) == [g EXCEPT !.disable = b]

Interval(g, i) == <<g.probe1[i], g.probe2[i]>>

\* total_time_ms: from the first beginning to the last end, if there are any
TotalTime(g) ==
  IF g.disable \/ g.probe1 = << >> \/ g.probe2 = << >> THEN << >>
  ELSE <<g.probe1[1], g.probe2[Len(g.probe2)]>>

\* index_time_us: every interval, unless one of the lists is longer
IndexTime(g) ==
  IF g.disable \/ Len(g.probe1) # Len(g.probe2) THEN << >>
  ELSE [i \in 1..Len(g.probe1) |-> Interval(g, i)]

\* instant_time_us(): the last one, on the same condition
InstantTime(g) ==
  IF g.disable \/ Len(g.probe1) # Len(g.probe2) THEN << >>
  ELSE Interval(g, Len(g.probe1))

\* instant_time_us(idx): reads both lists at an index without a look at their
\* lengths
InstantTimeReads(g, i) == g.disable \/ (i <= Len(g.probe1) /\ i <= Len(g.probe2))
InstantTimeAt(g, i) == IF g.disable THEN << >> ELSE Interval(g, i)

\* average_time_us: the intervals since the last call
AverageTime(g) ==
  [g EXCEPT !.last = IF g.disable THEN @ ELSE Len(g.probe2)]

AverageTimeReads(g) == g.disable \/ Len(g.probe2) <= Len(g.probe1)
AveragePoints(g) ==
  IF g.disable THEN << >>
  ELSE [k \in 1..Len(g.probe2) - g.last |-> Interval(g, g.last + k)]
=============================================================================
