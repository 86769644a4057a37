------------------------------- MODULE Filters -------------------------------
(***************************************************************************)
(* The low-pass filters of servos and sensors.                             *)
(*                                                                         *)
(* Coefficients and signals are numbers modulo a prime m: what is said of  *)
(* them are identities between rational functions.                         *)
(***************************************************************************)
EXTENDS Integers, Sequences
LOCAL INSTANCE SequencesExt

\* a / b
Over(a, b, m) == (a * (CHOOSE v \in 1 .. m - 1 : (b * v) % m = 1)) % m

\* ButterworthLPF::initialize.  tangent is tan(pi * cutoff), sines[k] the sine
\* that belongs to the k-th pair of poles.
Damping(tangent, sine, m) == (1 + 2 * tangent * sine + tangent * tangent) % m
Section(tangent, sine, m) ==
  LET t == Damping(tangent, sine, m) IN
  [A |-> Over(tangent * tangent, t, m),
   d1 |-> Over(2 * (1 - tangent * tangent), t, m),
   d2 |-> Over(-(1 - 2 * tangent * sine + tangent * tangent), t, m)]
Initialized(tangent, sines, m) ==
  [k \in DOMAIN sines |-> [y1 |-> 0, y2 |-> 0] @@ Section(tangent, sines[k], m)]

\* filter: the sections, one after the other, and what comes out of the last
SectionStep(s, x, m) ==
  LET y0 == (s.d1 * s.y1 + s.d2 * s.y2 + x) % m IN
  [out |-> (s.A * (y0 + 2 * s.y1 + s.y2)) % m,
   section |-> [s EXCEPT !.y1 = y0, !.y2 = s.y1]]
Filtered(sections, x, m) ==
  FoldLeft(LAMBDA r, s : LET step == SectionStep(s, r.out, m) IN
             [out |-> step.out, sections |-> Append(r.sections, step.section)],
           [out |-> x, sections |-> <<>>], sections)

\* reset
ResetTo(sections, x, m) ==
  [k \in DOMAIN sections |->
     LET s == sections[k]
         y == Over(x, 1 - s.d1 - s.d2, m)
     IN  [s EXCEPT !.y1 = y, !.y2 = y]]

\* The filters of the joints of an arm: initializeLowPassFilters,
\* applyLowPassFilters, resetLowPassFilters
FiltersReset(filters, actual, m) == [j \in DOMAIN filters |-> ResetTo(filters[j], actual[j], m)]
FiltersInitialized(joints, tangent, sines, actual, m) ==
  FiltersReset([j \in joints |-> Initialized(tangent, sines, m)], actual, m)
FiltersApplied(filters, positions, m) ==
  [j \in DOMAIN filters |-> Filtered(filters[j], positions[j], m)]

\* Servo::start: the robot is told to stay where it is.
Started(filters, actual, m) == [points |-> actual, filters |-> FiltersReset(filters, actual, m)]

\* What comes out when the given signal goes in.
Response(sections, signal, m) ==
  FoldLeft(LAMBDA r, x : LET f == Filtered(r.sections, x, m) IN
             [out |-> Append(r.out, f.out), sections |-> f.sections],
           [out |-> <<>>, sections |-> sections], signal).out

\* DecayLPF: initialize, filter.  ratio is that of a sampling period.
DecayFiltered(ratio, y1, x, m) == ((1 - ratio) * x + ratio * y1) % m

-----------------------------------------------------------------------------
\* Ordinary numbers are a field too.
Sum2(a, b, m) == [i \in DOMAIN a |-> (a[i] + b[i]) % m]

\* The difference equation of a section, from what went in and came out before.
FollowsEquation(s, signal, out, m) ==
  LET X(i) == IF i \in DOMAIN signal THEN signal[i] ELSE 0
      Y(i) == IF i \in DOMAIN out THEN out[i] ELSE 0
  IN  \A i \in DOMAIN signal :
        out[i] = (s.d1 * Y(i - 1) + s.d2 * Y(i - 2) + s.A * (X(i) + 2 * X(i - 1) + X(i - 2))) % m

\* From rest a section responds as its difference equation says.
\* A filter that is reset to a position holds it, and follows when the input
\* leaves it exactly as one that is at rest follows from zero: a robot does
\* not jump when a goal or a halt resets its filters.
FilterHolds(tangent, sines, x, signal, m) ==
  (\A k \in DOMAIN sines : Damping(tangent, sines[k], m) # 0) =>
    LET sections == Initialized(tangent, sines, m)
        Moved == [i \in DOMAIN signal |-> (signal[i] + x) % m]
    IN  /\ \A k \in DOMAIN sines :
             FollowsEquation(sections[k], signal, Response(<<sections[k]>>, signal, m), m)
        /\ Response(ResetTo(sections, x, m), [i \in DOMAIN signal |-> x], m)
             = [i \in DOMAIN signal |-> x]
        /\ Response(ResetTo(sections, x, m), Moved, m)
             = Sum2(Response(sections, signal, m), [i \in DOMAIN signal |-> x], m)

\* After its half life a filter is half way to a constant input.
HalfWay(ratio, n, y1, x, m) ==
  LET y[i \in 0 .. n] == IF i = 0 THEN y1 ELSE DecayFiltered(ratio, y[i - 1], x, m)
      power[i \in 0 .. n] == IF i = 0 THEN 1 ELSE (ratio * power[i - 1]) % m
  IN  (2 * power[n]) % m = 1 => (2 * y[n]) % m = (x + y1) % m

\* An arm whose servo has started stays where it is as long as it is not told
\* to move, wherever it was when its filters were last used.
StartHolds(tangent, sines, before, actual, m) ==
  (\A k \in DOMAIN sines : Damping(tangent, sines[k], m) # 0) =>
    LET used == FiltersApplied(FiltersInitialized(DOMAIN actual, tangent, sines, before, m), actual, m)
        started == Started([j \in DOMAIN actual |-> used[j].sections], actual, m)
        applied == FiltersApplied(started.filters, started.points, m)
    IN  \A j \in DOMAIN actual : applied[j].out = actual[j]
=============================================================================
