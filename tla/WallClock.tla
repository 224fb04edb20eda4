----------------------------- MODULE WallClock -----------------------------
(***************************************************************************)
(* --timestamp current and absolute: src/output/time_output.cpp.  An event  *)
(* carries the monotonic time; a line shows the wall clock.  The difference  *)
(* of the two clocks is taken once, when the first line is printed, by two  *)
(* readings one after the other.  Both clocks go on in between, and the wall *)
(* clock can be set, or go on alone while the machine sleeps.              *)
(***************************************************************************)
EXTENDS Integers, FiniteSets

CONSTANTS InitReal,     \* the wall clock when the monotonic one is 0
          Sec, Ms,      \* a second and a millisecond, in ticks of the clocks
          MaxMono,      \* bound on the monotonic clock
          MaxEvents,    \* bound on the number of events
          Shifts,       \* how far the wall clock can be set at once
          MaxSets       \* bound on how often it is

ASSUME ClocksAssumption ==
  /\ InitReal \in Nat /\ MaxMono \in Nat /\ InitReal >= MaxMono
  /\ Sec \in Nat \ {0} /\ Ms \in Nat \ {0}
  /\ Shifts \subseteq Int

VARIABLES mono, real,   \* CLOCK_MONOTONIC, CLOCK_REALTIME
          sets,         \* how often the wall clock was set
          pending,      \* events not yet printed: [ts, at]; at: the wall clock
          phase,        \* "idle", or inside get_boot_realtime_ns
          realTs,       \* its real_ts
          init, boot,   \* s_init, s_boot_realtime_ns
          gap,          \* how long the two readings were apart
          lines         \* what was shown of which event: [ts, at, sec, ms]

clocks == <<mono, real, sets>>
clockVars == <<clocks, pending, phase, realTs, init, boot, gap, lines>>

ClockInit ==
  /\ mono = 0 /\ real = InitReal /\ sets = 0
  /\ pending = {} /\ lines = {}
  /\ phase = "idle" /\ realTs = 0 /\ init = FALSE /\ boot = 0 /\ gap = 0

Tick ==
  /\ mono < MaxMono
  /\ mono' = mono + 1 /\ real' = real + 1
  /\ gap' = IF phase = "between" THEN gap + 1 ELSE gap
  /\ UNCHANGED <<sets, pending, phase, realTs, init, boot, lines>>

\* Linux refuses a wall clock that would put the boot before the epoch; here
\* it stays later than that by more than the readings can be apart.
SetClock ==
  /\ sets < MaxSets
  /\ \E d \in Shifts : real + d >= mono + MaxMono /\ real' = real + d
  /\ sets' = sets + 1
  /\ UNCHANGED <<mono, pending, phase, realTs, init, boot, gap, lines>>

Event ==
  /\ Cardinality(pending) + Cardinality(lines) < MaxEvents
  /\ pending' = pending \cup {[ts |-> mono, at |-> real]}
  /\ UNCHANGED <<clocks, phase, realTs, init, boot, gap, lines>>

-----------------------------------------------------------------------------
(* get_boot_realtime_ns, at the first line.                                 *)

SampleReal ==
  /\ phase = "idle" /\ ~init /\ pending # {}
  /\ realTs' = real
  /\ phase' = "between"
  /\ UNCHANGED <<clocks, pending, init, boot, gap, lines>>

\* Fault: the monotonic clock is read first; the wall clock has gone on.
OffsetMonoFirst == real - (mono - gap)

Offset == realTs - mono

\* Fault: s_init stays false, and every line takes the difference anew.
InitNever == init' = FALSE

InitOnce == init' = TRUE

SampleMono ==
  /\ phase = "between"
  /\ boot' = Offset
  /\ InitOnce
  /\ phase' = "print"
  /\ UNCHANGED <<clocks, pending, realTs, gap, lines>>

-----------------------------------------------------------------------------
(* format_current_time, format_absolute_time.                               *)

\* C++ division and remainder, which truncate towards 0.
Quot(a, b) == IF a >= 0 THEN a \div b ELSE 0 - ((0 - a) \div b)
Rem(a, b) == a - b * Quot(a, b)

Millis(ns) == LET ms == Quot(Rem(ns, Sec), Ms)
              IN  IF ms < 0 THEN ms + Sec \div Ms ELSE ms

PrintLine ==
  /\ phase = "print" \/ (phase = "idle" /\ init)
  /\ \E e \in pending :
       LET ns == boot + e.ts
       IN  /\ lines' = lines \cup {[ts |-> e.ts, at |-> e.at,
                                    sec |-> Quot(ns, Sec), ms |-> Millis(ns)]}
           /\ pending' = pending \ {e}
  /\ phase' = "idle"
  /\ UNCHANGED <<clocks, realTs, init, boot, gap>>

ClockNext == Tick \/ SetClock \/ Event \/ SampleReal \/ SampleMono \/ PrintLine

ClockSpec == ClockInit /\ [][ClockNext]_clockVars

-----------------------------------------------------------------------------
\* What a line says, in ticks.
Shown(l) == l.sec * Sec + l.ms * Ms

\* The times of two lines differ by what their events are apart, to the
\* millisecond and in the right order, whatever was done to the wall clock
\* meanwhile (get_boot_realtime_ns): no line is moved when the clock is set.
DifferencesKept ==
  \A k, l \in lines :
    k.ts <= l.ts => /\ Shown(l) - Shown(k) > l.ts - k.ts - Ms
                    /\ Shown(l) - Shown(k) < l.ts - k.ts + Ms

\* If the clock is never set, a line shows the time of its event, too early by
\* less than a millisecond and the time between the two readings, and never
\* too late: the wall clock is read first.
RightIfSteady ==
  sets = 0 => \A l \in lines : /\ Shown(l) <= l.at
                               /\ l.at < Shown(l) + Ms + gap
=============================================================================
