----------------------------- MODULE CacheTimer -----------------------------
(***************************************************************************)
(* class CacheTimer of chimaera_types.h: a stopwatch on a cached time,     *)
(* three size_t counters of nanoseconds.  The cached time can be read from *)
(* the clock (Refresh), advanced by hand (Tick), or taken from another     *)
(* timer (Wrap), in any order, and so can go back; differences are taken   *)
(* modulo 2^64, here modulo M.                                             *)
(* An operator F_Variant next to an operator F is a plausible defect of F. *)
(***************************************************************************)
EXTENDS Naturals

CONSTANTS
  M,         \* 2^64, the number of values of a size_t
  MaxClock,  \* bound of the model: where timer_ stops
  Ticks      \* arguments of Tick to consider

ASSUME TimerAssumption ==
  /\ M \in Nat \ {0}
  /\ MaxClock \in 0 .. M - 1
  /\ Ticks \subseteq 0 .. M - 1

VARIABLES
  clock,  \* timer_.GetNsecFromStart()
  cur,    \* cur_ns_
  start,  \* start_ns_
  net,    \* net_ns_
  course, \* history: "back" once cur went back since the last Reset
  skipped \* history: the time Resume and Reset have left uncounted, modulo M

vars == <<clock, cur, start, net, course, skipped>>

Word == 0 .. M - 1
Plus(a, b) == (a + b) % M
Minus(a, b) == (a + M - b) % M

Init ==
  /\ clock = 0
  /\ cur = 0
  /\ start = 0
  /\ net = 0
  /\ course = "forward"
  /\ skipped = 0

\* Time passes.
Elapse ==
  /\ clock < MaxClock
  /\ clock' = clock + 1
  /\ UNCHANGED <<cur, start, net, course, skipped>>

SetCur(t) ==
  /\ cur' = t
  /\ course' = IF t < cur THEN "back" ELSE course
  /\ UNCHANGED <<clock, start, net, skipped>>

Refresh == SetCur(clock)

Wrap(other) == SetCur(other)

Tick(nanosec) == SetCur(Plus(cur, nanosec))

\* GetNsecFromStart() and GetNsecFromStart(t).
GetNsecFromStart == Minus(cur, start)
GetNsecFrom(t) == IF t < cur THEN cur - t ELSE 0

Resume ==
  /\ start' = cur
  /\ skipped' = Plus(skipped, GetNsecFromStart)
  /\ UNCHANGED <<clock, cur, net, course>>

Pause_KeepsStart ==
  /\ net' = Plus(net, Minus(cur, start))
  /\ UNCHANGED <<clock, cur, start, course, skipped>>

Pause ==
  /\ net' = Plus(net, Minus(cur, start))
  /\ start' = cur
  /\ UNCHANGED <<clock, cur, course, skipped>>

Reset_KeepsNet ==
  /\ start' = cur
  /\ course' = "forward"
  /\ skipped' = cur
  /\ UNCHANGED <<clock, cur, net>>

Reset ==
  /\ start' = cur
  /\ net' = 0
  /\ course' = "forward"
  /\ skipped' = cur
  /\ UNCHANGED <<clock, cur>>

Next ==
  \/ Elapse
  \/ Refresh
  \/ \E t \in Word : Wrap(t)
  \/ \E n \in Ticks : Tick(n)
  \/ Resume \/ Pause \/ Reset

Spec == Init /\ [][Next]_vars
-----------------------------------------------------------------------------
\* Every nanosecond of cached time is in one place: counted by Pause, pending
\* since the last Resume or Pause, or left out by Resume and Reset.  None is
\* counted twice, however the calls are mixed and whatever wraps.
TimeConserved == Plus(Plus(net, GetNsecFromStart), skipped) = cur

\* While the cached time does not go back nothing wraps: GetNsec() is at most
\* the cached time, and both forms of GetNsecFromStart agree.
ForwardIsSound ==
  course = "forward" =>
    /\ start <= cur
    /\ net + (cur - start) <= cur
    /\ GetNsecFromStart = GetNsecFrom(start)
=============================================================================
