------------------------------ MODULE TimeHandler ------------------------------
(***************************************************************************)
(* The time state of a coupling scheme (cplscheme/impl/TimeHandler): the   *)
(* start of the current time window and the progress inside it.  Times are *)
(* whole ticks: the Kahan sums and the tolerance of math::equals of the    *)
(* code exist to make floating-point sums behave like these.               *)
(***************************************************************************)
EXTENDS Integers

CONSTANTS
  MaxTime,   \* end of the simulation (max-time), or Undefined
  Infinity   \* bound that stands for numeric_limits<double>::max()

Undefined == -1

TimeHandlers == [start : Nat, progress : Nat]

ResetTo(timeStart) == [start |-> timeStart, progress |-> 0]

ProgressBy(time, dt) == [time EXCEPT !.progress = @ + dt]

ResetNothing(time) == time   \* fault: the progress stays

ResetProgress(time) == [time EXCEPT !.progress = 0]

\* time(): the current point in time
TimeOf(time) == time.start + time.progress

UntilEnd(time) ==
  IF MaxTime = Undefined THEN Infinity ELSE MaxTime - TimeOf(time)

\* The window is truncated where max-time comes first.
UntilWindowEnd(time, size) ==
  LET untilProgress == size - time.progress
  IN  IF MaxTime # Undefined /\ UntilEnd(time) < untilProgress
      THEN UntilEnd(time)
      ELSE untilProgress

ReachedEnd(time) == MaxTime # Undefined /\ UntilEnd(time) = 0

ReachedEndOfWindow(time, size) == UntilWindowEnd(time, size) = 0

\* A full window adds its exact size, a truncated one the progress made.
CompleteTimeWindow(time, size) ==
  ResetTo(IF time.progress = size THEN time.start + size ELSE TimeOf(time))
================================================================================
