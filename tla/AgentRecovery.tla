--------------------------- MODULE AgentRecovery ----------------------------
(***************************************************************************)
(* The agent's two counters of trouble: the recovery tracker               *)
(* (agent/internal/recovery), which every backend request reports to, and  *)
(* the watchdog (agent/internal/watchdog), which its main loop evaluates.  *)
(***************************************************************************)
EXTENDS Integers

CONSTANTS
  DegradeAfter,     \* failed requests in a row that degrade the tracker
  AttentionAfter,   \* failures in a row that call for attention
  ProlongedAfter,   \* units of time degraded that do
  LoopStaleAfter,   \* units of time without a turn of a loop that do
  MaxRepairs,       \* repairs in all, and the number that calls for attention
  RepairCooldown    \* units of time between two repairs

ASSUME ThresholdsPositive ==
  /\ DegradeAfter \in Nat \ {0}
  /\ AttentionAfter \in Nat \ {0}
  /\ ProlongedAfter \in Nat \ {0}
  /\ LoopStaleAfter \in Nat \ {0}
  /\ MaxRepairs \in Nat \ {0}
  /\ RepairCooldown \in Nat

Least(a, b) == IF a < b THEN a ELSE b

-----------------------------------------------------------------------------
(* The tracker. *)
Trackers == [mode : {"normal", "degraded", "recovering"}, fails : 0 .. DegradeAfter]

NewTracker == [mode |-> "normal", fails |-> 0]

TrackFailure(t) ==
  LET n == Least(t.fails + 1, DegradeAfter)
  IN  [mode |-> IF n = DegradeAfter THEN "degraded" ELSE t.mode, fails |-> n]

TrackSuccess_StaysDegraded(t) ==
  [mode |-> IF t.mode = "degraded" THEN "degraded" ELSE "normal", fails |-> 0]

TrackSuccess(t) ==
  [mode |-> IF t.mode = "degraded" THEN "recovering" ELSE "normal", fails |-> 0]

-----------------------------------------------------------------------------
(* The watchdog.  degraded is the time since degradedSince, -1 when not set; *)
(* cooldown is what remains of the pause after a repair; the counters stop   *)
(* at the threshold.  The failures of the command and file workers have      *)
(* counters of the same kind, which are left out.                            *)
Monitors == [backend : 0 .. AttentionAfter, degraded : -1 .. ProlongedAfter,
             repairs : 0 .. MaxRepairs, cooldown : 0 .. RepairCooldown]

NewMonitor == [backend |-> 0, degraded |-> -1, repairs |-> 0, cooldown |-> 0]

BackendFailure(m) == [m EXCEPT !.backend = Least(@ + 1, AttentionAfter)]
BackendSuccess(m) == [m EXCEPT !.backend = 0]

Attention_NoLoops(m, stale) ==
  m.backend >= AttentionAfter \/ m.degraded >= ProlongedAfter \/ m.repairs >= MaxRepairs

(* statusLocked: OperatorAttentionNeeded; stale is the age of the oldest loop. *)
Attention(m, stale) ==
  \/ m.backend >= AttentionAfter
  \/ m.degraded >= ProlongedAfter
  \/ stale >= LoopStaleAfter
  \/ m.repairs >= MaxRepairs

(* RecordDegradedState, of the tracker's mode. *)
NoteMode(m, mode) ==
  [m EXCEPT !.degraded = IF mode # "degraded" THEN -1 ELSE IF @ = -1 THEN 0 ELSE @]

RepairIsDue(m, stale) ==
  Attention(m, stale) /\ m.repairs < MaxRepairs /\ m.cooldown = 0

(* Evaluate, when a repair is due. *)
CountRepair(m) == [m EXCEPT !.repairs = @ + 1, !.cooldown = RepairCooldown]

(* One unit of time passes. *)
MonitorTick(m) ==
  [m EXCEPT !.degraded = IF @ = -1 THEN -1 ELSE Least(@ + 1, ProlongedAfter),
            !.cooldown = IF @ = 0 THEN 0 ELSE @ - 1]
=============================================================================
