---------------------------- MODULE HealthStatus ----------------------------
(***************************************************************************)
(* How the server turns the row of a device and its latest diagnostics     *)
(* into a health status: once for the lists and the summary (health.js),   *)
(* and once more for the health of one device (diagnostics/service.js).    *)
(* Ages are counted in units of time, and stop at the first that is too    *)
(* old for every threshold.                                                *)
(***************************************************************************)
EXTENDS Integers

CONSTANTS
  HealthyAge,      \* HEARTBEAT_THRESHOLDS_SECONDS.healthy
  WarningAge,      \* HEARTBEAT_THRESHOLDS_SECONDS.warning
  OfflineAge,      \* HEARTBEAT_THRESHOLDS_SECONDS.offline
  RecentAge        \* RECENT_ERROR_SECONDS and RECENT_WARNING_SECONDS

ASSUME AgesOrdered ==
  /\ HealthyAge \in Nat
  /\ WarningAge \in Nat
  /\ OfflineAge \in Nat
  /\ RecentAge \in Nat
  /\ HealthyAge =< WarningAge
  /\ WarningAge =< OfflineAge
  /\ RecentAge =< OfflineAge

(* last_error_source, by what it does: an error of an operation (a command, *)
(* a file) is no matter of the device; one of the heartbeat or the          *)
(* registration is, and a clean heartbeat clears both; any other (a poll of *)
(* actions, an action, a repair) is one of the device, and only ages.       *)
DeviceSources == {"heartbeat", "other"}
Sources == DeviceSources \cup {"command"}
Clearable == {"heartbeat", "command"}

TooOld == OfflineAge + 1
Age == 0 .. TooOld

Modes == {"normal", "degraded", "recovering"}

Rows == [exists : BOOLEAN, seen : Age, error : Sources \cup {"none"},
         errorAge : Age, failedAge : Age]

NoRow == [exists |-> FALSE, seen |-> TooOld, error |-> "none",
          errorAge |-> TooOld, failedAge |-> TooOld]

Diagnostics == [present : BOOLEAN, attention : BOOLEAN, mode : Modes]

NoDiagnostics == [present |-> FALSE, attention |-> FALSE, mode |-> "normal"]

Statuses == {"healthy", "warning", "stale", "degraded", "recovering", "offline"}

-----------------------------------------------------------------------------
(* normalizeDiagnosticsSnapshot: degraded. *)
IsDegraded(d) == d.attention \/ d.mode = "degraded"

(* diagnosticsLooksHealthy, for a snapshot. *)
LooksHealthy(d) == ~IsDegraded(d) /\ d.mode # "recovering"

HasRecentError(r) == r.error \in DeviceSources /\ r.errorAge =< RecentAge

DeriveHealth_DiagnosticsFirst(r, d) ==
  CASE IsDegraded(d) -> "degraded"
    [] ~IsDegraded(d) /\ d.mode = "recovering" -> "recovering"
    [] LooksHealthy(d) /\ r.seen > OfflineAge -> "offline"
    [] LooksHealthy(d) /\ r.seen =< OfflineAge /\ HasRecentError(r) -> "degraded"
    [] OTHER -> "healthy"

(* deriveHealthStatus: the first that applies. *)
DeriveHealth(r, d) ==
  IF r.seen > OfflineAge THEN "offline"
  ELSE IF d.attention THEN "degraded"
  ELSE IF d.mode = "recovering" THEN "recovering"
  ELSE IF IsDegraded(d) \/ HasRecentError(r) THEN "degraded"
  ELSE IF r.seen > WarningAge THEN "stale"
  ELSE IF r.failedAge =< RecentAge \/ r.seen > HealthyAge THEN "warning"
  ELSE "healthy"

(* The same, of the connection. *)
DeriveConnection(r, d) ==
  CASE DeriveHealth(r, d) = "offline" -> "offline"
    [] DeriveHealth(r, d) = "stale" -> "stale"
    [] OTHER -> "online"

(* shapeDeviceSummary: what the lists are made of. *)
Summary(r, d) ==
  [status |-> DeriveConnection(r, d), health |-> DeriveHealth(r, d), attention |-> d.attention]

(* fleetSummary: the counters of the dashboard a device is counted in. *)
FleetCards(s) ==
  {c \in {"online", "offline", "degraded", "attention"} :
     \/ c = s.status
     \/ c = "degraded" /\ s.health \in {"degraded", "warning", "stale"}
     \/ c = "attention" /\ s.attention}

(* computeDiagnosticsHealth: the same from a row read without diagnostics,  *)
(* and the diagnostics read beside it.                                      *)
DiagnosticsHealth(r, d) ==
  LET base == DeriveHealth(r, NoDiagnostics)
  IN  IF ~d.present \/ base = "offline" THEN base
      ELSE IF d.attention THEN "degraded"
      ELSE IF d.mode = "recovering" THEN "recovering"
      ELSE IF d.mode = "degraded" THEN "degraded"
      ELSE base
=============================================================================
