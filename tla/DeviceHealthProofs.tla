------------------------- MODULE DeviceHealthProofs -------------------------
(***************************************************************************)
(* Safety of DeviceHealth for any thresholds, any number of handlers,      *)
(* attempts and faults.                                                    *)
(***************************************************************************)
EXTENDS DeviceHealth, TLAPS

-----------------------------------------------------------------------------
(* What the operators of the tracker, the watchdog and the rows return.    *)

LEMMA TrackerTypes ==
  ASSUME NEW t \in Trackers
  PROVE  TrackFailure(t) \in Trackers /\ TrackSuccess(t) \in Trackers
BY ThresholdsPositive DEF Trackers, TrackFailure, TrackSuccess, Least

LEMMA MonitorTypes ==
  ASSUME NEW m \in Monitors
  PROVE  /\ BackendFailure(m) \in Monitors
         /\ BackendSuccess(m) \in Monitors
         /\ MonitorTick(m) \in Monitors
         /\ m.repairs < MaxRepairs => CountRepair(m) \in Monitors
         /\ \A mode : NoteMode(m, mode) \in Monitors
<1>1. BackendFailure(m) \in Monitors /\ BackendSuccess(m) \in Monitors
  BY ThresholdsPositive DEF Monitors, BackendFailure, BackendSuccess, Least
<1>2. MonitorTick(m) \in Monitors
  <2> DEFINE d == IF m.degraded = -1 THEN -1 ELSE Least(m.degraded + 1, ProlongedAfter)
  <2> DEFINE c == IF m.cooldown = 0 THEN 0 ELSE m.cooldown - 1
  <2>1. d \in -1 .. ProlongedAfter
    BY ThresholdsPositive DEF Monitors, Least
  <2>2. c \in 0 .. RepairCooldown
    BY ThresholdsPositive DEF Monitors
  <2>3. MonitorTick(m) = [m EXCEPT !.degraded = d, !.cooldown = c]
    BY DEF MonitorTick
  <2> HIDE DEF d, c
  <2> QED
    BY <2>1, <2>2, <2>3 DEF Monitors
<1>3. m.repairs < MaxRepairs => CountRepair(m) \in Monitors
  <2> SUFFICES ASSUME m.repairs < MaxRepairs PROVE CountRepair(m) \in Monitors
    OBVIOUS
  <2>1. PICK n \in 0 .. MaxRepairs : n = m.repairs + 1
    BY ThresholdsPositive DEF Monitors
  <2>2. CountRepair(m) = [m EXCEPT !.repairs = n, !.cooldown = RepairCooldown]
    BY <2>1 DEF CountRepair
  <2>3. RepairCooldown \in 0 .. RepairCooldown
    BY ThresholdsPositive
  <2> QED
    BY <2>2, <2>3 DEF Monitors
<1>4. \A mode : NoteMode(m, mode) \in Monitors
  BY ThresholdsPositive DEF Monitors, NoteMode
<1> QED
  BY <1>1, <1>2, <1>3, <1>4

LEMMA RowTypes ==
  ASSUME NEW r \in Rows
  PROVE  /\ Stored(r) \in Rows
         /\ \A h : Stamp(h, r) \in Rows
         /\ \A h : Stamp(h, r).exists = r.exists
         /\ \A a \in Age : Older(a) \in Age
<1>1. 0 \in Age /\ TooOld \in Age
  BY AgesOrdered DEF Age, TooOld
<1>2. Stored(r) \in Rows
  BY <1>1 DEF Rows, Stored
<1>3. ASSUME NEW h PROVE Stamp(h, r) \in Rows /\ Stamp(h, r).exists = r.exists
  <2>1. [r EXCEPT !.seen = 0] \in Rows
    BY <1>1 DEF Rows
  <2>2. [r EXCEPT !.seen = 0, !.error = "none", !.errorAge = TooOld] \in Rows
    BY <1>1 DEF Rows
  <2> QED
    BY <2>1, <2>2 DEF Stamp, Rows
<1>4. \A a \in Age : Older(a) \in Age
  BY AgesOrdered DEF Age, TooOld, Older
<1> QED
  BY <1>2, <1>3, <1>4

LEMMA SucceededTypes ==
  ASSUME NEW r \in Rows, NEW q \in Succeeded(r)
  PROVE  /\ q \in Rows
         /\ q.exists = r.exists /\ q.seen = r.seen
         /\ \/ q.error = r.error /\ q.errorAge = r.errorAge
            \/ r.error = "command" /\ q.error = "none"
<1>1. TooOld \in Age
  BY AgesOrdered DEF Age, TooOld
<1> DEFINE clear == [r EXCEPT !.error = "none", !.errorAge = TooOld]
<1>2. CASE q = r \/ q = [r EXCEPT !.failedAge = TooOld]
  BY <1>1, <1>2 DEF Rows
<1>3. CASE r.error = "command" /\ (q = clear \/ q = [clear EXCEPT !.failedAge = TooOld])
  <2>1. clear \in Rows /\ clear.exists = r.exists /\ clear.seen = r.seen /\ clear.error = "none"
    BY <1>1 DEF Rows
  <2> HIDE DEF clear
  <2> QED
    BY <1>1, <1>3, <2>1 DEF Rows
<1> QED
  BY <1>2, <1>3 DEF Succeeded

LEMMA StartTypes ==
  /\ NoRow \in Rows
  /\ NoDiagnostics \in Diagnostics
  /\ NewTracker \in Trackers
  /\ NewMonitor \in Monitors
  /\ Blank \in Snapshots
  /\ NoBeat \in Beats
  /\ NoRequest \in Requests
<1>1. NoRow \in Rows
  BY AgesOrdered DEF Rows, NoRow, Age, TooOld, Sources, DeviceSources
<1>2. NoDiagnostics \in Diagnostics
  BY DEF Diagnostics, NoDiagnostics, Modes
<1>3. NewTracker \in Trackers /\ NewMonitor \in Monitors
  BY ThresholdsPositive DEF Trackers, NewTracker, Monitors, NewMonitor
<1>4. Blank \in Snapshots
  BY DEF Blank, Snapshots, Modes
<1>5. NoBeat \in Beats
  BY <1>4, BoundsAssumption DEF NoBeat, Beats
<1>6. NoRequest \in Requests
  BY <1>4 DEF NoRequest, Requests
<1> QED
  BY <1>1, <1>2, <1>3, <1>5, <1>6, <1>4

-----------------------------------------------------------------------------
(* The types.  First what the parts that actions share do to them. *)

LEMMA RequestTypes ==
  ASSUME TypeOK, NEW retryable
  PROVE  /\ RequestOk => tracker' \in Trackers /\ monitor' \in Monitors
         /\ RequestFails(retryable) => tracker' \in Trackers /\ monitor' \in Monitors
BY TrackerTypes, MonitorTypes DEF TypeOK, RequestOk, RequestFails

LEMMA OvertakenTypes ==
  ASSUME NEW b \in [Senders -> Beats]
  PROVE  Overtaken(b) \in [Senders -> Beats]
<1>1. ASSUME NEW s \in Senders PROVE [b[s] EXCEPT !.later = b[s].left > 0] \in Beats
  <2>1. (b[s].left > 0) \in BOOLEAN
    OBVIOUS
  <2> QED
    BY <2>1 DEF Beats
<1> QED
  BY <1>1 DEF Overtaken

LEMMA AttemptTypes ==
  ASSUME TypeOK, NEW s \in Senders, NEW retryable, AttemptFails(s, retryable)
  PROVE  /\ err' \in Sources \cup {"none"}
         /\ told' \in BOOLEAN
         /\ tracker' \in Trackers
         /\ monitor' \in Monitors
         /\ beat' \in [Senders -> Beats]
<1>1. CASE retryable /\ beat[s].left > 1
  <2>1. beat[s].left - 1 \in 0 .. MaxAttempts
    BY <1>1, BoundsAssumption DEF TypeOK, Beats
  <2>2. beat' = [beat EXCEPT ![s] = [beat[s] EXCEPT !.left = beat[s].left - 1]]
    BY <1>1 DEF AttemptFails, TypeOK
  <2>3. beat' \in [Senders -> Beats]
    BY <2>1, <2>2 DEF TypeOK, Beats
  <2> QED
    BY <1>1, <2>3 DEF AttemptFails, TypeOK
<1>2. CASE ~(retryable /\ beat[s].left > 1)
  <2>1. [beat EXCEPT ![s] = NoBeat] \in [Senders -> Beats]
    BY StartTypes DEF TypeOK
  <2>2. beat' \in [Senders -> Beats]
    BY <1>2, <2>1, OvertakenTypes DEF AttemptFails
  <2>3. err' \in Sources \cup {"none"} /\ told' \in BOOLEAN
    BY <1>2 DEF AttemptFails, RecordError, Sources, DeviceSources
  <2>4. tracker' \in Trackers /\ monitor' \in Monitors
    BY <1>2, RequestTypes DEF AttemptFails
  <2> QED
    BY <2>2, <2>3, <2>4
<1> QED
  BY <1>1, <1>2

LEMMA RefuseTypes ==
  ASSUME TypeOK, NEW h \in Handlers, NEW retryable, Refuse(h, retryable)
  PROVE  /\ err' \in Sources \cup {"none"}
         /\ told' \in BOOLEAN
         /\ tracker' \in Trackers
         /\ monitor' \in Monitors
         /\ beat' \in [Senders -> Beats]
<1>1. CASE handler[h].of \in Senders
  BY <1>1, AttemptTypes DEF Refuse
<1>2. CASE handler[h].of \notin Senders
  BY <1>2 DEF Refuse, TypeOK
<1> QED
  BY <1>1, <1>2

LEMMA ArrivingTypes ==
  ASSUME TypeOK, NEW s \in Senders, NEW snap \in Snapshots, Arriving(s, snap)
  PROVE  handler' \in [Handlers -> Requests]
<1> DEFINE new == [pc |-> "update", of |-> s, snap |-> snap, alone |-> Quiet]
<1>1. Quiet \in BOOLEAN
  BY DEF Quiet
<1>2. new \in Requests
  BY <1>1 DEF Requests
<1>3. \A h \in Handlers : [handler[h] EXCEPT !.alone = FALSE] \in Requests
  BY DEF TypeOK, Requests
<1>4. handler' = [h \in Handlers |-> IF h = CHOOSE f \in Free : TRUE THEN new
                                     ELSE [handler[h] EXCEPT !.alone = FALSE]]
  BY DEF Arriving, Accept
<1> HIDE DEF new
<1> QED
  BY <1>2, <1>3, <1>4

LEMMA HandlerTypes ==
  ASSUME TypeOK, NEW h \in Handlers
  PROVE  /\ Finish(h) => handler' \in [Handlers -> Requests]
         /\ \A pc \in {"idle", "update", "event", "save"} :
              To(h, pc) => handler' \in [Handlers -> Requests]
         /\ [handler EXCEPT ![h].of = "nobody"] \in [Handlers -> Requests]
<1>1. Finish(h) => handler' \in [Handlers -> Requests]
  BY StartTypes DEF Finish, TypeOK
<1>2. \A pc \in {"idle", "update", "event", "save"} :
              To(h, pc) => handler' \in [Handlers -> Requests]
  BY DEF To, TypeOK, Requests
<1>3. [handler EXCEPT ![h].of = "nobody"] \in [Handlers -> Requests]
  BY DEF TypeOK, Requests
<1> QED
  BY <1>1, <1>2, <1>3

LEMMA TypeInit == Init => TypeOK
<1> SUFFICES ASSUME Init PROVE TypeOK
  OBVIOUS
<1>1. beat \in [Senders -> Beats] /\ handler \in [Handlers -> Requests]
  BY StartTypes DEF Init, Booted
<1>2. loopAge \in 0 .. StuckAge /\ faults \in 0 .. MaxFaults
  BY AgesOrdered, ThresholdsPositive, BoundsAssumption DEF Init, Booted, StuckAge
<1> QED
  BY <1>1, <1>2, StartTypes DEF Init, Booted, TypeOK

LEMMA FaultTypes == TypeOK /\ Fault => faults' \in 0 .. MaxFaults
BY BoundsAssumption DEF TypeOK, Fault

(* One step for each action, with what the lemmas above leave of it. *)
LEMMA TypeStep == TypeOK /\ [Next]_vars => TypeOK'
<1> SUFFICES ASSUME TypeOK, [Next]_vars PROVE TypeOK'
  OBVIOUS
<1> USE DEF TypeOK, agent, tables
<1>1. CASE Register
  BY <1>1, RequestTypes, RowTypes DEF Register
<1>2. CASE RegisterFails
  <2>1. row' \in Rows
    BY <1>2, RowTypes DEF RegisterFails
  <2>2. faults' \in 0 .. MaxFaults
    BY <1>2, FaultTypes DEF RegisterFails
  <2>3. tracker' \in Trackers /\ monitor' \in Monitors
    BY <1>2, RequestTypes DEF RegisterFails
  <2>4. err' \in Sources /\ told' \in BOOLEAN
    BY <1>2 DEF RegisterFails, RecordError, Sources, DeviceSources
  <2> QED
    BY <1>2, <2>1, <2>2, <2>3, <2>4 DEF RegisterFails
<1>3. CASE Restart
  <2>1. beat' \in [Senders -> Beats]
    BY <1>3, StartTypes DEF Restart
  <2>2. handler' \in [Handlers -> Requests]
    BY <1>3 DEF Restart, Requests
  <2>3. tracker' \in Trackers /\ monitor' \in Monitors
    BY <1>3, StartTypes DEF Restart
  <2>4. loopAge' \in 0 .. StuckAge
    BY <1>3, AgesOrdered, ThresholdsPositive DEF Restart, StuckAge
  <2> QED
    BY <1>3, <2>1, <2>2, <2>3, <2>4 DEF Restart
<1>4. ASSUME NEW s \in Senders, Beat(s) PROVE TypeOK'
  <2> DEFINE snap == [attention |-> Attention(monitor, loopAge), mode |-> tracker.mode, err |-> err]
  <2>1. snap \in Snapshots
    <3>1. Attention(monitor, loopAge) \in BOOLEAN
      BY DEF Attention
    <3>2. tracker.mode \in Modes
      BY DEF Trackers, Modes
    <3> QED
      BY <3>1, <3>2 DEF Snapshots
  <2> HIDE DEF snap
  <2>2. UNCHANGED <<phase, stuck, loopAge, row, diag, torn, down, faults>>
    BY <1>4 DEF Beat
  <2>3. CASE ~down
    <3>1. Arriving(s, snap) /\ UNCHANGED <<err, told, tracker, monitor>>
      BY <1>4, <2>3 DEF Beat, snap
    <3>2. handler' \in [Handlers -> Requests]
      BY <2>1, <3>1, ArrivingTypes
    <3>3. [left |-> MaxAttempts, snap |-> snap, later |-> FALSE] \in Beats
      BY <2>1, BoundsAssumption DEF Beats
    <3>4. beat' = [beat EXCEPT ![s] = [left |-> MaxAttempts, snap |-> snap, later |-> FALSE]]
      BY <1>4, <2>3 DEF Beat, snap
    <3>5. beat' \in [Senders -> Beats]
      BY <3>3, <3>4
    <3> QED
      BY <2>2, <3>1, <3>2, <3>5
  <2>4. CASE down
    <3>1. beat' \in [Senders -> Beats]
      BY <1>4, <2>4, OvertakenTypes DEF Beat
    <3>2. tracker' \in Trackers /\ monitor' \in Monitors
      BY <1>4, <2>4, RequestTypes DEF Beat
    <3>3. err' \in Sources /\ told' \in BOOLEAN
      BY <1>4, <2>4 DEF Beat, RecordError, Sources, DeviceSources
    <3>4. handler' = handler
      BY <1>4, <2>4 DEF Beat
    <3> QED
      BY <2>2, <3>1, <3>2, <3>3, <3>4
  <2> QED
    BY <2>3, <2>4
<1>5. ASSUME NEW s \in Senders, Retry(s) PROVE TypeOK'
  <2>1. CASE down
    <3>1. AttemptFails(s, TRUE) /\ UNCHANGED handler
      BY <1>5, <2>1 DEF Retry
    <3> QED
      BY <1>5, <3>1, AttemptTypes DEF Retry
  <2>2. CASE ~down
    <3>1. Arriving(s, beat[s].snap) /\ UNCHANGED <<err, told, tracker, monitor, beat>>
      BY <1>5, <2>2 DEF Retry
    <3>2. beat[s].snap \in Snapshots
      BY DEF Beats
    <3>3. handler' \in [Handlers -> Requests]
      BY <3>1, <3>2, ArrivingTypes
    <3> QED
      BY <1>5, <3>1, <3>3 DEF Retry
  <2> QED
    BY <2>1, <2>2
<1>6. ASSUME NEW s \in Senders, NEW retryable \in BOOLEAN, GiveUp(s, retryable) PROVE TypeOK'
  <2>1. handler' \in [Handlers -> Requests]
    BY <1>6, HandlerTypes DEF GiveUp
  <2>2. faults' \in 0 .. MaxFaults
    BY <1>6, FaultTypes DEF GiveUp
  <2>3. AttemptFails(s, retryable) /\ UNCHANGED <<phase, stuck, loopAge, row, diag, torn, down>>
    BY <1>6 DEF GiveUp
  <2> QED
    BY <2>1, <2>2, <2>3, AttemptTypes
<1>7. ASSUME NEW h \in Handlers, Update(h) PROVE TypeOK'
  <2>1. CASE row.exists
    <3>1. row' = Stamp(h, row) /\ torn' = TRUE /\ UNCHANGED <<err, told, tracker, monitor, beat>>
      BY <1>7, <2>1 DEF Update
    <3>2. handler' \in [Handlers -> Requests]
      BY <1>7, <2>1, HandlerTypes DEF Update
    <3>3. row' \in Rows
      BY <3>1, RowTypes
    <3> QED
      BY <1>7, <3>1, <3>2, <3>3 DEF Update
  <2>2. CASE ~row.exists
    <3>1. Refuse(h, FALSE) /\ Finish(h) /\ UNCHANGED <<row, torn>>
      BY <1>7, <2>2 DEF Update
    <3>2. handler' \in [Handlers -> Requests]
      BY <3>1, HandlerTypes
    <3> QED
      BY <1>7, <3>1, <3>2, RefuseTypes DEF Update
  <2> QED
    BY <2>1, <2>2
<1>8. ASSUME NEW h \in Handlers, Event(h) PROVE TypeOK'
  <2>1. handler' \in [Handlers -> Requests]
    BY <1>8, HandlerTypes DEF Event
  <2>2. row' \in Rows
    <3>1. handler[h].snap.err \in Sources \cup {"none"} /\ 0 \in Age
      BY AgesOrdered DEF Requests, Snapshots, Age, TooOld
    <3>2. [row EXCEPT !.error = handler[h].snap.err, !.errorAge = 0] \in Rows
      BY <3>1 DEF Rows
    <3> QED
      BY <1>8, <3>2 DEF Event
  <2>3. told' \in BOOLEAN
    BY <1>8 DEF Event
  <2> QED
    BY <1>8, <2>1, <2>2, <2>3 DEF Event
<1>9. ASSUME NEW h \in Handlers, Save(h) PROVE TypeOK'
  <2>1. handler' \in [Handlers -> Requests]
    BY <1>9, HandlerTypes DEF Save
  <2>2. diag' \in Diagnostics
    BY <1>9 DEF Save, Requests, Snapshots, Diagnostics
  <2>3. torn' = FALSE /\ UNCHANGED <<phase, stuck, loopAge, row, down, faults>>
    BY <1>9 DEF Save
  <2>4. CASE handler[h].of \in Senders
    <3>1. RequestOk /\ err' = "none" /\ told' = FALSE
      BY <1>9, <2>4 DEF Save
    <3>2. beat' \in [Senders -> Beats]
      BY <1>9, <2>4, StartTypes DEF Save
    <3> QED
      BY <2>1, <2>2, <2>3, <3>1, <3>2, RequestTypes
  <2>5. CASE handler[h].of \notin Senders
    <3>1. UNCHANGED <<err, told, tracker, monitor, beat>>
      BY <1>9, <2>5 DEF Save
    <3> QED
      BY <2>1, <2>2, <2>3, <3>1
  <2> QED
    BY <2>4, <2>5
<1>10. ASSUME NEW h \in Handlers, QueryFails(h) PROVE TypeOK'
  <2>1. handler' \in [Handlers -> Requests]
    BY <1>10, HandlerTypes DEF QueryFails
  <2>2. faults' \in 0 .. MaxFaults
    BY <1>10, FaultTypes DEF QueryFails
  <2>3. row' \in Rows /\ torn' \in BOOLEAN /\ UNCHANGED <<phase, stuck, loopAge, diag, down>>
    BY <1>10, RowTypes DEF QueryFails
  <2>4. Refuse(h, TRUE)
    BY <1>10 DEF QueryFails
  <2> QED
    BY <2>1, <2>2, <2>3, <2>4, RefuseTypes
<1>11. CASE CallOk
  BY <1>11, RequestTypes DEF CallOk
<1>12. ASSUME NEW source \in {"command", "other"}, NEW retryable \in BOOLEAN, CallFails(source, retryable)
       PROVE TypeOK'
  <2>1. faults' \in 0 .. MaxFaults
    BY <1>12, FaultTypes DEF CallFails
  <2>2. beat' \in [Senders -> Beats]
    BY <1>12, OvertakenTypes DEF CallFails
  <2>3. tracker' \in Trackers /\ monitor' \in Monitors
    BY <1>12, RequestTypes DEF CallFails
  <2>4. err' \in Sources /\ told' \in BOOLEAN
    BY <1>12 DEF CallFails, RecordError, Sources, DeviceSources
  <2> QED
    BY <1>12, <2>1, <2>2, <2>3, <2>4 DEF CallFails
<1>13. ASSUME NEW failed \in BOOLEAN, ReportOperation(failed) PROVE TypeOK'
  <2>1. faults' \in 0 .. MaxFaults
    BY <1>13, FaultTypes DEF ReportOperation
  <2>2. row' \in Rows
    <3>1. 0 \in Age /\ TooOld \in Age
      BY AgesOrdered DEF Age, TooOld
    <3>2. [row EXCEPT !.failedAge = 0] \in Rows
      BY <3>1 DEF Rows
    <3> QED
      BY <1>13, <3>2, SucceededTypes DEF ReportOperation
  <2>3. tracker' \in Trackers /\ monitor' \in Monitors
    BY <1>13, RequestTypes DEF ReportOperation
  <2> QED
    BY <1>13, <2>1, <2>2, <2>3 DEF ReportOperation
<1>14. CASE Watch
  <2> DEFINE m == NoteMode(monitor, tracker.mode)
  <2>1. m \in Monitors
    BY MonitorTypes
  <2> HIDE DEF m
  <2>2. UNCHANGED <<phase, tracker, stuck, loopAge, row, diag, torn, handler, down>>
    BY <1>14 DEF Watch
  <2>3. CASE RepairIsDue(m, loopAge)
    <3>1. monitor' = CountRepair(m)
      BY <1>14, <2>3 DEF Watch, m
    <3>2. monitor' \in Monitors
      BY <2>1, <2>3, <3>1, MonitorTypes DEF RepairIsDue
    <3>3. \/ UNCHANGED <<err, told, beat, faults>>
          \/ Fault /\ RecordError("other") /\ beat' = Overtaken(beat)
      BY <1>14, <2>3 DEF Watch, m
    <3>4. /\ err' \in Sources \cup {"none"} /\ told' \in BOOLEAN
          /\ beat' \in [Senders -> Beats] /\ faults' \in 0 .. MaxFaults
      BY <3>3, OvertakenTypes, FaultTypes DEF RecordError, Sources, DeviceSources
    <3> QED
      BY <2>2, <3>2, <3>4
  <2>4. CASE ~RepairIsDue(m, loopAge)
    <3>1. monitor' = m /\ UNCHANGED <<err, told, beat, faults>>
      BY <1>14, <2>4 DEF Watch, m
    <3> QED
      BY <2>1, <2>2, <3>1
  <2> QED
    BY <2>3, <2>4
<1>15. CASE Stick \/ Unstick \/ LoopsTurn
  <2>1. loopAge' \in 0 .. StuckAge
    <3>1. StuckAge \in Nat /\ loopAge \in 0 .. StuckAge
      BY AgesOrdered, ThresholdsPositive DEF StuckAge
    <3>2. loopAge' = loopAge \/ loopAge' \in 0 .. loopAge - 1
      BY <1>15 DEF Stick, Unstick, LoopsTurn
    <3> QED
      BY <3>1, <3>2
  <2>2. stuck' \in BOOLEAN
    <3>1. stuck' = TRUE \/ stuck' = FALSE \/ stuck' = stuck
      BY <1>15 DEF Stick, Unstick, LoopsTurn
    <3> QED
      BY <3>1
  <2> QED
    BY <1>15, <2>1, <2>2 DEF Stick, Unstick, LoopsTurn
<1>16. CASE Delete
  <2>1. faults' \in 0 .. MaxFaults
    BY <1>16, FaultTypes DEF Delete
  <2> QED
    BY <1>16, <2>1, StartTypes DEF Delete
<1>17. CASE NetworkFails \/ NetworkReturns
  <2>1. faults' \in 0 .. MaxFaults
    BY <1>17, FaultTypes DEF NetworkFails, NetworkReturns
  <2> QED
    BY <1>17, <2>1 DEF NetworkFails, NetworkReturns
<1>18. CASE Tick
  <2>1. row' \in Rows
    <3>1. PICK a \in Age, b \in Age, c \in Age :
            a = Older(row.seen) /\ b = Older(row.errorAge) /\ c = Older(row.failedAge)
      BY RowTypes DEF Rows
    <3>2. row' = [row EXCEPT !.seen = a, !.errorAge = b, !.failedAge = c]
      BY <1>18, <3>1 DEF Tick
    <3> QED
      BY <3>2 DEF Rows
  <2>2. loopAge' \in 0 .. StuckAge
    BY <1>18, AgesOrdered, ThresholdsPositive DEF Tick, Grown, StuckAge
  <2>3. monitor' \in Monitors
    BY <1>18, MonitorTypes DEF Tick
  <2> QED
    BY <1>18, <2>1, <2>2, <2>3 DEF Tick
<1>19. CASE UNCHANGED vars
  BY <1>19 DEF vars
<1> QED
  BY <1>1, <1>2, <1>3, <1>4, <1>5, <1>6, <1>7, <1>8, <1>9, <1>10, <1>11, <1>12, <1>13,
     <1>14, <1>15, <1>16, <1>17, <1>18, <1>19 DEF Next, Handle

(* Every variable keeps its type, whatever the thresholds (health.js,         *)
(* thresholds.go) and the number of handlers.                                 *)
THEOREM TypeCorrect == Spec => []TypeOK
BY TypeInit, TypeStep, PTL DEF Spec

-----------------------------------------------------------------------------
(* There is nothing in a row of diagnostics that is not there. *)
AbsentIsBlank == ~diag.present => diag = NoDiagnostics

LEMMA AbsentStep == AbsentIsBlank /\ [Next]_vars => AbsentIsBlank'
<1> SUFFICES ASSUME AbsentIsBlank, [Next]_vars PROVE AbsentIsBlank'
  OBVIOUS
<1>1. CASE \E h \in Handlers : Save(h)
  <2>1. diag'.present
    BY <1>1 DEF Save
  <2> QED
    BY <2>1 DEF AbsentIsBlank
<1>2. CASE ~\E h \in Handlers : Save(h)
  <2>1. UNCHANGED diag
    BY <1>2 DEF Next, vars, tables, agent, Handle, Register, RegisterFails, Restart, Beat, Retry, GiveUp,
       Update, Event, QueryFails, CallOk, CallFails, ReportOperation, Watch, Stick, Unstick,
       LoopsTurn, Delete, NetworkFails, NetworkReturns, Tick
  <2> QED
    BY <2>1 DEF AbsentIsBlank
<1> QED
  BY <1>1, <1>2

(* The three computations of a device's health agree, for any row. *)
LEMMA HealthsAgree ==
  ASSUME NEW r \in Rows, NEW d \in Diagnostics, ~d.present => d = NoDiagnostics
  PROVE  /\ DeriveHealth(r, d) = DiagnosticsHealth(r, d)
         /\ DeriveHealth(r, d) \in Statuses
<1> DEFINE base == DeriveHealth(r, NoDiagnostics)
<1>1. ~NoDiagnostics.attention /\ NoDiagnostics.mode = "normal"
  BY DEF NoDiagnostics
<1>2. CASE ~d.present
  BY <1>2 DEF DiagnosticsHealth, DeriveHealth, Statuses
<1>3. CASE d.present
  <2>1. d.mode \in Modes /\ d.attention \in BOOLEAN
    BY DEF Diagnostics
  <2>2. CASE r.seen > OfflineAge
    BY <1>3, <2>2 DEF DiagnosticsHealth, DeriveHealth, Statuses
  <2>3. CASE ~(r.seen > OfflineAge)
    <3>1. base # "offline"
      BY <2>3, <1>1 DEF DeriveHealth
    <3>2. DiagnosticsHealth(r, d) = IF d.attention THEN "degraded"
                                    ELSE IF d.mode = "recovering" THEN "recovering"
                                    ELSE IF d.mode = "degraded" THEN "degraded"
                                    ELSE base
      BY <1>3, <3>1 DEF DiagnosticsHealth
    <3> QED
      BY <1>1, <2>3, <3>2 DEF DeriveHealth, Statuses, IsDegraded
  <2> QED
    BY <2>2, <2>3
<1> QED
  BY <1>2, <1>3

LEMMA ViewsFollow == TypeOK /\ AbsentIsBlank => ViewsAgree
<1> SUFFICES ASSUME TypeOK, AbsentIsBlank PROVE ViewsAgree
  OBVIOUS
<1>1. Listed = Detailed /\ Listed \in Statuses
  BY HealthsAgree DEF TypeOK, AbsentIsBlank, Listed, Detailed
<1>2. /\ "offline" \in Counted <=> Listed = "offline"
      /\ "degraded" \in Counted <=> Listed \in {"degraded", "warning", "stale"}
      /\ Listed \notin {"offline", "stale"} => "online" \in Counted
  BY <1>1 DEF Counted, FleetCards, Summary, DeriveConnection, Listed, Statuses
<1> QED
  BY <1>1, <1>2 DEF ViewsAgree

(* The list, the page and the counters agree on every device. *)
THEOREM ViewsAgreeAlways == Spec => []ViewsAgree
<1>1. Init => AbsentIsBlank
  BY DEF Init, AbsentIsBlank
<1> QED
  BY <1>1, AbsentStep, ViewsFollow, TypeCorrect, PTL DEF Spec

-----------------------------------------------------------------------------
(* What becomes of the snapshots under way. *)

(* Every heartbeat under way, and every handler, has a snapshot it had. *)
SnapsKept ==
  /\ \A h \in Handlers : handler'[h].pc # "idle" =>
       handler[h].pc # "idle" /\ handler'[h].snap = handler[h].snap
  /\ \A s \in Senders : beat'[s].left > 0 =>
       beat[s].left > 0 /\ beat'[s].snap = beat[s].snap

LEMMA OvertakenSnaps ==
  ASSUME NEW b \in [Senders -> Beats], NEW s \in Senders
  PROVE  Overtaken(b)[s].left = b[s].left /\ Overtaken(b)[s].snap = b[s].snap
BY DEF Overtaken, Beats

LEMMA AttemptSnaps ==
  ASSUME TypeOK, NEW t \in Senders, NEW retryable, AttemptFails(t, retryable), NEW s \in Senders
  PROVE  beat'[s].left > 0 => beat[s].left > 0 /\ beat'[s].snap = beat[s].snap
<1>1. CASE retryable /\ beat[t].left > 1
  <2>1. beat' = [beat EXCEPT ![t] = [beat[t] EXCEPT !.left = beat[t].left - 1]]
    BY <1>1 DEF AttemptFails, TypeOK
  <2> QED
    BY <1>1, <2>1 DEF TypeOK, Beats
<1>2. CASE ~(retryable /\ beat[t].left > 1)
  <2> DEFINE b == [beat EXCEPT ![t] = NoBeat]
  <2>1. b \in [Senders -> Beats] /\ (b[s].left > 0 => b[s] = beat[s])
    BY StartTypes DEF TypeOK, NoBeat
  <2>2. beat' = Overtaken(b)
    BY <1>2 DEF AttemptFails
  <2> HIDE DEF b
  <2> QED
    BY <2>1, <2>2, OvertakenSnaps
<1> QED
  BY <1>1, <1>2

LEMMA RefuseSnaps ==
  ASSUME TypeOK, NEW h \in Handlers, NEW retryable, Refuse(h, retryable), NEW s \in Senders
  PROVE  beat'[s].left > 0 => beat[s].left > 0 /\ beat'[s].snap = beat[s].snap
BY AttemptSnaps DEF Refuse

LEMMA ArrivingSnaps ==
  ASSUME TypeOK, NEW s \in Senders, NEW snap, Arriving(s, snap), NEW h \in Handlers
  PROVE  /\ handler'[h].pc # "idle"
              => \/ /\ handler[h].pc # "idle" /\ handler'[h].snap = handler[h].snap
                    /\ handler'[h].of = handler[h].of /\ handler'[h].pc = handler[h].pc
                 \/ /\ handler[h].pc = "idle" /\ h = CHOOSE f \in Free : TRUE
                    /\ handler'[h].snap = snap /\ handler'[h].of = s /\ handler'[h].pc = "update"
         /\ handler'[h].pc = "idle" => handler[h].pc = "idle" /\ handler'[h].of = handler[h].of
<1> DEFINE c == CHOOSE f \in Free : TRUE
<1>1. c \in Free
  BY DEF Arriving, Accept
<1>2. handler[c].pc = "idle"
  BY <1>1 DEF Free
<1>3. handler'[h] = IF h = c THEN [pc |-> "update", of |-> s, snap |-> snap, alone |-> Quiet]
                    ELSE [handler[h] EXCEPT !.alone = FALSE]
  BY DEF Arriving, Accept
<1>4. CASE h = c
  BY <1>2, <1>3, <1>4
<1>5. CASE h # c
  <2>1. handler'[h] = [handler[h] EXCEPT !.alone = FALSE]
    BY <1>3, <1>5
  <2>2. /\ handler'[h].pc = handler[h].pc
        /\ handler'[h].snap = handler[h].snap
        /\ handler'[h].of = handler[h].of
    BY <2>1 DEF TypeOK, Requests
  <2> QED
    BY <2>2
<1> QED
  BY <1>4, <1>5

(* Only Beat takes a snapshot; Retry sends one on. *)
LEMMA StepKeepsSnaps ==
  ASSUME TypeOK, [Next]_vars, ~\E s \in Senders : Beat(s) \/ Retry(s)
  PROVE  SnapsKept
<1>1. CASE UNCHANGED <<handler, beat>>
  BY <1>1 DEF SnapsKept
<1>2. CASE Restart
  <2>1. \A s \in Senders : ~(beat'[s].left > 0)
    BY <1>2 DEF Restart, NoBeat
  <2>2. \A h \in Handlers : handler'[h] = [handler[h] EXCEPT !.of = "nobody"]
    BY <1>2 DEF Restart
  <2>3. ASSUME NEW h \in Handlers
        PROVE  handler'[h].pc = handler[h].pc /\ handler'[h].snap = handler[h].snap
    <3>1. handler[h] \in Requests
      BY DEF TypeOK
    <3> QED
      BY <2>2, <3>1 DEF Requests
  <2> QED
    BY <2>1, <2>3 DEF SnapsKept
<1>3. ASSUME NEW s \in Senders, NEW retryable \in BOOLEAN, GiveUp(s, retryable) PROVE SnapsKept
  <2>1. \A t \in Senders : beat'[t].left > 0 => beat[t].left > 0 /\ beat'[t].snap = beat[t].snap
    BY <1>3, AttemptSnaps DEF GiveUp
  <2>2. PICK h \in Handlers : handler' = [handler EXCEPT ![h].of = "nobody"]
    BY <1>3 DEF GiveUp
  <2>3. \A g \in Handlers : handler'[g].pc = handler[g].pc /\ handler'[g].snap = handler[g].snap
    BY <2>2 DEF TypeOK, Requests
  <2> QED
    BY <2>1, <2>3 DEF SnapsKept
<1>4. ASSUME NEW h \in Handlers, Handle(h) \/ QueryFails(h) PROVE SnapsKept
  <2>1. CASE Finish(h) \/ (handler[h].pc # "idle" /\ \E pc \in {"event", "save"} : To(h, pc))
    <3>1. \A g \in Handlers : handler'[g].pc # "idle" =>
            handler[g].pc # "idle" /\ handler'[g].snap = handler[g].snap
      BY <2>1 DEF Finish, To, NoRequest, TypeOK, Requests
    <3>2. \A t \in Senders : beat'[t].left > 0 => beat[t].left > 0 /\ beat'[t].snap = beat[t].snap
      <4>1. CASE Update(h) \/ QueryFails(h)
        BY <4>1, RefuseSnaps DEF Update, QueryFails
      <4>2. CASE Event(h)
        BY <4>2 DEF Event
      <4>3. CASE Save(h)
        BY <4>3 DEF Save, NoBeat, TypeOK
      <4> QED
        BY <1>4, <4>1, <4>2, <4>3 DEF Handle
    <3> QED
      BY <3>1, <3>2 DEF SnapsKept
  <2>2. Finish(h) \/ (handler[h].pc # "idle" /\ \E pc \in {"event", "save"} : To(h, pc))
    BY <1>4 DEF Handle, Update, Event, Save, QueryFails
  <2> QED
    BY <2>1, <2>2
<1>5. CASE Watch \/ \E source \in {"command", "other"}, retryable \in BOOLEAN : CallFails(source, retryable)
  <2>1. UNCHANGED handler /\ (UNCHANGED beat \/ beat' = Overtaken(beat))
    BY <1>5 DEF Watch, CallFails
  <2> QED
    BY <2>1, OvertakenSnaps DEF SnapsKept, TypeOK
<1>6. CASE Register \/ RegisterFails \/ CallOk \/ (\E failed \in BOOLEAN : ReportOperation(failed))
           \/ Stick \/ Unstick \/ LoopsTurn \/ Delete \/ NetworkFails \/ NetworkReturns
           \/ Tick \/ UNCHANGED vars
  BY <1>6, <1>1 DEF Register, RegisterFails, CallOk, ReportOperation, Stick, Unstick, LoopsTurn,
     Delete, NetworkFails, NetworkReturns, Tick, vars, agent
<1> QED
  BY <1>2, <1>3, <1>4, <1>5, <1>6 DEF Next

-----------------------------------------------------------------------------
(* A loop that has not turned for long is reported, and shown.  Time does not *)
(* pass while a heartbeat is under way: those under way once the loop is      *)
(* stale were all sent since.                                                 *)
StartingTurns == phase = "registering" => ~stuck /\ loopAge = 0

StaleReported ==
  loopAge >= LoopStaleAfter =>
    /\ \A h \in Handlers : handler[h].pc # "idle" => handler[h].snap.attention
    /\ \A s \in Senders : beat[s].left > 0 => beat[s].snap.attention

StaleShown ==
  loopAge >= LoopStaleAfter =>
    torn \/ diag.attention \/ row.seen >= loopAge - LoopStaleAfter + 1

LEMMA StartingStep == TypeOK /\ StartingTurns /\ [Next]_vars => StartingTurns'
<1> SUFFICES ASSUME TypeOK, StartingTurns, [Next]_vars PROVE StartingTurns'
  OBVIOUS
<1>1. CASE UNCHANGED <<phase, stuck, loopAge>>
  BY <1>1 DEF StartingTurns
<1>2. CASE Register \/ Restart \/ Stick \/ LoopsTurn
  BY <1>2 DEF Register, Restart, Stick, LoopsTurn, MainIsFree, StartingTurns
<1>3. CASE Unstick
  BY <1>3 DEF Unstick, StartingTurns
<1>4. CASE Tick
  BY <1>4 DEF Tick, StartingTurns
<1>5. \/ UNCHANGED <<phase, stuck, loopAge>>
      \/ Register \/ Restart \/ Stick \/ LoopsTurn \/ Unstick \/ Tick
  BY DEF Next, vars, agent, RegisterFails, Beat, Retry, GiveUp, Handle, Update, Event, Save, QueryFails,
     CallOk, CallFails, ReportOperation, Watch, Delete, NetworkFails, NetworkReturns
<1> QED
  BY <1>1, <1>2, <1>3, <1>4, <1>5

(* Only time makes a loop older. *)
LEMMA LoopAges ==
  ASSUME TypeOK, [Next]_vars, ~Tick
  PROVE  loopAge' \in 0 .. loopAge
<1>1. loopAge \in Nat
  BY AgesOrdered, ThresholdsPositive DEF TypeOK, StuckAge
<1>2. loopAge' = loopAge \/ loopAge' = 0 \/ loopAge' \in 0 .. loopAge - 1
  BY DEF Next, vars, agent, Register, RegisterFails, Restart, Beat, Retry, GiveUp, Handle, Update, Event, Save,
     QueryFails, CallOk, CallFails, ReportOperation, Watch, Stick, Unstick, LoopsTurn, Delete,
     NetworkFails, NetworkReturns
<1> QED
  BY <1>1, <1>2

LEMMA ReportedStep == TypeOK /\ StaleReported /\ [Next]_vars => StaleReported'
<1> SUFFICES ASSUME TypeOK, StaleReported, [Next]_vars, (loopAge >= LoopStaleAfter)'
             PROVE  /\ \A h \in Handlers : handler'[h].pc # "idle" => handler'[h].snap.attention
                    /\ \A s \in Senders : beat'[s].left > 0 => beat'[s].snap.attention
  BY DEF StaleReported
<1>1. CASE Tick
  BY <1>1 DEF Tick, Idle, Quiet, Sending
<1>2. CASE ~Tick
  <2>1. loopAge >= LoopStaleAfter
    BY <1>2, LoopAges, AgesOrdered, ThresholdsPositive DEF TypeOK, StuckAge
  <2>2. CASE ~\E s \in Senders : Beat(s) \/ Retry(s)
    BY <2>1, <2>2, StepKeepsSnaps DEF StaleReported, SnapsKept
  <2>3. ASSUME NEW s \in Senders, Beat(s)
        PROVE  /\ \A h \in Handlers : handler'[h].pc # "idle" => handler'[h].snap.attention
               /\ \A t \in Senders : beat'[t].left > 0 => beat'[t].snap.attention
    <3> DEFINE snap == [attention |-> Attention(monitor, loopAge), mode |-> tracker.mode, err |-> err]
    <3>1. snap.attention
      BY <2>1 DEF Attention
    <3>2. CASE ~down
      <4>1. /\ Arriving(s, snap)
            /\ beat' = [beat EXCEPT ![s] = [left |-> MaxAttempts, snap |-> snap, later |-> FALSE]]
        BY <2>3, <3>2 DEF Beat
      <4> HIDE DEF snap
      <4>2. \A h \in Handlers : handler'[h].pc # "idle" =>
              handler'[h].snap = snap \/ (handler[h].pc # "idle" /\ handler'[h].snap = handler[h].snap)
        BY <4>1, ArrivingSnaps
      <4>3. \A t \in Senders : beat'[t].left > 0 => beat'[t].snap = snap \/ beat'[t] = beat[t]
        BY <4>1 DEF TypeOK
      <4> QED
        BY <2>1, <3>1, <4>2, <4>3 DEF StaleReported
    <3>3. CASE down
      <4>1. UNCHANGED handler /\ beat' = Overtaken(beat)
        BY <2>3, <3>3 DEF Beat
      <4> QED
        BY <2>1, <4>1, OvertakenSnaps DEF TypeOK, StaleReported
    <3> QED
      BY <3>2, <3>3
  <2>4. ASSUME NEW s \in Senders, Retry(s)
        PROVE  /\ \A h \in Handlers : handler'[h].pc # "idle" => handler'[h].snap.attention
               /\ \A t \in Senders : beat'[t].left > 0 => beat'[t].snap.attention
    <3>1. CASE ~down
      <4>1. Arriving(s, beat[s].snap) /\ UNCHANGED beat /\ beat[s].snap.attention
        BY <2>1, <2>4, <3>1 DEF Retry, Sending, StaleReported
      <4>2. \A h \in Handlers : handler'[h].pc # "idle" =>
              handler'[h].snap = beat[s].snap \/ (handler[h].pc # "idle" /\ handler'[h].snap = handler[h].snap)
        BY <4>1, ArrivingSnaps
      <4> QED
        BY <2>1, <4>1, <4>2 DEF StaleReported
    <3>2. CASE down
      <4>1. AttemptFails(s, TRUE) /\ UNCHANGED handler
        BY <2>4, <3>2 DEF Retry
      <4> QED
        BY <2>1, <4>1, AttemptSnaps DEF StaleReported
    <3> QED
      BY <3>1, <3>2
  <2> QED
    BY <2>2, <2>3, <2>4
<1> QED
  BY <1>1, <1>2

LEMMA ShownStep == TypeOK /\ StartingTurns /\ StaleReported /\ StaleShown /\ [Next]_vars => StaleShown'
<1> SUFFICES ASSUME TypeOK, StartingTurns, StaleReported, StaleShown, [Next]_vars,
                    loopAge' >= LoopStaleAfter
             PROVE  torn' \/ diag'.attention \/ row'.seen >= loopAge' - LoopStaleAfter + 1
  BY DEF StaleShown
<1>1. loopAge \in 0 .. StuckAge /\ loopAge' \in 0 .. StuckAge
  BY TypeStep DEF TypeOK
<1>2. CASE Tick
  <2>1. loopAge' =< loopAge + 1
    BY <1>1, <1>2, ThresholdsPositive DEF Tick, Grown
  <2>2. row.seen \in 0 .. TooOld /\ row'.seen = Older(row.seen)
    BY <1>2 DEF Tick, TypeOK, Rows, Age
  <2>3. (loopAge < LoopStaleAfter \/ row.seen >= loopAge - LoopStaleAfter + 1)
          => row'.seen >= loopAge' - LoopStaleAfter + 1
    BY <1>1, <2>1, <2>2, AgesOrdered, ThresholdsPositive DEF Older, TooOld, StuckAge
  <2>4. UNCHANGED <<torn, diag>>
    BY <1>2 DEF Tick
  <2>5. loopAge >= LoopStaleAfter \/ loopAge < LoopStaleAfter
    BY <1>1, ThresholdsPositive
  <2> QED
    BY <2>3, <2>4, <2>5 DEF StaleShown
<1>3. CASE ~Tick
  <2>1. loopAge' =< loopAge /\ phase = "running" /\ loopAge >= LoopStaleAfter
    BY <1>1, <1>3, LoopAges, ThresholdsPositive DEF StartingTurns, TypeOK
  <2>2. CASE UNCHANGED <<diag, torn>> /\ row'.seen = row.seen
    <3>1. row.seen \in Nat
      BY AgesOrdered DEF TypeOK, Rows, Age, TooOld
    <3> QED
      BY <1>1, <2>1, <2>2, <3>1, ThresholdsPositive DEF StaleShown
  <2>3. CASE \E h \in Handlers : Handle(h) \/ QueryFails(h)
    <3> PICK h \in Handlers : Handle(h) \/ QueryFails(h)
      BY <2>3
    <3>1. CASE Save(h)
      <4>1. diag'.attention
        BY <2>1, <3>1 DEF Save, StaleReported
      <4> QED
        BY <4>1
    <3>2. CASE Event(h)
      BY <2>2, <3>2 DEF Event, TypeOK, Rows
    <3>3. CASE Update(h) \/ QueryFails(h)
      BY <2>2, <3>3 DEF Update, QueryFails, tables
    <3> QED
      BY <3>1, <3>2, <3>3 DEF Handle
  <2>4. CASE Delete
    <3>1. row'.seen = TooOld
      BY <2>4 DEF Delete, NoRow
    <3>2. StuckAge \in Nat /\ StuckAge = LoopStaleAfter + HealthyAge
      BY AgesOrdered, ThresholdsPositive DEF StuckAge
    <3>3. loopAge' \in Nat /\ loopAge' =< StuckAge
      BY <1>1, <3>2
    <3>4. \A age \in Nat : age =< StuckAge => TooOld >= age - LoopStaleAfter + 1
      BY <3>2, AgesOrdered, ThresholdsPositive DEF TooOld
    <3> QED
      BY <3>1, <3>3, <3>4
  <2>5. CASE \E failed \in BOOLEAN : ReportOperation(failed)
    BY <2>2, <2>5, SucceededTypes DEF ReportOperation, TypeOK, Rows
  <2>6. ~Register /\ ~RegisterFails
    BY <2>1 DEF Register, RegisterFails
  <2>7. CASE Restart \/ CallOk \/ Watch \/ Stick \/ Unstick \/ LoopsTurn \/ NetworkFails
             \/ NetworkReturns \/ UNCHANGED vars
             \/ (\E source \in {"command", "other"}, retryable \in BOOLEAN : CallFails(source, retryable))
             \/ \E s \in Senders : \/ Beat(s) \/ Retry(s)
                                   \/ \E retryable \in BOOLEAN : GiveUp(s, retryable)
    BY <2>2, <2>7 DEF Restart, CallOk, Watch, Stick, Unstick, LoopsTurn, NetworkFails,
       NetworkReturns, vars, CallFails, Beat, Retry, GiveUp, tables
  <2> QED
    BY <1>3, <2>3, <2>4, <2>5, <2>6, <2>7 DEF Next
<1> QED
  BY <1>2, <1>3

LEMMA StuckFollows == TypeOK /\ StaleShown => StuckIsShown
<1> SUFFICES ASSUME TypeOK, StaleShown, loopAge >= StuckAge, ~torn PROVE Listed # "healthy"
  BY DEF StuckIsShown
<1>1. loopAge = StuckAge /\ StuckAge >= LoopStaleAfter
  BY AgesOrdered, ThresholdsPositive DEF TypeOK, StuckAge
<1>2. diag.attention \/ row.seen > HealthyAge
  BY <1>1, AgesOrdered, ThresholdsPositive DEF StaleShown, StuckAge, TypeOK, Rows, Age
<1> QED
  BY <1>2 DEF Listed, DeriveHealth

(* A device whose main loop is held is not shown healthy, whatever the        *)
(* heartbeats of its socket goroutine say.                                    *)
THEOREM StuckIsShownAlways == Spec => []StuckIsShown
<1>1. Init => StartingTurns /\ StaleReported /\ StaleShown
  BY ThresholdsPositive DEF Init, Booted, StartingTurns, StaleReported, StaleShown
<1> QED
  BY <1>1, StartingStep, ReportedStep, ShownStep, StuckFollows, TypeCorrect, PTL DEF Spec

-----------------------------------------------------------------------------
(* No error is lost.  The argument: a handler someone waits for holds the     *)
(* snapshot of that sender, and is the only one it waits for; unless an error *)
(* has been recorded since, the snapshot has the agent's error, if there is   *)
(* one; so when the handler comes to its answer that error has been stored.   *)

StartingSilent == phase = "registering" => \A s \in Senders : beat[s].left = 0

Claims ==
  /\ \A h \in Handlers : \A s \in {handler[h].of} \cap Senders :
       handler[h].pc # "idle" /\ beat[s].left > 0 /\ handler[h].snap = beat[s].snap
  /\ \A g, h \in Handlers : handler[g].of = handler[h].of /\ handler[h].of \in Senders => g = h

ErrorInSnap ==
  \A s \in Senders : beat[s].left > 0 /\ ~beat[s].later => err \in {"none", beat[s].snap.err}

ToldWhenSaved ==
  \A h \in Handlers : \A s \in {handler[h].of} \cap Senders :
    handler[h].pc = "save" /\ ~beat[s].later /\ err # "none" => told

(* What a step other than Beat leaves of a heartbeat under way. *)
Heeds(s) ==
  beat'[s].left > 0 =>
    /\ beat[s].left > 0
    /\ beat'[s].snap = beat[s].snap
    /\ \/ beat'[s].later
       \/ /\ ~beat[s].later
          /\ err' = "none" \/ (err' = err /\ (told => told'))

LEMMA OvertakenLater ==
  ASSUME NEW b \in [Senders -> Beats], NEW s \in Senders
  PROVE  Overtaken(b)[s].later = (b[s].left > 0)
BY DEF Overtaken, Beats

LEMMA OvertakenHeeds ==
  ASSUME TypeOK, beat' = Overtaken(beat), NEW s \in Senders
  PROVE  Heeds(s)
<1>1. beat \in [Senders -> Beats]
  BY DEF TypeOK
<1>2. /\ beat'[s].left = beat[s].left /\ beat'[s].snap = beat[s].snap
      /\ beat'[s].later = (beat[s].left > 0)
  BY <1>1, OvertakenSnaps, OvertakenLater
<1> QED
  BY <1>2 DEF Heeds

LEMMA AttemptHeeds ==
  ASSUME TypeOK, NEW t \in Senders, NEW retryable, AttemptFails(t, retryable), NEW s \in Senders
  PROVE  Heeds(s) /\ (s # t => beat'[s].left = beat[s].left /\ beat'[s].snap = beat[s].snap)
<1>1. CASE retryable /\ beat[t].left > 1
  <2>1. beat' = [beat EXCEPT ![t] = [beat[t] EXCEPT !.left = beat[t].left - 1]]
    BY <1>1 DEF AttemptFails, TypeOK
  <2>2. UNCHANGED <<err, told>>
    BY <1>1 DEF AttemptFails
  <2>3. beat'[s].later = beat[s].later /\ beat'[s].snap = beat[s].snap
    BY <2>1 DEF TypeOK, Beats
  <2>4. (s # t => beat'[s].left = beat[s].left) /\ (s = t => beat[s].left > 0)
    BY <1>1, <2>1 DEF TypeOK, Beats
  <2> QED
    BY <2>2, <2>3, <2>4 DEF Heeds
<1>2. CASE ~(retryable /\ beat[t].left > 1)
  <2> DEFINE b == [beat EXCEPT ![t] = NoBeat]
  <2>1. /\ b \in [Senders -> Beats]
        /\ b[s].left > 0 => b[s] = beat[s]
        /\ s # t => b[s] = beat[s]
    BY StartTypes DEF TypeOK, NoBeat
  <2>2. beat' = Overtaken(b)
    BY <1>2 DEF AttemptFails
  <2> HIDE DEF b
  <2> QED
    BY <2>1, <2>2, OvertakenSnaps, OvertakenLater DEF Heeds
<1> QED
  BY <1>1, <1>2

LEMMA UnchangedHeeds ==
  ASSUME TypeOK, UNCHANGED beat, err' = "none" \/ (err' = err /\ (told => told')), NEW s \in Senders
  PROVE  Heeds(s)
BY DEF Heeds

LEMMA StepHeeds ==
  ASSUME TypeOK, StartingSilent, [Next]_vars, ~\E t \in Senders : Beat(t), NEW s \in Senders
  PROVE  Heeds(s)
<1>1. CASE UNCHANGED <<beat, err, told>>
  BY <1>1, UnchangedHeeds
<1>2. CASE Register
  BY <1>2, UnchangedHeeds DEF Register
<1>3. CASE RegisterFails
  BY <1>3 DEF RegisterFails, StartingSilent, Heeds
<1>4. CASE Restart
  BY <1>4 DEF Restart, NoBeat, Heeds
<1>5. ASSUME NEW t \in Senders, \/ Retry(t)
                                \/ \E retryable \in BOOLEAN : GiveUp(t, retryable)
      PROVE  Heeds(s)
  BY <1>5, <1>1, AttemptHeeds DEF Retry, GiveUp
<1>6. ASSUME NEW h \in Handlers, Handle(h) \/ QueryFails(h) PROVE Heeds(s)
  <2>1. CASE Save(h)
    <3>1. CASE handler[h].of \in Senders
      <4>1. PICK t \in Senders : beat' = [beat EXCEPT ![t] = NoBeat]
        BY <2>1, <3>1 DEF Save
      <4>2. err' = "none"
        BY <2>1, <3>1 DEF Save
      <4>3. beat'[s].left > 0 => beat'[s] = beat[s]
        BY <4>1 DEF TypeOK, NoBeat
      <4> QED
        BY <4>2, <4>3 DEF Heeds
    <3>2. CASE handler[h].of \notin Senders
      BY <1>1, <2>1, <3>2 DEF Save
    <3> QED
      BY <3>1, <3>2
  <2>2. CASE Event(h)
    <3>1. UNCHANGED <<beat, err>> /\ (told => told')
      BY <2>2 DEF Event
    <3> QED
      BY <3>1, UnchangedHeeds
  <2>3. CASE Update(h) \/ QueryFails(h)
    <3>1. UNCHANGED <<beat, err, told>> \/ \E retryable \in BOOLEAN : Refuse(h, retryable)
      BY <2>3 DEF Update, QueryFails
    <3>2. UNCHANGED <<beat, err, told>>
            \/ \E t \in Senders : \E retryable \in BOOLEAN : AttemptFails(t, retryable)
      BY <3>1 DEF Refuse
    <3> QED
      BY <1>1, <3>2, AttemptHeeds
  <2> QED
    BY <1>6, <2>1, <2>2, <2>3 DEF Handle
<1>7. CASE Watch \/ \E source \in {"command", "other"}, retryable \in BOOLEAN : CallFails(source, retryable)
  BY <1>1, <1>7, OvertakenHeeds DEF Watch, CallFails
<1>8. CASE CallOk \/ (\E failed \in BOOLEAN : ReportOperation(failed)) \/ Stick \/ Unstick \/ LoopsTurn
           \/ Delete \/ NetworkFails \/ NetworkReturns \/ Tick \/ UNCHANGED vars
  BY <1>1, <1>8 DEF CallOk, ReportOperation, Stick, Unstick, LoopsTurn, Delete, NetworkFails,
     NetworkReturns, Tick, vars, agent
<1> QED
  BY <1>2, <1>3, <1>4, <1>5, <1>6, <1>7, <1>8 DEF Next

LEMMA SilentStep == TypeOK /\ StartingSilent /\ [Next]_vars => StartingSilent'
<1> SUFFICES ASSUME TypeOK, StartingSilent, [Next]_vars, phase' = "registering", NEW s \in Senders
             PROVE  ~(beat'[s].left > 0)
  BY TypeStep DEF StartingSilent, TypeOK, Beats
<1>1. CASE Restart
  BY <1>1 DEF Restart, NoBeat
<1>2. CASE ~Restart
  <2>1. phase = "registering"
    BY <1>2 DEF Next, vars, agent, Register, RegisterFails, Beat, Retry, GiveUp, Handle, Update, Event,
       Save, QueryFails, CallOk, CallFails, ReportOperation, Watch, Stick, Unstick, LoopsTurn, Delete,
       NetworkFails, NetworkReturns, Tick
  <2>2. ~\E t \in Senders : Beat(t)
    BY <2>1 DEF Beat
  <2> QED
    BY <2>1, <2>2, StepHeeds DEF Heeds, StartingSilent
<1> QED
  BY <1>1, <1>2

(* No handler is new, and none is claimed by a sender that is gone. *)
Carries(gone) ==
  /\ \A h \in Handlers : handler'[h].of \in Senders =>
       /\ handler'[h].of = handler[h].of
       /\ handler'[h].of \notin gone
       /\ handler'[h].pc # "idle"
       /\ handler'[h].snap = handler[h].snap
  /\ \A s \in Senders \ gone : beat'[s].left = beat[s].left /\ beat'[s].snap = beat[s].snap

LEMMA ClaimsCarry ==
  ASSUME Claims, NEW gone, Carries(gone)
  PROVE  Claims'
<1>1. ASSUME NEW h \in Handlers, NEW s \in Senders, handler'[h].of = s
      PROVE  handler'[h].pc # "idle" /\ beat'[s].left > 0 /\ handler'[h].snap = beat'[s].snap
  BY <1>1 DEF Claims, Carries
<1>2. ASSUME NEW g \in Handlers, NEW h \in Handlers,
             handler'[g].of = handler'[h].of, handler'[h].of \in Senders
      PROVE  g = h
  BY <1>2 DEF Claims, Carries
<1> QED
  BY <1>1, <1>2 DEF Claims

(* A request that arrives is the only one of its sender. *)
LEMMA ClaimsArrive ==
  ASSUME TypeOK, Claims, NEW s \in Senders, NEW snap, Arriving(s, snap),
         \A h \in Handlers : handler[h].of # s,
         beat'[s].left > 0, beat'[s].snap = snap,
         \A t \in Senders \ {s} : beat'[t] = beat[t]
  PROVE  Claims'
<1> DEFINE c == CHOOSE f \in Free : TRUE
<1>1. ASSUME NEW h \in Handlers, handler'[h].of \in Senders
      PROVE  \/ /\ h # c /\ handler[h].pc # "idle" /\ handler'[h].of = handler[h].of
                /\ handler'[h].snap = handler[h].snap /\ handler'[h].pc = handler[h].pc
             \/ /\ h = c /\ handler'[h].of = s /\ handler'[h].snap = snap /\ handler'[h].pc = "update"
  <2>1. c \in Free
    BY DEF Arriving, Accept
  <2>2. handler[c].pc = "idle"
    BY <2>1 DEF Free
  <2>3. handler'[h].pc # "idle"
    BY <1>1, ArrivingSnaps DEF Claims
  <2>4. \/ /\ handler[h].pc # "idle" /\ handler'[h].snap = handler[h].snap
           /\ handler'[h].of = handler[h].of /\ handler'[h].pc = handler[h].pc
        \/ /\ handler[h].pc = "idle" /\ h = c
           /\ handler'[h].snap = snap /\ handler'[h].of = s /\ handler'[h].pc = "update"
    BY <2>3, ArrivingSnaps
  <2> HIDE DEF c
  <2> QED
    BY <2>2, <2>4
<1> HIDE DEF c
<1>2. ASSUME NEW h \in Handlers, NEW t \in Senders, handler'[h].of = t
      PROVE  handler'[h].pc # "idle" /\ beat'[t].left > 0 /\ handler'[h].snap = beat'[t].snap
  <2>1. CASE h = c
    BY <1>1, <1>2, <2>1
  <2>2. CASE h # c
    <3>1. handler[h].of = t /\ t # s /\ handler'[h].snap = handler[h].snap /\ handler'[h].pc = handler[h].pc
      BY <1>1, <1>2, <2>2
    <3> QED
      BY <3>1 DEF Claims
  <2> QED
    BY <2>1, <2>2
<1>3. ASSUME NEW g \in Handlers, NEW h \in Handlers,
             handler'[g].of = handler'[h].of, handler'[h].of \in Senders
      PROVE  g = h
  <2>1. CASE g = c \/ h = c
    BY <1>1, <1>3, <2>1
  <2>2. CASE g # c /\ h # c
    BY <1>1, <1>3, <2>2 DEF Claims
  <2> QED
    BY <2>1, <2>2
<1> QED
  BY <1>2, <1>3 DEF Claims

LEMMA ClaimsStep == TypeOK /\ Claims /\ [Next]_vars => Claims'
<1> SUFFICES ASSUME TypeOK, Claims, [Next]_vars PROVE Claims'
  OBVIOUS
<1>1. CASE UNCHANGED handler /\ (UNCHANGED beat \/ beat' = Overtaken(beat))
  <2>1. \A s \in Senders : beat'[s].left = beat[s].left /\ beat'[s].snap = beat[s].snap
    BY <1>1, OvertakenSnaps DEF TypeOK
  <2>2. \A h \in Handlers : handler[h].of \in Senders => handler[h].pc # "idle"
    BY DEF Claims
  <2>3. Carries({})
    BY <1>1, <2>1, <2>2 DEF Carries
  <2> QED
    BY <2>3, ClaimsCarry
<1>2. ASSUME NEW s \in Senders, Beat(s), ~down PROVE Claims'
  <2> DEFINE snap == [attention |-> Attention(monitor, loopAge), mode |-> tracker.mode, err |-> err]
  <2>1. Arriving(s, snap) /\ ~(beat[s].left > 0)
    BY <1>2 DEF Beat, Sending
  <2>2. beat' = [beat EXCEPT ![s] = [left |-> MaxAttempts, snap |-> snap, later |-> FALSE]]
    BY <1>2 DEF Beat
  <2> HIDE DEF snap
  <2>3. beat'[s].left > 0 /\ beat'[s].snap = snap /\ \A t \in Senders \ {s} : beat'[t] = beat[t]
    BY <2>2, BoundsAssumption DEF TypeOK
  <2>4. \A h \in Handlers : handler[h].of # s
    BY <2>1 DEF Claims
  <2> QED
    BY <2>1, <2>3, <2>4, ClaimsArrive
<1>3. ASSUME NEW s \in Senders, Retry(s), ~down PROVE Claims'
  <2>1. Arriving(s, beat[s].snap) /\ UNCHANGED beat
    BY <1>3 DEF Retry
  <2>2. beat[s].left > 0 /\ \A h \in Handlers : handler[h].of # s
    BY <1>3 DEF Retry, Sending, Waiting
  <2> QED
    BY <2>1, <2>2, ClaimsArrive
<1>4. ASSUME NEW s \in Senders, Retry(s), down PROVE Claims'
  <2>1. UNCHANGED handler /\ AttemptFails(s, TRUE) /\ \A h \in Handlers : handler[h].of # s
    BY <1>4 DEF Retry, Waiting
  <2>2. \A t \in Senders \ {s} : beat'[t].left = beat[t].left /\ beat'[t].snap = beat[t].snap
    BY <2>1, AttemptHeeds
  <2>3. \A h \in Handlers : handler[h].of \in Senders => handler[h].pc # "idle"
    BY DEF Claims
  <2>4. Carries({s})
    BY <2>1, <2>2, <2>3 DEF Carries
  <2> QED
    BY <2>4, ClaimsCarry
<1>5. ASSUME NEW s \in Senders, NEW retryable \in BOOLEAN, GiveUp(s, retryable) PROVE Claims'
  <2>1. AttemptFails(s, retryable)
    BY <1>5 DEF GiveUp
  <2>2. PICK h \in Handlers : handler[h].of = s /\ handler' = [handler EXCEPT ![h].of = "nobody"]
    BY <1>5 DEF GiveUp
  <2>3. \A t \in Senders \ {s} : beat'[t].left = beat[t].left /\ beat'[t].snap = beat[t].snap
    BY <2>1, AttemptHeeds
  <2>4. ASSUME NEW g \in Handlers, handler'[g].of \in Senders
        PROVE  /\ handler'[g].of = handler[g].of /\ handler'[g].of # s
               /\ handler'[g].pc # "idle" /\ handler'[g].snap = handler[g].snap
    <3>1. g # h
      BY <2>2, <2>4 DEF TypeOK, Requests, Senders
    <3>2. handler'[g] = handler[g]
      BY <2>2, <3>1 DEF TypeOK
    <3> QED
      BY <2>2, <2>4, <3>1, <3>2 DEF Claims
  <2>5. Carries({s})
    BY <2>3, <2>4 DEF Carries
  <2> QED
    BY <2>5, ClaimsCarry
<1>6. ASSUME NEW h \in Handlers, Handle(h) \/ QueryFails(h) PROVE Claims'
  <2>1. CASE Finish(h)
    <3> DEFINE gone == {handler[h].of} \cap Senders
    <3>1. ASSUME NEW g \in Handlers, handler'[g].of \in Senders
          PROVE  /\ handler'[g].of = handler[g].of /\ handler'[g].of \notin gone
                 /\ handler'[g].pc # "idle" /\ handler'[g].snap = handler[g].snap
      <4>1. g # h
        BY <2>1, <3>1 DEF Finish, NoRequest, TypeOK, Senders
      <4>2. handler'[g] = handler[g]
        BY <2>1, <4>1 DEF Finish, TypeOK
      <4> QED
        BY <3>1, <4>1, <4>2 DEF Claims
    <3>2. \A t \in Senders \ gone : beat'[t].left = beat[t].left /\ beat'[t].snap = beat[t].snap
      <4>1. CASE Save(h)
        BY <4>1 DEF Save, TypeOK
      <4>2. CASE ~Save(h)
        <5>1. UNCHANGED beat \/ \E retryable \in BOOLEAN : Refuse(h, retryable)
          BY <1>6, <4>2 DEF Handle, Update, Event, QueryFails
        <5> QED
          BY <5>1, AttemptHeeds DEF Refuse
      <4> QED
        BY <4>1, <4>2
    <3>3. Carries(gone)
      BY <3>1, <3>2 DEF Carries
    <3> QED
      BY <3>3, ClaimsCarry
  <2>2. CASE UNCHANGED beat /\ \E pc \in {"event", "save"} : To(h, pc)
    <3>1. PICK pc \in {"event", "save"} : To(h, pc)
      BY <2>2
    <3>2. ASSUME NEW g \in Handlers, handler'[g].of \in Senders
          PROVE  /\ handler'[g].of = handler[g].of
                 /\ handler'[g].pc # "idle" /\ handler'[g].snap = handler[g].snap
      BY <3>1, <3>2 DEF To, Claims, TypeOK, Requests
    <3>3. Carries({})
      BY <2>2, <3>2 DEF Carries
    <3> QED
      BY <3>3, ClaimsCarry
  <2>3. Finish(h) \/ (UNCHANGED beat /\ \E pc \in {"event", "save"} : To(h, pc))
    BY <1>6 DEF Handle, Update, Event, Save, QueryFails
  <2> QED
    BY <2>1, <2>2, <2>3
<1>7. CASE Restart
  <2>1. \A h \in Handlers : handler'[h].of = "nobody"
    BY <1>7 DEF Restart, TypeOK, Requests
  <2> QED
    BY <2>1 DEF Claims, Senders
<1>8. (UNCHANGED handler /\ (UNCHANGED beat \/ beat' = Overtaken(beat)))
        \/ Restart \/ (\E h \in Handlers : Handle(h) \/ QueryFails(h))
        \/ \E s \in Senders : Beat(s) \/ Retry(s) \/ \E retryable \in BOOLEAN : GiveUp(s, retryable)
  BY DEF Next, vars, agent, Register, RegisterFails, CallOk, CallFails, ReportOperation, Watch, Stick,
     Unstick, LoopsTurn, Delete, NetworkFails, NetworkReturns, Tick
<1>9. ASSUME NEW s \in Senders, Beat(s), down PROVE UNCHANGED handler /\ beat' = Overtaken(beat)
  BY <1>9 DEF Beat
<1> QED
  BY <1>1, <1>2, <1>3, <1>4, <1>5, <1>6, <1>7, <1>8, <1>9

(* What Beat does to the heartbeats under way, and to the agent's error. *)
LEMMA BeatHeeds ==
  ASSUME TypeOK, NEW s \in Senders, Beat(s), NEW t \in Senders
  PROVE  \/ Heeds(t)
         \/ t = s /\ ~(beat[s].left > 0) /\ UNCHANGED <<err, told>> /\ beat'[s].snap.err = err
<1>1. CASE down
  <2>1. beat' = Overtaken(beat)
    BY <1>1 DEF Beat
  <2> QED
    BY <2>1, OvertakenHeeds
<1>2. CASE ~down
  <2> DEFINE snap == [attention |-> Attention(monitor, loopAge), mode |-> tracker.mode, err |-> err]
  <2>1. snap.err = err
    OBVIOUS
  <2>2. beat' = [beat EXCEPT ![s] = [left |-> MaxAttempts, snap |-> snap, later |-> FALSE]]
    BY <1>2 DEF Beat
  <2>3. UNCHANGED <<err, told>> /\ ~(beat[s].left > 0)
    BY <1>2 DEF Beat, Sending
  <2> HIDE DEF snap
  <2>4. CASE t = s
    BY <2>1, <2>2, <2>3, <2>4 DEF TypeOK
  <2>5. CASE t # s
    <3>1. beat'[t] = beat[t]
      BY <2>2, <2>5
    <3> QED
      BY <2>3, <3>1 DEF Heeds
  <2> QED
    BY <2>4, <2>5
<1> QED
  BY <1>1, <1>2

LEMMA ErrorStep == TypeOK /\ StartingSilent /\ ErrorInSnap /\ [Next]_vars => ErrorInSnap'
<1> SUFFICES ASSUME TypeOK, StartingSilent, ErrorInSnap, [Next]_vars,
                    NEW t \in Senders, beat'[t].left > 0, ~beat'[t].later
             PROVE  err' \in {"none", beat'[t].snap.err}
  BY DEF ErrorInSnap
<1>1. CASE Heeds(t)
  BY <1>1 DEF Heeds, ErrorInSnap
<1>2. CASE ~Heeds(t)
  <2>1. PICK s \in Senders : Beat(s)
    BY <1>2, StepHeeds
  <2> QED
    BY <1>2, <2>1, BeatHeeds
<1> QED
  BY <1>1, <1>2

(* A handler comes to its answer by Update or by Event. *)
LEMMA SavedBefore ==
  ASSUME TypeOK, [Next]_vars, NEW h \in Handlers, handler'[h].pc = "save", handler'[h].of \in Senders
  PROVE  /\ handler'[h].of = handler[h].of /\ handler'[h].snap = handler[h].snap
         /\ \/ handler[h].pc = "save"
            \/ Update(h) /\ handler[h].snap.err = "none" /\ UNCHANGED <<beat, err, told>>
            \/ Event(h)
<1>1. CASE UNCHANGED handler
  BY <1>1
<1>2. CASE \E s \in Senders : \E snap : Arriving(s, snap)
  BY <1>2, ArrivingSnaps
<1>3. CASE Restart
  BY <1>3 DEF Restart, TypeOK, Requests, Senders
<1>4. CASE \E g \in Handlers : handler' = [handler EXCEPT ![g].of = "nobody"]
  <2> PICK g \in Handlers : handler' = [handler EXCEPT ![g].of = "nobody"]
    BY <1>4
  <2>1. g # h
    BY DEF TypeOK, Requests, Senders
  <2> QED
    BY <2>1 DEF TypeOK
<1>5. ASSUME NEW g \in Handlers, Handle(g) \/ QueryFails(g)
      PROVE  /\ handler'[h].of = handler[h].of /\ handler'[h].snap = handler[h].snap
             /\ \/ handler[h].pc = "save"
                \/ Update(h) /\ handler[h].snap.err = "none" /\ UNCHANGED <<beat, err, told>>
                \/ Event(h)
  <2>1. ~(Finish(g) /\ g = h)
    BY DEF Finish, NoRequest, TypeOK
  <2>2. CASE g # h
    <3>1. handler'[h] = handler[h]
      BY <1>5, <2>2 DEF Handle, Update, Event, Save, QueryFails, Finish, To, TypeOK
    <3> QED
      BY <3>1
  <2>3. CASE g = h
    <3>1. CASE Update(h)
      <4>1. UNCHANGED <<beat, err, told>> /\ To(h, IF handler[h].snap.err = "none" THEN "save" ELSE "event")
        BY <2>1, <2>3, <3>1 DEF Update
      <4> QED
        BY <3>1, <4>1 DEF To, TypeOK, Requests
    <3>2. CASE Event(h)
      BY <3>2 DEF Event, To, TypeOK, Requests
    <3> QED
      BY <1>5, <2>1, <2>3, <3>1, <3>2 DEF Handle, Save, QueryFails
  <2> QED
    BY <2>2, <2>3
<1>6. \/ UNCHANGED handler
      \/ \E s \in Senders : \E snap : Arriving(s, snap)
      \/ Restart
      \/ \E g \in Handlers : handler' = [handler EXCEPT ![g].of = "nobody"]
      \/ \E g \in Handlers : Handle(g) \/ QueryFails(g)
  BY DEF Next, vars, Register, RegisterFails, CallOk, CallFails, ReportOperation, Watch, Stick, Unstick,
     LoopsTurn, Delete, NetworkFails, NetworkReturns, Tick, Beat, Retry, GiveUp
<1> QED
  BY <1>1, <1>2, <1>3, <1>4, <1>5, <1>6

LEMMA ToldStep ==
  TypeOK /\ StartingSilent /\ Claims /\ ErrorInSnap /\ ToldWhenSaved /\ [Next]_vars => ToldWhenSaved'
<1> SUFFICES ASSUME TypeOK, StartingSilent, Claims, ErrorInSnap, ToldWhenSaved, [Next]_vars,
                    NEW h \in Handlers, NEW s \in Senders, handler'[h].of = s,
                    handler'[h].pc = "save", ~beat'[s].later, err' # "none"
             PROVE  told'
  BY DEF ToldWhenSaved
<1>1. /\ handler[h].of = s
      /\ \/ handler[h].pc = "save"
         \/ Update(h) /\ handler[h].snap.err = "none" /\ UNCHANGED <<beat, err, told>>
         \/ Event(h)
  BY SavedBefore
<1>2. beat[s].left > 0 /\ handler[h].snap = beat[s].snap
  BY <1>1 DEF Claims
<1>3. beat'[s].left > 0
  BY ClaimsStep DEF Claims
<1>4. Heeds(s)
  BY <1>2, StepHeeds, BeatHeeds
<1>5. CASE handler[h].pc = "save"
  BY <1>1, <1>3, <1>4, <1>5 DEF Heeds, ToldWhenSaved
<1>6. CASE Update(h) /\ handler[h].snap.err = "none" /\ UNCHANGED <<beat, err, told>>
  BY <1>2, <1>6 DEF ErrorInSnap
<1>7. CASE Event(h)
  BY <1>1, <1>7 DEF Event, Carried
<1> QED
  BY <1>1, <1>5, <1>6, <1>7

(* An error is forgotten by registering, by starting, or by an answer. *)
LEMMA ForgottenOnlyTold ==
  ASSUME TypeOK, StartingSilent, ToldWhenSaved, [Next]_vars, err # "none", err' = "none",
         phase = "running", phase' = "running"
  PROVE  told \/ \E s \in Senders : beat[s].later /\ beat'[s] = NoBeat
<1>1. ~Register /\ ~RegisterFails /\ ~Restart
  BY DEF Register, RegisterFails, Restart
<1>2. CASE UNCHANGED err \/ \E source \in Sources : RecordError(source)
  BY <1>2 DEF RecordError, Sources, DeviceSources
<1>3. ASSUME NEW s \in Senders, NEW retryable \in BOOLEAN, AttemptFails(s, retryable)
      PROVE  UNCHANGED err \/ \E source \in Sources : RecordError(source)
  BY <1>3 DEF AttemptFails, Sources, DeviceSources
<1>4. CASE \E h \in Handlers : Handle(h) \/ QueryFails(h)
  <2> PICK h \in Handlers : Handle(h) \/ QueryFails(h)
    BY <1>4
  <2>1. CASE Update(h) \/ Event(h) \/ QueryFails(h)
    BY <1>2, <1>3, <2>1 DEF Update, Event, QueryFails, Refuse
  <2>2. CASE Save(h)
    <3>1. PICK s \in Senders : s = handler[h].of /\ handler[h].pc = "save"
                               /\ beat' = [beat EXCEPT ![s] = NoBeat]
      BY <2>2 DEF Save
    <3>2. beat'[s] = NoBeat
      BY <3>1 DEF TypeOK
    <3> QED
      BY <3>1, <3>2 DEF ToldWhenSaved
  <2> QED
    BY <2>1, <2>2 DEF Handle
<1>5. CASE \E s \in Senders : \/ Beat(s) \/ Retry(s)
                              \/ \E retryable \in BOOLEAN : GiveUp(s, retryable)
  <2> PICK s \in Senders : \/ Beat(s) \/ Retry(s)
                           \/ \E retryable \in BOOLEAN : GiveUp(s, retryable)
    BY <1>5
  <2>1. UNCHANGED err \/ (\E source \in Sources : RecordError(source))
          \/ \E retryable \in BOOLEAN : AttemptFails(s, retryable)
    BY DEF Beat, Retry, GiveUp, Sources, DeviceSources
  <2> QED
    BY <1>2, <1>3, <2>1
<1>6. CASE Watch \/ \E source \in {"command", "other"}, retryable \in BOOLEAN : CallFails(source, retryable)
  BY <1>2, <1>6 DEF Watch, CallFails, Sources, DeviceSources
<1>7. CASE CallOk \/ (\E failed \in BOOLEAN : ReportOperation(failed)) \/ Stick \/ Unstick \/ LoopsTurn
           \/ Delete \/ NetworkFails \/ NetworkReturns \/ Tick \/ UNCHANGED vars
  BY <1>2, <1>7 DEF CallOk, ReportOperation, Stick, Unstick, LoopsTurn, Delete, NetworkFails,
     NetworkReturns, Tick, vars, agent
<1> QED
  BY <1>1, <1>4, <1>5, <1>6, <1>7 DEF Next

(* No error of the agent is forgotten before the server has an event of it. *)
THEOREM ErrorsAreTold == Spec => NoErrorLost
<1>1. Init => StartingSilent /\ Claims /\ ErrorInSnap /\ ToldWhenSaved
  BY DEF Init, Booted, NoBeat, NoRequest, Senders, StartingSilent, Claims, ErrorInSnap, ToldWhenSaved
<1>2. TypeOK /\ StartingSilent /\ ToldWhenSaved /\ [Next]_vars
        => [(err # "none" /\ err' = "none")
              => told \/ phase = "registering" \/ phase' = "registering"
                 \/ \E s \in Senders : beat[s].later /\ beat'[s] = NoBeat]_vars
  BY ForgottenOnlyTold, TypeStep DEF TypeOK
<1> QED
  BY <1>1, <1>2, SilentStep, ClaimsStep, ErrorStep, ToldStep, TypeCorrect, PTL DEF Spec, NoErrorLost

-----------------------------------------------------------------------------
(* What a heartbeat reports is shown.  The argument: a handler that is alone  *)
(* finds the row as it has left it, apart from what a command result changes. *)

AloneIsAlone ==
  \A h \in Handlers : handler[h].alone /\ handler[h].pc # "idle"
    => \A g \in Handlers \ {h} : handler[g].pc = "idle"

Storing(h) == handler[h].pc \in {"event", "save"} /\ handler[h].of \in Senders /\ handler[h].alone

RowAsLeft(snap, pc) ==
  /\ row.seen = 0
  /\ snap = Blank => row.error \notin Clearable
  /\ pc = "save" /\ snap.err \in DeviceSources => row.error = snap.err /\ row.errorAge = 0

AloneFindsRow ==
  \A h \in Handlers : Storing(h) /\ row.exists => RowAsLeft(handler[h].snap, handler[h].pc)

(* A handler that remains alone after a step was alone before it. *)
LEMMA AloneBefore ==
  ASSUME TypeOK, [Next]_vars, NEW h \in Handlers, handler'[h].alone, handler'[h].pc # "idle",
         handler[h].pc # "idle"
  PROVE  /\ handler[h].alone
         /\ handler'[h].snap = handler[h].snap
         /\ handler'[h].of \in {handler[h].of, "nobody"}
         /\ ~\E s \in Senders : \E snap : Arriving(s, snap)
<1>1. ASSUME NEW s \in Senders, NEW snap, Arriving(s, snap) PROVE FALSE
  <2>1. (CHOOSE f \in Free : TRUE) \in Free
    BY <1>1 DEF Arriving, Accept
  <2>2. h \notin Free
    BY DEF Free
  <2>3. h # CHOOSE f \in Free : TRUE
    BY <2>1, <2>2
  <2>4. handler'[h] = [handler[h] EXCEPT !.alone = FALSE]
    BY <1>1, <2>3 DEF Arriving, Accept
  <2> QED
    BY <2>4 DEF TypeOK, Requests
<1>2. \/ UNCHANGED handler
      \/ \E s \in Senders : \E snap : Arriving(s, snap)
      \/ Restart
      \/ \E g \in Handlers : handler' = [handler EXCEPT ![g].of = "nobody"]
      \/ \E g \in Handlers : Finish(g) \/ \E pc \in {"event", "save"} : To(g, pc)
  BY DEF Next, vars, Register, RegisterFails, CallOk, CallFails, ReportOperation, Watch, Stick, Unstick,
     LoopsTurn, Delete, NetworkFails, NetworkReturns, Tick, Beat, Retry, GiveUp, Handle, Update, Event,
     Save, QueryFails
<1>3. CASE \E g \in Handlers : handler' = [handler EXCEPT ![g].of = "nobody"]
  BY <1>1, <1>3 DEF TypeOK, Requests
<1>4. CASE \E g \in Handlers : Finish(g) \/ \E pc \in {"event", "save"} : To(g, pc)
  <2> PICK g \in Handlers : Finish(g) \/ \E pc \in {"event", "save"} : To(g, pc)
    BY <1>4
  <2>1. CASE Finish(g)
    BY <1>1, <2>1 DEF Finish, NoRequest, TypeOK
  <2>2. CASE \E pc \in {"event", "save"} : To(g, pc)
    BY <1>1, <2>2 DEF To, TypeOK, Requests
  <2> QED
    BY <2>1, <2>2
<1>5. CASE Restart
  BY <1>1, <1>5 DEF Restart, TypeOK, Requests
<1> QED
  BY <1>1, <1>2, <1>3, <1>4, <1>5

(* Only a request that arrives sets a handler to work. *)
LEMMA ArrivalOnly ==
  ASSUME TypeOK, [Next]_vars, NEW h \in Handlers, handler[h].pc = "idle", handler'[h].pc # "idle"
  PROVE  \E s \in Senders : \E snap : Arriving(s, snap)
<1>1. CASE \E s \in Senders : \/ Beat(s) \/ Retry(s)
                              \/ \E retryable \in BOOLEAN : GiveUp(s, retryable)
  <2> PICK s \in Senders : \/ Beat(s) \/ Retry(s)
                           \/ \E retryable \in BOOLEAN : GiveUp(s, retryable)
    BY <1>1
  <2>1. CASE Beat(s) \/ Retry(s)
    <3>1. UNCHANGED handler \/ \E snap : Arriving(s, snap)
      BY <2>1 DEF Beat, Retry
    <3> QED
      BY <3>1
  <2>2. ASSUME NEW retryable \in BOOLEAN, GiveUp(s, retryable) PROVE FALSE
    <3>1. PICK g \in Handlers : handler' = [handler EXCEPT ![g].of = "nobody"]
      BY <2>2 DEF GiveUp
    <3> QED
      BY <3>1 DEF TypeOK, Requests
  <2> QED
    BY <2>1, <2>2
<1>2. CASE \E g \in Handlers : Handle(g) \/ QueryFails(g)
  BY <1>2 DEF Handle, Update, Event, Save, QueryFails, Finish, To, NoRequest, TypeOK
<1>3. CASE Restart
  BY <1>3 DEF Restart, TypeOK, Requests
<1>4. CASE UNCHANGED handler
  BY <1>4
<1>5. \/ \E s \in Senders : \/ Beat(s) \/ Retry(s)
                            \/ \E retryable \in BOOLEAN : GiveUp(s, retryable)
      \/ \E g \in Handlers : Handle(g) \/ QueryFails(g)
      \/ Restart
      \/ UNCHANGED handler
  BY DEF Next, vars, Register, RegisterFails, CallOk, CallFails, ReportOperation, Watch, Stick, Unstick,
     LoopsTurn, Delete, NetworkFails, NetworkReturns, Tick
<1> QED
  BY <1>1, <1>2, <1>3, <1>4, <1>5

(* A handler runs on, is new, or stays idle. *)
LEMMA IdleBefore ==
  ASSUME TypeOK, [Next]_vars, NEW h \in Handlers, handler[h].pc = "idle", handler'[h].pc # "idle"
  PROVE  /\ handler'[h].pc = "update"
         /\ handler'[h].alone => Quiet
         /\ \A g \in Handlers \ {h} : handler'[g].pc = handler[g].pc
<1>1. PICK s \in Senders : \E snap : Arriving(s, snap)
  BY ArrivalOnly
<1> PICK snap : Arriving(s, snap)
  BY <1>1
<1> DEFINE c == CHOOSE f \in Free : TRUE
<1>2. handler' = [g \in Handlers |->
         IF g = c THEN [pc |-> "update", of |-> s, snap |-> snap, alone |-> Quiet]
         ELSE [handler[g] EXCEPT !.alone = FALSE]]
  BY DEF Arriving, Accept
<1> HIDE DEF c
<1>3. h = c
  BY <1>2 DEF TypeOK, Requests
<1> QED
  BY <1>2, <1>3 DEF TypeOK, Requests

LEMMA AloneStep == TypeOK /\ AloneIsAlone /\ [Next]_vars => AloneIsAlone'
<1> SUFFICES ASSUME TypeOK, AloneIsAlone, [Next]_vars, NEW h \in Handlers,
                    handler'[h].alone, handler'[h].pc # "idle", NEW g \in Handlers \ {h}
             PROVE  handler'[g].pc = "idle"
  BY DEF AloneIsAlone
<1>1. CASE handler[h].pc = "idle"
  BY <1>1, IdleBefore DEF Quiet
<1>2. CASE handler[h].pc # "idle"
  <2>1. handler[g].pc = "idle" /\ ~\E s \in Senders : \E snap : Arriving(s, snap)
    BY <1>2, AloneBefore DEF AloneIsAlone
  <2>2. CASE handler'[g].pc # "idle"
    <3>1. handler'[g].pc = "update" /\ \A f \in Handlers \ {g} : handler'[f].pc = handler[f].pc
      BY <2>1, <2>2, IdleBefore
    <3> QED
      BY <2>1, <2>2, ArrivalOnly
  <2> QED
    BY <2>2
<1> QED
  BY <1>1, <1>2

(* What the actions of others leave of the row, while a handler is answered. *)
LEMMA RowBeside ==
  ASSUME TypeOK, [Next]_vars, phase = "running", row'.exists, ~Idle, NEW snap, NEW pc,
         ~\E g \in Handlers : Handle(g) \/ QueryFails(g),
         RowAsLeft(snap, pc)
  PROVE  row.exists => RowAsLeft(snap, pc)'
<1>1. CASE UNCHANGED row
  BY <1>1 DEF RowAsLeft
<1>2. CASE \E failed \in BOOLEAN : ReportOperation(failed)
  <2>1. /\ row'.seen = row.seen
        /\ \/ row'.error = row.error /\ row'.errorAge = row.errorAge
           \/ row.error = "command" /\ row'.error = "none"
    BY <1>2, SucceededTypes DEF ReportOperation, TypeOK, Rows
  <2> QED
    BY <2>1 DEF RowAsLeft, Clearable, DeviceSources
<1>3. ~Register /\ ~RegisterFails /\ ~Delete /\ ~Tick
  BY DEF Register, RegisterFails, Delete, NoRow, Tick
<1> QED
  BY <1>1, <1>2, <1>3 DEF Next, vars, tables, Restart, CallOk, CallFails, Watch, Stick, Unstick, LoopsTurn,
     NetworkFails, NetworkReturns, Beat, Retry, GiveUp

LEMMA FindsStep ==
  TypeOK /\ StartingSilent /\ Claims /\ AloneIsAlone /\ AloneFindsRow /\ [Next]_vars => AloneFindsRow'
<1> SUFFICES ASSUME TypeOK, StartingSilent, Claims, AloneIsAlone, AloneFindsRow, [Next]_vars,
                    NEW h \in Handlers, Storing(h)', row'.exists
             PROVE  \A snap \in {handler'[h].snap}, pc \in {handler'[h].pc} : RowAsLeft(snap, pc)'
  BY DEF AloneFindsRow, RowAsLeft
<1>1. handler[h].pc # "idle"
  BY IdleBefore DEF Storing
<1>2. /\ handler[h].alone /\ handler[h].of \in Senders /\ handler'[h].of = handler[h].of
      /\ handler'[h].snap = handler[h].snap
      /\ ~\E s \in Senders : \E snap : Arriving(s, snap)
  BY <1>1, AloneBefore DEF Storing, Senders
<1>3. phase = "running" /\ ~Idle
  BY <1>1, <1>2 DEF Claims, StartingSilent, TypeOK, Idle, Quiet
<1>4. ASSUME NEW g \in Handlers, Handle(g) \/ QueryFails(g) PROVE g = h
  BY <1>1, <1>2, <1>4 DEF AloneIsAlone, Handle, Update, Event, Save, QueryFails
<1>5. CASE \E g \in Handlers : Handle(g) \/ QueryFails(g)
  <2>1. Update(h) \/ Event(h)
    <3>1. ~Finish(h)
      BY DEF Finish, NoRequest, TypeOK, Storing
    <3> QED
      BY <1>4, <1>5, <3>1 DEF Handle, Save, QueryFails
  <2>2. CASE Update(h)
    <3>1. row' = Stamp(h, row) /\ To(h, IF handler[h].snap.err = "none" THEN "save" ELSE "event")
      <4>1. ~Finish(h)
        BY DEF Finish, NoRequest, TypeOK, Storing
      <4> QED
        BY <2>2, <4>1 DEF Update
    <3>2. handler'[h].pc = IF handler[h].snap.err = "none" THEN "save" ELSE "event"
      BY <3>1 DEF To, TypeOK, Requests
    <3>3. row'.seen = 0
      BY <3>1 DEF Stamp, TypeOK, Rows
    <3>4. handler[h].snap = Blank => row'.error \notin Clearable
      BY <3>1 DEF Stamp, TypeOK, Rows, Blank, LooksHealthy, IsDegraded, Clearable
    <3>5. handler'[h].pc = "save" => handler[h].snap.err \notin DeviceSources
      BY <3>2 DEF DeviceSources
    <3> QED
      BY <1>2, <3>3, <3>4, <3>5 DEF RowAsLeft
  <2>3. CASE Event(h)
    <3>1. row.exists /\ row' = [row EXCEPT !.error = handler[h].snap.err, !.errorAge = 0]
      BY <2>3 DEF Event
    <3>2. handler[h].pc = "event"
      BY <2>3 DEF Event
    <3>3. row.seen = 0
      BY <1>2, <3>1, <3>2 DEF AloneFindsRow, Storing, RowAsLeft
    <3>4. row'.seen = 0 /\ row'.error = handler[h].snap.err /\ row'.errorAge = 0
      BY <3>1, <3>3 DEF TypeOK, Rows
    <3> QED
      BY <1>2, <3>4 DEF RowAsLeft, Blank, Clearable
  <2> QED
    BY <2>1, <2>2, <2>3
<1>6. CASE ~\E g \in Handlers : Handle(g) \/ QueryFails(g)
  <2>1. handler'[h].pc = handler[h].pc
    <3>1. \/ UNCHANGED handler
          \/ Restart
          \/ \E g \in Handlers : handler' = [handler EXCEPT ![g].of = "nobody"]
      BY <1>2, <1>6 DEF Next, vars, Register, RegisterFails, CallOk, CallFails, ReportOperation, Watch, Stick,
         Unstick, LoopsTurn, Delete, NetworkFails, NetworkReturns, Tick, Beat, Retry, GiveUp
    <3>2. CASE Restart
      BY <3>2 DEF Restart, TypeOK, Requests
    <3> QED
      BY <3>1, <3>2 DEF TypeOK, Requests
  <2>2. row.exists
    <3>1. CASE UNCHANGED row
      BY <3>1
    <3> QED
      BY <1>3, <1>6, <3>1 DEF Next, vars, tables, Register, RegisterFails, Restart, CallOk, CallFails, ReportOperation,
         Watch, Stick, Unstick, LoopsTurn, Delete, NoRow, Tick, NetworkFails, NetworkReturns, Beat, Retry, GiveUp
  <2>3. Storing(h)
    BY <1>2, <2>1 DEF Storing
  <2>4. RowAsLeft(handler[h].snap, handler[h].pc)
    BY <2>2, <2>3 DEF AloneFindsRow
  <2>5. PICK snap, pc : snap = handler[h].snap /\ pc = handler[h].pc
    OBVIOUS
  <2>6. RowAsLeft(snap, pc)'
    BY <1>3, <1>6, <2>2, <2>4, <2>5, RowBeside
  <2> QED
    BY <1>2, <2>1, <2>5, <2>6 DEF RowAsLeft
<1> QED
  BY <1>5, <1>6

LEMMA StoredIsShown ==
  ASSUME TypeOK, AloneFindsRow, NEW h \in Handlers, Save(h), Stores(h), handler[h].alone,
         NEW snap \in {handler[h].snap}
  PROVE  ShownAsReported(snap)'
<1>1. row.exists /\ RowAsLeft(snap, "save")
  BY DEF Stores, AloneFindsRow, Storing, RowAsLeft
<1>2. row' = row /\ diag'.attention = snap.attention /\ diag'.mode = snap.mode
  BY DEF Save
<1>3. ~(row'.seen > OfflineAge) /\ ~(row'.seen > WarningAge) /\ ~(row'.seen > HealthyAge)
  BY <1>1, <1>2, AgesOrdered DEF RowAsLeft
<1>4. Listed' = IF snap.attention THEN "degraded"
                ELSE IF snap.mode = "recovering" THEN "recovering"
                ELSE IF snap.mode = "degraded" \/ HasRecentError(row') THEN "degraded"
                ELSE IF row'.failedAge =< RecentAge THEN "warning"
                ELSE "healthy"
  BY <1>2, <1>3 DEF Listed, DeriveHealth, IsDegraded
<1>5. snap.err \in DeviceSources => HasRecentError(row')
  BY <1>1, <1>2, AgesOrdered DEF RowAsLeft, HasRecentError
<1>6. snap = Blank => row'.error = "other" \/ ~HasRecentError(row')
  BY <1>1, <1>2 DEF RowAsLeft, HasRecentError, Clearable, DeviceSources
<1> QED
  BY <1>4, <1>5, <1>6, <1>2 DEF ShownAsReported, Blank, TypeOK, Requests, Snapshots

(* What a heartbeat reports is what the lists show when it is stored. *)
THEOREM ReportsAreShown == Spec => HeartbeatIsShown
<1>1. Init => StartingSilent /\ Claims /\ AloneIsAlone /\ AloneFindsRow
  BY DEF Init, Booted, NoBeat, NoRequest, Senders, StartingSilent, Claims, AloneIsAlone, AloneFindsRow, Storing
<1>2. ASSUME TypeOK, AloneIsAlone, [Next]_vars, NEW h \in Handlers, Stores(h), handler[h].alone PROVE Save(h)
  <2>1. PICK g \in Handlers : Save(g)
    <3>1. ~UNCHANGED torn /\ torn' # TRUE
      BY <1>2 DEF Stores
    <3> QED
      BY <1>2, <3>1 DEF Next, vars, tables, Handle, Register, RegisterFails, Restart, Beat, Retry, GiveUp,
         Update, Event, QueryFails, CallOk, CallFails, ReportOperation, Watch, Stick, Unstick,
         LoopsTurn, Delete, NetworkFails, NetworkReturns, Tick
  <2>2. g = h
    BY <1>2, <2>1 DEF Stores, AloneIsAlone, Save
  <2> QED
    BY <2>1, <2>2
<1>3. TypeOK /\ AloneIsAlone /\ AloneFindsRow /\ [Next]_vars
        => [\A h \in Handlers :
              Stores(h) /\ handler[h].alone
                => \A snap \in {handler[h].snap} : ShownAsReported(snap)']_vars
  BY <1>2, StoredIsShown
<1> QED
  BY <1>1, <1>3, SilentStep, ClaimsStep, AloneStep, FindsStep, TypeCorrect, PTL DEF Spec, HeartbeatIsShown

(* All views show one health, and not a healthy one of a stuck device. *)
THEOREM HealthIsAlwaysTrue == Spec => []HealthIsTrue
BY ViewsAgreeAlways, StuckIsShownAlways, PTL DEF HealthIsTrue
=============================================================================
