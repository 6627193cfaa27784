---------------------------- MODULE DeviceHealth ----------------------------
(***************************************************************************)
(* One device, from the trouble its agent has to the health its operators  *)
(* see: the agent's last error, recovery tracker and watchdog; the         *)
(* heartbeats its main loop and its socket goroutine send, which interleave*)
(* with its other requests; the server's heartbeat handler, query by query;*)
(* and the rows the health of the device is derived from.                  *)
(***************************************************************************)
EXTENDS HealthStatus, AgentRecovery

CONSTANTS
  Handlers,      \* heartbeat handlers that run at a time
  MaxAttempts,   \* HeartbeatPolicy: attempts of one heartbeat
  MaxFaults      \* bound: failures of requests and queries, outages, deletions

ASSUME BoundsAssumption == MaxAttempts \in Nat \ {0} /\ MaxFaults \in Nat

VARIABLES
  phase,         \* waitForRegistration, then the main loop
  err,           \* healthState.lastError: its source, or "none"
  told,          \* history: a health event has been stored for err
  tracker,       \* recoveryTracker
  monitor,       \* agentWatchdog
  stuck,         \* the main loop is executing a long command
  loopAge,       \* since the loop that is furthest behind recorded a turn
  beat,          \* SendHeartbeat of the two goroutines
  row,           \* the row of devices
  diag,          \* the row of device_diagnostics
  handler,       \* the heartbeat handlers of the server
  torn,          \* history: a heartbeat is stored in devices, not in diagnostics
  down,          \* the backend cannot be reached
  faults

agent   == <<phase, err, told, tracker, monitor, stuck, loopAge, beat>>
tables  == <<row, diag, torn>>
vars    == <<agent, tables, handler, down, faults>>

-----------------------------------------------------------------------------
Senders == {"main", "socket"}

Snapshots == [attention : BOOLEAN, mode : Modes, err : Sources \cup {"none"}]
Blank == [attention |-> FALSE, mode |-> "normal", err |-> "none"]

(* later: an error has been recorded since the snapshot was taken. *)
Beats == [left : 0 .. MaxAttempts, snap : Snapshots, later : BOOLEAN]
NoBeat == [left |-> 0, snap |-> Blank, later |-> FALSE]

(* of: who waits for the handler; alone: no other has run beside it so far. *)
Requests == [pc : {"idle", "update", "event", "save"}, of : Senders \cup {"nobody"},
             snap : Snapshots, alone : BOOLEAN]
NoRequest == [pc |-> "idle", of |-> "nobody", snap |-> Blank, alone |-> FALSE]

(* The ages the runs need of loopAge. *)
StuckAge == LoopStaleAfter + HealthyAge

(* The types of all variables: phases, records, rows and ages. *)
TypeOK ==
  /\ phase \in {"registering", "running"}
  /\ err \in Sources \cup {"none"}
  /\ told \in BOOLEAN
  /\ tracker \in Trackers
  /\ monitor \in Monitors
  /\ stuck \in BOOLEAN
  /\ loopAge \in 0 .. StuckAge
  /\ beat \in [Senders -> Beats]
  /\ row \in Rows
  /\ diag \in Diagnostics
  /\ handler \in [Handlers -> Requests]
  /\ torn \in BOOLEAN
  /\ down \in BOOLEAN
  /\ faults \in 0 .. MaxFaults

Booted ==
  /\ phase = "registering"
  /\ err = "none"
  /\ told = FALSE
  /\ tracker = NewTracker
  /\ monitor = NewMonitor
  /\ stuck = FALSE
  /\ loopAge = 0
  /\ beat = [s \in Senders |-> NoBeat]

Init ==
  /\ Booted
  /\ row = NoRow
  /\ diag = NoDiagnostics
  /\ handler = [h \in Handlers |-> NoRequest]
  /\ torn = FALSE
  /\ down = FALSE
  /\ faults = 0

-----------------------------------------------------------------------------
Fault == faults < MaxFaults /\ faults' = faults + 1

Sending(s) == beat[s].left > 0
Waiting(s) == \E h \in Handlers : handler[h].of = s
Quiet == \A h \in Handlers : handler[h].pc = "idle"
Idle == Quiet /\ \A s \in Senders : ~Sending(s)

(* Only a goroutine that is not busy takes a step of its own. *)
MainIsFree == phase = "running" /\ ~stuck /\ ~Sending("main")

(* recordAgentError; a heartbeat whose snapshot is older does not carry it. *)
RecordError(source) ==
  /\ err' = source
  /\ told' = FALSE

Overtaken(b) == [s \in Senders |-> [b[s] EXCEPT !.later = b[s].left > 0]]

(* doAgentRequest: what every request does to the tracker and the watchdog. *)
RequestOk ==
  /\ tracker' = TrackSuccess(tracker)
  /\ monitor' = BackendSuccess(monitor)

RequestFails(retryable) ==
  /\ tracker' = IF retryable THEN TrackFailure(tracker) ELSE tracker
  /\ monitor' = BackendFailure(monitor)

-----------------------------------------------------------------------------
(* Registration, retried for as long as it fails. *)
Stored(r) == [r EXCEPT !.exists = TRUE, !.seen = 0]

Register ==
  /\ phase = "registering"
  /\ ~down
  /\ row' = Stored(row)
  /\ RequestOk
  /\ err' = "none"
  /\ told' = FALSE
  /\ phase' = "running"
  /\ UNCHANGED <<stuck, loopAge, beat, diag, handler, torn, down, faults>>

(* Its answer is lost, or the server is not reached. *)
RegisterFails ==
  /\ phase = "registering"
  /\ \/ down /\ UNCHANGED <<row, faults>>
     \/ ~down /\ Fault /\ row' \in {row, Stored(row)}
  /\ RequestFails(TRUE)
  /\ RecordError("heartbeat")
  /\ UNCHANGED <<phase, stuck, loopAge, beat, diag, handler, torn, down>>

Free == {h \in Handlers : handler[h].pc = "idle"}

Accept(s, snap) ==
  /\ Free # {}
  /\ handler' = [h \in Handlers |->
       IF h = CHOOSE f \in Free : TRUE
       THEN [pc |-> "update", of |-> s, snap |-> snap, alone |-> Quiet]
       ELSE [handler[h] EXCEPT !.alone = FALSE]]

Arriving_DropsError(s, snap) == Accept(s, [snap EXCEPT !.err = "none"])

(* A request reaches the server.  Handlers are all alike: any that is free    *)
(* will do.                                                                   *)
Arriving(s, snap) == Accept(s, snap)

(* An attempt has failed: another follows, or the heartbeat has failed.  The *)
(* main loop records a heartbeat error, the action an error of its own.      *)
AttemptFails(s, retryable) ==
  IF retryable /\ beat[s].left > 1
  THEN /\ beat' = [beat EXCEPT ![s].left = @ - 1]
       /\ UNCHANGED <<err, told, tracker, monitor>>
  ELSE /\ beat' = Overtaken([beat EXCEPT ![s] = NoBeat])
       /\ RequestFails(retryable)
       /\ RecordError(IF s = "main" THEN "heartbeat" ELSE "other")

(* SendHeartbeat takes its snapshots, once for all its attempts: by the      *)
(* ticker of the main loop, or for a force-heartbeat or refresh-metadata     *)
(* action the socket goroutine was pushed.  During an outage all its         *)
(* attempts fail.                                                            *)
Beat(s) ==
  LET snap == [attention |-> Attention(monitor, loopAge), mode |-> tracker.mode, err |-> err]
  IN  /\ phase = "running"
      /\ ~Sending(s)
      /\ s = "main" => ~stuck
      /\ \/ /\ ~down
            /\ Arriving(s, snap)
            /\ beat' = [beat EXCEPT ![s] = [left |-> MaxAttempts, snap |-> snap, later |-> FALSE]]
            /\ UNCHANGED <<err, told, tracker, monitor>>
         \/ /\ down
            /\ RequestFails(TRUE)
            /\ RecordError(IF s = "main" THEN "heartbeat" ELSE "other")
            /\ beat' = Overtaken(beat)
            /\ UNCHANGED handler
      /\ UNCHANGED <<phase, stuck, loopAge, tables, down, faults>>

(* The next attempt, with the same snapshots. *)
Retry(s) ==
  /\ Sending(s)
  /\ ~Waiting(s)
  /\ IF down
     THEN AttemptFails(s, TRUE) /\ UNCHANGED handler
     ELSE /\ Arriving(s, beat[s].snap)
          /\ UNCHANGED <<err, told, tracker, monitor, beat>>
  /\ UNCHANGED <<phase, stuck, loopAge, tables, down, faults>>

(* The agent gives the attempt up, at its time-out or for a broken connection; *)
(* the handler runs on.                                                        *)
GiveUp(s, retryable) ==
  /\ IF down THEN UNCHANGED faults ELSE Fault
  /\ \E h \in Handlers :
       /\ handler[h].of = s
       /\ handler' = [handler EXCEPT ![h].of = "nobody"]
  /\ AttemptFails(s, retryable)
  /\ UNCHANGED <<phase, stuck, loopAge, tables, down>>

-----------------------------------------------------------------------------
(* The heartbeat handler, query by query.  Its answer is taken with its last *)
(* one: an answer that is slow is a handler that is.                         *)
To(h, pc) == handler' = [handler EXCEPT ![h].pc = pc]
Finish(h) == handler' = [handler EXCEPT ![h] = NoRequest]

(* An answer that is an error: a 404 is not tried again, a 500 is. *)
Refuse(h, retryable) ==
  IF handler[h].of \in Senders THEN AttemptFails(handler[h].of, retryable)
  ELSE UNCHANGED <<err, told, tracker, monitor, beat>>

Stamp_ClearsNothing(h, r) == [r EXCEPT !.seen = 0]

(* What the UPDATE sets, and the errors a clean snapshot clears. *)
Stamp(h, r) ==
  LET snap == handler[h].snap
  IN  IF snap.err = "none" /\ LooksHealthy(snap) /\ r.error \in Clearable
      THEN [r EXCEPT !.seen = 0, !.error = "none", !.errorAge = TooOld]
      ELSE [r EXCEPT !.seen = 0]

(* UPDATE devices and the INSERT of device_heartbeats, or the device is not  *)
(* found.                                                                    *)
Update(h) ==
  /\ handler[h].pc = "update"
  /\ IF row.exists
     THEN /\ row' = Stamp(h, row)
          /\ torn' = TRUE
          /\ To(h, IF handler[h].snap.err = "none" THEN "save" ELSE "event")
          /\ UNCHANGED <<err, told, tracker, monitor, beat>>
     ELSE Refuse(h, FALSE) /\ Finish(h) /\ UNCHANGED <<row, torn>>
  /\ UNCHANGED <<phase, stuck, loopAge, diag, down, faults>>

(* recordHealthEvent: the event, and the row's last error, as every error of *)
(* the agent is of level error.                                              *)
Carried(h) == handler[h].of \in Senders /\ ~beat[handler[h].of].later

Event(h) ==
  /\ handler[h].pc = "event"
  /\ told' = (told \/ Carried(h))
  /\ row' = IF row.exists THEN [row EXCEPT !.error = handler[h].snap.err, !.errorAge = 0] ELSE row
  /\ To(h, "save")
  /\ UNCHANGED <<phase, err, tracker, monitor, stuck, loopAge, beat, diag, torn, down, faults>>

(* saveLatestDiagnostics, whether or not the device still exists.  With the  *)
(* answer the agent forgets its error, whichever that is by now.             *)
Save(h) ==
  LET s == handler[h].of
  IN  /\ handler[h].pc = "save"
      /\ diag' = [present |-> TRUE, attention |-> handler[h].snap.attention, mode |-> handler[h].snap.mode]
      /\ torn' = FALSE
      /\ Finish(h)
      /\ IF s \in Senders
         THEN RequestOk /\ err' = "none" /\ told' = FALSE /\ beat' = [beat EXCEPT ![s] = NoBeat]
         ELSE UNCHANGED <<err, told, tracker, monitor, beat>>
      /\ UNCHANGED <<phase, stuck, loopAge, row, down, faults>>

(* One of its queries fails: that of device_heartbeats after the UPDATE, or  *)
(* that of a later step.                                                     *)
QueryFails(h) ==
  /\ handler[h].pc # "idle"
  /\ Fault
  /\ \/ UNCHANGED tables
     \/ /\ handler[h].pc = "update" /\ row.exists
        /\ row' = Stamp(h, row)
        /\ torn' = TRUE
        /\ UNCHANGED diag
  /\ Finish(h)
  /\ Refuse(h, TRUE)
  /\ UNCHANGED <<phase, stuck, loopAge, down>>

-----------------------------------------------------------------------------
(* The agent's other requests, of any of its goroutines: those of commands    *)
(* and files fail as such, be the main loop busy or not.                      *)
CallOk ==
  /\ phase = "running"
  /\ ~down
  /\ RequestOk
  /\ UNCHANGED <<phase, err, told, stuck, loopAge, beat, tables, handler, down, faults>>

CallFails(source, retryable) ==
  /\ phase = "running"
  /\ IF down THEN retryable /\ UNCHANGED faults ELSE Fault
  /\ RequestFails(retryable)
  /\ RecordError(source)
  /\ beat' = Overtaken(beat)
  /\ UNCHANGED <<phase, stuck, loopAge, tables, handler, down>>

(* A completed command clears the errors of commands, a completed transfer    *)
(* those of transfers, and each forgets a failure of its own kind.            *)
Succeeded(r) ==
  LET kept == {r} \cup (IF r.error = "command"
                        THEN {[r EXCEPT !.error = "none", !.errorAge = TooOld]} ELSE {})
  IN  kept \cup {[q EXCEPT !.failedAge = TooOld] : q \in kept}

(* command-result, file-complete and file-failed, as far as they concern the *)
(* row of the device.                                                        *)
ReportOperation(failed) ==
  /\ phase = "running"
  /\ ~down
  /\ IF failed THEN Fault ELSE UNCHANGED faults
  /\ row' \in IF ~row.exists THEN {row}
              ELSE IF failed THEN {[row EXCEPT !.failedAge = 0]}
              ELSE Succeeded(row)
  /\ RequestOk
  /\ UNCHANGED <<phase, err, told, stuck, loopAge, beat, diag, torn, handler, down>>

(* watchdogTicker: the degraded state is noted, and a repair that is due is  *)
(* run, which may fail.                                                      *)
Watch ==
  /\ MainIsFree
  /\ LET m == NoteMode(monitor, tracker.mode)
     IN  IF RepairIsDue(m, loopAge)
         THEN /\ monitor' = CountRepair(m)
              /\ \/ UNCHANGED <<err, told, beat, faults>>
                 \/ Fault /\ RecordError("other") /\ beat' = Overtaken(beat)
         ELSE monitor' = m /\ UNCHANGED <<err, told, beat, faults>>
  /\ UNCHANGED <<phase, tracker, stuck, loopAge, tables, handler, down>>

(* A polled command that takes long holds the main loop. *)
Stick ==
  /\ MainIsFree
  /\ stuck' = TRUE
  /\ UNCHANGED <<phase, err, told, tracker, monitor, loopAge, beat, tables, handler, down, faults>>

(* When it ends, the tickers of the main loop have fired, and select takes   *)
(* them in any order: the watchdog may find the other loops stale before     *)
(* they record a turn.                                                       *)
Unstick ==
  /\ stuck
  /\ stuck' = FALSE
  /\ UNCHANGED <<phase, err, told, tracker, monitor, loopAge, beat, tables, handler, down, faults>>

(* The loop furthest behind records a turn, and leaves the next one furthest *)
(* behind: the loops of the main goroutine when it is free, the file worker  *)
(* at the end of a transfer (file_transfer.go:26).  Which loop that is, is   *)
(* not kept; while the main loop is held the age may so fall when in the     *)
(* code it could not, and nothing else.                                      *)
LoopsTurn ==
  /\ phase = "running"
  /\ loopAge > 0
  /\ loopAge' \in 0 .. loopAge - 1
  /\ UNCHANGED <<phase, err, told, tracker, monitor, stuck, beat, tables, handler, down, faults>>

(* The process ends and is started again. *)
Restart ==
  /\ phase = "running"
  /\ phase' = "registering"
  /\ err' = "none"
  /\ told' = FALSE
  /\ tracker' = NewTracker
  /\ monitor' = NewMonitor
  /\ stuck' = FALSE
  /\ loopAge' = 0
  /\ beat' = [s \in Senders |-> NoBeat]
  /\ handler' = [h \in Handlers |-> [handler[h] EXCEPT !.of = "nobody"]]
  /\ UNCHANGED <<tables, down, faults>>

-----------------------------------------------------------------------------
(* DELETE /api/devices/:id removes the row of devices, and no other. *)
Delete ==
  /\ row.exists
  /\ Fault
  /\ row' = NoRow
  /\ UNCHANGED <<agent, diag, torn, handler, down>>

NetworkFails == ~down /\ Fault /\ down' = TRUE /\ UNCHANGED <<agent, tables, handler>>
NetworkReturns == down /\ down' = FALSE /\ UNCHANGED <<agent, tables, handler, faults>>

Older(age) == IF age = TooOld THEN TooOld ELSE age + 1

Grown(age) == IF age < StuckAge THEN age + 1 ELSE age

(* A unit of time passes.  It is longer than the agent waits for an answer   *)
(* and than the queries of a handler take.  A command may hold the main loop *)
(* all the time, a transfer the file worker.                                 *)
Tick ==
  /\ Idle
  /\ row' = [row EXCEPT !.seen = Older(@), !.errorAge = Older(@), !.failedAge = Older(@)]
  /\ monitor' = MonitorTick(monitor)
  /\ loopAge' \in IF stuck THEN {Grown(loopAge)}
                 ELSE IF phase = "running" THEN {0, Grown(loopAge)} ELSE {0}
  /\ UNCHANGED <<phase, err, told, tracker, stuck, beat, diag, torn, handler, down, faults>>

Handle(h) == Update(h) \/ Event(h) \/ Save(h)

Next ==
  \/ Register \/ RegisterFails \/ Restart
  \/ \E s \in Senders :
       \/ Beat(s) \/ Retry(s)
       \/ \E retryable \in BOOLEAN : GiveUp(s, retryable)
  \/ \E h \in Handlers : Handle(h) \/ QueryFails(h)
  \/ CallOk
  \/ \E source \in {"command", "other"}, retryable \in BOOLEAN : CallFails(source, retryable)
  \/ \E failed \in BOOLEAN : ReportOperation(failed)
  \/ Watch \/ Stick \/ Unstick \/ LoopsTurn
  \/ Delete \/ NetworkFails \/ NetworkReturns \/ Tick

(* The tickers of the agent fire, its requests are sent and handled, and     *)
(* time passes.  Nothing obliges an outage, a command or a transfer to end.  *)
Fairness ==
  /\ WF_vars(Register)
  /\ WF_vars(Beat("main"))
  /\ WF_vars(\E s \in Senders : Retry(s))
  /\ WF_vars(\E h \in Handlers : Handle(h))
  /\ SF_vars(Watch)
  /\ SF_vars(Tick)

Spec == Init /\ [][Next]_vars
FairSpec == Spec /\ Fairness

-----------------------------------------------------------------------------
(* getDeviceSummaries, getDeviceHealth and the fleet of the dashboard. *)
Listed == DeriveHealth(row, diag)
Detailed == DiagnosticsHealth(row, diag)
Counted == FleetCards(Summary(row, diag))

(* The lists, the page of one device and the counters of the dashboard,      *)
(* which compute the health of a device separately (health.js,               *)
(* diagnostics/service.js, admin/summary.js), agree on it, and no device     *)
(* escapes the counters.                                                     *)
ViewsAgree ==
  row.exists =>
    /\ Listed = Detailed
    /\ "offline" \in Counted <=> Detailed = "offline"
    /\ "degraded" \in Counted <=> Detailed \in {"degraded", "warning", "stale"}
    /\ Counted # {}

(* While a command that does not end holds the main loop (main.go), or a      *)
(* transfer the file worker, the device is not shown healthy for longer than  *)
(* a loop may be stale, forced heartbeats of the socket goroutine included;   *)
(* half a heartbeat stored is the exception.                                  *)
StuckIsShown == loopAge >= StuckAge => Listed # "healthy" \/ torn

(* An error the agent holds is forgotten only when an event of it has been   *)
(* stored, or it was recorded while the heartbeat that is answered was under *)
(* way (clearAgentError, heartbeat.go), or by registering or starting anew.  *)
NoErrorLost ==
  [][(err # "none" /\ err' = "none")
       => told \/ phase = "registering" \/ phase' = "registering"
          \/ \E s \in Senders : beat[s].later /\ beat'[s] = NoBeat]_vars

(* What a heartbeat reports is what the lists show when it is stored, unless *)
(* another was handled beside it: trouble is not hidden by an older row, nor *)
(* does it outlive a clean report, but for an error nobody clears.           *)
ShownAsReported(snap) ==
  /\ snap.attention \/ snap.mode = "degraded" => Listed = "degraded"
  /\ ~snap.attention /\ snap.mode = "recovering" => Listed = "recovering"
  /\ snap.err \in DeviceSources => Listed \in {"degraded", "recovering"}
  /\ snap = Blank => Listed \in {"healthy", "warning"} \/ row.error = "other"

Stores(h) == handler[h].pc = "save" /\ handler[h].of \in Senders /\ row.exists /\ torn /\ ~torn'

HeartbeatIsShown ==
  [][\A h \in Handlers :
       Stores(h) /\ handler[h].alone
         => \A snap \in {handler[h].snap} : ShownAsReported(snap)']_vars

(* When trouble is over the agent reports it no more, and it is no longer     *)
(* shown (recovery.md: "status returns to Healthy after subsequent successful *)
(* heartbeats"), unless the watchdog has run all its repairs.  Heartbeats     *)
(* take seconds and come every thirty: they do not overlap for ever.  No      *)
(* command and no transfer holds a loop when it is calm.                      *)
Calm == row.exists /\ ~down /\ ~stuck /\ loopAge = 0 /\ phase = "running"

HealthyAgain ==
  []<>Idle /\ <>[]Calm =>
    /\ <>[](diag.mode = "normal")
    /\ \/ <>[](monitor.repairs = MaxRepairs)
       \/ <>[](Listed \notin {"degraded", "recovering"}) /\ []<>(Listed = "healthy")

(* A device that cannot reach the backend any more is shown offline in the   *)
(* end, whatever its last heartbeat said.                                    *)
SilentIsOffline == <>[]down => <>[](Listed = "offline")

(* web/app/devices/[id]/DeviceDangerZone.tsx:13, of a deleted record: "A      *)
(* running agent may register again on a future heartbeat."  Of an agent that *)
(* runs on, reaches the backend and sends its heartbeats.                     *)
DeletedComesBack ==
  phase = "running" /\ ~row.exists ~>
    row.exists \/ phase # "running" \/ down \/ stuck

-----------------------------------------------------------------------------
(* What the run checks and the theorems state, part by part above. *)

(* All views show one health, and not a healthy one of a stuck device. *)
HealthIsTrue == ViewsAgree /\ StuckIsShown
=============================================================================
