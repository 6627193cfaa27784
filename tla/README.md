# A TLA+ model of SetuLink remote control

SetuLink (`src/remote-control`) lets an operator run commands on, send files to,
and look at the desktop of Windows machines. Five programs take part: an Express
server with PostgreSQL behind it (`server/src`), a Go agent on every device
(`agent`), a Next.js site used by operators and remote users (`web/app`), an
Electron shell around that site, and an installer with an updater for the agent.

What is hard about it is that nearly every protocol has two actors that act
without looking at each other: the agent polls over HTTP *and* is pushed to over
a WebSocket; the server's handlers read a row, await, and write it; the agent
retries requests whose first attempt may still be applied; an administrator
changes an account while its sessions are being made; and both ends can be
restarted in the middle. The modules below are about those interleavings.
Paths in this file are relative to `src/remote-control`.

## 1. Inventory

| Part | State it keeps | Operations | Talks to | Hard behaviours | What makes it correct |
|---|---|---|---|---|---|
| Remote commands (`server/src/index.js`, `agent/main.go`, `ws.go`) | `commands`, `command_results`; the agent's two executing goroutines | dispatch, push, poll, command-started, execute, command-result | sockets, HTTP | both goroutines may execute one command; retried and abandoned uploads; crashes | no command lost, no invented result, repetition bounded and explained, a stuck `running` row has a cause |
| Device actions (`index.js`, `agent/actions.go`) | `device_actions` | create, push, claim, execute, action-result, service restart | sockets, HTTP, SCM | a claim answered to nobody; a pushed action is unclaimed; an action that kills its executor | once per channel; stranded only by a fault |
| File transfer (`index.js`, `agent/file_transfer.go`) | `fileJobs` array, `file_jobs` rows, the files directory | upload, serve, re-serve after 30 s, download, complete, failed | HTTP | memory and row change in separate steps; array lost at restart | served until reported; "completed" means saved; memory and row agree |
| Agent and browser sockets (`wsServer.js`, `agent/ws.go`) | `connectedAgents`, `remoteDesktopBrowsersBySession`, `browserClientsByDevice` | register, close, accept browser, relay, stop | every push | late close of an old socket; a browser that closes while it is being checked | the registered socket is the live one; no ghost viewers |
| Relay runtime (`agent/remote_desktop_relay.go`, `session_launcher_windows.go`) | registry of runtimes, helper processes | start, stop, launch, stream, fail | sockets, helper pipe | two starts, a stop before the registration, a silent helper | one relay and one helper per session; a cancelled one ends |
| Remote desktop session (`remoteDesktop/sessions.js`, `handlers.js`) | `remote_desktop_sessions` | create, admit, pair, media-active, end, status uploads, lazy expiry | agent, browser | every writer looks at nothing when it writes | what final and connected mean |
| Grants (`remoteAccess/grants.js`, `handlers.js`) | `remote_access_session_grants` | issue, validate, start, end, expire | agent | concurrent starts, two clocks | one token, one start, none after the database's clock says it is over |
| Remote-access login (`remoteAccess/handlers.js`, `verification.js`, `session.js`, `dashboard.js`) | codes, `remote_access_sessions`, the cookie and the pages | login, resend, verify, logout, dashboard, device page | browser, mail | codes are read, compared, counted and consumed in separate queries; mail refused; the account changes meanwhile | one session per code, few guesses, the newest code counts, what is over stays over, a page shows what the scope allows |
| Admin sessions (`auth.js`, `auth/sessions.js`, `auth/middleware.js`, `acknowledgement.js`) | `admin_sessions`, cookies | login, refresh by rotation, silent refresh in the middleware, acknowledge, logout | browser | two refreshes with one token; a logout beside a refresh; a revocation beside a login | a login has one active session, none after logout; a revocation misses only what was under way |
| Rate limiter (`auth/rate_limit.js`) | counters in memory | check, failure, success, window | logins | asked before, told after | failures exceed the maximum only by those under way |
| Access users (`access/users.js`, `admin/handlers.js`) | `access_users`, `user_device_scopes` | create, update, scope, reset, revoke | admin | an update is read, written and read again; the scope is replaced row by row | the scope is one somebody asked for; revocations are complete |
| Device directory, health (`index.js`, `health.js`, `diagnostics/`, `admin/summary.js`) | `devices`, `device_diagnostics`, health events | register, heartbeat, delete, three derivations of a status | agent | two heartbeats at a time, half a heartbeat stored, deletion under a live agent | the views agree and show what is the matter; an error is told before it is forgotten |
| Recovery tracker and watchdog (`agent/internal/recovery`, `watchdog`, `agent_recovery.go`) | mode, failure counters, repair counters | record, evaluate, repair, escalate | agent loops | four goroutines feed one state | back to normal after trouble, unless the repairs are used up |
| Upgrade and updater (`agent_upgrade.go`, `internal/upgrade`, `installer/SetuLinkSetup/updater`) | state file, binaries | stage, apply, replace, verdict, rollback | server, SCM | crash between remove and rename | a startable binary is in place |
| Frame queue (`wsServer.js`, 304-373) | one pending frame per browser, timers | queue, send, retry | browser | timer and callback in any order | the last frame arrives |
| Confirmation rules, audit, timeline, start-up, configuration, logging, capture and input, Electron, installer, scripts | in `PROJECT.json` | | | | |

Interactions: HTTP requests of the agent (all through `doAgentRequest`, which
retries) and of the browsers; JSON messages on the agent's and the browsers'
sockets; PostgreSQL rows shared by all handlers, read and written by single
statements without transactions; maps and arrays in the server's memory, lost at
a restart; a named pipe between the agent and its desktop helper.

## 2. Modules

| Module | Models | Run | Proofs |
|---|---|---|---|
| `CommandDispatch` | remote commands, whole | `command` | `CommandDispatchProofs` |
| `ActionDispatch` | device actions, whole | `action` | `ActionDispatchProofs` |
| `FileJobs` | file transfer, whole | `file`, `file_restart` | `FileJobsProofs` |
| `RemoteDesktopRelay` | agent connections, the browsers of one session, the relay runtimes | `relay`, `relay_ghost` | `RemoteDesktopProofs` |
| `RemoteDesktopSession` | the status column of one session and all its writers | `session_status` | `RemoteDesktopProofs` |
| `GrantLifecycle` | what a grant promises: the abstract specification | | |
| `SessionGrant` | the handlers of one grant; implements `GrantLifecycle` | `grant` (through `MCSessionGrant`) | `RemoteDesktopProofs` |
| `AccessUsers` | one account, its scope, the desk that changes them, what a change revokes | in `admin_access` and `remote_login` | `AccessUsersProofs` |
| `LoginRateLimiter` | the counter of one key of the limiter | in `admin_access` and `remote_login` | |
| `AdminSessions` | the admin sessions of that account; extends the two above | `admin_access` | `AdminSessionsProofs` |
| `RemoteLogin` | codes, sessions and pages of that account as a remote user; extends the same two | `remote_login` (through `MCRemoteLogin`) | `RemoteLoginProofs` |
| `HealthStatus` | from the rows of a device to its health: lists, device page, counters | part of the next | |
| `AgentRecovery` | recovery tracker and watchdog as pure functions of their state | part of the next | |
| `DeviceHealth` | the agent's trouble, its heartbeats, their handlers, the rows; extends the two above | `device_health`, `device_deleted` | `DeviceHealthProofs` |

Conventions shared by all modules:

- **A handler is cut at its awaits.** What JavaScript runs between two awaits is
  one step; each awaited query is a step of its own. A Go goroutine is cut where
  it waits for a request, a message, an execution or a lock. `PROJECT.json`
  "map" gives the lines of every definition.
- **A request in flight is a record.** It stays in `requests` (`uploads`) until
  the server has answered or forgotten it. A sender that gives up on an attempt
  may leave the record behind (`live = FALSE`): it can still be applied, at any
  time. A lost answer is that same case. In the account modules a request is a
  slot with a program counter; in `DeviceHealth` a handler whose sender gave up
  has `of = "nobody"`.
- **Faults are counted** (`faults < MaxFaults`) so that a property can say "only
  if something failed", and so that TLC's state space is finite. `disturbed` is
  the set of rows a fault has hit; it is a history variable, read by properties
  only.
- **Time** appears as nondeterministic expiry (`Age`, `appDue`, `dbDue`, `due`,
  `AccessExpires`, `CodeExpires`): a deadline passes whenever it likes, which
  includes every real schedule. Only `DeviceHealth` counts, for its properties
  compare ages.
- **Invariants have named parts.** What a run checks is often a conjunction of
  two or three (`NothingStranded == UntakenStaysOffered /\ ...`); the parts are
  stated, commented and proved one by one above it.
- **Names.** The three modules of remote desktop are proved about in one module,
  so what each of them has (its initial states, steps, types) has a prefix in two
  of them: `GrantInit`, `GrantNext`, `SessionInit`, `SessionNext` and so on.
- **Variants.** An operator `Op_Something` above `Op` is a plausible bug. No
  specification uses it. `PROJECT.json` "mutants" names the property that TLC
  finds violated when `Op` is defined as that variant.
- Payloads, output, summaries and timestamps are left out unless a property is
  about them; ids are model values.

### CommandDispatch

`status`, `order` and `rows` are the two tables; `registered` and `wire` the push
channel; `pc`, `cmd`, `try`, `outcome` the two goroutines. `Dispatch`/`Push` are
the POST handler, `Poll` is GET next-command (it claims nothing), `Receive` the
WebSocket loop, `ApplyStarted`, `ApplyResult` and `InsertRow` the upload handlers
with the two statements of a result apart. The socket's goroutine notices a dead
connection only when it reads, so `Connect` needs it idle.

### ActionDispatch

As above, but the poll claims. `Choose` and `Mark` are the two halves of
`claimNextAction`'s `UPDATE ... WHERE id = (SELECT ...)`: under PostgreSQL's
default READ COMMITTED the subquery runs on the statement's snapshot and, after a
wait for the row, only `id = ...` is checked again, so another statement can
commit in between. `ServiceRestart` is the restart an action asks for: the
service's stop waits for the main loop (`service_windows.go`, `<-errCh`) but not
for the WebSocket goroutine.

### FileJobs

`fileJobs`, `mem` and `stale` are the array, `row` the table. Every handler has a
memory step and a row step, in that order; `Insert` comes after the job is
already offered, and can fail. `Age` lets thirty seconds pass.

### RemoteDesktopRelay

One session, any number of browsers, `MaxConns` connections of the agent. A
runtime is named after the browser whose start spawned it (a socket asks once).
`inbox[k]` holds the starts and stops the server has sent on connection `k`.
`Cancelled(r)` is the runtime's context: a stop reached it, or the connection it
was started from is gone. `early`, `overtaken`, `unsent` and `superseded` record
which unlucky interleaving happened, so that the invariants can say precisely
when a relay may be left running. `missed` holds the browsers whose start the
agent dropped (`Register`) because the runtime in the registry was ending: told to
stop, cut off, or uploading that it failed. `AcceptedGetsRelay` asks for a runtime
that relays (`Relaying`), and excuses those alone.

### RemoteDesktopSession

The status column under the handlers of the browser (each a SELECT, then an
UPDATE that no longer looks), the lazy expiry, and the uploads of the agent.
Sessions come from `createRemoteDesktopSession` in `waiting_for_agent`.
The start a browser causes is sent by `Admit` and read by `TakeStart`, any time
later: the agent's socket loop executes pushed actions and commands itself
(`agent/ws.go`, 89 and 122) and reads nothing meanwhile, so a start can be read
after its session has ended, and a relay begins for it all the same. `starts`
counts those not read. An upload is tried again (`Retry`, three tries in
all); the attempts given up on may stay with the server, and be applied when they
like. `FinalForBrowsers` says what remains true: a final session is sent a start,
or comes back, only by what had read it before or by an upload of the agent, and
when those leftovers are gone (`AtRest`) it has no relay and stays final for ever.

### SessionGrant and GrantLifecycle

`GrantLifecycle` has three variables and says: a granted token is started at most
once, by one holder, not when the database's clock is past its time, is recorded
as expired only when the server's is, and final is final. `SessionGrant` has the
handlers with their separate validation and update, retries, and two clocks, which
need not agree. `KeepsThePromise` is the refinement, in which the two clocks are
the abstract `due`.

### AccessUsers, AdminSessions, RemoteLogin

`user` is the row of one account, with a counter for its password; `scope` its
rows in `user_device_scopes`. `req[s]` is what slot `s` is doing: the desk's
update (`getUserById`, UPDATE, the scope's DELETE and INSERTs, `getUserById`
again, the two revocations that compare before and after), or a request of the
account itself. The two modules that extend `AccessUsers` add the user's side.

In `AdminSessions` the browser's two cookies name rows of `adminSessions`; a
rotation is a SELECT, an UPDATE and an INSERT (`FindSession`, `RetireSession`,
`ReplaceSession`), reached by the refresh route and, silently, by the middleware
of every route. `from` is `rotated_from` followed to the login.

In `RemoteLogin` a slot is a tab of the user's browser, with the page it shows.
`FindCode`, `CountAttempt`, `ConsumeCode`, `VerifyUser`, `CreateSession` are the
queries of a verification; `InsertCode`, `MailCode`, `ReplaceOthers` (or
`DeleteCode`, when the mail is refused) those of an issue; `ReadScope` and
`QueryDevices` those of the dashboard. What a page does with each answer, and
without one, is part of the step that answers.

History variables name the races the code permits: a session is `late` when the
request that inserted it had begun before the latest revocation; `crossed`,
`outrun` and `raced` hold the logins and codes that two handlers had both found
open; `overlapped` says that two changes of the row overlapped.

### HealthStatus, AgentRecovery, DeviceHealth

`HealthStatus` holds the three derivations (`DeriveHealth` for the lists,
`DiagnosticsHealth` for the page of a device, `FleetCards` for the dashboard's
counters) as operators on the two rows; `AgentRecovery` the tracker's and the
watchdog's transitions as operators on their records. `DeviceHealth` makes them
a system: `err` is the agent's last error and `told` whether an event of it is
stored; `tracker`, `monitor`, `loopAge` what the snapshot of a heartbeat is built
from (the two goroutines' heartbeats are `beat["main"]` and `beat["socket"]`); a handler
goes through `Update` (the row), `Event` (the health event) and `Save` (the
diagnostics). `torn` says that a heartbeat is in the first table and not in the
second. `loopAge` is the age of the loop that is furthest behind: those of the main
goroutine, which a command holds (`stuck`), or the file worker, which a transfer
holds (`file_transfer.go:26`). Which loop it is, is not kept, so `LoopsTurn` lets
the age fall at any time, by any amount, while the main loop is held too: more than
the code does, and never less. Ages are counted in units longer than one request with its handling, and
stop at the first value beyond every threshold.

## 3. Runs

| Run | Instance | Shows |
|---|---|---|
| `command` | 2 commands, 2 attempts per upload, 1 fault | the poller repeats a command only after an unanswered start, a push runs once (`ExecutionsExplained`); no invented outcome, no missing result row (`OutcomesKept`); nothing lost before or stuck during execution without a fault (`NothingStranded`); a row never becomes pending again; every command is begun unless a fault hit it, and without faults all settle |
| `action` | a restart and a plain action, 2 polls, 2 attempts, 1 fault | each goroutine runs an action once (`ExecutedOnce`); final statuses are real; a stranded row needs a fault, and a service restart is none; begun unless claimed by nobody; settles without faults |
| `file` | 2 files, 2 polls, 2 attempts, 2 faults | completed means saved; a second download needs a lost report; the row keeps up with the memory, with two named exceptions; a job ends unless the server restarts |
| `file_restart` | 1 file, 1 fault | **violated**, see findings |
| `relay` | 2 browsers, 2 connections, 2 faults | one relay and helper, left running only in named ways (`RelaysExplained`); stops spare later viewers; ghosts closed early and the registered connection is the live one unless superseded (`BooksExplained`); cancelled relays end; accepted browsers get a relay that works, unless their start met one that was ending (`AcceptedGetsRelay`) |
| `relay_ghost` | 1 browser, no fault | **violated**, see findings |
| `session_status` | 2 admissions, 3 tries per upload, 3 uploads lost or restarts of the agent | what a browser can no longer do to a final session, and that it comes to rest (`FinalForBrowsers`); connected implies a frame |
| `grant` | 4 start requests, 2 end requests, symmetric | one holder and a row that says so (`HoldersExplained`), and the refinement |
| `admin_access` | 2 handlers at a time, 3 requests, 1 fault; the desk changes type and activity and resets passwords | a revocation misses only what was under way (`RevokedStaysOut`); a login has one session and none after logout (`LoginHasOneSession`); failed logins are bounded |
| `remote_login` | 2 tabs or handlers at a time, 3 requests, 1 fault, 1 device, symmetric; the desk changes remote access and scope | `CodesAreBounded`, `NewestCodeCounts`, `SessionsEnd`, `ScopeHolds` |
| `device_health` | 2 handlers at a time, 2 attempts, 1 fault, thresholds 0 to 3 units | views agree and a stuck loop shows (`HealthIsTrue`); no error is forgotten untold; a stored heartbeat is shown as it reported; healthy again after trouble; a silent device goes offline |
| `device_deleted` | 1 handler, otherwise the same | **violated**, see findings |

One run per component checks its safety and its liveness together, under the
fair specification; a violation has a run of its own. A type invariant is in a
run only where it is not proved: the other modules' `TypeOK` are theorems.

Bounds. Two commands, actions or files are enough for every ordering question
(who is older, who overtakes); each exists once per row id, so a third adds
interleavings of independent rows only. Two attempts show everything a third
would: the properties distinguish first, abandoned and answered attempts. Every
kind of fault can happen at every step; one fault is also enough to leave a
request behind that overtakes later ones. Two faults (files, relay) add a fault
during the recovery from another. Two browsers are a ghost or a leaving viewer
and one who stays; two connections allow one late event of an older connection.
Four start requests allow three losers of one race. In the session's run an upload
has its three tries, and three may be lost: all tries of one, or some of several,
so that an abandoned "media_starting" can meet a later "connected" and "failed". For
all of these the proofs remove the bounds altogether. `MaxTries` and `MaxPolls` are
3 and 2 in the code.

In the account modules every race the code has is between two handlers, and the
third request is there to see the damage: a race of two verifications and a
resend, a rotation, a logout and a request with the new cookie. `MaxAttempts` and
`MaxCodeAttempts` are 1 where the code has five, so that three requests can
exceed them; initial states include an account that is in the middle of a login
or has been in for a while, which a longer history would only lead to.

In `device_health` the thresholds keep their order and their relations (a warning
before offline, two failures to degrade, three for attention, one repair) and are
as small as that allows; `HealthyAge` is zero units, so that one unit without a
heartbeat is noticed. The safety of this module is proved for all thresholds.

Deadlock checking is off where a system at rest is legal (all commands finished,
all browsers gone, all requests made), and on in the runs of actions, files and
health, whose agents go on for ever.

## 4. Fairness

Weak fairness of what the runtimes guarantee: tickers fire and goroutines run; a
request is applied, or its sender times out (`Live(w) = {}`); handlers proceed
after their awaits; the reconnect loop dials again; downloads, pipe accepts and
launches have time limits; thirty seconds pass. No fairness of faults, operators,
browsers, crashes or restarts. Two assumptions deserve a name: that a *command
ends* (`ExecuteEnds`) is an assumption on commands in `CommandDispatch`, for the
executor has no time limit (what an endless command does to the device's health
is in `DeviceHealth`, which does not assume it); and a helper that is alive may
never send a message, so `StreamStops` has no fairness and `CancelledRelayEnds`
rests on `KillHelper`.

`DeviceHealth` has weak fairness of `Register`, the main loop's heartbeat
(`Beat("main")`), retries and handlers, and strong fairness of `Watch` and
`Tick`: the watchdog's ticker and the clock are held up by every single request
or command, but not by all of them for ever, since both a request and the pause
between heartbeats have their own length. `Stick` and `Restart` are not bounded:
`HealthyAgain` assumes instead that trouble ends (`<>[]Calm`) and that heartbeats
do not overlap for ever (`[]<>Idle`; they take seconds and come every thirty).
`AdminSessions` and `RemoteLogin` state safety only.

## 5. Proofs

All theorems hold for every value of the constants (any number of commands,
actions, files, browsers, requests, any thresholds in their order, any bounds).
Every safety invariant and action property of the nine passing runs is proved.

- `CommandDispatchProofs`: `Safety == Spec => []IInv`, where `IInv` has fifteen
  conjuncts. The invariants the run checks are not inductive: whether an outcome
  is real depends on the uploads in flight carrying outcomes that ended
  (`OutcomesEnded`); that a live upload agrees with what its goroutine is doing
  (`LiveMatches`, `LiveUnique`) is needed to say which execution an answer
  starts; abandoned uploads belong to disturbed commands (`OrphansDisturbed`);
  a running row without fault has a worker (`RunningHasWorker`); an answered
  start takes a command out of the poller's sight (`AnsweredStartLeft`); a
  pushed command is in exactly one of `pushing`, `wire` and executed-by-ws
  (`PushedOnce`). One lemma per action. Assumptions: `MaxTries` is positive and
  `None` is neither a command nor an outcome.
- `ActionDispatchProofs`: in layers. `Shapes` (a request past its claim has an
  action) with the types; `OutcomesEnded`; `OneAttempt` (a worker waits for one
  request, only the poller claims); `Claimed`: a running row is the poller's
  current action or was disturbed - the socket's goroutine never settles a row,
  which is why its death in a service restart strands nothing; `PollOnce` and
  `PushOnce` for `ExecutedOnce`. Assumption: actions are finitely many (ranks).
- `FileJobsProofs`: `SavedFirst` (every report of success is of a saved file),
  then `OneAttempt`, `Untouched` (of a job not yet in memory there is nothing
  anywhere), `Counted` (downloads against lost reports) and `RowsFollow` (who
  still owes the row its status).
- `RemoteDesktopProofs` has three parts, for they share a chapter of the system
  and no state. *The relay*: all invariants of the run, from one inductive
  invariant in four layers, each proved from the ones before: connections are
  numbered in the order they were dialled (`ConnLatest`); what a browser's stage
  says of its socket (`BrowserStages`); a start is sent once, before its runtime
  exists (`StartsFresh`, `StartsOnce`), and only a launched runtime has a helper
  (`HelpersServe`); every viewer whose start precedes a stop has left, and a
  start without clients has a stop behind it (`StopsFollow`, `StartsCovered`).
  The last layer is why a stop that names only a session does not hit a later
  viewer: it rests on one connection delivering in order and on the browsers'
  map being emptied before the stop is sent.
  *The status*: `FrameFirst` (uploads of "connected" in flight imply a frame) and
  `LateCalls` (a handler that may still write over a final status had read the
  row before), with `RestKept`: of a session at rest every reader sees a final
  status, so no start is sent and nothing is left to write but "ended" or
  "expired". *The grant*: one holder and a consistent row from one inductive
  invariant, and `ImplementsLifecycle`: every step of the handlers is a step of
  `GrantLifecycle` or a stutter, for any number of requests. That what expires the
  grant was due needs `ExpiringIsDue`: the handler that goes on to the UPDATE has
  seen the server's clock past it, and clocks do not go back.
- `DeviceHealthProofs`: `ViewsAgree` needs that the diagnostics of an absent row
  are blank (`AbsentIsBlank`); `StuckIsShown` that every snapshot in flight since
  the loop furthest behind became stale says so (`StartingTurns`,
  `StaleReported`, `StaleShown`), whichever loop that is;
  `NoErrorLost` that a heartbeat whose answer will clear an error carries it and
  stores its event before it saves (`Claims`, `ErrorInSnap`, `ToldWhenSaved`);
  `HeartbeatIsShown` that a handler alone so far is alone, and finds the row as
  it left it (`AloneIsAlone`, `AloneFindsRow`).
- `AdminSessionsProofs`: `Typed` needs that a session a handler names is there
  and that no password is numbered past the resets asked for. For
  `LoginHasOneSession`: of a login that no two handlers crossed on there is one
  active session or one handler about to insert its successor (`OneChain`), and
  a session just made is known only to the handler that made it (`Secret`,
  `FreshIsLast`). For `FailuresBounded`: failures and the logins past the limiter
  together stay under the bound (`Limited`). For `RevokedStaysOut`: either no
  session and no handler about to insert one is from before the latest
  revocation (`UpToDate`), or a handler of the desk is still on its way to
  revoke (`Disabled`, `Demoted`, `OldPassword`); `Demoted` also says why
  overlapping changes are excepted. Assumptions: the bounds are naturals, the
  handlers are finitely many, at least one attempt is allowed.

- `AccessUsersProofs`: no theorem of a run by itself, but what the desk does,
  whatever the requests next to it are; `RemoteLoginProofs` builds on it
  (`AdminSessionsProofs` proves the steps of the desk itself, since its invariants
  need the detail of each). `DeskOK` (types; a change under way
  has an account to change; no password is numbered past the resets asked for)
  and `ScopeKept` (one change at a time, and the scope is what was asked for, or
  what is missing is still in its `todo`) are kept by every step of the desk,
  whatever the requests next to it are (`DeskKept`, `DeskScope`), and by every
  step that leaves the account and the desk's requests alone (`OthersKeepDesk`,
  `OthersKeepScope`). `DeskEffect` is all that the other side needs to know: the
  slot goes on, and the others are at most marked late or shown more.
- `RemoteLoginProofs`: `Typed` adds to the types that codes and sessions named by
  a request, a page or the cookie are there, and that the rows together with the
  requests that may still insert one were all asked for (`Counts`), which is why
  `MaxCodes` bounds the ids. Most steps are *quiet*: they leave the codes no more
  open, the sessions no more active, and let no request come nearer to either; a
  lemma says so once (`UserTyped`, `Quiet`), and the invariants about codes
  look at the six noisy steps only. `AttemptsKept`: attempts and the guesses about
  to be counted are together under the bound. `OneUse`: a code that was not raced
  is open, or held by one verification, or has its session. `Older` and
  `Newest`: before a page is told of a code, every older one has been closed; if
  no two issues crossed, only one is sending, and it sends the newest.
  For the sessions a step of a page is summed up by what it does to them and to
  the views (`UserEffect`). `Viewed`: a view may already show all that its next
  read could yield, in particular everything once it has read a mode "all" that
  has changed since. `Disabled`: while the account is disabled, every active
  session and every session about to be inserted is late, or a change is still
  on its way to revoke. `Signed`: what a page has declared over is inactive or
  late, or such a change is certain to revoke (`WillRevoke`: it has read the
  disabled row, or will); a logout that was answered 401 while the account was
  disabled is the case that needs both. Assumptions: as for `AdminSessions`.

Only model-checked: liveness (the prover has no fairness and no ENABLED).

## 6. Findings

1. `relay_ghost`: `docs/architecture/current-state.md:48` says the stop is sent
   "when the last browser leaves a session"; a browser that closes during the
   two awaits of its acceptance is registered after its close event, for ever,
   and the agent keeps capturing the desktop for nobody.
2. `file_restart`: `docs/runbook/troubleshooting.md:140` expects that "file jobs
   are downloaded into the configured files directory and completion is posted";
   jobs are served from memory only, so a restart of the server strands every
   unfinished row.
3. `device_deleted`: `web/app/devices/[id]/DeviceDangerZone.tsx:13` tells whoever
   deletes a record that "A running agent may register again on a future
   heartbeat." Heartbeats of a deleted device are answered 404, and the agent
   registers only before its loops start: while it runs, it never comes back.

Behaviours the passing runs document by their exceptions: a polled action whose
claim is lost is never executed; a pushed action, and a pushed command, can run
twice, once in each goroutine; a file job served before its INSERT is committed
can leave a row at pending for ever; a late upload can set a finished command
back to running; two refreshes with one token make two sessions of one login;
two issues of a code that cross consume each other's code, and leave none; a
session inserted by a login that began before a revocation survives it; an error
of an action or a repair is not cleared by a clean heartbeat and only ages; a
browser whose start arrives while the session's runtime is ending gets no relay; a
start that waits in the agent's socket while a command runs begins a relay for a
session that has ended meanwhile; operator attention stays when the repairs are
used up, whatever happens to the backend later (`recovery.md:63` means it so).

Noticed on the way, and not stated as properties: the test at
`server/src/remoteAccess/__tests__/remote_access.test.js:668` is titled "remote
desktop connected state requires browser-confirmed media", while the agent's own
upload at its first frame makes a session connected with no word of the browser
(`ApplyUpload` is that step; `ConnectedMeansFrame` is what does hold); for a
degraded device with an old heartbeat the list says `connectionStatus` online
and the device page stale; the label in the agent's configuration overwrites an
administrator's environment label at each heartbeat; codes survive a password
reset, and open a session of the new password's account.

## 7. Not modelled, and why

- The **updater** and the upgrade state file: file and service operations of one
  process at a time on one machine. Their hazards are crashes between two file
  operations and what the service manager does then, which the source does not
  determine.
- The **frame queue**: its pace is that of timers and buffer sizes, and no other
  state depends on it.
- Watching browsers of a command's output, and the output itself: read by no
  other step.
- In the account modules: the administrator configured by environment variables
  (who has no row to revoke), a second account with the same address, and changes
  of an address. One account is enough: handlers of different accounts share no
  row, and the limiter's counters are per address and per account.
- In `DeviceHealth`: the environment label, the upload route
  `/api/agent/diagnostics` (the agent has no call of it), the separate failure
  counters of the command and file workers in the watchdog, which add reasons for
  the same attention (the file worker's loop is part of `loopAge`). A heartbeat
  also carries the summaries of the last command and the last file
  (`index.js:1057-1058`): they repeat what the report of that operation stored, and
  add to it only when the report was lost, in which case the model's `failedAge`
  stays old. `ReportOperation` is the reports themselves, of commands and files. A request that times out is either retryable or not in the model:
  which of the two the HTTP client reports depends on the Go version.
- A crash of the agent in `RemoteDesktopRelay` is the loss of its connection
  together with its runtimes, which the model covers only for the connection.
- Rendering and page logic of the web and Electron clients beyond what a page
  does with the answers of a login, the calls into Windows (capture, input,
  clipboard, secure attention), installer and deployment scripts run by hand,
  start-up and configuration, logging, audit and read-only views, confirmation
  rules (pure validation of one request body).
