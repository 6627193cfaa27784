------------------------- MODULE RemoteDesktopRelay -------------------------
(***************************************************************************)
(* Who relays one remote desktop session, and for whom: the server's maps  *)
(* of agent and browser sockets (server/src/wsServer.js), the start and    *)
(* stop messages it sends the agent, and the agent's registry of relay     *)
(* runtimes (agent/ws.go, agent/remote_desktop_relay.go).                  *)
(*                                                                         *)
(* A browser socket asks for the relay at most once, so the runtime that   *)
(* its remote-desktop-start spawns is named after it.  The status column   *)
(* of the session is in RemoteDesktopSession; here the SELECT that admits  *)
(* a browser may find any status.                                          *)
(***************************************************************************)
EXTENDS Naturals, Sequences

CONSTANTS
  Browser,      \* browser sockets that open the session's relay URL
  MaxConns,     \* bound on the connections the agent dials
  MaxFaults     \* bound on connections and servers that break unprovoked

ASSUME MaxConnsAssumption == MaxConns \in Nat \ {0}
ASSUME RelayFaultsAssumption == MaxFaults \in Nat
ASSUME BrowserAssumption == {"none", "stop"} \cap Browser = {}

VARIABLES
  (* the server *)
  agent,        \* connectedAgents.get(deviceId), 0 for none
  sockets,      \* agent connections that are open at the server
  registering,  \* connections whose register message is on its way
  inbox,        \* per connection: starts (named by their browser) and stops
  stage,        \* how far acceptRemoteDesktopBrowser is with each browser
  open,         \* browser sockets that are open
  clients,      \* remoteDesktopBrowsersBySession.get(sessionId)
  (* the agent *)
  conn,         \* the connection it listens to, 0 for none
  dialled,      \* connections dialled so far
  phase,        \* what each runtime is doing
  home,         \* the connection whose context each runtime derives from
  stopped,      \* runtimes cancelled by a remote-desktop-stop
  registry,     \* remoteDesktopRuntimes.active[sessionID], "none" for none
  helpers,      \* runtimes whose helper process is alive
  (* bookkeeping *)
  faults,
  missed,       \* browsers whose start was dropped while the registered runtime was ending
  early,        \* browsers that closed before their close handler was there
  overtaken,    \* runtimes that were not registered yet when a stop was read
  unsent,       \* a stop was due while the agent's connection was not the registered one
  superseded    \* connections whose entry an older connection's event replaced or removed

serverVars  == <<agent, sockets, registering, inbox, stage, open, clients>>
runtimeVars == <<phase, home, stopped, registry, helpers, missed>>
agentVars   == <<conn, dialled, runtimeVars>>
history     == <<faults, early, overtaken, unsent, superseded>>
vars        == <<serverVars, agentVars, history>>

-----------------------------------------------------------------------------
Conn   == 1..MaxConns
Active == {"posting", "launching", "accepting", "streaming", "failing"}
Phase  == {"unused", "spawned", "over"} \cup Active
Stage  == {"away", "checking", "cleared", "accepted", "refused"}

TypeOK ==
  /\ agent \in 0..MaxConns
  /\ sockets \subseteq Conn
  /\ registering \subseteq Conn
  /\ inbox \in [Conn -> Seq(Browser \cup {"stop"})]
  /\ stage \in [Browser -> Stage]
  /\ open \subseteq Browser
  /\ clients \subseteq Browser
  /\ conn \in 0..MaxConns
  /\ dialled \in 0..MaxConns
  /\ phase \in [Browser -> Phase]
  /\ home \in [Browser -> 0..MaxConns]
  /\ stopped \subseteq Browser
  /\ registry \in Browser \cup {"none"}
  /\ helpers \subseteq Browser
  /\ missed \subseteq Browser
  /\ faults \in 0..MaxFaults
  /\ early \subseteq Browser
  /\ overtaken \subseteq Browser
  /\ unsent \in BOOLEAN
  /\ superseded \subseteq Conn

Init ==
  /\ agent = 0
  /\ sockets = {}
  /\ registering = {}
  /\ inbox = [k \in Conn |-> <<>>]
  /\ stage = [b \in Browser |-> "away"]
  /\ open = {}
  /\ clients = {}
  /\ conn = 0
  /\ dialled = 0
  /\ phase = [b \in Browser |-> "unused"]
  /\ home = [b \in Browser |-> 0]
  /\ stopped = {}
  /\ registry = "none"
  /\ helpers = {}
  /\ missed = {}
  /\ faults = 0
  /\ early = {}
  /\ overtaken = {}
  /\ unsent = FALSE
  /\ superseded = {}

(* A step that nothing causes but the network or the operator of the server. *)
Fault == faults < MaxFaults /\ faults' = faults + 1

(* connectAndListen returns: its deferred cancel ends every context it made. *)
Cancelled(r) == r \in stopped \/ home[r] # conn

-----------------------------------------------------------------------------
(* The agent's connection, at both ends *)

AgentDials ==
  /\ conn = 0
  /\ dialled < MaxConns
  /\ dialled' = dialled + 1
  /\ conn' = dialled + 1
  /\ sockets' = sockets \cup {dialled + 1}
  /\ registering' = registering \cup {dialled + 1}
  /\ UNCHANGED <<agent, inbox, stage, open, clients, runtimeVars, history>>

AgentRegisters_IfAbsent(k) ==
  /\ k \in registering
  /\ registering' = registering \ {k}
  /\ agent' = IF agent = 0 THEN k ELSE agent
  /\ UNCHANGED <<sockets, inbox, stage, open, clients, agentVars, history>>

(* The server reads the register message: the last one read wins. *)
AgentRegisters(k) ==
  /\ k \in registering
  /\ registering' = registering \ {k}
  /\ agent' = k
  /\ superseded' = superseded \cup {a \in {agent} : a > k}
  /\ UNCHANGED <<sockets, inbox, stage, open, clients, agentVars,
                 faults, early, overtaken, unsent>>

(* The agent's read fails: what it had not read is gone. *)
AgentLosesConnection ==
  /\ conn # 0
  /\ IF conn \in sockets THEN Fault ELSE UNCHANGED faults
  /\ conn' = 0
  /\ inbox' = [inbox EXCEPT ![conn] = <<>>]
  /\ UNCHANGED <<agent, sockets, registering, stage, open, clients,
                 dialled, runtimeVars, early, overtaken, unsent, superseded>>

(* The server's close event, before or after the agent has dialled again: it *)
(* deletes the device's entry, whichever socket that entry holds by now.     *)
ServerSeesClose(k) ==
  /\ k \in sockets
  /\ IF k = conn THEN Fault ELSE UNCHANGED faults
  /\ sockets' = sockets \ {k}
  /\ registering' = registering \ {k}
  /\ IF k \in registering
     THEN UNCHANGED <<agent, superseded>>
     ELSE /\ agent' = 0
          /\ superseded' = superseded \cup {a \in {agent} : a > k}
  /\ UNCHANGED <<inbox, stage, open, clients, agentVars, early, overtaken, unsent>>

(* The server process restarts; the browsers' pages do not reconnect. *)
Restart ==
  /\ Fault
  /\ agent' = 0
  /\ sockets' = {}
  /\ registering' = {}
  /\ stage' = [b \in Browser |-> IF stage[b] = "away" THEN "away" ELSE "refused"]
  /\ open' = {}
  /\ clients' = {}
  /\ UNCHANGED <<inbox, agentVars, early, overtaken, unsent, superseded>>

-----------------------------------------------------------------------------
(* acceptRemoteDesktopBrowser: two awaits, then one synchronous stretch *)

BrowserOpens(b) ==
  /\ stage[b] = "away"
  /\ stage' = [stage EXCEPT ![b] = "checking"]
  /\ open' = open \cup {b}
  /\ UNCHANGED <<agent, sockets, registering, inbox, clients, agentVars, history>>

(* The remote user and the session are read; either may refuse the browser. *)
CheckSession(b) ==
  /\ stage[b] = "checking"
  /\ \/ stage' = [stage EXCEPT ![b] = "cleared"] /\ UNCHANGED open
     \/ stage' = [stage EXCEPT ![b] = "refused"] /\ open' = open \ {b}
  /\ UNCHANGED <<agent, sockets, registering, inbox, clients, agentVars, history>>

Accept_FirstOnly(b) ==
  /\ stage[b] = "cleared"
  /\ clients' = clients \cup {b}
  /\ stage' = [stage EXCEPT ![b] = IF agent # 0 THEN "accepted" ELSE "refused"]
  /\ inbox' = IF agent # 0 /\ clients = {}
              THEN [inbox EXCEPT ![agent] = Append(@, b)] ELSE inbox
  /\ UNCHANGED <<agent, sockets, registering, open, agentVars, history>>

(* The browser joins the clients whether or not its socket is still open; it *)
(* is sent away (closed, but not removed) if no agent is registered.         *)
Accept(b) ==
  /\ stage[b] = "cleared"
  /\ clients' = clients \cup {b}
  /\ IF agent # 0
     THEN /\ stage' = [stage EXCEPT ![b] = "accepted"]
          /\ inbox' = [inbox EXCEPT ![agent] = Append(@, b)]
     ELSE /\ stage' = [stage EXCEPT ![b] = "refused"]
          /\ UNCHANGED inbox
  /\ UNCHANGED <<agent, sockets, registering, open, agentVars, history>>

(* stopRemoteDesktopRelay *)
SendStop ==
  /\ inbox' = IF agent # 0 THEN [inbox EXCEPT ![agent] = Append(@, "stop")] ELSE inbox
  /\ unsent' = (unsent \/ agent # conn)

BrowserCloses_AlwaysStops(b) ==
  /\ b \in open
  /\ open' = open \ {b}
  /\ clients' = clients \ {b}
  /\ IF b \in clients
     THEN SendStop /\ UNCHANGED early
     ELSE UNCHANGED <<inbox, unsent>> /\ early' = early \cup {b}
  /\ UNCHANGED <<agent, sockets, registering, stage, agentVars,
                 faults, overtaken, superseded>>

(* The socket closes, from either side.  Its handler removes it, and stops   *)
(* the relay after the last one; before Accept there is no handler.          *)
BrowserCloses(b) ==
  /\ b \in open
  /\ open' = open \ {b}
  /\ clients' = clients \ {b}
  /\ IF b \in clients
     THEN /\ UNCHANGED early
          /\ IF clients = {b} THEN SendStop ELSE UNCHANGED <<inbox, unsent>>
     ELSE /\ early' = early \cup {b}
          /\ UNCHANGED <<inbox, unsent>>
  /\ UNCHANGED <<agent, sockets, registering, stage, agentVars,
                 faults, overtaken, superseded>>

-----------------------------------------------------------------------------
(* The agent's WebSocket loop *)

Spawned == {r \in Browser : phase[r] = "spawned"}

(* remote-desktop-start: go StartRemoteDesktopRelay(ctx, ...) *)
ReadStart ==
  /\ conn # 0
  /\ inbox[conn] # <<>>
  /\ Head(inbox[conn]) # "stop"
  /\ inbox' = [inbox EXCEPT ![conn] = Tail(@)]
  /\ phase' = [phase EXCEPT ![Head(inbox[conn])] = "spawned"]
  /\ home' = [home EXCEPT ![Head(inbox[conn])] = conn]
  /\ UNCHANGED <<agent, sockets, registering, stage, open, clients,
                 conn, dialled, stopped, registry, helpers, missed, history>>

(* remote-desktop-stop: cancels the registered runtime, not a spawned one. *)
ReadStop ==
  /\ conn # 0
  /\ inbox[conn] # <<>>
  /\ Head(inbox[conn]) = "stop"
  /\ inbox' = [inbox EXCEPT ![conn] = Tail(@)]
  /\ stopped' = stopped \cup ({registry} \ {"none"})
  /\ overtaken' = overtaken \cup Spawned
  /\ UNCHANGED <<agent, sockets, registering, stage, open, clients, conn, dialled,
                 phase, home, registry, helpers, missed, faults, early, unsent, superseded>>

-----------------------------------------------------------------------------
(* One runtime: StartRemoteDesktopRelay and runRemoteDesktopRelay *)

Register_Unchecked(r) ==
  /\ phase[r] = "spawned"
  /\ registry' = r
  /\ phase' = [phase EXCEPT ![r] = "posting"]
  /\ UNCHANGED <<serverVars, conn, dialled, home, stopped, helpers, missed, history>>

(* A runtime that relays the desktop, or is about to and will unless it fails. *)
Relaying(r) == phase[r] \in Active \ {"failing"} /\ ~Cancelled(r)

(* Under the registry's lock: a second runtime of the session gives way,     *)
(* whether the first one still relays or is only uploading its end.          *)
Register(r) ==
  /\ phase[r] = "spawned"
  /\ IF registry = "none"
     THEN /\ registry' = r
          /\ phase' = [phase EXCEPT ![r] = "posting"]
          /\ UNCHANGED missed
     ELSE /\ phase' = [phase EXCEPT ![r] = "over"]
          /\ missed' = IF Relaying(registry) THEN missed ELSE missed \cup {r}
          /\ UNCHANGED registry
  /\ UNCHANGED <<serverVars, conn, dialled, home, stopped, helpers, history>>

Proceed(r, from, to) ==
  /\ phase[r] = from
  /\ phase' = [phase EXCEPT ![r] = to]
  /\ UNCHANGED <<serverVars, conn, dialled, home, stopped, registry, missed, history>>

(* The media_starting upload, which no cancellation shortens. *)
PostStarting(r) == Proceed(r, "posting", "launching") /\ UNCHANGED helpers

LaunchHelper(r) == Proceed(r, "launching", "accepting") /\ helpers' = helpers \cup {r}

HelperConnects(r) ==
  /\ r \in helpers
  /\ Proceed(r, "accepting", "streaming")
  /\ UNCHANGED helpers

(* Any step of runRemoteDesktopRelay returns an error; its deferred calls    *)
(* kill the helper before "failed" is uploaded.                              *)
RelayFails(r) ==
  /\ \E from \in {"posting", "launching", "accepting", "streaming"} :
       Proceed(r, from, "failing")
  /\ helpers' = helpers \ {r}

(* The helper exits of itself, or is killed because the context is done. *)
HelperExits(r) ==
  /\ r \in helpers
  /\ helpers' = helpers \ {r}
  /\ UNCHANGED <<serverVars, conn, dialled, phase, home, stopped, registry, missed, history>>

KillHelper_Never(r) == FALSE /\ UNCHANGED vars

KillHelper(r) == Cancelled(r) /\ HelperExits(r)

(* Between two messages of the helper the loop looks at its context. *)
StreamStops(r) ==
  /\ phase[r] = "streaming"
  /\ r \in helpers
  /\ Cancelled(r)
  /\ phase' = [phase EXCEPT ![r] = "over"]
  /\ registry' = "none"
  /\ helpers' = helpers \ {r}
  /\ UNCHANGED <<serverVars, conn, dialled, home, stopped, missed, history>>

(* The "failed" upload is over; the deferred delete is by session id. *)
RelayEnds(r) ==
  /\ phase[r] = "failing"
  /\ phase' = [phase EXCEPT ![r] = "over"]
  /\ registry' = "none"
  /\ UNCHANGED <<serverVars, conn, dialled, home, stopped, helpers, missed, history>>

-----------------------------------------------------------------------------
Connection ==
  \/ AgentDials
  \/ AgentLosesConnection
  \/ \E k \in Conn : AgentRegisters(k) \/ ServerSeesClose(k)
  \/ Restart

Browsers ==
  \E b \in Browser : BrowserOpens(b) \/ CheckSession(b) \/ Accept(b) \/ BrowserCloses(b)

Runtimes ==
  \E r \in Browser :
    \/ Register(r) \/ PostStarting(r) \/ LaunchHelper(r) \/ HelperConnects(r)
    \/ RelayFails(r) \/ HelperExits(r) \/ KillHelper(r) \/ StreamStops(r) \/ RelayEnds(r)

Next == Connection \/ Browsers \/ ReadStart \/ ReadStop \/ Runtimes

Spec == Init /\ [][Next]_vars

(* Goroutines run; uploads, the pipe accept (15 seconds) and the launch end  *)
(* one way or another; a read from the pipe of a dead helper fails.  Nothing *)
(* is assumed of a helper that is alive: it may never send a message.        *)
Fairness ==
  /\ WF_vars(AgentDials)
  /\ \A k \in Conn : WF_vars(AgentRegisters(k))
  /\ WF_vars(ReadStart)
  /\ WF_vars(ReadStop)
  /\ \A b \in Browser : WF_vars(CheckSession(b)) /\ WF_vars(Accept(b))
  /\ \A r \in Browser :
       /\ WF_vars(Register(r))
       /\ WF_vars(PostStarting(r))
       /\ WF_vars(LaunchHelper(r))
       /\ WF_vars(phase[r] = "accepting" /\ (HelperConnects(r) \/ RelayFails(r)))
       /\ WF_vars(r \notin helpers /\ RelayFails(r))
       /\ WF_vars(KillHelper(r))
       /\ WF_vars(RelayEnds(r))

FairSpec == Spec /\ Fairness

-----------------------------------------------------------------------------
(* Properties *)

ActiveRuntimes == {r \in Browser : phase[r] \in Active}

(* However starts, stops and reconnects interleave, at most one runtime       *)
(* relays the session, it is the registered one (the deferred delete of one   *)
(* runtime never removes the entry of another), and no other has a helper     *)
(* capturing the desktop.                                                     *)
OneRelay ==
  /\ ActiveRuntimes = {registry} \ {"none"}
  /\ helpers \subseteq ActiveRuntimes

(* A relay, or one about to start, is without clients only while a stop is on *)
(* its way to it or its context is done, with three exceptions: the stop      *)
(* overtook the spawned runtime, the agent's socket was not the registered    *)
(* one when the stop was due, or the server no longer has that socket.        *)
RelayLeftRunningIsExplained ==
  \A r \in ActiveRuntimes \cup Spawned :
    \/ clients # {}
    \/ Cancelled(r)
    \/ \E i \in DOMAIN inbox[conn] : inbox[conn][i] = "stop"
    \/ r \in overtaken
    \/ unsent
    \/ conn \notin sockets

(* A stop cancels only what was started for a browser that has left: one sent *)
(* for earlier viewers does not reach the relay of a later one.               *)
StopSparesLaterViewers == stopped \cap open = {}

(* A closed socket is kept among the clients (and keeps the relay from being  *)
(* stopped) only if it closed while its session was still being checked.      *)
GhostsClosedEarly == clients \subseteq open \cup early

(* The agent's connection, once registered and open at the server, is the one *)
(* starts are sent on, unless a late register or close of an older connection *)
(* of the same agent replaced its entry or took it away.                      *)
RegisteredUnlessSuperseded ==
  conn \in sockets \ registering => agent = conn \/ conn \in superseded

(* A runtime whose context is done, by a stop or by the loss of its           *)
(* connection, ends even when its helper never sends another message.         *)
CancelledRelayEnds ==
  \A r \in Browser : phase[r] \in Active /\ Cancelled(r) ~> phase[r] = "over"

(* Without faults, the start of a browser the server accepted and that stays  *)
(* is read by the agent and finds a relay that works: its own, or one that    *)
(* was already there and neither told to stop nor failed.  The one exception  *)
(* is a start that the agent drops because the registered runtime, which is   *)
(* ending, has not left the registry yet; nobody sends that start again.      *)
AcceptedGetsRelay ==
  \A b \in Browser :
    stage[b] = "accepted" /\ phase[b] = "unused" ~>
      \/ phase[b] \notin {"unused", "spawned"} /\ \E r \in Browser : Relaying(r)
      \/ b \in missed
      \/ b \notin open
      \/ faults > 0

(* docs/architecture/current-state.md:48: "Sends `remote-desktop-stop` when   *)
(* the last browser leaves a session."  An agent that stays connected is not  *)
(* left relaying to no open browser.                                          *)
NoRelayWithoutBrowser ==
  \A r \in Browser :
    phase[r] \in Active /\ open = {} ~>
      phase[r] \notin Active \/ open # {} \/ faults > 0

-----------------------------------------------------------------------------
(* What the runs check and the theorems state, part by part above. *)

(* One relay at a time, and one without viewers only for a reason. *)
RelaysExplained == OneRelay /\ RelayLeftRunningIsExplained

(* The server's maps, of browsers and of agents, hold what is really there,   *)
(* or the event that made them wrong was late.                                *)
BooksExplained == GhostsClosedEarly /\ RegisteredUnlessSuperseded
=============================================================================
