------------------------ MODULE RemoteDesktopProofs ------------------------
(***************************************************************************)
(* Remote desktop, part by part: the relay runtime for any set of browsers *)
(* and any number of agent connections and faults, the status of a session *)
(* for any number of browser sockets and lost uploads, and the grant for   *)
(* any number of start and end requests, however the two clocks disagree.  *)
(***************************************************************************)
EXTENDS RemoteDesktopRelay, RemoteDesktopSession, SessionGrant, TLAPS

-----------------------------------------------------------------------------
(* The relay runtime.                                                        *)
(* The strengthening, in four layers; each needs only the ones above it.     *)

(* 1. Connections are numbered in the order they were dialled: the agent     *)
(* listens to the last one or to none, and nobody knows a later one.         *)
ConnLatest ==
  /\ conn = 0 \/ conn = dialled
  /\ agent <= dialled
  /\ \A k \in sockets \cup registering : k <= dialled
  /\ \A r \in Browser : home[r] <= dialled
  /\ \A k \in Conn : k > dialled => inbox[k] = <<>>

(* 2. A browser under acceptance is open or closed early; a browser that was *)
(* accepted or refused is open only as a client.                             *)
Undecided == {"away", "checking", "cleared"}

BrowserStages ==
  \A b \in Browser :
    /\ stage[b] \in {"checking", "cleared"} => b \in open \cup early
    /\ stage[b] \in Undecided => b \notin clients
    /\ b \in open /\ stage[b] \notin Undecided => b \in clients
    /\ stage[b] = "away" => b \notin open

(* 3. A start is sent once, after the decision and before its runtime.       *)
NotStarted(b) ==
  \A k \in Conn : \A i \in 1..Len(inbox[k]) : inbox[k][i] # b

StartsFresh ==
  /\ \A b \in Browser : stage[b] \in Undecided => phase[b] = "unused"
  /\ \A b \in Browser : stage[b] \in Undecided \/ phase[b] # "unused" => NotStarted(b)

StartsOnce ==
  \A k, l \in Conn : \A i \in 1..Len(inbox[k]), j \in 1..Len(inbox[l]) :
    inbox[k][i] = inbox[l][j] /\ inbox[k][i] # "stop" => k = l /\ i = j

HelpersServe == \A r \in helpers : phase[r] \in {"accepting", "streaming"}

(* 4. A stop on its way was sent when every viewer before it had left, and a *)
(* start on its way without clients is followed by a stop.                   *)
StopsFollow ==
  /\ \A k \in Conn : \A i, j \in 1..Len(inbox[k]) :
       i < j /\ inbox[k][j] = "stop" => inbox[k][i] \notin open
  /\ conn # 0 =>
       \A j \in 1..Len(inbox[conn]) :
         inbox[conn][j] = "stop" => \A r \in Browser : r \in open => phase[r] = "unused"

StartsCovered ==
  \/ clients # {} \/ unsent \/ conn \notin sockets
  \/ \A i \in 1..Len(inbox[conn]) :
       inbox[conn][i] # "stop" => \E j \in 1..Len(inbox[conn]) : i < j /\ inbox[conn][j] = "stop"

StoppedStarted == \A r \in stopped : phase[r] # "unused"

IInv ==
  /\ TypeOK
  /\ ConnLatest /\ RegisteredUnlessSuperseded
  /\ BrowserStages /\ GhostsClosedEarly
  /\ StartsFresh /\ StartsOnce /\ HelpersServe /\ OneRelay
  /\ StopsFollow /\ StartsCovered
  /\ StoppedStarted /\ StopSparesLaterViewers /\ RelayLeftRunningIsExplained

-----------------------------------------------------------------------------
(* What the steps of a runtime leave alone, and how they move its phase. *)

RuntimeStep(r) ==
  \/ Register(r) \/ PostStarting(r) \/ LaunchHelper(r) \/ HelperConnects(r)
  \/ RelayFails(r) \/ HelperExits(r) \/ KillHelper(r) \/ StreamStops(r) \/ RelayEnds(r)

Begun == Active \cup {"spawned"}

RuntimeFrame ==
  /\ UNCHANGED <<agent, sockets, registering, inbox, stage, open, clients>>
  /\ UNCHANGED <<conn, dialled, home, stopped>>
  /\ UNCHANGED <<faults, early, overtaken, unsent, superseded>>

Moves(r) ==
  \/ phase' = phase
  \/ phase[r] \in Begun /\ \E p \in Active \cup {"over"} : phase' = [phase EXCEPT ![r] = p]

LEMMA RuntimeMoves ==
  ASSUME TypeOK, NEW r \in Browser, RuntimeStep(r)
  PROVE  RuntimeFrame /\ Moves(r)
<1>1. CASE Register(r)
  BY <1>1 DEF Register, serverVars, history, RuntimeFrame, Moves, Begun, Active
<1>2. ASSUME NEW from \in Active, NEW to \in Active, Proceed(r, from, to)
      PROVE  RuntimeFrame /\ Moves(r)
  <2>1. RuntimeFrame BY <1>2 DEF Proceed, serverVars, history, RuntimeFrame
  <2>2. phase[r] \in Begun /\ phase' = [phase EXCEPT ![r] = to] BY <1>2 DEF Proceed, Begun
  <2> QED BY <2>1, <2>2 DEF Moves
<1>3. CASE PostStarting(r) BY <1>2, <1>3 DEF PostStarting, Active
<1>4. CASE LaunchHelper(r) BY <1>2, <1>4 DEF LaunchHelper, Active
<1>5. CASE HelperConnects(r) BY <1>2, <1>5 DEF HelperConnects, Active
<1>6. CASE RelayFails(r)
  <2>1. PICK from \in {"posting", "launching", "accepting", "streaming"} : Proceed(r, from, "failing")
    BY <1>6 DEF RelayFails
  <2> QED BY <1>2, <2>1 DEF Active
<1>7. CASE HelperExits(r) \/ KillHelper(r)
  BY <1>7 DEF KillHelper, HelperExits, serverVars, history, RuntimeFrame, Moves
<1>8. CASE StreamStops(r) \/ RelayEnds(r)
  BY <1>8 DEF StreamStops, RelayEnds, serverVars, history, RuntimeFrame, Moves, Begun, Active
<1> QED BY <1>1, <1>3, <1>4, <1>5, <1>6, <1>7, <1>8 DEF RuntimeStep

LEMMA MovesKeep ==
  ASSUME TypeOK, NEW r \in Browser, Moves(r)
  PROVE  /\ phase' \in [Browser -> Phase]
         /\ \A b \in Browser : phase'[b] = "unused" <=> phase[b] = "unused"
         /\ \A b \in Browser : phase'[b] \in Begun => phase[b] \in Begun
<1>1. phase \in [Browser -> Phase] BY DEF TypeOK
<1>2. CASE phase' = phase BY <1>1, <1>2
<1>3. ASSUME phase[r] \in Begun, NEW p \in Active \cup {"over"}, phase' = [phase EXCEPT ![r] = p]
      PROVE  /\ phase' \in [Browser -> Phase]
             /\ \A b \in Browser : phase'[b] = "unused" <=> phase[b] = "unused"
             /\ \A b \in Browser : phase'[b] \in Begun => phase[b] \in Begun
  BY <1>1, <1>3 DEF Begun, Active, Phase
<1> QED BY <1>2, <1>3 DEF Moves

-----------------------------------------------------------------------------
(* The three ways an inbox changes. *)

Sent(m) == agent # 0 /\ inbox' = [inbox EXCEPT ![agent] = Append(@, m)]

Received == conn # 0 /\ inbox[conn] # <<>> /\ inbox' = [inbox EXCEPT ![conn] = Tail(@)]

LEMMA SentFacts ==
  ASSUME TypeOK, NEW m \in Browser \cup {"stop"}, Sent(m)
  PROVE  /\ agent \in Conn
         /\ inbox' \in [Conn -> Seq(Browser \cup {"stop"})]
         /\ \A k \in Conn : k # agent => inbox'[k] = inbox[k]
         /\ Len(inbox'[agent]) = Len(inbox[agent]) + 1
         /\ \A i \in 1..Len(inbox[agent]) : inbox'[agent][i] = inbox[agent][i]
         /\ inbox'[agent][Len(inbox[agent]) + 1] = m
<1>1. agent \in Conn BY MaxConnsAssumption DEF TypeOK, Sent, Conn
<1>2. inbox \in [Conn -> Seq(Browser \cup {"stop"})] BY DEF TypeOK
<1>3. inbox'[agent] = Append(inbox[agent], m) BY <1>1, <1>2 DEF Sent
<1>4. inbox[agent] \in Seq(Browser \cup {"stop"}) BY <1>1, <1>2
<1>5. Append(inbox[agent], m) \in Seq(Browser \cup {"stop"}) BY <1>4
<1>6. inbox' \in [Conn -> Seq(Browser \cup {"stop"})] BY <1>1, <1>2, <1>5 DEF Sent
<1>7. \A k \in Conn : k # agent => inbox'[k] = inbox[k] BY <1>1, <1>2 DEF Sent
<1> QED BY <1>1, <1>3, <1>4, <1>6, <1>7

LEMMA ReceivedFacts ==
  ASSUME TypeOK, Received
  PROVE  /\ conn \in Conn
         /\ inbox' \in [Conn -> Seq(Browser \cup {"stop"})]
         /\ \A k \in Conn : k # conn => inbox'[k] = inbox[k]
         /\ Len(inbox[conn]) >= 1
         /\ Len(inbox'[conn]) = Len(inbox[conn]) - 1
         /\ \A i \in 1..Len(inbox'[conn]) : inbox'[conn][i] = inbox[conn][i + 1]
         /\ Head(inbox[conn]) = inbox[conn][1]
         /\ Head(inbox[conn]) \in Browser \cup {"stop"}
<1>1. conn \in Conn BY MaxConnsAssumption DEF TypeOK, Received, Conn
<1>2. inbox \in [Conn -> Seq(Browser \cup {"stop"})] BY DEF TypeOK
<1>3. inbox'[conn] = Tail(inbox[conn]) BY <1>1, <1>2 DEF Received
<1>4. inbox[conn] \in Seq(Browser \cup {"stop"}) BY <1>1, <1>2
<1>5. inbox[conn] # <<>> BY DEF Received
<1>6. Tail(inbox[conn]) \in Seq(Browser \cup {"stop"}) BY <1>4, <1>5
<1>7. inbox' \in [Conn -> Seq(Browser \cup {"stop"})] BY <1>1, <1>2, <1>6 DEF Received
<1>8. \A k \in Conn : k # conn => inbox'[k] = inbox[k] BY <1>1, <1>2 DEF Received
<1>9. /\ Len(inbox[conn]) >= 1
      /\ Len(Tail(inbox[conn])) = Len(inbox[conn]) - 1
      /\ \A i \in 1..Len(Tail(inbox[conn])) : Tail(inbox[conn])[i] = inbox[conn][i + 1]
  BY <1>4, <1>5
<1>10. Head(inbox[conn]) = inbox[conn][1] /\ Head(inbox[conn]) \in Browser \cup {"stop"}
  BY <1>4, <1>5
<1> QED BY <1>1, <1>3, <1>7, <1>8, <1>9, <1>10

-----------------------------------------------------------------------------
(* Types *)

LEMMA TypeStep == TypeOK /\ [Next]_vars => TypeOK'
<1> SUFFICES ASSUME TypeOK, [Next]_vars PROVE TypeOK' OBVIOUS
<1>0. \A k \in Conn : {a \in {agent} : a > k} \subseteq Conn
  <2>1. \A k \in Conn : agent > k => agent \in Conn BY MaxConnsAssumption DEF TypeOK, Conn
  <2> QED BY <2>1
<1>1. CASE AgentDials
  <2>1. dialled + 1 \in Conn BY <1>1, MaxConnsAssumption DEF AgentDials, TypeOK, Conn
  <2> QED BY <1>1, <2>1, MaxConnsAssumption DEF AgentDials, TypeOK, runtimeVars, history, Conn
<1>2. CASE AgentLosesConnection
  <2>1. conn \in Conn BY <1>2, MaxConnsAssumption DEF AgentLosesConnection, TypeOK, Conn
  <2>2. faults' \in 0..MaxFaults BY <1>2, RelayFaultsAssumption DEF AgentLosesConnection, Fault, TypeOK
  <2>3. <<>> \in Seq(Browser \cup {"stop"}) OBVIOUS
  <2>4. inbox' \in [Conn -> Seq(Browser \cup {"stop"})] BY <1>2, <2>1, <2>3 DEF AgentLosesConnection, TypeOK
  <2>5. conn' \in 0..MaxConns BY <1>2, MaxConnsAssumption DEF AgentLosesConnection
  <2> QED BY <1>2, <2>2, <2>4, <2>5 DEF AgentLosesConnection, TypeOK, runtimeVars
<1>3. ASSUME NEW k \in Conn, AgentRegisters(k) PROVE TypeOK'
  <2>1. agent' \in 0..MaxConns BY <1>3, MaxConnsAssumption DEF AgentRegisters, Conn
  <2>2. superseded' \subseteq Conn BY <1>0, <1>3 DEF AgentRegisters, TypeOK
  <2> QED BY <1>3, <2>1, <2>2 DEF AgentRegisters, TypeOK, agentVars, runtimeVars
<1>4. ASSUME NEW k \in Conn, ServerSeesClose(k) PROVE TypeOK'
  <2>1. faults' \in 0..MaxFaults BY <1>4, RelayFaultsAssumption DEF ServerSeesClose, Fault, TypeOK
  <2>2. agent' \in 0..MaxConns /\ superseded' \subseteq Conn
    BY <1>0, <1>4, MaxConnsAssumption DEF ServerSeesClose, TypeOK
  <2>3. sockets' \subseteq Conn /\ registering' \subseteq Conn BY <1>4 DEF ServerSeesClose, TypeOK
  <2> QED BY <1>4, <2>1, <2>2, <2>3 DEF ServerSeesClose, TypeOK, agentVars, runtimeVars
<1>5. CASE Restart
  <2>1. faults' \in 0..MaxFaults BY <1>5, RelayFaultsAssumption DEF Restart, Fault, TypeOK
  <2>2. stage' \in [Browser -> Stage] BY <1>5 DEF Restart, Stage
  <2>3. agent' \in 0..MaxConns BY <1>5, MaxConnsAssumption DEF Restart
  <2> QED BY <1>5, <2>1, <2>2, <2>3 DEF Restart, TypeOK, agentVars, runtimeVars
<1>6. ASSUME NEW b \in Browser, BrowserOpens(b) \/ CheckSession(b) PROVE TypeOK'
  <2>1. stage' \in [Browser -> Stage] BY <1>6 DEF BrowserOpens, CheckSession, TypeOK, Stage
  <2>2. open' \subseteq Browser BY <1>6 DEF BrowserOpens, CheckSession, TypeOK
  <2> QED BY <1>6, <2>1, <2>2
          DEF BrowserOpens, CheckSession, TypeOK, agentVars, runtimeVars, history
<1>7. ASSUME NEW b \in Browser, Accept(b) PROVE TypeOK'
  <2>1. stage' \in [Browser -> Stage] BY <1>7 DEF Accept, TypeOK, Stage
  <2>2. inbox' \in [Conn -> Seq(Browser \cup {"stop"})]
    <3>1. CASE agent # 0 BY <1>7, <3>1, SentFacts DEF Accept, Sent
    <3>2. CASE agent = 0 BY <1>7, <3>2 DEF Accept, TypeOK
    <3> QED BY <3>1, <3>2
  <2> QED BY <1>7, <2>1, <2>2 DEF Accept, TypeOK, agentVars, runtimeVars, history
<1>8. ASSUME NEW b \in Browser, BrowserCloses(b) PROVE TypeOK'
  <2>1. inbox' \in [Conn -> Seq(Browser \cup {"stop"})] /\ unsent' \in BOOLEAN
    <3>1. CASE SendStop
      <4>1. unsent' \in BOOLEAN BY <3>1 DEF SendStop
      <4>2. CASE agent # 0 BY <3>1, <4>1, <4>2, SentFacts DEF SendStop, Sent
      <4>3. CASE agent = 0 BY <3>1, <4>1, <4>3 DEF SendStop, TypeOK
      <4> QED BY <4>2, <4>3
    <3>2. CASE UNCHANGED <<inbox, unsent>> BY <3>2 DEF TypeOK
    <3> QED BY <1>8, <3>1, <3>2 DEF BrowserCloses
  <2>2. open' \subseteq Browser /\ clients' \subseteq Browser /\ early' \subseteq Browser
    BY <1>8 DEF BrowserCloses, TypeOK
  <2> QED BY <1>8, <2>1, <2>2 DEF BrowserCloses, TypeOK, agentVars, runtimeVars
<1>9. CASE ReadStart
  <2>1. Received BY <1>9 DEF ReadStart, Received
  <2>2. Head(inbox[conn]) \in Browser BY <1>9, <2>1, ReceivedFacts DEF ReadStart
  <2>3. phase' \in [Browser -> Phase] BY <1>9, <2>2 DEF ReadStart, TypeOK, Phase
  <2>4. home' \in [Browser -> 0..MaxConns] BY <1>9, <2>2 DEF ReadStart, TypeOK
  <2>5. inbox' \in [Conn -> Seq(Browser \cup {"stop"})] BY <2>1, ReceivedFacts
  <2> QED BY <1>9, <2>3, <2>4, <2>5 DEF ReadStart, TypeOK, history
<1>10. CASE ReadStop
  <2>1. Received BY <1>10 DEF ReadStop, Received
  <2>2. inbox' \in [Conn -> Seq(Browser \cup {"stop"})] BY <2>1, ReceivedFacts
  <2>3. stopped' \subseteq Browser /\ overtaken' \subseteq Browser
    BY <1>10 DEF ReadStop, Spawned, TypeOK
  <2> QED BY <1>10, <2>2, <2>3 DEF ReadStop, TypeOK
<1>11. ASSUME NEW r \in Browser, RuntimeStep(r) PROVE TypeOK'
  <2>1. phase' \in [Browser -> Phase] BY <1>11, RuntimeMoves, MovesKeep
  <2>2. RuntimeFrame BY <1>11, RuntimeMoves
  <2>3. /\ helpers' \subseteq Browser /\ registry' \in Browser \cup {"none"}
        /\ missed' \subseteq Browser
    BY <1>11 DEF RuntimeStep, Register, PostStarting, LaunchHelper, HelperConnects,
       RelayFails, HelperExits, KillHelper, StreamStops, RelayEnds, Proceed, TypeOK
  <2> QED BY <2>1, <2>2, <2>3 DEF RuntimeFrame, TypeOK
<1>12. CASE UNCHANGED vars
  BY <1>12 DEF vars, serverVars, agentVars, runtimeVars, history, TypeOK
<1> QED BY <1>1, <1>2, <1>3, <1>4, <1>5, <1>6, <1>7, <1>8, <1>9, <1>10, <1>11, <1>12
        DEF Next, Connection, Browsers, Runtimes, RuntimeStep

-----------------------------------------------------------------------------
(* 1. Connections *)

Conns == ConnLatest /\ RegisteredUnlessSuperseded

LEMMA ConnsStep == TypeOK /\ Conns /\ [Next]_vars => Conns'
<1> SUFFICES ASSUME TypeOK, ConnLatest, RegisteredUnlessSuperseded, [Next]_vars
             PROVE  ConnLatest' /\ RegisteredUnlessSuperseded'
  BY DEF Conns
<1> USE DEF TypeOK
<1>1. CASE AgentDials
  <2>1. ConnLatest'
    BY <1>1 DEF AgentDials, ConnLatest, runtimeVars, Conn
  <2>2. RegisteredUnlessSuperseded' BY <1>1 DEF AgentDials, RegisteredUnlessSuperseded
  <2> QED BY <2>1, <2>2
<1>2. CASE AgentLosesConnection
  <2>1. ConnLatest' BY <1>2 DEF AgentLosesConnection, ConnLatest, runtimeVars, Conn
  <2>2. RegisteredUnlessSuperseded'
    BY <1>2 DEF AgentLosesConnection, RegisteredUnlessSuperseded, Conn
  <2> QED BY <2>1, <2>2
<1>3. ASSUME NEW k \in Conn, AgentRegisters(k)
      PROVE  ConnLatest' /\ RegisteredUnlessSuperseded'
  <2>1. ConnLatest' BY <1>3 DEF AgentRegisters, ConnLatest, agentVars, runtimeVars, Conn
  <2>2. RegisteredUnlessSuperseded'
    BY <1>3 DEF AgentRegisters, ConnLatest, RegisteredUnlessSuperseded, agentVars, Conn
  <2> QED BY <2>1, <2>2
<1>4. ASSUME NEW k \in Conn, ServerSeesClose(k)
      PROVE  ConnLatest' /\ RegisteredUnlessSuperseded'
  <2>1. ConnLatest' BY <1>4 DEF ServerSeesClose, ConnLatest, agentVars, runtimeVars, Conn
  <2>2. RegisteredUnlessSuperseded'
    BY <1>4 DEF ServerSeesClose, ConnLatest, RegisteredUnlessSuperseded, agentVars, Conn
  <2> QED BY <2>1, <2>2
<1>5. CASE Restart
  BY <1>5 DEF Restart, ConnLatest, RegisteredUnlessSuperseded, agentVars, runtimeVars, Conn
(* Steps that leave the connections alone. *)
<1> DEFINE Kept == UNCHANGED <<agent, sockets, registering, conn, dialled, superseded>>
<1>6. ASSUME Kept, UNCHANGED <<inbox, home>> PROVE ConnLatest' /\ RegisteredUnlessSuperseded'
  BY <1>6 DEF ConnLatest, RegisteredUnlessSuperseded
<1>7. ASSUME Kept, UNCHANGED home, NEW m \in Browser \cup {"stop"}, Sent(m)
      PROVE  ConnLatest' /\ RegisteredUnlessSuperseded'
  <2>1. \A k \in Conn : k > dialled => inbox'[k] = inbox[k]
    BY <1>7, SentFacts DEF ConnLatest, Conn
  <2> QED BY <1>7, <2>1 DEF ConnLatest, RegisteredUnlessSuperseded
<1>8. ASSUME NEW b \in Browser,
             BrowserOpens(b) \/ CheckSession(b) \/ Accept(b) \/ BrowserCloses(b)
      PROVE  ConnLatest' /\ RegisteredUnlessSuperseded'
  <2>1. Kept /\ UNCHANGED home
    BY <1>8 DEF BrowserOpens, CheckSession, Accept, BrowserCloses, agentVars, runtimeVars, history
  <2>2. UNCHANGED inbox \/ \E m \in Browser \cup {"stop"} : Sent(m)
    BY <1>8 DEF BrowserOpens, CheckSession, Accept, BrowserCloses, SendStop, Sent
  <2> QED BY <1>6, <1>7, <2>1, <2>2
<1>9. CASE ReadStart \/ ReadStop
  <2>1. Received /\ Kept BY <1>9 DEF ReadStart, ReadStop, Received, history
  <2>2. /\ conn \in Conn
        /\ \A k \in Conn : k # conn => inbox'[k] = inbox[k]
    BY <2>1, ReceivedFacts
  <2>3. \A r \in Browser : home'[r] = home[r] \/ home'[r] = conn
    BY <1>9 DEF ReadStart, ReadStop
  <2>4. \A k \in Conn : inbox[k] = <<>> => inbox'[k] = <<>>
    BY <2>1, <2>2 DEF Received
  <2>5. ConnLatest'
    <3>1. conn <= dialled BY DEF ConnLatest
    <3>2. \A r \in Browser : home'[r] <= dialled BY <2>3, <3>1 DEF ConnLatest
    <3>3. \A k \in Conn : k > dialled => inbox'[k] = <<>> BY <2>4 DEF ConnLatest
    <3> HIDE DEF TypeOK
    <3> QED BY <2>1, <3>2, <3>3 DEF ConnLatest
  <2> QED BY <2>1, <2>5 DEF RegisteredUnlessSuperseded
<1>10. ASSUME NEW r \in Browser, RuntimeStep(r)
       PROVE  ConnLatest' /\ RegisteredUnlessSuperseded'
  BY <1>6, <1>10, RuntimeMoves DEF RuntimeFrame
<1>11. CASE UNCHANGED vars
  BY <1>6, <1>11 DEF vars, serverVars, agentVars, runtimeVars, history
<1> QED BY <1>1, <1>2, <1>3, <1>4, <1>5, <1>8, <1>9, <1>10, <1>11
        DEF Next, Connection, Browsers, Runtimes, RuntimeStep

-----------------------------------------------------------------------------
(* 2. Browsers *)

Viewers == BrowserStages /\ GhostsClosedEarly

LEMMA ViewersStep == TypeOK /\ Viewers /\ [Next]_vars => Viewers'
<1> SUFFICES ASSUME TypeOK, BrowserStages, GhostsClosedEarly, [Next]_vars
             PROVE  BrowserStages' /\ GhostsClosedEarly'
  BY DEF Viewers
<1>0. stage \in [Browser -> Stage] /\ open \subseteq Browser BY DEF TypeOK
<1>1. ASSUME UNCHANGED <<stage, open, clients, early>>
      PROVE  BrowserStages' /\ GhostsClosedEarly'
  BY <1>1 DEF BrowserStages, GhostsClosedEarly
<1>2. CASE Restart
  BY <1>0, <1>2 DEF Restart, BrowserStages, GhostsClosedEarly, Undecided
<1>3. ASSUME NEW b \in Browser, BrowserOpens(b) PROVE BrowserStages' /\ GhostsClosedEarly'
  BY <1>0, <1>3 DEF BrowserOpens, BrowserStages, GhostsClosedEarly, Undecided, history
<1>4. ASSUME NEW b \in Browser, CheckSession(b) PROVE BrowserStages' /\ GhostsClosedEarly'
  BY <1>0, <1>4 DEF CheckSession, BrowserStages, GhostsClosedEarly, Undecided, history
<1>5. ASSUME NEW b \in Browser, Accept(b) PROVE BrowserStages' /\ GhostsClosedEarly'
  BY <1>0, <1>5 DEF Accept, BrowserStages, GhostsClosedEarly, Undecided, history
<1>6. ASSUME NEW b \in Browser, BrowserCloses(b) PROVE BrowserStages' /\ GhostsClosedEarly'
  BY <1>0, <1>6 DEF BrowserCloses, BrowserStages, GhostsClosedEarly, Undecided
<1>7. ASSUME NEW k \in Conn, AgentRegisters(k) \/ ServerSeesClose(k)
      PROVE  BrowserStages' /\ GhostsClosedEarly'
  BY <1>1, <1>7 DEF AgentRegisters, ServerSeesClose, history
<1>8. CASE AgentDials \/ AgentLosesConnection \/ ReadStart \/ ReadStop
  BY <1>1, <1>8 DEF AgentDials, AgentLosesConnection, ReadStart, ReadStop, history
<1>9. ASSUME NEW r \in Browser, RuntimeStep(r) PROVE BrowserStages' /\ GhostsClosedEarly'
  BY <1>1, <1>9, RuntimeMoves DEF RuntimeFrame
<1>10. CASE UNCHANGED vars BY <1>1, <1>10 DEF vars, serverVars, history
<1> QED BY <1>2, <1>3, <1>4, <1>5, <1>6, <1>7, <1>8, <1>9, <1>10
        DEF Next, Connection, Browsers, Runtimes, RuntimeStep

-----------------------------------------------------------------------------
(* 3. Starts and runtimes *)

Starts == StartsFresh /\ StartsOnce

LEMMA StartsStep == TypeOK /\ Starts /\ [Next]_vars => Starts'
<1> SUFFICES ASSUME TypeOK, StartsFresh, StartsOnce, [Next]_vars
             PROVE  StartsFresh' /\ StartsOnce'
  BY DEF Starts
<1>0. /\ stage \in [Browser -> Stage]
      /\ phase \in [Browser -> Phase]
      /\ inbox \in [Conn -> Seq(Browser \cup {"stop"})]
  BY DEF TypeOK
(* Nothing new is sent, nothing is started, no browser becomes undecided. *)
<1>1. ASSUME UNCHANGED inbox,
             \A b \in Browser : phase'[b] = "unused" <=> phase[b] = "unused",
             \A b \in Browser : stage'[b] \in Undecided => stage[b] \in Undecided
      PROVE  StartsFresh' /\ StartsOnce'
  BY <1>1 DEF StartsFresh, StartsOnce, NotStarted, Undecided
<1>2. CASE AgentDials \/ (\E k \in Conn : AgentRegisters(k) \/ ServerSeesClose(k))
  BY <1>1, <1>2 DEF AgentDials, AgentRegisters, ServerSeesClose, agentVars, runtimeVars
<1>3. CASE AgentLosesConnection
  <2>1. /\ conn \in Conn
        /\ UNCHANGED <<stage, phase>>
    BY <1>3, MaxConnsAssumption DEF AgentLosesConnection, runtimeVars, TypeOK, Conn
  <2>2. \A k \in Conn : inbox'[k] = IF k = conn THEN <<>> ELSE inbox[k]
    BY <1>0, <1>3, <2>1 DEF AgentLosesConnection
  <2>3. \A k \in Conn : \A i \in 1..Len(inbox'[k]) : k # conn /\ inbox'[k] = inbox[k]
    BY <2>2
  <2>4. StartsFresh' BY <2>1, <2>3 DEF StartsFresh, NotStarted
  <2>5. StartsOnce' BY <2>3 DEF StartsOnce
  <2> QED BY <2>4, <2>5
<1>4. CASE Restart
  <2>1. UNCHANGED <<inbox, phase>> BY <1>4 DEF Restart, agentVars, runtimeVars
  <2>2. \A b \in Browser : stage'[b] \in Undecided => stage[b] \in Undecided
    BY <1>4 DEF Restart, Undecided
  <2> QED BY <1>1, <2>1, <2>2
<1>5. ASSUME NEW b \in Browser, BrowserOpens(b) \/ CheckSession(b)
      PROVE  StartsFresh' /\ StartsOnce'
  <2>1. UNCHANGED <<inbox, phase>> BY <1>5 DEF BrowserOpens, CheckSession, agentVars, runtimeVars
  <2>2. \A c \in Browser : stage'[c] \in Undecided => stage[c] \in Undecided
    BY <1>0, <1>5 DEF BrowserOpens, CheckSession, Undecided
  <2> QED BY <1>1, <2>1, <2>2
<1>6. ASSUME NEW b \in Browser, Accept(b) PROVE StartsFresh' /\ StartsOnce'
  <2>1. UNCHANGED phase BY <1>6 DEF Accept, agentVars, runtimeVars
  <2>2. stage[b] = "cleared" /\ stage'[b] \notin Undecided
    BY <1>0, <1>6 DEF Accept, Undecided
  <2>3. \A c \in Browser : c # b => stage'[c] = stage[c] BY <1>0, <1>6 DEF Accept
  <2>4. phase[b] = "unused" /\ NotStarted(b) BY <2>2 DEF StartsFresh, Undecided
  <2>5. CASE agent = 0
    <3>1. UNCHANGED inbox BY <1>6, <2>5 DEF Accept
    <3> QED BY <1>1, <2>1, <2>2, <2>3, <3>1
  <2>6. CASE agent # 0
    <3>1. Sent(b) BY <1>6, <2>6 DEF Accept, Sent
    <3>2. /\ agent \in Conn
          /\ \A k \in Conn : k # agent => inbox'[k] = inbox[k]
          /\ Len(inbox'[agent]) = Len(inbox[agent]) + 1
          /\ \A i \in 1..Len(inbox[agent]) : inbox'[agent][i] = inbox[agent][i]
          /\ inbox'[agent][Len(inbox[agent]) + 1] = b
      BY <3>1, SentFacts
    <3>3. Len(inbox[agent]) \in Nat BY <1>0, <3>2
    <3> DEFINE new == Len(inbox[agent]) + 1
    <3>4. \A k \in Conn : \A i \in 1..Len(inbox'[k]) :
            \/ k = agent /\ i = new /\ inbox'[k][i] = b
            \/ i \in 1..Len(inbox[k]) /\ inbox'[k][i] = inbox[k][i]
      BY <3>2, <3>3
    <3>5. StartsFresh'
      <4>1. ASSUME NEW c \in Browser, c # b, NotStarted(c) PROVE NotStarted(c)'
        BY <3>4, <4>1 DEF NotStarted
      <4>2. \A c \in Browser : stage'[c] \in Undecided => phase[c] = "unused"
        BY <2>2, <2>3 DEF StartsFresh
      <4>3. \A c \in Browser : stage'[c] \in Undecided \/ phase[c] # "unused" => c # b /\ NotStarted(c)
        BY <2>2, <2>3, <2>4 DEF StartsFresh
      <4>4. \A c \in Browser : stage'[c] \in Undecided \/ phase[c] # "unused" => NotStarted(c)'
        BY <4>1, <4>3
      <4> QED BY <2>1, <4>2, <4>4 DEF StartsFresh, Undecided
    <3>6. StartsOnce'
      <4>1. SUFFICES ASSUME NEW k \in Conn, NEW l \in Conn,
                            NEW i \in 1..Len(inbox'[k]), NEW j \in 1..Len(inbox'[l]),
                            inbox'[k][i] = inbox'[l][j], inbox'[k][i] # "stop"
                     PROVE  k = l /\ i = j
        BY DEF StartsOnce
      <4>2. CASE inbox'[k][i] = b
        <5>1. k = agent /\ i = new BY <2>4, <3>4, <4>2 DEF NotStarted
        <5>2. l = agent /\ j = new BY <2>4, <3>4, <4>1, <4>2 DEF NotStarted
        <5> QED BY <5>1, <5>2
      <4>3. CASE inbox'[k][i] # b
        BY <3>4, <4>1, <4>3 DEF StartsOnce
      <4> QED BY <4>2, <4>3
    <3> QED BY <3>5, <3>6
  <2> QED BY <2>5, <2>6
<1>7. ASSUME NEW b \in Browser, BrowserCloses(b) PROVE StartsFresh' /\ StartsOnce'
  <2>1. UNCHANGED <<stage, phase>> BY <1>7 DEF BrowserCloses, agentVars, runtimeVars
  <2>2. UNCHANGED inbox \/ Sent("stop") BY <1>7 DEF BrowserCloses, SendStop, Sent
  <2>3. CASE UNCHANGED inbox BY <1>1, <2>1, <2>3
  <2>4. CASE Sent("stop")
    <3>1. /\ agent \in Conn
          /\ \A k \in Conn : k # agent => inbox'[k] = inbox[k]
          /\ Len(inbox'[agent]) = Len(inbox[agent]) + 1
          /\ \A i \in 1..Len(inbox[agent]) : inbox'[agent][i] = inbox[agent][i]
          /\ inbox'[agent][Len(inbox[agent]) + 1] = "stop"
      BY <2>4, SentFacts
    <3>2. Len(inbox[agent]) \in Nat BY <1>0, <3>1
    <3>3. \A k \in Conn : \A i \in 1..Len(inbox'[k]) :
            \/ inbox'[k][i] = "stop"
            \/ i \in 1..Len(inbox[k]) /\ inbox'[k][i] = inbox[k][i]
      BY <3>1, <3>2
    <3>4. \A c \in Browser : c # "stop" BY BrowserAssumption
    <3>5. \A c \in Browser : NotStarted(c) => NotStarted(c)' BY <3>3, <3>4 DEF NotStarted
    <3>6. StartsFresh' BY <2>1, <3>5 DEF StartsFresh
    <3>7. StartsOnce'
      <4> SUFFICES ASSUME NEW k \in Conn, NEW l \in Conn,
                          NEW i \in 1..Len(inbox'[k]), NEW j \in 1..Len(inbox'[l]),
                          inbox'[k][i] = inbox'[l][j], inbox'[k][i] # "stop"
                   PROVE  k = l /\ i = j
        BY DEF StartsOnce
      <4>1. i \in 1..Len(inbox[k]) /\ inbox'[k][i] = inbox[k][i] BY <3>3
      <4>2. inbox'[l][j] # "stop" OBVIOUS
      <4>3. j \in 1..Len(inbox[l]) /\ inbox'[l][j] = inbox[l][j] BY <3>3, <4>2
      <4>4. inbox[k][i] = inbox[l][j] /\ inbox[k][i] # "stop" BY <4>1, <4>2, <4>3
      <4>5. \A m, n \in Conn : \A x \in 1..Len(inbox[m]), y \in 1..Len(inbox[n]) :
              inbox[m][x] = inbox[n][y] /\ inbox[m][x] # "stop" => m = n /\ x = y
        BY DEF StartsOnce
      <4> HIDE DEF StartsOnce
      <4> QED BY <4>1, <4>3, <4>4, <4>5
    <3> QED BY <3>6, <3>7
  <2> QED BY <2>2, <2>3, <2>4
<1>8. CASE ReadStart \/ ReadStop
  <2>1. Received BY <1>8 DEF ReadStart, ReadStop, Received
  <2>2. /\ conn \in Conn
        /\ \A k \in Conn : k # conn => inbox'[k] = inbox[k]
        /\ Len(inbox[conn]) >= 1
        /\ Len(inbox'[conn]) = Len(inbox[conn]) - 1
        /\ \A i \in 1..Len(inbox'[conn]) : inbox'[conn][i] = inbox[conn][i + 1]
        /\ Head(inbox[conn]) = inbox[conn][1]
        /\ Head(inbox[conn]) \in Browser \cup {"stop"}
    BY <2>1, ReceivedFacts
  <2>3. Len(inbox[conn]) \in Nat BY <1>0, <2>2
  <2> DEFINE Was(k, i) == IF k = conn THEN i + 1 ELSE i
  <2>4. ASSUME NEW k \in Conn, NEW i \in 1..Len(inbox'[k])
        PROVE  Was(k, i) \in 1..Len(inbox[k]) /\ inbox'[k][i] = inbox[k][Was(k, i)]
    <3>1. CASE k = conn
      <4>1. i + 1 \in 1..Len(inbox[conn]) BY <2>2, <2>3, <2>4, <3>1
      <4> QED BY <2>2, <2>4, <3>1, <4>1
    <3>2. CASE k # conn BY <2>2, <2>4, <3>2
    <3> QED BY <3>1, <3>2
  <2>5. \A k, l \in Conn : \A i, j \in Nat : k = l /\ Was(k, i) = Was(l, j) => i = j
    OBVIOUS
  <2>6. StartsOnce'
    <3>1. SUFFICES ASSUME NEW k \in Conn, NEW l \in Conn,
                          NEW i \in 1..Len(inbox'[k]), NEW j \in 1..Len(inbox'[l]),
                          inbox'[k][i] = inbox'[l][j], inbox'[k][i] # "stop"
                   PROVE  k = l /\ i = j
      BY DEF StartsOnce
    <3>2. PICK p \in 1..Len(inbox[k]) : p = Was(k, i) /\ inbox'[k][i] = inbox[k][p]
      BY <2>4
    <3>3. PICK q \in 1..Len(inbox[l]) : q = Was(l, j) /\ inbox'[l][j] = inbox[l][q]
      BY <2>4
    <3>4. p = q /\ k = l
      <4>1. inbox[k][p] = inbox[l][q] /\ inbox[k][p] # "stop" BY <3>1, <3>2, <3>3
      <4> QED BY <4>1 DEF StartsOnce
    <3>5. inbox' \in [Conn -> Seq(Browser \cup {"stop"})] BY <2>1, ReceivedFacts
    <3>6. Len(inbox'[k]) \in Nat /\ Len(inbox'[l]) \in Nat BY <3>5
    <3>7. i \in Nat /\ j \in Nat BY <3>6
    <3> QED BY <2>5, <3>2, <3>3, <3>4, <3>7
  <2>7. \A b \in Browser : NotStarted(b) => NotStarted(b)' BY <2>4 DEF NotStarted
  <2>8. UNCHANGED stage BY <1>8 DEF ReadStart, ReadStop
  <2>9. CASE ReadStop
    <3>1. UNCHANGED phase BY <2>9 DEF ReadStop
    <3> QED BY <2>6, <2>7, <2>8, <3>1 DEF StartsFresh
  <2>10. CASE ReadStart
    <3>0. PICK h \in Browser : h = Head(inbox[conn]) BY <2>2, <2>10 DEF ReadStart
    <3>1. h # "stop" BY <3>0, BrowserAssumption
    <3>2. phase' = [phase EXCEPT ![h] = "spawned"] BY <2>10, <3>0 DEF ReadStart
    <3>3. ~NotStarted(h)
      <4>1. 1 \in 1..Len(inbox[conn]) BY <2>2, <2>3
      <4> QED BY <2>2, <3>0, <4>1 DEF NotStarted
    <3>4. stage[h] \notin Undecided BY <3>1, <3>3 DEF StartsFresh
    <3>5. NotStarted(h)'
      <4>1. SUFFICES ASSUME NEW k \in Conn, NEW i \in 1..Len(inbox'[k]), inbox'[k][i] = h
                     PROVE  FALSE
        BY DEF NotStarted
      <4>2. /\ Was(k, i) \in 1..Len(inbox[k])
            /\ inbox[k][Was(k, i)] = inbox[conn][1]
            /\ inbox[k][Was(k, i)] # "stop"
        BY <2>2, <2>4, <3>0, <3>1, <4>1
      <4>3. 1 \in 1..Len(inbox[conn]) BY <2>2, <2>3
      <4>4. k = conn /\ Was(k, i) = 1 BY <2>2, <4>2, <4>3 DEF StartsOnce
      <4> QED BY <2>2, <2>3, <4>1, <4>4
    <3>6. \A b \in Browser : b # h => phase'[b] = phase[b] BY <1>0, <3>2
    <3>7. StartsFresh' BY <2>7, <2>8, <3>4, <3>5, <3>6 DEF StartsFresh
    <3> QED BY <2>6, <3>7
  <2> QED BY <1>8, <2>9, <2>10
<1>9. ASSUME NEW r \in Browser, RuntimeStep(r) PROVE StartsFresh' /\ StartsOnce'
  <2>1. RuntimeFrame /\ Moves(r) BY <1>9, RuntimeMoves
  <2>2. \A b \in Browser : phase'[b] = "unused" <=> phase[b] = "unused" BY <2>1, MovesKeep
  <2> QED BY <1>1, <2>1, <2>2 DEF RuntimeFrame
<1>10. CASE UNCHANGED vars
  BY <1>1, <1>10 DEF vars, serverVars, agentVars, runtimeVars
<1> QED BY <1>2, <1>3, <1>4, <1>5, <1>6, <1>7, <1>8, <1>9, <1>10
        DEF Next, Connection, Browsers, Runtimes, RuntimeStep

LEMMA OneRelayStep ==
  TypeOK /\ StartsFresh /\ HelpersServe /\ OneRelay /\ [Next]_vars => HelpersServe' /\ OneRelay'
<1> SUFFICES ASSUME TypeOK, StartsFresh, HelpersServe, OneRelay, [Next]_vars
             PROVE  HelpersServe' /\ OneRelay'
  OBVIOUS
<1>0. phase \in [Browser -> Phase] /\ "none" \notin Browser /\ helpers \subseteq Browser
  BY BrowserAssumption DEF TypeOK
<1>1. ASSUME UNCHANGED <<phase, registry, helpers>> PROVE HelpersServe' /\ OneRelay'
  BY <1>1 DEF HelpersServe, OneRelay, ActiveRuntimes
<1>2. CASE Connection \/ Browsers \/ ReadStop \/ UNCHANGED vars
  <2>1. CASE Connection
    BY <1>1, <2>1 DEF Connection, AgentDials, AgentLosesConnection, AgentRegisters,
       ServerSeesClose, Restart, agentVars, runtimeVars
  <2>2. CASE Browsers
    BY <1>1, <2>2 DEF Browsers, BrowserOpens, CheckSession, Accept, BrowserCloses,
       agentVars, runtimeVars
  <2>3. CASE ReadStop BY <1>1, <2>3 DEF ReadStop
  <2>4. CASE UNCHANGED vars BY <1>1, <2>4 DEF vars, agentVars, runtimeVars
  <2> QED BY <1>2, <2>1, <2>2, <2>3, <2>4
<1>3. CASE ReadStart
  <2> DEFINE h == Head(inbox[conn])
  <2>1. Received BY <1>3 DEF ReadStart, Received
  <2>2. /\ conn \in Conn /\ Len(inbox[conn]) >= 1 /\ Len(inbox[conn]) \in Nat
        /\ h = inbox[conn][1] /\ h \in Browser \cup {"stop"}
    BY <2>1, ReceivedFacts DEF TypeOK
  <2>3. h \in Browser BY <1>3, <2>2 DEF ReadStart
  <2>4. phase[h] = "unused"
    <3>1. 1 \in 1..Len(inbox[conn]) BY <2>2
    <3>2. ~NotStarted(h) BY <2>2, <3>1 DEF NotStarted
    <3> QED BY <2>3, <3>2 DEF StartsFresh
  <2>5. phase' = [phase EXCEPT ![h] = "spawned"] /\ UNCHANGED <<registry, helpers>>
    BY <1>3 DEF ReadStart
  <2>6. ActiveRuntimes' = ActiveRuntimes BY <1>0, <2>3, <2>4, <2>5 DEF ActiveRuntimes, Active
  <2>7. HelpersServe' BY <1>0, <2>3, <2>4, <2>5 DEF HelpersServe
  <2> QED BY <2>5, <2>6, <2>7 DEF OneRelay
<1>4. ASSUME NEW r \in Browser, Register(r) PROVE HelpersServe' /\ OneRelay'
  <2>1. phase[r] = "spawned" /\ UNCHANGED helpers BY <1>4 DEF Register
  <2>2. \A b \in Browser : b # r => phase'[b] = phase[b] BY <1>0, <1>4 DEF Register
  <2>3. HelpersServe' BY <1>0, <2>1, <2>2 DEF HelpersServe
  <2>4. CASE registry = "none"
    <3>1. ActiveRuntimes = {} /\ helpers = {} BY <2>4 DEF OneRelay
    <3>2. registry' = r /\ phase'[r] = "posting" BY <1>0, <1>4, <2>4 DEF Register
    <3>3. ActiveRuntimes' = {r} BY <2>2, <3>1, <3>2 DEF ActiveRuntimes, Active
    <3> QED BY <1>0, <2>1, <2>3, <3>1, <3>2, <3>3 DEF OneRelay
  <2>5. CASE registry # "none"
    <3>1. UNCHANGED registry /\ phase'[r] = "over" BY <1>0, <1>4, <2>5 DEF Register
    <3>2. ActiveRuntimes' = ActiveRuntimes BY <2>1, <2>2, <3>1 DEF ActiveRuntimes, Active
    <3> QED BY <2>1, <2>3, <3>1, <3>2 DEF OneRelay
  <2> QED BY <2>4, <2>5
<1>5. ASSUME NEW r \in Browser, NEW from \in Active, NEW to \in Active, Proceed(r, from, to)
      PROVE  /\ ActiveRuntimes' = ActiveRuntimes /\ UNCHANGED registry /\ r \in ActiveRuntimes
             /\ phase[r] = from /\ phase'[r] = to
             /\ \A b \in Browser : b # r => phase'[b] = phase[b]
  <2>1. phase[r] = from /\ phase'[r] = to /\ UNCHANGED registry BY <1>0, <1>5 DEF Proceed
  <2>2. \A b \in Browser : b # r => phase'[b] = phase[b] BY <1>0, <1>5 DEF Proceed
  <2> QED BY <2>1, <2>2 DEF ActiveRuntimes
<1>6. ASSUME NEW r \in Browser, PostStarting(r) PROVE HelpersServe' /\ OneRelay'
  <2>1. Proceed(r, "posting", "launching") /\ UNCHANGED helpers BY <1>6 DEF PostStarting
  <2>2. "posting" \in Active /\ "launching" \in Active BY DEF Active
  <2> QED BY <1>0, <1>5, <2>1, <2>2 DEF OneRelay, HelpersServe
<1>7. ASSUME NEW r \in Browser, LaunchHelper(r) PROVE HelpersServe' /\ OneRelay'
  <2>1. Proceed(r, "launching", "accepting") /\ helpers' = helpers \cup {r}
    BY <1>7 DEF LaunchHelper
  <2>2. "launching" \in Active /\ "accepting" \in Active BY DEF Active
  <2> QED BY <1>0, <1>5, <2>1, <2>2 DEF OneRelay, HelpersServe
<1>8. ASSUME NEW r \in Browser, HelperConnects(r) PROVE HelpersServe' /\ OneRelay'
  <2>1. Proceed(r, "accepting", "streaming") /\ UNCHANGED helpers BY <1>8 DEF HelperConnects
  <2>2. "accepting" \in Active /\ "streaming" \in Active BY DEF Active
  <2> QED BY <1>0, <1>5, <2>1, <2>2 DEF OneRelay, HelpersServe
<1>9. ASSUME NEW r \in Browser, RelayFails(r) PROVE HelpersServe' /\ OneRelay'
  <2>1. PICK from \in {"posting", "launching", "accepting", "streaming"} : Proceed(r, from, "failing")
    BY <1>9 DEF RelayFails
  <2>2. from \in Active /\ "failing" \in Active BY DEF Active
  <2>3. helpers' = helpers \ {r} BY <1>9 DEF RelayFails
  <2> QED BY <1>0, <1>5, <2>1, <2>2, <2>3 DEF OneRelay, HelpersServe
<1>10. ASSUME NEW r \in Browser, HelperExits(r) \/ KillHelper(r) PROVE HelpersServe' /\ OneRelay'
  <2>1. helpers' = helpers \ {r} /\ UNCHANGED <<phase, registry>>
    BY <1>10 DEF HelperExits, KillHelper
  <2> QED BY <2>1 DEF OneRelay, HelpersServe, ActiveRuntimes
<1>11. ASSUME NEW r \in Browser, StreamStops(r) \/ RelayEnds(r) PROVE HelpersServe' /\ OneRelay'
  <2>1. phase[r] \in Active /\ phase' = [phase EXCEPT ![r] = "over"] /\ registry' = "none"
    BY <1>11 DEF StreamStops, RelayEnds, Active
  <2>2. ActiveRuntimes = {r} BY <2>1 DEF OneRelay, ActiveRuntimes
  <2>3. ActiveRuntimes' = {} BY <1>0, <2>1, <2>2 DEF ActiveRuntimes, Active
  <2>4. helpers' = {}
    <3>1. helpers \subseteq {r} BY <2>2 DEF OneRelay
    <3>2. CASE StreamStops(r) BY <3>1, <3>2 DEF StreamStops
    <3>3. CASE RelayEnds(r)
      <4>1. r \notin helpers BY <3>3 DEF RelayEnds, HelpersServe
      <4> QED BY <3>1, <3>3, <4>1 DEF RelayEnds
    <3> QED BY <1>11, <3>2, <3>3
  <2> QED BY <2>1, <2>3, <2>4 DEF OneRelay, HelpersServe
<1> QED BY <1>2, <1>3, <1>4, <1>6, <1>7, <1>8, <1>9, <1>10, <1>11 DEF Next, Runtimes

-----------------------------------------------------------------------------
(* 4. Stops *)

LEMMA SeqDomain ==
  ASSUME NEW S, NEW s \in Seq(S)
  PROVE  DOMAIN s = 1..Len(s) /\ Len(s) \in Nat
OBVIOUS

Stops ==
  /\ StopsFollow /\ StartsCovered
  /\ StoppedStarted /\ StopSparesLaterViewers /\ RelayLeftRunningIsExplained

(* The last conjunct, with the runtimes it is about under one name. *)
Explained(r) ==
  \/ clients # {}
  \/ Cancelled(r)
  \/ \E i \in DOMAIN inbox[conn] : inbox[conn][i] = "stop"
  \/ r \in overtaken
  \/ unsent
  \/ conn \notin sockets

LEMMA LeftRunning ==
  RelayLeftRunningIsExplained <=> \A r \in Browser : phase[r] \in Begun => Explained(r)
BY DEF RelayLeftRunningIsExplained, Explained, ActiveRuntimes, Spawned, Begun

LEMMA LeftRunningPrimed ==
  RelayLeftRunningIsExplained' <=> \A r \in Browser : phase'[r] \in Begun => Explained(r)'
BY DEF RelayLeftRunningIsExplained, Explained, ActiveRuntimes, Spawned, Begun

LEMMA StopsStep ==
  TypeOK /\ ConnLatest /\ BrowserStages /\ StartsFresh /\ OneRelay /\ Stops /\ [Next]_vars => Stops'
<1> SUFFICES ASSUME TypeOK, ConnLatest, BrowserStages, StartsFresh, OneRelay,
                    StopsFollow, StartsCovered, StoppedStarted, StopSparesLaterViewers,
                    RelayLeftRunningIsExplained, [Next]_vars
             PROVE  Stops'
  BY DEF Stops
<1>0. /\ stage \in [Browser -> Stage]
      /\ phase \in [Browser -> Phase]
      /\ home \in [Browser -> 0..MaxConns]
      /\ inbox \in [Conn -> Seq(Browser \cup {"stop"})]
      /\ \A k \in Conn : DOMAIN inbox[k] = 1..Len(inbox[k]) /\ Len(inbox[k]) \in Nat
      /\ open \subseteq Browser /\ "stop" \notin Browser /\ 0 \notin Conn /\ Conn \subseteq Nat
      /\ sockets \subseteq Conn /\ clients \subseteq Browser /\ stopped \subseteq Browser
      /\ conn = 0 \/ conn \in Conn
  BY BrowserAssumption, MaxConnsAssumption, SeqDomain DEF TypeOK, Conn
<1>1. \A r \in Browser : phase[r] \in Begun => Explained(r) BY LeftRunning
(* Nothing moves on the wire or at the agent, and nobody else is watching. *)
<1>2. ASSUME UNCHANGED <<inbox, clients, conn, home, stopped, overtaken, unsent>>,
             open' \subseteq open, sockets' \subseteq sockets,
             \A b \in Browser : phase'[b] = "unused" <=> phase[b] = "unused",
             \A b \in Browser : phase'[b] \in Begun => phase[b] \in Begun
      PROVE  Stops'
  <2>1. StopsFollow' BY <1>0, <1>2 DEF StopsFollow
  <2>2. StartsCovered' BY <1>2 DEF StartsCovered
  <2>3. StoppedStarted' BY <1>0, <1>2 DEF StoppedStarted
  <2>4. StopSparesLaterViewers' BY <1>2 DEF StopSparesLaterViewers
  <2>5. RelayLeftRunningIsExplained'
    BY <1>1, <1>2, LeftRunningPrimed DEF Explained, Cancelled
  <2> QED BY <2>1, <2>2, <2>3, <2>4, <2>5 DEF Stops
<1>3. CASE AgentDials
  <2>1. /\ conn' = dialled + 1 /\ conn' \in Conn
        /\ UNCHANGED <<inbox, open, clients, phase, home, stopped, overtaken, unsent>>
    BY <1>3, MaxConnsAssumption DEF AgentDials, runtimeVars, history, TypeOK, Conn
  <2>2. inbox'[conn'] = <<>> BY <2>1 DEF ConnLatest, TypeOK
  <2>3. 1..Len(inbox'[conn']) = {} BY <2>2
  <2>4. StopsFollow' BY <2>1, <2>3 DEF StopsFollow
  <2>5. StartsCovered' BY <2>3 DEF StartsCovered
  <2>6. StoppedStarted' /\ StopSparesLaterViewers'
    BY <2>1 DEF StoppedStarted, StopSparesLaterViewers
  <2>7. \A r \in Browser : Cancelled(r)'
    <3>1. \A r \in Browser : home[r] <= dialled /\ home[r] \in 0..MaxConns BY <1>0 DEF ConnLatest
    <3>2. \A r \in Browser : home[r] # dialled + 1 BY <3>1, MaxConnsAssumption DEF TypeOK
    <3> QED BY <2>1, <3>2 DEF Cancelled
  <2>8. RelayLeftRunningIsExplained' BY <2>7, LeftRunningPrimed DEF Explained
  <2> QED BY <2>4, <2>5, <2>6, <2>8 DEF Stops
<1>4. CASE AgentLosesConnection
  <2>1. /\ conn \in Conn /\ conn' = 0
        /\ UNCHANGED <<sockets, open, phase, stopped>>
    BY <1>0, <1>4 DEF AgentLosesConnection, runtimeVars
  <2>2. \A k \in Conn : inbox'[k] = IF k = conn THEN <<>> ELSE inbox[k]
    BY <1>0, <1>4, <2>1 DEF AgentLosesConnection
  <2>3. \A k \in Conn : \A i \in 1..Len(inbox'[k]) : k # conn /\ inbox'[k] = inbox[k]
    BY <2>2
  <2>4. StopsFollow' BY <2>1, <2>3 DEF StopsFollow
  <2>5. conn' \notin sockets' BY <1>0, <2>1
  <2>6. StartsCovered' BY <2>5 DEF StartsCovered
  <2>7. RelayLeftRunningIsExplained' BY <2>5, LeftRunningPrimed DEF Explained
  <2>8. StoppedStarted' /\ StopSparesLaterViewers'
    BY <2>1 DEF StoppedStarted, StopSparesLaterViewers
  <2> QED BY <2>4, <2>6, <2>7, <2>8 DEF Stops
<1>5. ASSUME NEW k \in Conn, AgentRegisters(k) \/ ServerSeesClose(k) PROVE Stops'
  <2>1. /\ UNCHANGED <<inbox, open, clients, conn, phase, home, stopped, overtaken, unsent>>
        /\ sockets' \subseteq sockets
    BY <1>5 DEF AgentRegisters, ServerSeesClose, agentVars, runtimeVars
  <2> QED BY <1>2, <2>1
<1>6. CASE Restart
  <2>1. open' = {} /\ sockets' = {} /\ UNCHANGED <<inbox, conn, phase, stopped>>
    BY <1>6 DEF Restart, agentVars, runtimeVars
  <2>2. StopsFollow' BY <2>1 DEF StopsFollow
  <2>3. StartsCovered' BY <2>1 DEF StartsCovered
  <2>4. StoppedStarted' /\ StopSparesLaterViewers' BY <2>1 DEF StoppedStarted, StopSparesLaterViewers
  <2>5. RelayLeftRunningIsExplained' BY <2>1, LeftRunningPrimed DEF Explained
  <2> QED BY <2>2, <2>3, <2>4, <2>5 DEF Stops
<1>7. ASSUME NEW b \in Browser, BrowserOpens(b) PROVE Stops'
  <2>1. /\ open' = open \cup {b} /\ stage[b] = "away"
        /\ UNCHANGED <<sockets, inbox, clients, conn, phase, home, stopped, overtaken, unsent>>
    BY <1>7 DEF BrowserOpens, agentVars, runtimeVars, history
  <2>2. phase[b] = "unused" /\ NotStarted(b) BY <2>1 DEF StartsFresh, Undecided
  <2>3. StopsFollow' BY <2>1, <2>2 DEF StopsFollow, NotStarted
  <2>4. StartsCovered' BY <2>1 DEF StartsCovered
  <2>5. StoppedStarted' BY <2>1 DEF StoppedStarted
  <2>6. StopSparesLaterViewers' BY <2>1, <2>2 DEF StoppedStarted, StopSparesLaterViewers
  <2>7. RelayLeftRunningIsExplained' BY <1>1, <2>1, LeftRunningPrimed DEF Explained, Cancelled
  <2> QED BY <2>3, <2>4, <2>5, <2>6, <2>7 DEF Stops
<1>8. ASSUME NEW b \in Browser, CheckSession(b) PROVE Stops'
  <2>1. /\ open' \subseteq open
        /\ UNCHANGED <<sockets, inbox, clients, conn, phase, home, stopped, overtaken, unsent>>
    BY <1>8 DEF CheckSession, agentVars, runtimeVars, history
  <2> QED BY <1>2, <2>1
<1>9. ASSUME NEW b \in Browser, Accept(b) PROVE Stops'
  <2>1. /\ clients' # {}
        /\ UNCHANGED <<sockets, open, conn, phase, home, stopped, overtaken, unsent>>
        /\ UNCHANGED inbox \/ Sent(b)
    BY <1>9 DEF Accept, Sent, agentVars, runtimeVars, history
  <2>2. StartsCovered' BY <2>1 DEF StartsCovered
  <2>3. StoppedStarted' /\ StopSparesLaterViewers' BY <2>1 DEF StoppedStarted, StopSparesLaterViewers
  <2>4. RelayLeftRunningIsExplained' BY <2>1, LeftRunningPrimed DEF Explained
  <2>5. StopsFollow'
    <3>1. CASE UNCHANGED inbox BY <2>1, <3>1 DEF StopsFollow
    <3>2. CASE Sent(b)
      <4>1. /\ agent \in Conn
            /\ \A k \in Conn : k # agent => inbox'[k] = inbox[k]
            /\ Len(inbox'[agent]) = Len(inbox[agent]) + 1
            /\ \A i \in 1..Len(inbox[agent]) : inbox'[agent][i] = inbox[agent][i]
            /\ inbox'[agent][Len(inbox[agent]) + 1] = b
        BY <3>2, SentFacts
      <4>2. Len(inbox[agent]) \in Nat BY <1>0, <4>1
      <4>3. ASSUME NEW k \in Conn, NEW j \in 1..Len(inbox'[k]), inbox'[k][j] = "stop"
            PROVE  /\ j \in 1..Len(inbox[k]) /\ inbox[k][j] = "stop"
                   /\ \A i \in 1..Len(inbox'[k]) :
                        i < j => i \in 1..Len(inbox[k]) /\ inbox'[k][i] = inbox[k][i]
        <5>1. CASE k # agent BY <4>1, <4>3, <5>1
        <5>2. CASE k = agent
          <6>1. j # Len(inbox[agent]) + 1 BY <1>0, <4>1, <4>3, <5>2
          <6>2. j \in 1..Len(inbox[agent]) BY <4>1, <4>2, <4>3, <5>2, <6>1
          <6>3. inbox[agent][j] = "stop" BY <4>1, <4>3, <5>2, <6>2
          <6>4. \A i \in 1..Len(inbox'[agent]) : i < j => i \in 1..Len(inbox[agent])
            BY <4>1, <4>2, <6>2
          <6> QED BY <4>1, <5>2, <6>2, <6>3, <6>4
        <5> QED BY <5>1, <5>2
      <4>4. ASSUME NEW k \in Conn, NEW i \in 1..Len(inbox'[k]), NEW j \in 1..Len(inbox'[k]),
                   i < j, inbox'[k][j] = "stop"
            PROVE  inbox'[k][i] \notin open'
        <5>1. /\ i \in 1..Len(inbox[k]) /\ j \in 1..Len(inbox[k])
              /\ inbox[k][j] = "stop" /\ inbox'[k][i] = inbox[k][i]
          BY <4>3, <4>4
        <5>2. inbox[k][i] \notin open BY <4>4, <5>1 DEF StopsFollow
        <5> QED BY <2>1, <5>1, <5>2
      <4>5. ASSUME conn # 0, NEW j \in 1..Len(inbox'[conn]), inbox'[conn][j] = "stop",
                   NEW r \in Browser, r \in open'
            PROVE  phase'[r] = "unused"
        <5>1. conn \in Conn BY <1>0, <4>5
        <5>2. j \in 1..Len(inbox[conn]) /\ inbox[conn][j] = "stop" BY <4>3, <4>5, <5>1
        <5>3. phase[r] = "unused" BY <2>1, <4>5, <5>2 DEF StopsFollow
        <5> QED BY <2>1, <5>3
      <4> QED BY <2>1, <4>4, <4>5 DEF StopsFollow
    <3>3. UNCHANGED inbox \/ Sent(b) BY <2>1
    <3> QED BY <3>1, <3>2, <3>3
  <2> QED BY <2>2, <2>3, <2>4, <2>5 DEF Stops
<1>10. ASSUME NEW b \in Browser, BrowserCloses(b) PROVE Stops'
  <2>1. /\ open' = open \ {b} /\ clients' = clients \ {b}
        /\ UNCHANGED <<sockets, conn, phase, home, stopped, overtaken>>
    BY <1>10 DEF BrowserCloses, agentVars, runtimeVars
  <2>2. StoppedStarted' /\ StopSparesLaterViewers' BY <2>1 DEF StoppedStarted, StopSparesLaterViewers
  <2>3. CASE UNCHANGED <<inbox, unsent>> /\ (clients = {} \/ clients' # {})
    <3>1. StopsFollow' BY <2>1, <2>3 DEF StopsFollow
    <3>2. StartsCovered' BY <2>1, <2>3 DEF StartsCovered
    <3>3. RelayLeftRunningIsExplained'
      BY <1>1, <2>1, <2>3, LeftRunningPrimed DEF Explained, Cancelled
    <3> QED BY <2>2, <3>1, <3>2, <3>3 DEF Stops
  <2>4. CASE clients = {b} /\ SendStop
    <3>1. \A c \in Browser : c \in open' => stage[c] \in Undecided
      BY <1>0, <2>1, <2>4 DEF BrowserStages
    <3>2. \A c \in Browser : c \in open' => phase[c] = "unused" /\ NotStarted(c)
      BY <3>1 DEF StartsFresh
    <3>3. CASE agent = 0
      <4>1. UNCHANGED inbox /\ unsent' = (unsent \/ agent # conn) BY <2>4, <3>3 DEF SendStop
      <4>2. StopsFollow' BY <2>1, <4>1 DEF StopsFollow
      <4>3. unsent' \/ conn' \notin sockets' BY <1>0, <2>1, <3>3, <4>1
      <4>4. StartsCovered' BY <4>3 DEF StartsCovered
      <4>5. RelayLeftRunningIsExplained' BY <4>3, LeftRunningPrimed DEF Explained
      <4> QED BY <2>2, <4>2, <4>4, <4>5 DEF Stops
    <3>4. CASE agent # 0
      <4>1. Sent("stop") /\ unsent' = (unsent \/ agent # conn) BY <2>4, <3>4 DEF SendStop, Sent
      <4>2. /\ agent \in Conn
            /\ inbox' \in [Conn -> Seq(Browser \cup {"stop"})]
            /\ \A k \in Conn : k # agent => inbox'[k] = inbox[k]
            /\ Len(inbox'[agent]) = Len(inbox[agent]) + 1
            /\ \A i \in 1..Len(inbox[agent]) : inbox'[agent][i] = inbox[agent][i]
            /\ inbox'[agent][Len(inbox[agent]) + 1] = "stop"
        BY <4>1, SentFacts
      <4>3. Len(inbox[agent]) \in Nat BY <1>0, <4>2
      <4> DEFINE last == Len(inbox[agent]) + 1
      <4>4. last \in 1..Len(inbox'[agent]) BY <4>2, <4>3
      <4>5. StopsFollow'
        <5>1. ASSUME NEW k \in Conn, NEW i \in 1..Len(inbox'[k]), NEW j \in 1..Len(inbox'[k]),
                     i < j, inbox'[k][j] = "stop"
              PROVE  inbox'[k][i] \notin open'
          <6>1. i \in 1..Len(inbox[k]) /\ inbox'[k][i] = inbox[k][i]
            <7>1. CASE k = agent
              <8>1. i < Len(inbox[agent]) + 1 /\ i >= 1 BY <4>2, <4>3, <5>1, <7>1
              <8>2. i \in 1..Len(inbox[agent]) BY <4>3, <8>1
              <8> QED BY <4>2, <7>1, <8>2
            <7>2. CASE k # agent BY <4>2, <5>1, <7>2
            <7> QED BY <7>1, <7>2
          <6> QED BY <1>0, <2>1, <3>2, <6>1 DEF NotStarted
        <5> QED BY <1>0, <2>1, <3>2, <5>1 DEF StopsFollow
      <4>6. CASE agent # conn
        <5>1. unsent' BY <4>1, <4>6
        <5>2. StartsCovered' BY <5>1 DEF StartsCovered
        <5>3. RelayLeftRunningIsExplained' BY <5>1, LeftRunningPrimed DEF Explained
        <5> QED BY <2>2, <4>5, <5>2, <5>3 DEF Stops
      <4>7. CASE agent = conn
        <5>1. \A i \in 1..Len(inbox'[conn]) : inbox'[conn][i] # "stop" =>
                last \in 1..Len(inbox'[conn]) /\ i < last /\ inbox'[conn][last] = "stop"
          BY <4>2, <4>3, <4>4, <4>7
        <5>2. StartsCovered' BY <2>1, <5>1 DEF StartsCovered
        <5>3. DOMAIN inbox'[conn] = 1..Len(inbox'[conn]) BY <4>2, <4>7, SeqDomain
        <5>4. \E i \in DOMAIN inbox'[conn'] : inbox'[conn'][i] = "stop"
          BY <2>1, <4>2, <4>4, <4>7, <5>3
        <5>5. RelayLeftRunningIsExplained' BY <5>4, LeftRunningPrimed DEF Explained
        <5> QED BY <2>2, <4>5, <5>2, <5>5 DEF Stops
      <4> QED BY <4>6, <4>7
    <3> QED BY <3>3, <3>4
  <2>5. \/ UNCHANGED <<inbox, unsent>> /\ (clients = {} \/ clients' # {})
        \/ clients = {b} /\ SendStop
    BY <1>10, <2>1 DEF BrowserCloses
  <2> QED BY <2>3, <2>4, <2>5
<1>11. ASSUME Received,
              UNCHANGED <<sockets, open, clients, conn, unsent>>
       PROVE  /\ conn \in Conn
              /\ 1 \in 1..Len(inbox[conn])
              /\ Head(inbox[conn]) = inbox[conn][1]
              /\ Head(inbox[conn]) \in Browser \cup {"stop"}
              /\ DOMAIN inbox'[conn] = 1..Len(inbox'[conn])
              /\ \A i \in 1..Len(inbox[conn]) : i # 1 =>
                   i - 1 \in 1..Len(inbox'[conn]) /\ inbox'[conn][i - 1] = inbox[conn][i]
              /\ \A i \in 1..Len(inbox'[conn]) :
                   i + 1 \in 1..Len(inbox[conn]) /\ inbox'[conn][i] = inbox[conn][i + 1]
              /\ \A k \in Conn : \A i, j \in 1..Len(inbox'[k]) :
                   i < j /\ inbox'[k][j] = "stop" => inbox'[k][i] \notin open'
              /\ StartsCovered'
  <2>1. /\ conn \in Conn
        /\ inbox' \in [Conn -> Seq(Browser \cup {"stop"})]
        /\ \A k \in Conn : k # conn => inbox'[k] = inbox[k]
        /\ Len(inbox[conn]) >= 1
        /\ Len(inbox'[conn]) = Len(inbox[conn]) - 1
        /\ \A i \in 1..Len(inbox'[conn]) : inbox'[conn][i] = inbox[conn][i + 1]
        /\ Head(inbox[conn]) = inbox[conn][1]
        /\ Head(inbox[conn]) \in Browser \cup {"stop"}
    BY <1>11, ReceivedFacts
  <2>2. Len(inbox[conn]) \in Nat BY <1>0, <2>1
  <2>3. 1 \in 1..Len(inbox[conn]) BY <2>1, <2>2
  <2>4. DOMAIN inbox'[conn] = 1..Len(inbox'[conn]) BY <2>1, SeqDomain
  <2>5. \A i \in 1..Len(inbox[conn]) : i # 1 =>
          i - 1 \in 1..Len(inbox'[conn]) /\ inbox'[conn][i - 1] = inbox[conn][i]
    <3>1. SUFFICES ASSUME NEW i \in 1..Len(inbox[conn]), i # 1
                   PROVE  i - 1 \in 1..Len(inbox'[conn]) /\ inbox'[conn][i - 1] = inbox[conn][i]
      OBVIOUS
    <3>2. i - 1 \in 1..Len(inbox'[conn]) /\ (i - 1) + 1 = i BY <2>1, <2>2, <3>1
    <3> QED BY <2>1, <3>2
  <2>6. \A i \in 1..Len(inbox'[conn]) :
          i + 1 \in 1..Len(inbox[conn]) /\ inbox'[conn][i] = inbox[conn][i + 1]
    BY <2>1, <2>2
  <2>7. \A k \in Conn : \A i, j \in 1..Len(inbox'[k]) :
          i < j /\ inbox'[k][j] = "stop" => inbox'[k][i] \notin open'
    <3>1. SUFFICES ASSUME NEW k \in Conn, NEW i \in 1..Len(inbox'[k]), NEW j \in 1..Len(inbox'[k]),
                          i < j, inbox'[k][j] = "stop"
                   PROVE  inbox'[k][i] \notin open
      BY <1>11
    <3>2. CASE k # conn BY <2>1, <3>1, <3>2 DEF StopsFollow
    <3>3. CASE k = conn
      <4>1. i + 1 < j + 1 BY <3>1
      <4>2. /\ i + 1 \in 1..Len(inbox[conn]) /\ inbox'[conn][i] = inbox[conn][i + 1]
            /\ j + 1 \in 1..Len(inbox[conn]) /\ inbox[conn][j + 1] = "stop"
        BY <2>6, <3>1, <3>3
      <4> QED BY <2>1, <3>3, <4>1, <4>2 DEF StopsFollow
    <3> QED BY <3>2, <3>3
  <2>8. StartsCovered'
    <3>1. CASE clients # {} \/ unsent \/ conn \notin sockets
      BY <1>11, <3>1 DEF StartsCovered
    <3>2. CASE \A i \in 1..Len(inbox[conn]) : inbox[conn][i] # "stop" =>
                 \E j \in 1..Len(inbox[conn]) : i < j /\ inbox[conn][j] = "stop"
      <4>1. ASSUME NEW i \in 1..Len(inbox'[conn]), inbox'[conn][i] # "stop"
            PROVE  \E j \in 1..Len(inbox'[conn]) : i < j /\ inbox'[conn][j] = "stop"
        <5>1. PICK j \in 1..Len(inbox[conn]) : i + 1 < j /\ inbox[conn][j] = "stop"
          BY <2>6, <3>2, <4>1
        <5>2. j # 1 /\ i < j - 1 BY <5>1
        <5>3. j - 1 \in 1..Len(inbox'[conn]) /\ inbox'[conn][j - 1] = "stop" BY <2>5, <5>1, <5>2
        <5> QED BY <5>2, <5>3
      <4> QED BY <1>11, <4>1 DEF StartsCovered
    <3> QED BY <3>1, <3>2 DEF StartsCovered
  <2> QED BY <2>1, <2>3, <2>4, <2>5, <2>6, <2>7, <2>8
<1>12. CASE ReadStart
  <2>1. /\ Received
        /\ UNCHANGED <<sockets, open, clients, conn, unsent, stopped, overtaken>>
    BY <1>12 DEF ReadStart, Received, history
  <2>2. /\ conn \in Conn
        /\ 1 \in 1..Len(inbox[conn])
        /\ Head(inbox[conn]) = inbox[conn][1]
        /\ Head(inbox[conn]) \in Browser \cup {"stop"}
        /\ DOMAIN inbox'[conn] = 1..Len(inbox'[conn])
        /\ \A i \in 1..Len(inbox[conn]) : i # 1 =>
             i - 1 \in 1..Len(inbox'[conn]) /\ inbox'[conn][i - 1] = inbox[conn][i]
        /\ \A i \in 1..Len(inbox'[conn]) :
             i + 1 \in 1..Len(inbox[conn]) /\ inbox'[conn][i] = inbox[conn][i + 1]
        /\ \A k \in Conn : \A i, j \in 1..Len(inbox'[k]) :
             i < j /\ inbox'[k][j] = "stop" => inbox'[k][i] \notin open'
        /\ StartsCovered'
    BY <1>11, <2>1
  <2>3. PICK h \in Browser : h = inbox[conn][1] BY <1>12, <2>2 DEF ReadStart
  <2>4. /\ \A r \in Browser : r # h => phase'[r] = phase[r] /\ home'[r] = home[r]
        /\ phase'[h] = "spawned"
    BY <1>0, <1>12, <2>2, <2>3 DEF ReadStart
  <2>5. StopsFollow'
    <3>1. ASSUME NEW j \in 1..Len(inbox'[conn]), inbox'[conn][j] = "stop",
                 NEW r \in Browser, r \in open
          PROVE  phase'[r] = "unused"
      <4>1. j + 1 \in 1..Len(inbox[conn]) /\ inbox[conn][j + 1] = "stop" /\ 1 < j + 1
        BY <2>2, <3>1
      <4>2. h \notin open BY <2>2, <2>3, <4>1 DEF StopsFollow
      <4>3. phase[r] = "unused" BY <1>0, <2>2, <3>1, <4>1 DEF StopsFollow
      <4> QED BY <2>4, <3>1, <4>2, <4>3
    <3> QED BY <2>1, <2>2, <3>1 DEF StopsFollow
  <2>6. StoppedStarted' BY <1>0, <2>1, <2>4 DEF StoppedStarted
  <2>7. StopSparesLaterViewers' BY <2>1 DEF StopSparesLaterViewers
  <2>8. RelayLeftRunningIsExplained'
    <3>1. SUFFICES ASSUME NEW r \in Browser, phase'[r] \in Begun,
                          clients = {}, ~unsent, conn \in sockets
                   PROVE  Explained(r)'
      BY <2>1, LeftRunningPrimed DEF Explained
    <3>2. CASE \E i \in 1..Len(inbox[conn]) : inbox[conn][i] = "stop"
      <4>1. PICK i \in 1..Len(inbox[conn]) : inbox[conn][i] = "stop" BY <3>2
      <4>2. i # 1 BY <1>0, <2>3, <4>1
      <4>3. i - 1 \in 1..Len(inbox'[conn]) /\ inbox'[conn][i - 1] = "stop" BY <2>2, <4>1, <4>2
      <4> QED BY <2>1, <2>2, <4>3 DEF Explained
    <3>3. CASE r # h /\ ~ \E i \in 1..Len(inbox[conn]) : inbox[conn][i] = "stop"
      <4>1. phase[r] \in Begun BY <2>4, <3>1, <3>3
      <4>2. Cancelled(r) \/ r \in overtaken BY <1>0, <1>1, <2>2, <3>1, <3>3, <4>1 DEF Explained
      <4> QED BY <2>1, <2>4, <3>3, <4>2 DEF Explained, Cancelled
    <3>4. CASE r = h /\ ~ \E i \in 1..Len(inbox[conn]) : inbox[conn][i] = "stop"
      BY <1>0, <2>2, <2>3, <3>1, <3>4 DEF StartsCovered
    <3> QED BY <3>2, <3>3, <3>4
  <2> QED BY <2>2, <2>5, <2>6, <2>7, <2>8 DEF Stops
<1>13. CASE ReadStop
  <2>1. /\ Received
        /\ UNCHANGED <<sockets, open, clients, conn, unsent, phase, home>>
        /\ stopped' = stopped \cup ({registry} \ {"none"})
        /\ overtaken' = overtaken \cup Spawned
    BY <1>13 DEF ReadStop, Received
  <2>2. /\ conn \in Conn
        /\ 1 \in 1..Len(inbox[conn])
        /\ inbox[conn][1] = "stop"
        /\ \A i \in 1..Len(inbox'[conn]) :
             i + 1 \in 1..Len(inbox[conn]) /\ inbox'[conn][i] = inbox[conn][i + 1]
        /\ \A k \in Conn : \A i, j \in 1..Len(inbox'[k]) :
             i < j /\ inbox'[k][j] = "stop" => inbox'[k][i] \notin open'
        /\ StartsCovered'
    BY <1>11, <1>13, <2>1 DEF ReadStop
  <2>3. \A r \in Browser : r \in open => phase[r] = "unused"
    BY <1>0, <2>2 DEF StopsFollow
  <2>4. \A r \in {registry} \ {"none"} : r \in Browser /\ phase[r] \in Active
    BY DEF OneRelay, ActiveRuntimes
  <2>5. "unused" \notin Active BY DEF Active
  <2>6. StopsFollow' BY <2>1, <2>2, <2>3 DEF StopsFollow
  <2>7. StoppedStarted' BY <2>1, <2>4, <2>5 DEF StoppedStarted
  <2>8. StopSparesLaterViewers' BY <2>1, <2>3, <2>4, <2>5 DEF StopSparesLaterViewers
  <2>9. \A r \in Browser : phase'[r] \in Begun => r \in stopped' \/ r \in overtaken'
    BY <2>1 DEF Begun, OneRelay, ActiveRuntimes, Spawned
  <2>10. RelayLeftRunningIsExplained' BY <2>9, LeftRunningPrimed DEF Explained, Cancelled
  <2> QED BY <2>2, <2>6, <2>7, <2>8, <2>10 DEF Stops
<1>14. ASSUME NEW r \in Browser, RuntimeStep(r) PROVE Stops'
  <2>1. RuntimeFrame /\ Moves(r) BY <1>14, RuntimeMoves
  <2>2. /\ \A b \in Browser : phase'[b] = "unused" <=> phase[b] = "unused"
        /\ \A b \in Browser : phase'[b] \in Begun => phase[b] \in Begun
    BY <2>1, MovesKeep
  <2> QED BY <1>2, <2>1, <2>2 DEF RuntimeFrame
<1>15. CASE UNCHANGED vars
  BY <1>2, <1>15 DEF vars, serverVars, agentVars, runtimeVars, history
<1> QED BY <1>3, <1>4, <1>5, <1>6, <1>7, <1>8, <1>9, <1>10, <1>12, <1>13, <1>14, <1>15
        DEF Next, Connection, Browsers, Runtimes, RuntimeStep

-----------------------------------------------------------------------------
(* The inductive invariant, and what follows from it *)

LEMMA InitOK == Init => IInv
<1> SUFFICES ASSUME Init PROVE IInv OBVIOUS
<1>0. 0 \notin Conn /\ \A k \in Conn : inbox[k] = <<>> BY DEF Conn, Init
<1>1. TypeOK
  <2>1. <<>> \in Seq(Browser \cup {"stop"}) OBVIOUS
  <2>2. inbox \in [Conn -> Seq(Browser \cup {"stop"})] BY <2>1 DEF Init
  <2>3. 0 \in 0..MaxConns /\ 0 \in 0..MaxFaults BY MaxConnsAssumption, RelayFaultsAssumption
  <2> QED BY <2>2, <2>3 DEF Init, TypeOK, Stage, Phase
<1>2. ConnLatest /\ RegisteredUnlessSuperseded
  BY <1>0 DEF Init, ConnLatest, RegisteredUnlessSuperseded
<1>3. BrowserStages /\ GhostsClosedEarly BY DEF Init, BrowserStages, GhostsClosedEarly, Undecided
<1>4. \A k \in Conn : 1..Len(inbox[k]) = {} BY <1>0
<1>5. StartsFresh /\ StartsOnce BY <1>4 DEF Init, StartsFresh, StartsOnce, NotStarted
<1>6. HelpersServe /\ OneRelay BY DEF Init, HelpersServe, OneRelay, ActiveRuntimes, Active
<1>7. StopsFollow BY <1>4 DEF Init, StopsFollow
<1>8. StartsCovered BY DEF Init, StartsCovered
<1>9. StoppedStarted /\ StopSparesLaterViewers BY DEF Init, StoppedStarted, StopSparesLaterViewers
<1>10. RelayLeftRunningIsExplained
  BY DEF Init, RelayLeftRunningIsExplained, ActiveRuntimes, Spawned, Active
<1> QED BY <1>1, <1>2, <1>3, <1>5, <1>6, <1>7, <1>8, <1>9, <1>10 DEF IInv

LEMMA NextOK == IInv /\ [Next]_vars => IInv'
<1> SUFFICES ASSUME IInv, [Next]_vars PROVE IInv' OBVIOUS
<1>1. TypeOK' BY TypeStep DEF IInv
<1>2. Conns' BY ConnsStep DEF IInv, Conns
<1>3. Viewers' BY ViewersStep DEF IInv, Viewers
<1>4. Starts' BY StartsStep DEF IInv, Starts
<1>5. HelpersServe' /\ OneRelay' BY OneRelayStep DEF IInv
<1>6. Stops' BY StopsStep DEF IInv, Stops
<1> QED BY <1>1, <1>2, <1>3, <1>4, <1>5, <1>6 DEF IInv, Conns, Viewers, Starts, Stops

(* The relay never leaves its inductive invariant, for any set of browsers,  *)
(* any number of agent connections and any number of faults.                 *)
THEOREM Safety == Spec => []IInv
BY InitOK, NextOK, PTL DEF Spec

(* Every map, inbox and runtime keeps its type. *)
THEOREM TypeCorrect == Spec => []TypeOK
<1>1. IInv => TypeOK BY DEF IInv
<1> QED BY <1>1, Safety, PTL

(* wsServer.js and remote_desktop_relay.go: however many browsers, reconnects *)
(* and restarts, one runtime relays the session and is the registered one.   *)
THEOREM OneRelayAtATime == Spec => []OneRelay
<1>1. IInv => OneRelay BY DEF IInv
<1> QED BY <1>1, Safety, PTL

(* A stop never reaches the relay of a browser that is still watching.       *)
THEOREM StopsReachNoViewer == Spec => []StopSparesLaterViewers
<1>1. IInv => StopSparesLaterViewers BY DEF IInv
<1> QED BY <1>1, Safety, PTL

(* The ways in which a relay may be left without clients are all of them.    *)
THEOREM NoUnexplainedRelay == Spec => []RelayLeftRunningIsExplained
<1>1. IInv => RelayLeftRunningIsExplained BY DEF IInv
<1> QED BY <1>1, Safety, PTL

(* Only a socket that closed during its acceptance stays among the clients.  *)
THEOREM GhostsAreEarly == Spec => []GhostsClosedEarly
<1>1. IInv => GhostsClosedEarly BY DEF IInv
<1> QED BY <1>1, Safety, PTL

(* A live registered connection is lost to the server only by a late event   *)
(* of an older one.                                                          *)
THEOREM RegistrationKept == Spec => []RegisteredUnlessSuperseded
<1>1. IInv => RegisteredUnlessSuperseded BY DEF IInv
<1> QED BY <1>1, Safety, PTL

(* One relay at a time, and one without viewers only for a reason. *)
THEOREM RelaysAreExplained == Spec => []RelaysExplained
BY OneRelayAtATime, NoUnexplainedRelay, PTL DEF RelaysExplained

(* The maps of browsers and of agents are right, or an event was late. *)
THEOREM BooksAreExplained == Spec => []BooksExplained
BY GhostsAreEarly, RegistrationKept, PTL DEF BooksExplained
-----------------------------------------------------------------------------
(* The status of a session.                                                  *)
(*                                                                           *)
(* "connected" is written by an upload the relay makes after a frame and by  *)
(* the page once it has drawn: FrameFirst says so of every such writer under *)
(* way.  A handler that goes on to its UPDATE on a final session has read    *)
(* the row before: LateCalls.                                                *)

(* Whoever may still write "connected" has had a frame. *)
FrameFirst ==
  /\ relay \in {"confirming", "streaming"} => framed
  /\ \A u \in uploads : u.report = "connected" => framed
  /\ drawn => framed
  /\ "media-active" \in calls => framed
  /\ ConnectedMeansFrame

(* The calls under way on a final session, but "end", read it before. *)
LateCalls == status \in Final => \A call \in calls : call = "end" \/ call \in late

-----------------------------------------------------------------------------
LEMMA NewUploads ==
  ASSUME NEW report \in Report, NEW try \in 1..MaxTries, NEW before \in 0..MaxLost
  PROVE  /\ NewUpload(report, try, before) \in Upload
         /\ NewUpload(report, try, before).report = report
BY DEF NewUpload, Upload

(* A first attempt, now or after one more loss. *)
LEMMA FirstUploads ==
  ASSUME SessionTypeOK, NEW report \in Report
  PROVE  /\ NewUpload(report, 1, lost) \in Upload
         /\ NewUpload(report, 1, lost).report = report
         /\ Lose => /\ lost' \in 0..MaxLost
                    /\ NewUpload(report, 1, lost') \in Upload
                    /\ NewUpload(report, 1, lost').report = report
<1>1. 1 \in 1..MaxTries
  BY MaxTriesAssumption
<1>2. lost \in 0..MaxLost /\ (Lose => lost' \in 0..MaxLost)
  BY SessionFaultsAssumption DEF SessionTypeOK, Lose
<1> QED
  BY <1>1, <1>2, NewUploads

LEMMA AbandonedUploads ==
  ASSUME SessionTypeOK, NEW kept \in BOOLEAN
  PROVE  /\ Abandoned(kept) \subseteq Upload
         /\ \A v \in Abandoned(kept) : \E u \in uploads : v.report = u.report
<1>1. \A u \in Waiting : /\ u \in uploads
                        /\ [u EXCEPT !.waiting = FALSE] \in Upload
                        /\ [u EXCEPT !.waiting = FALSE].report = u.report
  BY DEF Waiting, SessionTypeOK, Upload
<1> QED
  BY <1>1 DEF Abandoned, SessionTypeOK

LEMMA LoadTypes ==
  ASSUME SessionTypeOK, NEW call, NEW allowed \in BOOLEAN, allowed => call \in Call, Load(call, allowed)
  PROVE  /\ status' \in Final \cup Live /\ calls' \subseteq Call /\ late' \subseteq Call
         /\ UNCHANGED <<due, starts, uploads, relay, framed, drawn, lost>>
BY DEF SessionTypeOK, Load, AfterRead, LateAfter, Final, Live

LEMMA WriteTypes ==
  ASSUME SessionTypeOK, NEW new \in Final \cup Live, Write(new), calls' \subseteq Call
  PROVE  status' \in Final \cup Live /\ late' \subseteq Call
BY DEF SessionTypeOK, Write, LateAfter

LEMMA SessionTypeStep == SessionTypeOK /\ [SessionNext]_sessionVars => SessionTypeOK'
<1> SUFFICES ASSUME SessionTypeOK, [SessionNext]_sessionVars PROVE SessionTypeOK'
  OBVIOUS
<1>1. CASE TimePasses
  BY <1>1 DEF TimePasses, SessionTypeOK
<1>2. CASE Poll
  BY <1>2, LoadTypes DEF Poll, SessionTypeOK
<1>3. CASE LoadAdmit
  <2>1. admits' \in 0 .. MaxAdmits
    BY <1>3, MaxAdmitsAssumption DEF LoadAdmit, SessionTypeOK
  <2>2. (Seen \notin Final) \in BOOLEAN /\ "admit" \in Call
    BY DEF Call
  <2> QED
    BY <1>3, <2>1, <2>2, LoadTypes DEF LoadAdmit, SessionTypeOK
<1>4. CASE Admit
  <2>1. calls' \subseteq Call /\ late' \subseteq Call
    BY <1>4 DEF Admit, SessionTypeOK, Call
  <2> QED
    BY <1>4, <2>1 DEF Admit, SessionTypeOK
<1>5. CASE AdmitNoAgent
  BY <1>5 DEF AdmitNoAgent, SessionTypeOK
<1>6. CASE Pair
  <2>1. calls' \subseteq Call /\ Write("media_starting")
    BY <1>6 DEF Pair, SessionTypeOK
  <2>2. status' \in Final \cup Live /\ late' \subseteq Call
    BY <2>1, WriteTypes DEF Live
  <2> QED
    BY <1>6, <2>1, <2>2 DEF Pair, SessionTypeOK
<1>7. CASE Draw
  BY <1>7 DEF Draw, SessionTypeOK
<1>8. CASE LoadMediaActive
  <2>1. (Seen \in {"media_starting", "connected"}) \in BOOLEAN /\ "media-active" \in Call
    BY DEF Call
  <2> QED
    BY <1>8, <2>1, LoadTypes DEF LoadMediaActive, SessionTypeOK
<1>9. CASE MediaActive
  <2>1. calls' \subseteq Call /\ Write("connected")
    BY <1>9 DEF MediaActive, SessionTypeOK
  <2>2. status' \in Final \cup Live /\ late' \subseteq Call
    BY <2>1, WriteTypes DEF Live
  <2> QED
    BY <1>9, <2>1, <2>2 DEF MediaActive, SessionTypeOK
<1>10. CASE LoadEnd
  <2>1. "end" \in Call
    BY DEF Call
  <2> QED
    BY <1>10, <2>1, LoadTypes DEF LoadEnd, SessionTypeOK
<1>11. CASE End
  <2>1. calls' \subseteq Call /\ Write("ended")
    BY <1>11 DEF End, SessionTypeOK
  <2>2. status' \in Final \cup Live /\ late' \subseteq Call
    BY <2>1, WriteTypes DEF Final
  <2> QED
    BY <1>11, <2>1, <2>2 DEF End, SessionTypeOK
<1>12. ASSUME NEW u \in uploads, LoadUpload(u) PROVE SessionTypeOK'
  <2>1. u \in Upload /\ [u EXCEPT !.loaded = TRUE] \in Upload
    BY <1>12 DEF SessionTypeOK, Upload
  <2>2. status' \in Final \cup Live /\ late' \subseteq Call
    BY <1>12 DEF LoadUpload, AfterRead, LateAfter, SessionTypeOK, Final
  <2> QED
    BY <1>12, <2>1, <2>2 DEF LoadUpload, SessionTypeOK
<1>13. ASSUME NEW u \in uploads, ApplyUpload(u) PROVE SessionTypeOK'
  <2>1. u.report \in Final \cup Live /\ calls' \subseteq Call /\ Write(u.report)
    BY <1>13 DEF ApplyUpload, SessionTypeOK, Upload, Report, Final, Live
  <2>2. status' \in Final \cup Live /\ late' \subseteq Call
    BY <2>1, WriteTypes
  <2>3. relay' \in RelayPhase
    BY <1>13 DEF ApplyUpload, Answered, SessionTypeOK, RelayPhase
  <2> QED
    BY <1>13, <2>1, <2>2, <2>3 DEF ApplyUpload, SessionTypeOK
<1>14. CASE GiveUp
  <2>1. lost' \in 0 .. MaxLost /\ relay' \in RelayPhase
    BY <1>14, FirstUploads DEF GiveUp, RelayPhase, Report
  <2>2. uploads' \subseteq Upload
    BY <1>14, FirstUploads, AbandonedUploads DEF GiveUp, Report
  <2> QED
    BY <1>14, <2>1, <2>2 DEF GiveUp, SessionTypeOK
<1>15. CASE FirstFrame \/ Break \/ Stop
  <2>1. relay' \in RelayPhase /\ uploads' \subseteq Upload
    BY <1>15, FirstUploads DEF FirstFrame, Break, Stop, SessionTypeOK, Report, RelayPhase
  <2>2. framed' \in BOOLEAN
    BY <1>15 DEF FirstFrame, Break, Stop, SessionTypeOK
  <2> QED
    BY <1>15, <2>1, <2>2 DEF FirstFrame, Break, Stop, SessionTypeOK
<1>16. CASE TakeStart
  <2>1. relay' \in RelayPhase /\ uploads' \subseteq Upload
    BY <1>16, FirstUploads DEF TakeStart, SessionTypeOK, RelayPhase, Report
  <2>2. starts' \in Nat
    BY <1>16 DEF TakeStart, SessionTypeOK
  <2> QED
    BY <1>16, <2>1, <2>2 DEF TakeStart, SessionTypeOK
<1>17. CASE LoseStart
  BY <1>17 DEF LoseStart, SessionTypeOK
<1>18. CASE Retry
  <2>1. lost' \in 0 .. MaxLost
    BY <1>18, FirstUploads DEF Retry, Report
  <2>2. PICK u \in Waiting, kept \in BOOLEAN :
          u.try < MaxTries /\ uploads' = Abandoned(kept) \cup {NewUpload(u.report, u.try + 1, lost')}
    BY <1>18 DEF Retry
  <2>3. u.report \in Report /\ u.try \in 1 .. MaxTries
    BY DEF Waiting, SessionTypeOK, Upload
  <2>4. u.try + 1 \in 1 .. MaxTries
    BY <2>2, <2>3, MaxTriesAssumption
  <2>5. uploads' \subseteq Upload
    BY <2>1, <2>2, <2>3, <2>4, NewUploads, AbandonedUploads
  <2> QED
    BY <1>18, <2>1, <2>5 DEF Retry, SessionTypeOK
<1>19. CASE AgentRestarts
  <2>1. lost' \in 0 .. MaxLost
    BY <1>19, FirstUploads DEF AgentRestarts, Report
  <2>2. uploads' \subseteq Upload
    BY <1>19, AbandonedUploads DEF AgentRestarts
  <2> QED
    BY <1>19, <2>1, <2>2 DEF AgentRestarts, SessionTypeOK, RelayPhase
<1>20. CASE UNCHANGED sessionVars
  BY <1>20 DEF sessionVars, SessionTypeOK
<1> QED
  BY <1>1, <1>2, <1>3, <1>4, <1>5, <1>6, <1>7, <1>8, <1>9, <1>10, <1>11, <1>12, <1>13,
     <1>14, <1>15, <1>16, <1>17, <1>18, <1>19, <1>20 DEF SessionNext

(* Every variable keeps its type, for any bound on sockets and faults. *)
THEOREM SessionTypeCorrect == SessionSpec => []SessionTypeOK
<1>1. SessionInit => SessionTypeOK
  <2> SUFFICES ASSUME SessionInit PROVE SessionTypeOK
    OBVIOUS
  <2>1. due \in BOOLEAN /\ framed \in BOOLEAN /\ drawn \in BOOLEAN
    BY DEF SessionInit
  <2>2. admits \in 0 .. MaxAdmits /\ lost \in 0 .. MaxLost
    BY MaxAdmitsAssumption, SessionFaultsAssumption DEF SessionInit
  <2> QED
    BY <2>1, <2>2 DEF SessionInit, SessionTypeOK, Live, RelayPhase
<1> QED
  BY <1>1, SessionTypeStep, PTL DEF SessionSpec

-----------------------------------------------------------------------------
LEMMA FrameStep == SessionTypeOK /\ FrameFirst /\ [SessionNext]_sessionVars => FrameFirst'
<1> SUFFICES ASSUME SessionTypeOK, FrameFirst, [SessionNext]_sessionVars PROVE FrameFirst'
  OBVIOUS
<1> USE DEF FrameFirst, ConnectedMeansFrame
<1>1. CASE TimePasses \/ AdmitNoAgent \/ Draw \/ LoseStart \/ UNCHANGED sessionVars
  BY <1>1 DEF TimePasses, AdmitNoAgent, Draw, LoseStart, sessionVars
<1>2. CASE Poll \/ LoadAdmit \/ LoadMediaActive \/ LoadEnd
  <2>1. UNCHANGED <<uploads, relay, framed, drawn>> /\ status' = AfterRead
    BY <1>2 DEF Poll, LoadAdmit, LoadMediaActive, LoadEnd, Load
  <2>2. "media-active" \in calls' => "media-active" \in calls \/ drawn
    BY <1>2 DEF Poll, LoadAdmit, LoadMediaActive, LoadEnd, Load
  <2> QED
    BY <2>1, <2>2 DEF AfterRead
<1>3. CASE Admit
  <2>1. "media-active" \in calls' => "media-active" \in calls
    BY <1>3 DEF Admit
  <2>2. UNCHANGED <<status, uploads, relay, framed, drawn>>
    BY <1>3 DEF Admit
  <2> QED
    BY <2>1, <2>2
<1>4. CASE Pair \/ End \/ MediaActive
  <2>1. UNCHANGED <<uploads, relay, framed, drawn>> /\ calls' \subseteq calls
    BY <1>4 DEF Pair, End, MediaActive
  <2>2. status' = "connected" => "media-active" \in calls
    BY <1>4 DEF Pair, End, MediaActive, Write
  <2> QED
    BY <2>1, <2>2
<1>5. ASSUME NEW u \in uploads, LoadUpload(u) PROVE FrameFirst'
  <2>1. \A v \in uploads' : v \in uploads \/ v.report = u.report
    BY <1>5 DEF LoadUpload, SessionTypeOK, Upload
  <2> QED
    BY <1>5, <2>1 DEF LoadUpload, AfterRead
<1>6. ASSUME NEW u \in uploads, ApplyUpload(u) PROVE FrameFirst'
  BY <1>6 DEF ApplyUpload, Write, Answered
<1>7. CASE GiveUp
  <2>1. UNCHANGED <<status, calls, framed, drawn>> /\ relay' \in {"none", "failing"}
    BY <1>7 DEF GiveUp
  <2>2. \A v \in uploads' : v.report = "failed" \/ \E u \in uploads : v.report = u.report
    BY <1>7, FirstUploads, AbandonedUploads DEF GiveUp, Report
  <2> QED
    BY <2>1, <2>2
<1>8. CASE FirstFrame \/ Break \/ Stop
  <2>1. \A u \in uploads' : u \in uploads \/ u.report = "failed" \/ framed'
    BY <1>8, FirstUploads DEF FirstFrame, Break, Stop, Report
  <2> QED
    BY <1>8, <2>1 DEF FirstFrame, Break, Stop
<1>9. CASE TakeStart
  <2>1. relay' \in {"confirming", "streaming"} => relay' = relay
    BY <1>9 DEF TakeStart
  <2>2. \A u \in uploads' : u \in uploads \/ u.report = "media_starting"
    BY <1>9, FirstUploads DEF TakeStart, Report
  <2> QED
    BY <1>9, <2>1, <2>2 DEF TakeStart
<1>10. CASE Retry
  <2>1. PICK u \in Waiting, kept \in BOOLEAN :
          u.try < MaxTries /\ uploads' = Abandoned(kept) \cup {NewUpload(u.report, u.try + 1, lost')}
    BY <1>10 DEF Retry
  <2>2. u \in uploads /\ NewUpload(u.report, u.try + 1, lost').report = u.report
    BY DEF Waiting, NewUpload
  <2>3. \A v \in uploads' : \E w \in uploads : v.report = w.report
    BY <2>1, <2>2, AbandonedUploads
  <2> QED
    BY <1>10, <2>3 DEF Retry
<1>11. CASE AgentRestarts
  <2>1. \A v \in uploads' : \E w \in uploads : v.report = w.report
    BY <1>11, AbandonedUploads DEF AgentRestarts
  <2> QED
    BY <1>11, <2>1 DEF AgentRestarts
<1> QED
  BY <1>1, <1>2, <1>3, <1>4, <1>5, <1>6, <1>7, <1>8, <1>9, <1>10, <1>11 DEF SessionNext

(* "connected" is never shown of a session that had no frame. *)
THEOREM ConnectedHadFrame == SessionSpec => []ConnectedMeansFrame
<1>1. SessionInit => FrameFirst
  BY DEF SessionInit, FrameFirst, ConnectedMeansFrame
<1>2. FrameFirst => ConnectedMeansFrame
  BY DEF FrameFirst
<1> QED
  BY <1>1, <1>2, FrameStep, SessionTypeCorrect, PTL DEF SessionSpec

-----------------------------------------------------------------------------
LEMMA LateStep == SessionTypeOK /\ LateCalls /\ [SessionNext]_sessionVars => LateCalls'
<1> SUFFICES ASSUME SessionTypeOK, LateCalls, [SessionNext]_sessionVars, status' \in Final,
                    NEW call \in calls', call # "end"
             PROVE  call \in late'
  BY DEF LateCalls
<1> USE DEF LateCalls
<1>1. CASE UNCHANGED <<status, calls, late>>
  BY <1>1
<1>2. CASE Poll \/ LoadAdmit \/ LoadMediaActive \/ LoadEnd
  <2>1. status' = AfterRead /\ late' = LateAfter(AfterRead, calls)
    BY <1>2 DEF Poll, LoadAdmit, LoadMediaActive, LoadEnd, Load
  <2>2. Seen \in Final
    BY <2>1 DEF AfterRead, Seen, Final
  <2>3. call \in calls
    BY <1>2, <2>2 DEF Poll, LoadAdmit, LoadMediaActive, LoadEnd, Load, Final
  <2> QED
    BY <2>1, <2>3 DEF LateAfter
<1>3. CASE Admit
  BY <1>3 DEF Admit
<1>4. CASE AdmitNoAgent
  BY <1>4 DEF AdmitNoAgent
<1>5. ASSUME NEW new, Write(new), calls' \subseteq calls PROVE call \in late'
  BY <1>5 DEF Write, LateAfter
<1>6. CASE Pair \/ End \/ MediaActive
  BY <1>5, <1>6 DEF Pair, End, MediaActive
<1>7. ASSUME NEW u \in uploads, LoadUpload(u) PROVE call \in late'
  BY <1>7 DEF LoadUpload, LateAfter
<1>8. ASSUME NEW u \in uploads, ApplyUpload(u) PROVE call \in late'
  BY <1>5, <1>8 DEF ApplyUpload
<1>9. CASE \/ TimePasses \/ Draw \/ TakeStart \/ LoseStart \/ Retry \/ GiveUp
           \/ FirstFrame \/ Break \/ Stop \/ AgentRestarts \/ UNCHANGED sessionVars
  BY <1>1, <1>9 DEF TimePasses, Draw, TakeStart, LoseStart, Retry, GiveUp, FirstFrame, Break, Stop,
     AgentRestarts, sessionVars
<1> QED
  BY <1>2, <1>3, <1>4, <1>6, <1>7, <1>8, <1>9 DEF SessionNext

(* What a step does to a session that is at rest: next to nothing. *)
LEMMA RestKept ==
  SessionTypeOK /\ LateCalls /\ AtRest /\ [SessionNext]_sessionVars => AtRest'
<1> SUFFICES ASSUME SessionTypeOK, LateCalls, AtRest, [SessionNext]_sessionVars PROVE AtRest'
  OBVIOUS
<1>1. /\ status \in Final /\ starts = 0 /\ relay = "none" /\ uploads = {} /\ late \subseteq {"end"}
      /\ Waiting = {} /\ AfterRead = status /\ Seen \in Final
  BY DEF AtRest, Waiting, AfterRead, Seen, Final
<1>2. \A call \in calls : call = "end"
  BY <1>1 DEF LateCalls
<1>3. \A new, flying : LateAfter(new, flying) \subseteq late
  BY <1>1 DEF LateAfter
<1>4. CASE Poll \/ LoadAdmit \/ LoadMediaActive \/ LoadEnd
  <2>1. /\ UNCHANGED <<starts, relay, uploads>>
        /\ status' = AfterRead /\ late' = LateAfter(AfterRead, calls)
    BY <1>4 DEF Poll, LoadAdmit, LoadMediaActive, LoadEnd, Load
  <2> QED
    BY <1>1, <1>3, <2>1 DEF AtRest
<1>5. CASE Admit \/ AdmitNoAgent \/ Pair \/ MediaActive
  BY <1>2, <1>5 DEF Admit, AdmitNoAgent, Pair, MediaActive
<1>6. CASE End
  <2>1. UNCHANGED <<starts, relay, uploads>> /\ status' = "ended" /\ late' = LateAfter("ended", calls')
    BY <1>6 DEF End, Write
  <2> QED
    BY <1>1, <1>3, <2>1 DEF AtRest, Final
<1>7. CASE AgentRestarts
  <2>1. /\ UNCHANGED <<status, late>> /\ starts' = 0 /\ relay' = "none"
        /\ \E kept \in BOOLEAN : uploads' = Abandoned(kept)
    BY <1>7 DEF AgentRestarts
  <2>2. \A kept : Abandoned(kept) = {}
    BY <1>1 DEF Abandoned
  <2> QED
    BY <1>1, <2>1, <2>2 DEF AtRest
<1>8. CASE TimePasses \/ Draw \/ UNCHANGED sessionVars
  BY <1>8 DEF TimePasses, Draw, sessionVars, AtRest
<1>9. CASE TakeStart \/ LoseStart \/ Retry \/ GiveUp \/ FirstFrame \/ Break \/ Stop
  BY <1>1, <1>9 DEF TakeStart, LoseStart, Retry, GiveUp, FirstFrame, Break, Stop
<1>10. ASSUME NEW u \in uploads PROVE FALSE
  BY <1>1
<1> QED
  BY <1>4, <1>5, <1>6, <1>7, <1>8, <1>9, <1>10 DEF SessionNext

(* Of a final session only an upload the server holds makes another, or a     *)
(* handler that had read it before it was final; only such a handler sends a  *)
(* start for it; and once those are gone it stays final, with no relay.       *)
THEOREM FinalStays == SessionSpec => FinalForBrowsers
<1>1. SessionInit => LateCalls
  BY DEF SessionInit, LateCalls
<1>2. ASSUME SessionTypeOK, LateCalls, [SessionNext]_sessionVars, status \in Final, status' \notin Final
      PROVE  (\E u \in uploads \ uploads' : u.loaded) \/ (calls \ calls') \cap late # {}
  <2>1. CASE Pair
    BY <1>2, <2>1 DEF Pair, LateCalls
  <2>2. CASE MediaActive
    BY <1>2, <2>2 DEF MediaActive, LateCalls
  <2>3. CASE End
    BY <1>2, <2>3 DEF End, Write, Final
  <2>4. ASSUME NEW u \in uploads, ApplyUpload(u) PROVE u \in uploads \ uploads' /\ u.loaded
    BY <2>4 DEF ApplyUpload
  <2>5. CASE Poll \/ LoadAdmit \/ LoadMediaActive \/ LoadEnd
    BY <1>2, <2>5 DEF Poll, LoadAdmit, LoadMediaActive, LoadEnd, Load, AfterRead
  <2>6. ASSUME NEW u \in uploads, LoadUpload(u) PROVE FALSE
    BY <1>2, <2>6 DEF LoadUpload, AfterRead
  <2>7. CASE \/ TimePasses \/ Admit \/ AdmitNoAgent \/ Draw \/ TakeStart \/ LoseStart \/ Retry
             \/ GiveUp \/ FirstFrame \/ Break \/ Stop \/ AgentRestarts \/ UNCHANGED sessionVars
    BY <1>2, <2>7 DEF TimePasses, Admit, AdmitNoAgent, Draw, TakeStart, LoseStart, Retry, GiveUp,
       FirstFrame, Break, Stop, AgentRestarts, sessionVars
  <2> QED
    BY <1>2, <2>1, <2>2, <2>3, <2>4, <2>5, <2>6, <2>7 DEF SessionNext
<1>3. ASSUME SessionTypeOK, LateCalls, [SessionNext]_sessionVars, status \in Final, starts' > starts
      PROVE  "admit" \in late
  <2>1. CASE Admit
    BY <1>3, <2>1 DEF Admit, LateCalls
  <2>2. CASE ~Admit
    <3>1. starts' = starts \/ starts' = 0 \/ starts' = starts - 1
      BY <1>3, <2>2 DEF SessionNext, sessionVars, TimePasses, Poll, LoadAdmit, AdmitNoAgent, Pair, Draw,
         LoadMediaActive, MediaActive, LoadEnd, End, Load, TakeStart, LoseStart, LoadUpload,
         ApplyUpload, Retry, GiveUp, FirstFrame, Break, Stop, AgentRestarts
    <3>2. starts \in Nat
      BY <1>3 DEF SessionTypeOK
    <3> QED
      BY <1>3, <3>1, <3>2
  <2> QED
    BY <2>1, <2>2
<1>4. SessionTypeOK /\ LateCalls /\ [SessionNext]_sessionVars
        => [/\ status \in Final /\ status' \notin Final
                 => (\E u \in uploads \ uploads' : u.loaded) \/ (calls \ calls') \cap late # {}
            /\ status \in Final /\ starts' > starts => "admit" \in late
            /\ AtRest => AtRest']_sessionVars
  BY <1>2, <1>3, RestKept
<1> QED
  BY <1>1, <1>4, LateStep, SessionTypeCorrect, PTL DEF SessionSpec, FinalForBrowsers

-----------------------------------------------------------------------------
(* The grant.                                                                *)
(*                                                                           *)
(* What the guards of the UPDATE statements need is that the row and the     *)
(* answers agree (RowTellsTheStory): a grant still "granted" has no holder,  *)
(* so the UPDATE that starts it starts it for the first time.  A request     *)
(* that goes on to expire the grant has found it due (ExpiringIsDue).        *)

(* Before the grant is started, or when it was closed unstarted, nobody       *)
(* holds it.                                                                  *)
UnstartedHasNoHolder == grant \in {"none", "granted"} => holders = {}

ExpiringIsDue == \A c \in Caller : starting[c] = "expiring" => appDue

GrantInv ==
  /\ GrantTypeOK /\ RowTellsTheStory /\ UnstartedHasNoHolder /\ AtMostOneHolder
  /\ ExpiringIsDue

-----------------------------------------------------------------------------
(* Every step keeps the invariant. *)
LEMMA GrantInvKept == GrantInv /\ [GrantNext]_grantVars => GrantInv'
<1> SUFFICES ASSUME GrantInv, [GrantNext]_grantVars PROVE GrantInv'
  OBVIOUS
<1> USE DEF GrantInv, GrantTypeOK, RowTellsTheStory, UnstartedHasNoHolder, AtMostOneHolder, ExpiringIsDue,
            Status, Open, Over, GrantStage, row, clocks, callers, grantVars
<1>1. CASE Create
  BY <1>1 DEF Create
<1>2. CASE Issue
  BY <1>2 DEF Issue
<1>3. CASE ServerClock \/ DatabaseClock
  <2>1. appDue' \in BOOLEAN /\ dbDue' \in BOOLEAN /\ (appDue => appDue')
    BY <1>3 DEF ServerClock, DatabaseClock
  <2>2. UNCHANGED <<row, callers>>
    BY <1>3 DEF ServerClock, DatabaseClock
  <2> QED
    BY <2>1, <2>2
<1>4. ASSUME NEW c \in Caller, Validate(c) PROVE GrantInv'
  <2>1. \/ starting' = [starting EXCEPT ![c] = "denied"]
        \/ starting' = [starting EXCEPT ![c] = "marking"]
        \/ starting' = [starting EXCEPT ![c] = "expiring"] /\ appDue
    BY <1>4 DEF Validate, To
  <2>2. UNCHANGED <<row, clocks, holders, ending, issued>>
    BY <1>4 DEF Validate
  <2>3. starting' \in [Caller -> GrantStage]
    BY <2>1
  <2>4. \A d \in Caller : starting'[d] = "expiring" => starting[d] = "expiring" \/ appDue
    BY <2>1
  <2> QED
    BY <2>2, <2>3, <2>4
<1>5. ASSUME NEW c \in Caller, Expire(c) PROVE GrantInv'
  BY <1>5 DEF Expire, To
<1>6. ASSUME NEW c \in Caller, Mark(c) PROVE GrantInv'
  <2>1. CASE grant = "granted" /\ ~dbDue
    BY <1>6, <2>1 DEF Mark, To
  <2>2. CASE ~(grant = "granted" /\ ~dbDue)
    BY <1>6, <2>2 DEF Mark, To
  <2> QED
    BY <2>1, <2>2
<1>7. ASSUME NEW e \in Ender, EndGrant(e) PROVE GrantInv'
  <2>1. CASE grant \in Open
    BY <1>7, <2>1 DEF EndGrant
  <2>2. CASE grant \notin Open
    BY <1>7, <2>2 DEF EndGrant
  <2> QED
    BY <2>1, <2>2
<1>8. CASE UNCHANGED grantVars
  BY <1>8
<1> QED
  BY <1>1, <1>2, <1>3, <1>4, <1>5, <1>6, <1>7, <1>8 DEF GrantNext

(* The inductive invariant holds in every reachable state. *)
THEOREM GrantSafety == GrantSpec => []GrantInv
<1>1. GrantInit => GrantInv
  BY DEF GrantInit, GrantInv, GrantTypeOK, RowTellsTheStory, UnstartedHasNoHolder,
         AtMostOneHolder, ExpiringIsDue, Status, Open, Over, GrantStage
<1> QED
  BY <1>1, GrantInvKept, PTL DEF GrantSpec

-----------------------------------------------------------------------------
(* The row, the clocks and the requests keep their types. *)
THEOREM GrantTypeCorrect == GrantSpec => []GrantTypeOK
<1>1. GrantInv => GrantTypeOK
  BY DEF GrantInv
<1> QED
  BY <1>1, GrantSafety, PTL

(* A token starts at most one session. *)
THEOREM OneHolder == GrantSpec => []AtMostOneHolder
<1>1. GrantInv => AtMostOneHolder
  BY DEF GrantInv
<1> QED
  BY <1>1, GrantSafety, PTL

(* The row's columns and the answers that were given agree. *)
THEOREM RowConsistent == GrantSpec => []RowTellsTheStory
<1>1. GrantInv => RowTellsTheStory
  BY DEF GrantInv
<1> QED
  BY <1>1, GrantSafety, PTL

-----------------------------------------------------------------------------
(* The handlers implement the promised life cycle of a grant: every step of   *)
(* theirs is one of its steps, or leaves status, holders and clocks alone.    *)
THEOREM ImplementsLifecycle == GrantSpec => KeepsThePromise
<1>1. GrantInit => Lifecycle!Init
  BY DEF GrantInit, Lifecycle!Init, DueClocks
<1>2. GrantInv /\ [GrantNext]_grantVars => [Lifecycle!Next]_(Lifecycle!grantVars)
  <2> DEFINE Stutter == UNCHANGED <<grant, holders, DueClocks>>
  <2> SUFFICES ASSUME GrantInv, [GrantNext]_grantVars
               PROVE  Lifecycle!Next \/ Stutter
    BY DEF Lifecycle!grantVars
  <2>0. UNCHANGED clocks => UNCHANGED DueClocks
    BY DEF clocks, DueClocks
  <2>1. CASE Create
    BY <2>0, <2>1 DEF Create, Lifecycle!Next, Lifecycle!Issue, callers
  <2>2. CASE Issue \/ \E c \in Caller : Validate(c)
    BY <2>0, <2>2 DEF Issue, Validate, row
  <2>3. CASE ServerClock
    <3>1. DueClocks' = DueClocks \cup {"server"}
      BY <2>3 DEF ServerClock, DueClocks
    <3> QED
      BY <2>3, <3>1 DEF ServerClock, row, callers, Lifecycle!Next, Lifecycle!Passes, Lifecycle!Clock
  <2>4. CASE DatabaseClock
    <3>1. DueClocks' = DueClocks \cup {"database"}
      BY <2>4 DEF DatabaseClock, DueClocks
    <3> QED
      BY <2>4, <3>1 DEF DatabaseClock, row, callers, Lifecycle!Next, Lifecycle!Passes, Lifecycle!Clock
  <2>5. ASSUME NEW c \in Caller, Expire(c)
        PROVE  Lifecycle!Next \/ Stutter
    <3>1. "server" \in DueClocks
      BY <2>5 DEF Expire, GrantInv, ExpiringIsDue, DueClocks
    <3>2. /\ UNCHANGED <<holders, DueClocks>>
          /\ grant' = IF grant \in Open THEN "expired" ELSE grant
      BY <2>0, <2>5 DEF Expire
    <3> QED
      BY <3>1, <3>2 DEF Open, Lifecycle!Next, Lifecycle!Expire
  <2>6. ASSUME NEW c \in Caller, Mark(c)
        PROVE  Lifecycle!Next \/ Stutter
    <3>1. CASE grant = "granted" /\ ~dbDue
      <4>1. "database" \notin DueClocks
        BY <3>1 DEF DueClocks
      <4>2. Lifecycle!Start(c)
        BY <2>0, <2>6, <3>1, <4>1 DEF Mark, Lifecycle!Start, GrantInv, UnstartedHasNoHolder
      <4> QED
        BY <4>2 DEF Lifecycle!Next
    <3>2. CASE ~(grant = "granted" /\ ~dbDue)
      BY <2>0, <2>6, <3>2 DEF Mark
    <3> QED
      BY <3>1, <3>2
  <2>7. ASSUME NEW e \in Ender, EndGrant(e)
        PROVE  Lifecycle!Next \/ Stutter
    BY <2>0, <2>7 DEF EndGrant, Open, Lifecycle!Next, Lifecycle!End
  <2>8. CASE UNCHANGED grantVars
    BY <2>0, <2>8 DEF grantVars, row, callers
  <2> QED
    BY <2>1, <2>2, <2>3, <2>4, <2>5, <2>6, <2>7, <2>8 DEF GrantNext
<1> QED
  BY <1>1, <1>2, GrantSafety, PTL DEF GrantSpec, KeepsThePromise, Lifecycle!Spec

(* One holder, and a row that says so. *)
THEOREM HoldersAreExplained == GrantSpec => []HoldersExplained
BY OneHolder, RowConsistent, PTL DEF HoldersExplained
=============================================================================
