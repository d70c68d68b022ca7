-------------------------------- MODULE Hub --------------------------------
(***************************************************************************)
(* The WebSocket hub of the server: one goroutine (Run) that owns the map  *)
(* of connected clients and selects over its channels, and per connection  *)
(* the HTTP handler that upgraded it, a reader and a writer goroutine.     *)
(*                                                                         *)
(* register and unregister are unbuffered channels: a goroutine that sends *)
(* waits until the hub receives.  broadcast, relay and each client's send  *)
(* channel are buffered and never waited for: what does not fit is dropped,*)
(* and a client whose send channel is full is dropped with it.             *)
(***************************************************************************)
EXTENDS Naturals, FiniteSets, Sequences

CONSTANTS
  Clients,          \* connections; each is made once
  Addresses, Projects, Nodes,
  Nothing,          \* no project, no node
  addressOf,        \* the remote address of a connection
  scopeOf,          \* its ?project_id=, or Nothing
  nodeOf,           \* the node of a daemon's connection; Nothing for a browser
  MaxClients, MaxPerAddress, SendBuffer, BroadcastBuffer, RelayBuffer,
  CanStop,          \* whether Stop is called
  MaxEvents,        \* bound: events published
  MaxRelays         \* bound: messages sent by clients

ASSUME HubAssumption ==
  /\ Nothing \notin Projects \cup Nodes
  /\ addressOf \in [Clients -> Addresses]
  /\ scopeOf \in [Clients -> Projects \cup {Nothing}]
  /\ nodeOf \in [Clients -> Nodes \cup {Nothing}]
  /\ \A c \in Clients : nodeOf[c] # Nothing => scopeOf[c] = Nothing
  /\ {MaxClients, MaxPerAddress, SendBuffer, BroadcastBuffer, RelayBuffer} \subseteq Nat
  /\ {MaxEvents, MaxRelays} \subseteq Nat
  /\ CanStop \in BOOLEAN
  /\ {"select", "stopped"} \cap Clients = {}

VARIABLES
  hub,         \* "select", "stopped", or the client that is being admitted
  clients,     \* the map of registered clients
  ipCount,
  broadcast,   \* the broadcast channel
  relay,       \* the relay channel
  handler,     \* the handler of each connection: where ServeHTTP is
  conn,        \* the connection itself
  reader,      \* ReadPump
  writer,      \* WritePump
  send,        \* the send channel of each client ...
  closed,      \* ... and whether it has been closed
  published,   \* bound: how many events were published
  relayed,     \* bound: how many messages were sent
  processed,   \* history: the events the hub has taken from broadcast
  since,       \* history: how many it had taken when it admitted the client
  received,    \* history: the events written to the connection
  direct       \* history: what sendRaw has written to the connection

loop    == <<hub, clients, ipCount>>
pumps   == <<conn, reader, writer>>
buffers == <<broadcast, relay, published, relayed>>
history == <<processed, since, received>>
vars == <<loop, buffers, handler, pumps, send, closed, history, direct>>

Scopes == Projects \cup {Nothing}
Event == [id : 1 .. MaxEvents, project : Scopes]
Relayed == [from : Clients, project : Scopes]
Direct == {"manifest", "relayed"}

IsDaemon(c) == nodeOf[c] # Nothing
ClientsAt(a) == {c \in clients : addressOf[c] = a}

Init ==
  /\ hub = "select"
  /\ clients = {}
  /\ ipCount = [a \in Addresses |-> 0]
  /\ broadcast = <<>> /\ relay = <<>>
  /\ handler = [c \in Clients |-> "none"]
  /\ conn = [c \in Clients |-> "none"]
  /\ reader = [c \in Clients |-> "none"]
  /\ writer = [c \in Clients |-> "none"]
  /\ send = [c \in Clients |-> <<>>]
  /\ closed = [c \in Clients |-> FALSE]
  /\ published = 0 /\ relayed = 0
  /\ processed = <<>>
  /\ since = [c \in Clients |-> 0]
  /\ received = [c \in Clients |-> <<>>]
  /\ direct = [c \in Clients |-> {}]

---------------------------------------------------------------------------
(* The upgrade handler: CanAcceptIP, then ServeWS, which waits for the hub. *)
CanAcceptIP(a) == ipCount[a] < MaxPerAddress

Connect(c) ==
  /\ handler[c] = "none"
  /\ IF CanAcceptIP(addressOf[c])
     THEN /\ handler' = [handler EXCEPT ![c] = "register"]
          /\ conn' = [conn EXCEPT ![c] = "open"]
     ELSE /\ handler' = [handler EXCEPT ![c] = "done"]
          /\ conn' = [conn EXCEPT ![c] = "closed"]
  /\ UNCHANGED <<loop, buffers, reader, writer, send, closed, history, direct>>

(* The hub takes the client from the register channel.  That lets the
   handler go on and start the pumps, before the hub has looked at it. *)
Receive(c) ==
  /\ hub = "select" /\ handler[c] = "register"
  /\ hub' = c
  /\ handler' = [handler EXCEPT ![c] = IF IsDaemon(c) THEN "manifest" ELSE "done"]
  /\ reader' = [reader EXCEPT ![c] = "reading"]
  /\ writer' = [writer EXCEPT ![c] = "writing"]
  /\ UNCHANGED <<clients, ipCount, buffers, conn, send, closed, history, direct>>

(* Mutant: the per-address limit is only checked by the handler. *)
AdmissibleUnlessFull(c) == Cardinality(clients) < MaxClients

Admissible(c) ==
  /\ Cardinality(clients) < MaxClients
  /\ ipCount[addressOf[c]] < MaxPerAddress

Admit(c) ==
  /\ hub = c
  /\ hub' = "select"
  /\ IF Admissible(c)
     THEN /\ clients' = clients \cup {c}
          /\ ipCount' = [ipCount EXCEPT ![addressOf[c]] = @ + 1]
          /\ since' = [since EXCEPT ![c] = Len(processed)]
          /\ UNCHANGED conn
     ELSE /\ conn' = [conn EXCEPT ![c] = "closed"]
          /\ UNCHANGED <<clients, ipCount, since>>
  /\ UNCHANGED <<buffers, handler, reader, writer, send, closed, processed,
                 received, direct>>

(* sendRaw: written at once unless the client has been dropped. *)
SendRaw(to, what) ==
  [c \in Clients |-> IF c \in to /\ ~closed[c] /\ conn[c] = "open"
                     THEN direct[c] \cup {what} ELSE direct[c]]

(* SendToDaemon with the manifest, to whichever client of the node the map
   yields first; nobody if there is none. *)
SendManifest(c) ==
  /\ handler[c] = "manifest"
  /\ handler' = [handler EXCEPT ![c] = "done"]
  /\ LET same == {d \in clients : nodeOf[d] = nodeOf[c]}
     IN \/ same = {} /\ UNCHANGED direct
        \/ \E d \in same : direct' = SendRaw({d}, "manifest")
  /\ UNCHANGED <<loop, buffers, pumps, send, closed, history>>

---------------------------------------------------------------------------
(* Broadcast: never waits, drops the event when the channel is full. *)
Broadcast(project) ==
  /\ published < MaxEvents
  /\ published' = published + 1
  /\ broadcast' = IF Len(broadcast) < BroadcastBuffer
                  THEN Append(broadcast, [id |-> published + 1, project |-> project])
                  ELSE broadcast
  /\ UNCHANGED <<loop, relay, relayed, handler, pumps, send, closed, history, direct>>

Concerns(e, c) == e.project = Nothing \/ e.project = scopeOf[c]

(* Mutant: the event that found the channel full is dropped alone. *)
DeliverOrSkip ==
  /\ hub = "select" /\ broadcast # <<>>
  /\ LET e == Head(broadcast)
         fits == {c \in clients : Concerns(e, c) /\ Len(send[c]) < SendBuffer}
     IN /\ send' = [c \in Clients |-> IF c \in fits THEN Append(send[c], e) ELSE send[c]]
        /\ processed' = Append(processed, e)
  /\ broadcast' = Tail(broadcast)
  /\ UNCHANGED <<loop, relay, published, relayed, handler, pumps, closed, since,
                 received, direct>>

(* Mutant: the channel of a client that is full is closed, and the client
   left in the map for its reader to take out. *)
DeliverKeepsClosed ==
  /\ hub = "select" /\ broadcast # <<>>
  /\ LET e == Head(broadcast)
         concerned == {c \in clients : Concerns(e, c)}
         full == {c \in concerned : Len(send[c]) >= SendBuffer}
     IN /\ send' = [c \in Clients |->
                      IF c \in concerned \ full THEN Append(send[c], e) ELSE send[c]]
        /\ closed' = [c \in Clients |-> closed[c] \/ c \in full]
        /\ processed' = Append(processed, e)
  /\ broadcast' = Tail(broadcast)
  /\ UNCHANGED <<loop, relay, published, relayed, handler, pumps, since, received,
                 direct>>

(* The hub hands an event to every client it concerns.  A client whose
   channel is full is taken out of the map; ipCount is not touched. *)
Deliver ==
  /\ hub = "select" /\ broadcast # <<>>
  /\ LET e == Head(broadcast)
         concerned == {c \in clients : Concerns(e, c)}
         full == {c \in concerned : Len(send[c]) >= SendBuffer}
     IN /\ send' = [c \in Clients |->
                      IF c \in concerned \ full THEN Append(send[c], e) ELSE send[c]]
        /\ clients' = clients \ full
        /\ closed' = [c \in Clients |-> closed[c] \/ c \in full]
        /\ processed' = Append(processed, e)
  /\ broadcast' = Tail(broadcast)
  /\ UNCHANGED <<hub, ipCount, relay, published, relayed, handler, pumps, since,
                 received, direct>>

---------------------------------------------------------------------------
(* A message of a client that is to be relayed.  Its project is that of the
   connection; else what the message says itself. *)
SendRelay(c, project) ==
  /\ reader[c] = "reading" /\ conn[c] = "open"
  /\ relayed < MaxRelays
  /\ scopeOf[c] # Nothing => project = scopeOf[c]
  /\ relayed' = relayed + 1
  /\ relay' = IF Len(relay) < RelayBuffer
              THEN Append(relay, [from |-> c, project |-> project])
              ELSE relay
  /\ UNCHANGED <<loop, broadcast, published, handler, pumps, send, closed, history,
                 direct>>

(* From a daemon to the browsers, from a browser to the daemons. *)
Recipients(m) ==
  {c \in clients : /\ IsDaemon(c) # IsDaemon(m.from)
                   /\ m.project # Nothing => scopeOf[c] = m.project}

(* Mutant: a message goes to the clients of the sender's own kind. *)
ForwardRelayToPeers ==
  /\ hub = "select" /\ relay # <<>>
  /\ LET m == Head(relay)
         peers == {c \in clients : IsDaemon(c) = IsDaemon(m.from)}
     IN direct' = SendRaw(peers, "relayed")
  /\ relay' = Tail(relay)
  /\ UNCHANGED <<loop, broadcast, published, relayed, handler, pumps, send, closed,
                 history>>

ForwardRelay ==
  /\ hub = "select" /\ relay # <<>>
  /\ direct' = SendRaw(Recipients(Head(relay)), "relayed")
  /\ relay' = Tail(relay)
  /\ UNCHANGED <<loop, broadcast, published, relayed, handler, pumps, send, closed,
                 history>>

---------------------------------------------------------------------------
(* The peer goes away, or becomes unreachable. *)
PeerLeaves(c) ==
  /\ conn[c] = "open"
  /\ conn' = [conn EXCEPT ![c] = "closed"]
  /\ UNCHANGED <<loop, buffers, handler, reader, writer, send, closed, history, direct>>

(* ReadMessage fails: the connection is gone, or the peer sends too much or
   does not answer pings.  The reader then waits for the hub. *)
ReadFails(c) ==
  /\ reader[c] = "reading"
  /\ reader' = [reader EXCEPT ![c] = "unregister"]
  /\ UNCHANGED <<loop, buffers, handler, conn, writer, send, closed, history, direct>>

Unregister(c) ==
  /\ hub = "select" /\ reader[c] = "unregister"
  /\ IF c \in clients
     THEN /\ clients' = clients \ {c}
          /\ ipCount' = [ipCount EXCEPT ![addressOf[c]] = @ - 1]
          /\ closed' = [closed EXCEPT ![c] = TRUE]
     ELSE UNCHANGED <<clients, ipCount, closed>>
  /\ reader' = [reader EXCEPT ![c] = "done"]
  /\ conn' = [conn EXCEPT ![c] = "closed"]
  /\ UNCHANGED <<hub, buffers, handler, writer, send, history, direct>>

(* The writer writes the next event ... *)
WriteEvent(c) ==
  /\ writer[c] = "writing" /\ send[c] # <<>> /\ conn[c] = "open"
  /\ received' = [received EXCEPT ![c] = Append(@, Head(send[c]))]
  /\ send' = [send EXCEPT ![c] = Tail(@)]
  /\ UNCHANGED <<loop, buffers, handler, pumps, closed, processed, since, direct>>

(* Mutant: WritePump does not notice that its channel was closed. *)
WriterStopsOnError(c) ==
  /\ writer[c] = "writing"
  /\ conn[c] = "closed"
  /\ writer' = [writer EXCEPT ![c] = "done"]
  /\ conn' = [conn EXCEPT ![c] = "closed"]
  /\ UNCHANGED <<loop, buffers, handler, reader, send, closed, history, direct>>

(* ... and stops when its channel is closed and empty, or when a write or a
   ping fails, which closes the connection. *)
WriterStops(c) ==
  /\ writer[c] = "writing"
  /\ \/ closed[c] /\ send[c] = <<>>
     \/ conn[c] = "closed"
  /\ writer' = [writer EXCEPT ![c] = "done"]
  /\ conn' = [conn EXCEPT ![c] = "closed"]
  /\ UNCHANGED <<loop, buffers, handler, reader, send, closed, history, direct>>

(* Stop: Run drops every client and returns. *)
Stop ==
  /\ CanStop /\ hub = "select"
  /\ hub' = "stopped"
  /\ clients' = {}
  /\ closed' = [c \in Clients |-> closed[c] \/ c \in clients]
  /\ UNCHANGED <<ipCount, buffers, handler, pumps, send, history, direct>>

Next ==
  \/ \E c \in Clients :
       \/ Connect(c) \/ Receive(c) \/ Admit(c) \/ SendManifest(c)
       \/ \E p \in Scopes : SendRelay(c, p)
       \/ PeerLeaves(c) \/ ReadFails(c) \/ Unregister(c)
       \/ WriteEvent(c) \/ WriterStops(c)
  \/ \E p \in Scopes : Broadcast(p)
  \/ Deliver \/ ForwardRelay \/ Stop

(* The hub's select picks each ready case sooner or later; handlers and
   pumps are goroutines that run; a read on a closed connection fails, and a
   write succeeds or runs into its deadline.  What happens at most once to a
   connection is under one fairness condition, which is then one for each. *)
Fairness ==
  /\ \A c \in Clients :
       /\ WF_vars(\/ Receive(c) \/ Admit(c) \/ SendManifest(c)
                  \/ conn[c] = "closed" /\ ReadFails(c)
                  \/ Unregister(c))
       /\ WF_vars(WriteEvent(c) \/ WriterStops(c))
  /\ WF_vars(Deliver) /\ WF_vars(ForwardRelay)

Spec == Init /\ [][Next]_vars

FairSpec == Spec /\ Fairness

---------------------------------------------------------------------------
(* Types of the hub's state.                                                *)
TypeOK ==
  /\ hub \in {"select", "stopped"} \cup Clients
  /\ clients \subseteq Clients
  /\ ipCount \in [Addresses -> Nat]
  /\ broadcast \in Seq(Event) /\ relay \in Seq(Relayed)
  /\ handler \in [Clients -> {"none", "register", "manifest", "done"}]
  /\ conn \in [Clients -> {"none", "open", "closed"}]
  /\ reader \in [Clients -> {"none", "reading", "unregister", "done"}]
  /\ writer \in [Clients -> {"none", "writing", "done"}]
  /\ send \in [Clients -> Seq(Event)]
  /\ closed \in [Clients -> BOOLEAN]
  /\ published \in 0 .. MaxEvents /\ relayed \in 0 .. MaxRelays
  /\ processed \in Seq(Event)
  /\ since \in [Clients -> Nat]
  /\ received \in [Clients -> Seq(Event)]
  /\ direct \in [Clients -> SUBSET Direct]

(* The hub never sends on a channel it has closed (that would panic and take *)
(* the server down): whoever is in the map has an open channel, also after  *)
(* evictions, late unregistrations and Stop.                                *)
RegisteredAreOpen == \A c \in clients : ~closed[c]

(* The limits of the hub hold although the handler's check of the address   *)
(* and the registration are far apart: nobody is in the map who is not      *)
(* counted, no address counts more than it may, and no channel holds more   *)
(* than it was made for.                                                    *)
LimitsRespected ==
  /\ \A c \in Clients : Len(send[c]) <= SendBuffer
  /\ Len(broadcast) <= BroadcastBuffer /\ Len(relay) <= RelayBuffer
  /\ Cardinality(clients) <= MaxClients
  /\ \A a \in Addresses :
       Cardinality(ClientsAt(a)) <= ipCount[a] /\ ipCount[a] <= MaxPerAddress

(* A registered client misses nothing: what was written to its connection   *)
(* and what waits in its channel are, each once and in the order in which    *)
(* they were published, all the events that concern it since it was          *)
(* registered.  A client that cannot keep up is dropped rather than left     *)
(* with a gap.                                                               *)
Got(c) == received[c] \o send[c]

Due(c) == {i \in since[c] + 1 .. Len(processed) : Concerns(processed[i], c)}

NoGaps ==
  \A c \in clients :
    /\ {Got(c)[i] : i \in DOMAIN Got(c)} = {processed[i] : i \in Due(c)}
    /\ \A i, j \in DOMAIN Got(c) : i < j => Got(c)[i].id < Got(c)[j].id

(* The hub and a client never part on one side only: a connection that is   *)
(* gone leaves the map, whoever notices first, and a client that the hub has *)
(* dropped has its connection closed, so that it can connect again.          *)
PartedOnBothSides ==
  \A c \in Clients :
    /\ conn[c] = "closed" ~> c \notin clients
    /\ closed[c] ~> conn[c] = "closed"

(* What a dashboard says to the daemons (it names no project) reaches every *)
(* daemon that is connected, unless the connection ends first: no order of  *)
(* registrations, evictions and relayed messages leaves the hub stuck.      *)
RelayReachesDaemons ==
  \A c \in Clients :
    (/\ IsDaemon(c) /\ c \in clients
     /\ \E i \in DOMAIN relay : ~IsDaemon(relay[i].from) /\ relay[i].project = Nothing)
      ~> "relayed" \in direct[c] \/ conn[c] = "closed" \/ closed[c]

(* All of it together: whatever the goroutines, the channels and the limits *)
(* do, a client is served as EventStreams has it, and who is left out of an  *)
(* event that is his because he is SendBuffer events behind is out for good. *)
Places(s) == {i \in DOMAIN processed : \E k \in DOMAIN s : s[k] = processed[i]}

Streams == INSTANCE EventStreams WITH
  Lag   <- SendBuffer,
  log   <- processed,
  phase <- [c \in Clients |-> IF c \in clients THEN "following"
                              ELSE IF closed[c] THEN "over" ELSE "out"],
  owed  <- [c \in Clients |-> Places(Got(c))],
  seen  <- [c \in Clients |-> Places(received[c])]

RefinesStreams == Streams!Spec

---------------------------------------------------------------------------
(* What the source says of ipCount ("per-IP connection count"): it counts   *)
(* the clients in the map.                                                  *)
AddressCountExact == \A a \in Addresses : ipCount[a] = Cardinality(ClientsAt(a))
=============================================================================
