------------------------------ MODULE HubProofs ------------------------------
(***************************************************************************)
(* The safety properties of the hub, for any number of connections,        *)
(* addresses, projects, events and messages and for any limits.            *)
(***************************************************************************)
EXTENDS Hub, FiniteSetTheorems, SequenceTheorems, TLAPS

USE HubAssumption DEF HubAssumption

(* Registration is handed from the handler to the hub: a client is in the map
   only after both have looked at it, once, and what it was sent before it was
   put there is nothing. *)
HandOver ==
  \A c \in Clients :
    /\ handler[c] \in {"none", "register"} => hub # c
    /\ handler[c] \in {"none", "register"} \/ hub = c => c \notin clients /\ ~closed[c]
    /\ c \notin clients /\ ~closed[c] => send[c] = <<>> /\ received[c] = <<>>

(* Events pass through the hub in the order in which they were published. *)
Ordered ==
  /\ \A i, j \in DOMAIN processed : i < j => processed[i].id < processed[j].id
  /\ \A i, j \in DOMAIN broadcast : i < j => broadcast[i].id < broadcast[j].id
  /\ \A i \in DOMAIN processed : \A j \in DOMAIN broadcast : processed[i].id < broadcast[j].id
  /\ \A i \in DOMAIN processed : processed[i].id <= published
  /\ \A j \in DOMAIN broadcast : broadcast[j].id <= published
  /\ \A c \in Clients : since[c] <= Len(processed)

HubInv ==
  /\ TypeOK /\ IsFiniteSet(clients)
  /\ HandOver /\ RegisteredAreOpen /\ LimitsRespected
  /\ Ordered /\ NoGaps

---------------------------------------------------------------------------
(* Sequences. *)

(* What joins the channel of a client joins what it gets. *)
LEMMA ConcatAppend ==
  ASSUME NEW S, NEW r \in Seq(S), NEW s \in Seq(S), NEW e \in S
  PROVE  r \o Append(s, e) = Append(r \o s, e)
<1>1. Append(s, e) = s \o <<e>> /\ <<e>> \in Seq(S) /\ r \o s \in Seq(S)
  BY AppendIsConcat, ConcatProperties
<1>2. Append(r \o s, e) = (r \o s) \o <<e>>
  BY <1>1, AppendIsConcat
<1> QED
  BY <1>1, <1>2, ConcatAssociative

(* Writing the next event changes nothing of what the client gets. *)
LEMMA MoveHead ==
  ASSUME NEW S, NEW r \in Seq(S), NEW s \in Seq(S), s # <<>>
  PROVE  Append(r, Head(s)) \o Tail(s) = r \o s
<1>1. /\ Head(s) \in S /\ Tail(s) \in Seq(S) /\ Append(r, Head(s)) \in Seq(S)
      /\ Len(Tail(s)) = Len(s) - 1 /\ Len(s) \in Nat \ {0} /\ Len(r) \in Nat
      /\ Len(Append(r, Head(s))) = Len(r) + 1
  BY HeadTailProperties, AppendProperties, EmptySeq, LenProperties
<1>2. Len(Append(r, Head(s)) \o Tail(s)) = Len(r \o s)
  BY <1>1, ConcatProperties
<1>3. ASSUME NEW i \in 1..Len(r \o s)
      PROVE  (Append(r, Head(s)) \o Tail(s))[i] = (r \o s)[i]
  <2>1. i \in 1..Len(r) + Len(s) /\ Len(r) + 1 + (Len(s) - 1) = Len(r) + Len(s)
    BY <1>1, ConcatProperties
  <2>2. (r \o s)[i] = IF i <= Len(r) THEN r[i] ELSE s[i - Len(r)]
    BY <2>1, ConcatProperties
  <2>3. (Append(r, Head(s)) \o Tail(s))[i]
          = IF i <= Len(r) + 1 THEN Append(r, Head(s))[i] ELSE Tail(s)[i - (Len(r) + 1)]
    BY <1>1, <2>1, ConcatProperties
  <2>4. CASE i <= Len(r)
    BY <1>1, <2>1, <2>2, <2>3, <2>4, AppendProperties
  <2>5. CASE i = Len(r) + 1
    BY <1>1, <2>1, <2>2, <2>3, <2>5, AppendProperties
  <2>6. CASE i > Len(r) + 1
    <3>1. i - (Len(r) + 1) \in 1..Len(Tail(s)) /\ (i - (Len(r) + 1)) + 1 = i - Len(r)
      BY <1>1, <2>1, <2>6
    <3>2. Tail(s)[i - (Len(r) + 1)] = s[(i - (Len(r) + 1)) + 1]
      BY <3>1, HeadTailProperties
    <3> QED
      BY <1>1, <2>1, <2>2, <2>3, <2>6, <3>1, <3>2
  <2> QED
    BY <1>1, <2>1, <2>4, <2>5, <2>6
<1> QED
  BY <1>1, <1>2, <1>3, SeqEqual, ConcatProperties

(* An event is taken from a channel, or put into one. *)
LEMMA HeadTaken ==
  ASSUME NEW S, NEW s \in Seq(S), s # <<>>
  PROVE  /\ Head(s) \in S /\ Head(s) = s[1] /\ 1 \in DOMAIN s
         /\ Tail(s) \in Seq(S) /\ Len(Tail(s)) < Len(s)
         /\ \A i \in DOMAIN Tail(s) : i + 1 \in DOMAIN s /\ Tail(s)[i] = s[i + 1] /\ i \in Nat
<1>1. Len(s) \in Nat \ {0} /\ DOMAIN s = 1..Len(s)
  BY EmptySeq, LenProperties
<1>2. Tail(s) \in Seq(S) /\ Len(Tail(s)) = Len(s) - 1 /\ Head(s) \in S
  BY HeadTailProperties
<1>3. DOMAIN Tail(s) = 1..(Len(s) - 1)
  BY <1>2, LenProperties
<1>4. Head(s) = s[1]
  OBVIOUS
<1> QED
  BY <1>1, <1>2, <1>3, <1>4, HeadTailProperties

(* Putting one at the end leaves the others where they are. *)
LEMMA Appended ==
  ASSUME NEW S, NEW s \in Seq(S), NEW e \in S
  PROVE  /\ Append(s, e) \in Seq(S) /\ Len(Append(s, e)) = Len(s) + 1 /\ Len(s) \in Nat
         /\ DOMAIN s = 1..Len(s) /\ DOMAIN Append(s, e) = 1..(Len(s) + 1)
         /\ \A i \in DOMAIN s : Append(s, e)[i] = s[i]
         /\ Append(s, e)[Len(s) + 1] = e
BY AppendProperties, LenProperties

(* The assumption on the constants, one by one. *)
LEMMA LimitsAreNumbers ==
  /\ MaxClients \in Nat /\ MaxPerAddress \in Nat /\ SendBuffer \in Nat
  /\ BroadcastBuffer \in Nat /\ RelayBuffer \in Nat
  /\ MaxEvents \in Nat /\ MaxRelays \in Nat
OBVIOUS

---------------------------------------------------------------------------
(* The start. *)

(* The invariant holds before anybody connects. *)
LEMMA HubInvInit == Init => HubInv
<1> SUFFICES ASSUME Init PROVE HubInv
  OBVIOUS
<1>0. \A S : <<>> \in Seq(S) /\ Len(<<>>) = 0 /\ DOMAIN <<>> = {}
  BY EmptySeq, LenProperties
<1>1. TypeOK
  BY <1>0 DEF Init, TypeOK
<1>2. IsFiniteSet(clients) /\ Cardinality(clients) = 0
  BY FS_EmptySet DEF Init
<1>3. HandOver /\ RegisteredAreOpen
  BY DEF Init, HandOver, RegisteredAreOpen
<1>4. LimitsRespected
  <2>1. \A a \in Addresses : ClientsAt(a) = {}
    BY DEF Init, ClientsAt
  <2>2. \A a \in Addresses : Cardinality(ClientsAt(a)) = 0 /\ ipCount[a] = 0
    BY <2>1, FS_EmptySet DEF Init
  <2>3. \A c \in Clients : Len(send[c]) = 0
    BY <1>0 DEF Init
  <2>4. Len(broadcast) = 0 /\ Len(relay) = 0
    BY <1>0 DEF Init
  <2> QED
    BY <1>2, <2>2, <2>3, <2>4, LimitsAreNumbers DEF LimitsRespected
<1>5. Ordered /\ NoGaps
  BY <1>0 DEF Init, Ordered, NoGaps
<1> QED
  BY <1>1, <1>2, <1>3, <1>4, <1>5 DEF HubInv

---------------------------------------------------------------------------
(* Types. *)

(* Each action keeps the types; a counter that goes down was not 0. *)
LEMMA TypeStep ==
  ASSUME HubInv, Next
  PROVE  TypeOK'
<1>0. TypeOK
  BY DEF HubInv
<1> USE DEF TypeOK
<1>1. ASSUME NEW c \in Clients, Connect(c) \/ Receive(c) PROVE TypeOK'
  BY <1>0, <1>1 DEF Connect, Receive, loop, buffers, pumps, history
<1>2. ASSUME NEW c \in Clients, Admit(c) PROVE TypeOK'
  <2>1. Len(processed) \in Nat
    BY <1>0, LenProperties
  <2>2. addressOf[c] \in Addresses /\ ipCount[addressOf[c]] + 1 \in Nat
    BY <1>0
  <2>3. CASE Admissible(c)
    <3>1. /\ clients' = clients \cup {c}
          /\ ipCount' = [ipCount EXCEPT ![addressOf[c]] = ipCount[addressOf[c]] + 1]
      BY <1>2, <2>3 DEF Admit
    <3>2. since' = [since EXCEPT ![c] = Len(processed)]
      BY <1>2, <2>3 DEF Admit
    <3>3. ipCount' \in [Addresses -> Nat] /\ since' \in [Clients -> Nat]
      BY <1>0, <2>1, <2>2, <3>1, <3>2
    <3>4. clients' \subseteq Clients
      BY <1>0, <3>1
    <3>5. /\ UNCHANGED <<buffers, handler, conn, reader, writer, send, closed, processed, received,
                         direct>>
          /\ hub' = "select"
      BY <1>2, <2>3 DEF Admit
    <3> QED
      BY <1>0, <3>3, <3>4, <3>5 DEF buffers
  <2>4. CASE ~Admissible(c)
    BY <1>0, <1>2, <2>4 DEF Admit, buffers
  <2> QED
    BY <2>3, <2>4
<1>3. ASSUME NEW c \in Clients, SendManifest(c) PROVE TypeOK'
  <2>1. \A to : SendRaw(to, "manifest") \in [Clients -> SUBSET Direct]
    BY <1>0 DEF SendRaw, Direct
  <2> QED
    BY <1>0, <1>3, <2>1 DEF SendManifest, loop, buffers, pumps, history
<1>4. ASSUME NEW c \in Clients, NEW p \in Scopes, SendRelay(c, p) PROVE TypeOK'
  <2>1. [from |-> c, project |-> p] \in Relayed
    BY DEF Relayed
  <2>2. relay' \in Seq(Relayed)
    BY <1>0, <1>4, <2>1, Appended DEF SendRelay
  <2> QED
    BY <1>0, <1>4, <2>2 DEF SendRelay, loop, buffers, pumps, history
<1>5. ASSUME NEW c \in Clients, PeerLeaves(c) \/ ReadFails(c) \/ WriterStops(c) PROVE TypeOK'
  BY <1>0, <1>5 DEF PeerLeaves, ReadFails, WriterStops, loop, buffers, pumps, history
<1>6. ASSUME NEW c \in Clients, Unregister(c) PROVE TypeOK'
  <2>1. CASE c \in clients
    <3>1. c \in ClientsAt(addressOf[c]) /\ ClientsAt(addressOf[c]) \subseteq clients
      BY <2>1 DEF ClientsAt
    <3>2. IsFiniteSet(ClientsAt(addressOf[c])) /\ Cardinality(ClientsAt(addressOf[c])) # 0
      BY <3>1, FS_Subset, FS_EmptySet DEF HubInv
    <3>3. Cardinality(ClientsAt(addressOf[c])) \in Nat
      BY <3>2, FS_CardinalityType
    <3>4. ipCount[addressOf[c]] \in Nat \ {0}
      BY <1>0, <3>2, <3>3 DEF HubInv, LimitsRespected
    <3>5. ipCount' \in [Addresses -> Nat]
      <4>1. addressOf[c] \in Addresses /\ ipCount[addressOf[c]] - 1 \in Nat
        BY <3>4
      <4>2. ipCount' = [ipCount EXCEPT ![addressOf[c]] = ipCount[addressOf[c]] - 1]
        BY <1>6, <2>1 DEF Unregister
      <4> QED
        BY <1>0, <4>1, <4>2
    <3> QED
      BY <1>0, <1>6, <2>1, <3>5 DEF Unregister, loop, buffers, pumps, history
  <2>2. CASE c \notin clients
    BY <1>0, <1>6, <2>2 DEF Unregister, loop, buffers, pumps, history
  <2> QED
    BY <2>1, <2>2
<1>7. ASSUME NEW c \in Clients, WriteEvent(c) PROVE TypeOK'
  <2>1. /\ Head(send[c]) \in Event /\ Tail(send[c]) \in Seq(Event)
        /\ Append(received[c], Head(send[c])) \in Seq(Event)
    BY <1>0, <1>7, HeadTaken, Appended DEF WriteEvent
  <2> QED
    BY <1>0, <1>7, <2>1 DEF WriteEvent, loop, buffers, pumps, history
<1>8. ASSUME NEW p \in Scopes, Broadcast(p) PROVE TypeOK'
  <2>1. [id |-> published + 1, project |-> p] \in Event /\ published' \in 0..MaxEvents
    BY <1>0, <1>8 DEF Broadcast, Event
  <2>2. broadcast' \in Seq(Event)
    BY <1>0, <1>8, <2>1, Appended DEF Broadcast
  <2> QED
    BY <1>0, <1>8, <2>1, <2>2 DEF Broadcast, loop, buffers, pumps, history
<1>9. CASE Deliver
  <2>1. Head(broadcast) \in Event /\ Tail(broadcast) \in Seq(Event)
    BY <1>0, <1>9, HeadTaken DEF Deliver
  <2>2. Append(processed, Head(broadcast)) \in Seq(Event)
    BY <1>0, <2>1, Appended
  <2>3. \A c \in Clients : Append(send[c], Head(broadcast)) \in Seq(Event)
    BY <1>0, <2>1, Appended
  <2>4. send' \in [Clients -> Seq(Event)]
    BY <1>0, <1>9, <2>3 DEF Deliver
  <2>5. closed' \in [Clients -> BOOLEAN] /\ clients' \subseteq Clients
    BY <1>0, <1>9 DEF Deliver
  <2> QED
    BY <1>0, <1>9, <2>1, <2>2, <2>4, <2>5 DEF Deliver, loop, buffers, pumps, history
<1>10. CASE ForwardRelay
  <2>1. \A to : SendRaw(to, "relayed") \in [Clients -> SUBSET Direct]
    BY <1>0 DEF SendRaw, Direct
  <2>2. Tail(relay) \in Seq(Relayed)
    BY <1>0, <1>10, HeadTaken DEF ForwardRelay
  <2> QED
    BY <1>0, <1>10, <2>1, <2>2 DEF ForwardRelay, loop, buffers, pumps, history
<1>11. CASE Stop
  BY <1>0, <1>11 DEF Stop, loop, buffers, pumps, history
<1> QED
  BY <1>1, <1>2, <1>3, <1>4, <1>5, <1>6, <1>7, <1>8, <1>9, <1>10, <1>11 DEF Next

---------------------------------------------------------------------------
(* Who is in the map. *)

(* Nobody is put into the map twice, or after its channel was closed. *)
LEMMA HandOverStep ==
  ASSUME HubInv, Next
  PROVE  HandOver' /\ RegisteredAreOpen'
<1>0. TypeOK /\ HandOver /\ RegisteredAreOpen
  BY DEF HubInv
<1> DEFINE Goal == HandOver' /\ RegisteredAreOpen'
<1> USE DEF TypeOK, HandOver, RegisteredAreOpen
<1>1. ASSUME NEW c \in Clients, Connect(c) PROVE Goal
  BY <1>0, <1>1 DEF Connect, loop, buffers, pumps, history
<1>2. ASSUME NEW c \in Clients, Receive(c) PROVE Goal
  BY <1>0, <1>2 DEF Receive, loop, buffers, pumps, history
<1>3. ASSUME NEW c \in Clients, Admit(c) PROVE Goal
  <2>1. UNCHANGED <<handler, send, closed, received>> /\ hub' = "select" /\ hub = c
    BY <1>3 DEF Admit, buffers
  <2>2. clients' \in {clients, clients \cup {c}}
    BY <1>3 DEF Admit
  <2>3. handler[c] \notin {"none", "register"} /\ ~closed[c]
    BY <1>0, <2>1
  <2>4. \A d \in Clients : hub' # d
    BY <2>1
  <2> QED
    BY <1>0, <2>1, <2>2, <2>3, <2>4
<1>4. ASSUME NEW c \in Clients,
             \/ SendManifest(c) \/ \E p \in Scopes : SendRelay(c, p)
             \/ PeerLeaves(c) \/ ReadFails(c) \/ WriterStops(c)
      PROVE  Goal
  <2>1. UNCHANGED <<hub, clients, send, closed, received>>
    BY <1>4 DEF SendManifest, SendRelay, PeerLeaves, ReadFails, WriterStops, loop, history
  <2>2. \/ UNCHANGED handler
        \/ handler[c] = "manifest" /\ handler' = [handler EXCEPT ![c] = "done"]
    BY <1>4 DEF SendManifest, SendRelay, PeerLeaves, ReadFails, WriterStops
  <2>3. \A d \in Clients : handler'[d] \in {"none", "register"} => handler'[d] = handler[d]
    BY <1>0, <2>2
  <2> QED
    BY <1>0, <2>1, <2>3
<1>5. ASSUME NEW c \in Clients, Unregister(c) PROVE Goal
  <2>1. UNCHANGED <<hub, handler, send, received>>
    BY <1>5 DEF Unregister, history
  <2>2. CASE c \notin clients
    BY <1>0, <1>5, <2>1, <2>2 DEF Unregister
  <2>3. CASE c \in clients
    <3>1. clients' = clients \ {c} /\ closed' = [closed EXCEPT ![c] = TRUE]
      BY <1>5, <2>3 DEF Unregister
    <3>2. closed'[c] /\ \A d \in Clients : d # c => closed'[d] = closed[d]
      BY <1>0, <3>1
    <3>3. handler[c] \notin {"none", "register"} /\ hub # c
      BY <1>0, <2>3
    <3> QED
      BY <1>0, <2>1, <3>1, <3>2, <3>3
  <2> QED
    BY <2>2, <2>3
<1>6. ASSUME NEW c \in Clients, WriteEvent(c) PROVE Goal
  BY <1>0, <1>6 DEF WriteEvent, loop, buffers, pumps, history
<1>7. ASSUME NEW p \in Scopes, Broadcast(p) PROVE Goal
  BY <1>0, <1>7 DEF Broadcast, loop, buffers, pumps, history
<1>8. CASE Deliver
  BY <1>0, <1>8 DEF Deliver, loop, buffers, pumps, history
<1>9. CASE ForwardRelay
  BY <1>0, <1>9 DEF ForwardRelay, loop, buffers, pumps, history
<1>10. CASE Stop
  BY <1>0, <1>10 DEF Stop, loop, buffers, pumps, history
<1> QED
  BY <1>1, <1>2, <1>3, <1>4, <1>5, <1>6, <1>7, <1>8, <1>9, <1>10 DEF Next

---------------------------------------------------------------------------
(* The limits. *)

(* The clients of an address are counted one by one. *)
LEMMA AddressOfClients ==
  ASSUME IsFiniteSet(clients), NEW a \in Addresses
  PROVE  /\ IsFiniteSet(ClientsAt(a)) /\ Cardinality(ClientsAt(a)) \in Nat
         /\ IsFiniteSet(clients) /\ Cardinality(clients) \in Nat
         /\ \A T \in SUBSET ClientsAt(a) :
              Cardinality(T) <= Cardinality(ClientsAt(a)) /\ Cardinality(T) \in Nat
         /\ \A T \in SUBSET clients :
              /\ IsFiniteSet(T)
              /\ Cardinality(T) <= Cardinality(clients) /\ Cardinality(T) \in Nat
<1>1. ClientsAt(a) \subseteq clients
  BY DEF ClientsAt
<1>2. IsFiniteSet(ClientsAt(a))
  BY <1>1, FS_Subset
<1> QED
  BY <1>2, FS_Subset, FS_CardinalityType

(* What the limits say of the map, of the counters and of the channels. *)
MapLimits ==
  /\ IsFiniteSet(clients) /\ Cardinality(clients) <= MaxClients
  /\ \A a \in Addresses :
       Cardinality(ClientsAt(a)) <= ipCount[a] /\ ipCount[a] <= MaxPerAddress

ChannelLimits ==
  /\ \A c \in Clients : Len(send[c]) <= SendBuffer
  /\ Len(broadcast) <= BroadcastBuffer /\ Len(relay) <= RelayBuffer

(* Fewer clients and the same counters keep to the limits. *)
LEMMA FewerClients ==
  ASSUME TypeOK, MapLimits, clients' \subseteq clients, UNCHANGED ipCount
  PROVE  MapLimits'
<1>1. IsFiniteSet(clients') /\ Cardinality(clients') \in Nat
      /\ Cardinality(clients') <= Cardinality(clients) /\ Cardinality(clients) \in Nat
  BY FS_Subset, FS_CardinalityType DEF MapLimits
<1>2. ASSUME NEW a \in Addresses
      PROVE  Cardinality(ClientsAt(a)') <= ipCount'[a] /\ ipCount'[a] <= MaxPerAddress
  <2>1. ClientsAt(a)' \in SUBSET ClientsAt(a)
    BY DEF ClientsAt
  <2>2. /\ Cardinality(ClientsAt(a)') <= Cardinality(ClientsAt(a))
        /\ Cardinality(ClientsAt(a)') \in Nat /\ Cardinality(ClientsAt(a)) \in Nat
    BY <2>1, AddressOfClients DEF MapLimits
  <2>3. ipCount[a] \in Nat
    BY DEF TypeOK
  <2> QED
    BY <2>2, <2>3 DEF MapLimits
<1> QED
  BY <1>1, <1>2, LimitsAreNumbers DEF MapLimits

(* An admission checks both limits when it counts, an unregistration uncounts
   only who is in the map, and an eviction uncounts nobody. *)
LEMMA MapLimitsStep ==
  ASSUME HubInv, Next
  PROVE  MapLimits'
<1>0. TypeOK /\ MapLimits
  BY DEF HubInv, LimitsRespected, MapLimits
<1>1. ASSUME NEW c \in Clients, Admit(c), Admissible(c) PROVE MapLimits'
  <2>1. /\ clients' = clients \cup {c}
        /\ ipCount' = [ipCount EXCEPT ![addressOf[c]] = ipCount[addressOf[c]] + 1]
    BY <1>1 DEF Admit
  <2>2. addressOf[c] \in Addresses /\ \A a \in Addresses : ipCount[a] \in Nat
    BY <1>0 DEF TypeOK
  <2>3. IsFiniteSet(clients') /\ Cardinality(clients') <= MaxClients
    <3>1. IsFiniteSet(clients) /\ Cardinality(clients) \in Nat /\ Cardinality(clients) < MaxClients
      BY <1>0, <1>1, FS_CardinalityType DEF MapLimits, Admissible
    <3>2. /\ IsFiniteSet(clients')
          /\ Cardinality(clients') \in {Cardinality(clients), Cardinality(clients) + 1}
      BY <2>1, <3>1, FS_AddElement
    <3> QED
      BY <3>1, <3>2, LimitsAreNumbers
  <2>4. ASSUME NEW a \in Addresses
        PROVE  Cardinality(ClientsAt(a)') <= ipCount'[a] /\ ipCount'[a] <= MaxPerAddress
    <3>1. IsFiniteSet(ClientsAt(a)) /\ Cardinality(ClientsAt(a)) \in Nat
      BY <1>0, AddressOfClients DEF MapLimits
    <3>2. CASE a = addressOf[c]
      <4>1. ClientsAt(a)' = ClientsAt(a) \cup {c}
        BY <2>1, <3>2 DEF ClientsAt
      <4>2. Cardinality(ClientsAt(a)') <= Cardinality(ClientsAt(a)) + 1
        <5>1. Cardinality(ClientsAt(a)') \in {Cardinality(ClientsAt(a)), Cardinality(ClientsAt(a)) + 1}
          BY <3>1, <4>1, FS_AddElement
        <5> QED
          BY <3>1, <5>1
      <4>3. ipCount'[a] = ipCount[a] + 1 /\ ipCount[a] < MaxPerAddress
        BY <1>0, <1>1, <2>1, <2>2, <3>2 DEF Admissible, TypeOK
      <4>4. Cardinality(ClientsAt(a)') \in Nat
        BY <3>1, <4>1, FS_AddElement, FS_CardinalityType
      <4> QED
        BY <1>0, <2>2, <3>1, <4>2, <4>3, <4>4, LimitsAreNumbers DEF MapLimits
    <3>3. CASE a # addressOf[c]
      <4>1. ClientsAt(a)' = ClientsAt(a)
        BY <2>1, <3>3 DEF ClientsAt
      <4>2. ipCount'[a] = ipCount[a]
        BY <1>0, <2>1, <3>3 DEF TypeOK
      <4> QED
        BY <1>0, <4>1, <4>2 DEF MapLimits
    <3> QED
      BY <3>2, <3>3
  <2> QED
    BY <2>3, <2>4 DEF MapLimits
<1>2. ASSUME NEW c \in Clients, Unregister(c), c \in clients PROVE MapLimits'
  <2>1. /\ clients' = clients \ {c}
        /\ ipCount' = [ipCount EXCEPT ![addressOf[c]] = ipCount[addressOf[c]] - 1]
    BY <1>2 DEF Unregister
  <2>2. addressOf[c] \in Addresses /\ \A a \in Addresses : ipCount[a] \in Nat
    BY <1>0 DEF TypeOK
  <2>3. IsFiniteSet(clients') /\ Cardinality(clients') <= MaxClients
    <3>1. IsFiniteSet(clients) /\ Cardinality(clients) \in Nat /\ Cardinality(clients) <= MaxClients
      BY <1>0, FS_CardinalityType DEF MapLimits
    <3>2. IsFiniteSet(clients') /\ Cardinality(clients') = Cardinality(clients) - 1
      BY <1>2, <2>1, <3>1, FS_RemoveElement
    <3> QED
      BY <3>1, <3>2, LimitsAreNumbers
  <2>4. ASSUME NEW a \in Addresses
        PROVE  Cardinality(ClientsAt(a)') <= ipCount'[a] /\ ipCount'[a] <= MaxPerAddress
    <3>1. IsFiniteSet(ClientsAt(a)) /\ Cardinality(ClientsAt(a)) \in Nat
      BY <1>0, AddressOfClients DEF MapLimits
    <3>2. CASE a = addressOf[c]
      <4>1. ClientsAt(a)' = ClientsAt(a) \ {c} /\ c \in ClientsAt(a)
        BY <1>2, <2>1, <3>2 DEF ClientsAt
      <4>2. Cardinality(ClientsAt(a)') = Cardinality(ClientsAt(a)) - 1
        BY <3>1, <4>1, FS_RemoveElement
      <4>3. ipCount'[a] = ipCount[a] - 1
        BY <1>0, <2>1, <2>2, <3>2 DEF TypeOK
      <4> QED
        BY <1>0, <2>2, <3>1, <4>2, <4>3, LimitsAreNumbers DEF MapLimits
    <3>3. CASE a # addressOf[c]
      <4>1. ClientsAt(a)' = ClientsAt(a)
        BY <2>1, <3>3 DEF ClientsAt
      <4>2. ipCount'[a] = ipCount[a]
        BY <1>0, <2>1, <3>3 DEF TypeOK
      <4> QED
        BY <1>0, <4>1, <4>2 DEF MapLimits
    <3> QED
      BY <3>2, <3>3
  <2> QED
    BY <2>3, <2>4 DEF MapLimits
<1>3. CASE clients' \subseteq clients /\ UNCHANGED ipCount
  BY <1>0, <1>3, FewerClients
<1>4. ASSUME NEW c \in Clients, Admit(c), ~Admissible(c) PROVE MapLimits'
  BY <1>3, <1>4 DEF Admit
<1>5. ASSUME NEW c \in Clients, Unregister(c), c \notin clients PROVE MapLimits'
  BY <1>3, <1>5 DEF Unregister
<1>6. ASSUME NEW c \in Clients,
             \/ Connect(c) \/ Receive(c) \/ SendManifest(c)
             \/ \E p \in Scopes : SendRelay(c, p)
             \/ PeerLeaves(c) \/ ReadFails(c) \/ WriteEvent(c) \/ WriterStops(c)
      PROVE  MapLimits'
  BY <1>3, <1>6 DEF Connect, Receive, SendManifest, SendRelay, PeerLeaves, ReadFails,
                    WriteEvent, WriterStops, loop
<1>7. CASE (\E p \in Scopes : Broadcast(p)) \/ ForwardRelay
  BY <1>3, <1>7 DEF Broadcast, ForwardRelay, loop
<1>8. CASE Deliver \/ Stop
  BY <1>3, <1>8 DEF Deliver, Stop
<1> QED
  BY <1>1, <1>2, <1>4, <1>5, <1>6, <1>7, <1>8 DEF Next

(* What does not fit into a channel is not put there. *)
LEMMA ChannelLimitsStep ==
  ASSUME HubInv, Next
  PROVE  ChannelLimits'
<1>0. TypeOK /\ ChannelLimits
  BY DEF HubInv, LimitsRespected, ChannelLimits
<1>1. CASE UNCHANGED <<broadcast, relay, send>>
  BY <1>0, <1>1 DEF ChannelLimits
<1>2. ASSUME NEW c \in Clients,
             \/ Connect(c) \/ Receive(c) \/ Admit(c) \/ SendManifest(c)
             \/ PeerLeaves(c) \/ ReadFails(c) \/ Unregister(c) \/ WriterStops(c)
      PROVE  ChannelLimits'
  BY <1>1, <1>2 DEF Connect, Receive, Admit, SendManifest, PeerLeaves, ReadFails,
                    Unregister, WriterStops, buffers
<1>3. ASSUME NEW c \in Clients, NEW p \in Scopes, SendRelay(c, p) PROVE ChannelLimits'
  <2>1. [from |-> c, project |-> p] \in Relayed /\ relay \in Seq(Relayed)
    BY <1>0 DEF TypeOK, Relayed
  <2>2. Len(relay') <= RelayBuffer
    BY <1>0, <1>3, <2>1, Appended, LimitsAreNumbers DEF SendRelay, ChannelLimits
  <2> QED
    BY <1>0, <1>3, <2>2 DEF ChannelLimits, SendRelay
<1>4. ASSUME NEW c \in Clients, WriteEvent(c) PROVE ChannelLimits'
  <2>1. Len(Tail(send[c])) < Len(send[c]) /\ Len(send[c]) \in Nat /\ Len(Tail(send[c])) \in Nat
    BY <1>0, <1>4, HeadTaken, LenProperties DEF TypeOK, WriteEvent
  <2>2. send' = [send EXCEPT ![c] = Tail(send[c])] /\ UNCHANGED <<broadcast, relay>>
    BY <1>4 DEF WriteEvent, buffers
  <2> QED
    BY <1>0, <2>1, <2>2, LimitsAreNumbers DEF TypeOK, ChannelLimits
<1>5. ASSUME NEW p \in Scopes, Broadcast(p) PROVE ChannelLimits'
  <2>1. [id |-> published + 1, project |-> p] \in Event /\ broadcast \in Seq(Event)
    BY <1>0, <1>5 DEF TypeOK, Event, Broadcast
  <2>2. Len(broadcast') <= BroadcastBuffer
    BY <1>0, <1>5, <2>1, Appended, LimitsAreNumbers DEF Broadcast, ChannelLimits
  <2> QED
    BY <1>0, <1>5, <2>2 DEF ChannelLimits, Broadcast
<1>6. CASE Deliver
  <2>1. /\ Head(broadcast) \in Event
        /\ Len(Tail(broadcast)) < Len(broadcast)
        /\ Len(broadcast) \in Nat /\ Len(Tail(broadcast)) \in Nat
    BY <1>0, <1>6, HeadTaken, LenProperties DEF TypeOK, Deliver
  <2>2. \A c \in Clients : Len(Append(send[c], Head(broadcast))) = Len(send[c]) + 1 /\ Len(send[c]) \in Nat
    BY <1>0, <2>1, Appended DEF TypeOK
  <2>3. ASSUME NEW c \in Clients PROVE Len(send'[c]) <= SendBuffer
    <3>1. \/ send'[c] = send[c]
          \/ send'[c] = Append(send[c], Head(broadcast)) /\ ~(Len(send[c]) >= SendBuffer)
      BY <1>6 DEF Deliver
    <3> QED
      BY <1>0, <2>2, <3>1, LimitsAreNumbers DEF ChannelLimits
  <2> QED
    BY <1>0, <1>6, <2>1, <2>3, LimitsAreNumbers DEF Deliver, ChannelLimits
<1>7. CASE ForwardRelay
  <2>1. Len(Tail(relay)) < Len(relay) /\ Len(relay) \in Nat /\ Len(Tail(relay)) \in Nat
    BY <1>0, <1>7, HeadTaken, LenProperties DEF TypeOK, ForwardRelay
  <2> QED
    BY <1>0, <1>7, <2>1, LimitsAreNumbers DEF ForwardRelay, ChannelLimits
<1>8. CASE Stop
  BY <1>1, <1>8 DEF Stop, buffers
<1> QED
  BY <1>2, <1>3, <1>4, <1>5, <1>6, <1>7, <1>8 DEF Next

(* Events are numbered as they are published. *)
LEMMA EventsHaveIds ==
  ASSUME NEW s \in Seq(Event)
  PROVE  \A i \in DOMAIN s : s[i] \in Event /\ s[i].id \in Nat
<1>1. \A i \in DOMAIN s : s[i] \in Event
  BY ElementOfSeq, LenProperties
<1> QED
  BY <1>1, LimitsAreNumbers DEF Event

---------------------------------------------------------------------------
(* The order of the events. *)

(* A new event is the youngest, and the hub takes the oldest. *)
LEMMA OrderedStep ==
  ASSUME HubInv, Next
  PROVE  Ordered'
<1>0. TypeOK /\ Ordered
  BY DEF HubInv
<1>a. Len(processed) \in Nat /\ published \in Nat
  BY <1>0, LenProperties DEF TypeOK
<1>1. CASE UNCHANGED <<processed, broadcast, published, since>>
  BY <1>0, <1>1 DEF Ordered
<1>2. ASSUME NEW c \in Clients, Admit(c) PROVE Ordered'
  <2>1. UNCHANGED <<processed, broadcast, published>>
    BY <1>2 DEF Admit, buffers
  <2>2. since' \in {since, [since EXCEPT ![c] = Len(processed)]}
    BY <1>2 DEF Admit
  <2>3. \A d \in Clients : since'[d] <= Len(processed)
    <3>1. ASSUME NEW d \in Clients PROVE since'[d] \in {since[d], Len(processed)}
      BY <1>0, <2>2 DEF TypeOK
    <3> QED
      BY <1>0, <1>a, <3>1 DEF Ordered
  <2> QED
    BY <1>0, <2>1, <2>3 DEF Ordered
<1>3. ASSUME NEW p \in Scopes, Broadcast(p) PROVE Ordered'
  <2> DEFINE e == [id |-> published + 1, project |-> p]
  <2>1. e \in Event /\ e.id = published + 1
    BY <1>0, <1>3 DEF TypeOK, Event, Broadcast
  <2>2. UNCHANGED <<processed, since>> /\ published' = published + 1
    BY <1>3 DEF Broadcast, history
  <2>3. broadcast' \in {broadcast, Append(broadcast, e)}
    BY <1>3 DEF Broadcast
  <2>i. \A i \in DOMAIN processed : processed[i].id \in Nat
    BY <1>0, EventsHaveIds DEF TypeOK
  <2>j. \A i \in DOMAIN broadcast : broadcast[i].id \in Nat
    BY <1>0, EventsHaveIds DEF TypeOK
  <2> HIDE DEF e
  <2>4. CASE broadcast' = broadcast
    BY <1>0, <1>a, <2>2, <2>4, <2>i, <2>j DEF Ordered
  <2>5. CASE broadcast' = Append(broadcast, e)
    <3>1. /\ DOMAIN broadcast = 1..Len(broadcast) /\ Len(broadcast) \in Nat
          /\ DOMAIN broadcast' = 1..(Len(broadcast) + 1)
          /\ \A i \in DOMAIN broadcast : broadcast'[i] = broadcast[i]
          /\ broadcast'[Len(broadcast) + 1] = e
      BY <1>0, <2>1, <2>5, Appended DEF TypeOK
    <3>2. \A i \in DOMAIN broadcast' : i \in DOMAIN broadcast \/ i = Len(broadcast) + 1
      BY <3>1
    <3>3. \A i, j \in DOMAIN broadcast' : i < j => broadcast'[i].id < broadcast'[j].id
      BY <1>0, <1>a, <2>1, <2>j, <3>1, <3>2 DEF Ordered
    <3>4. \A i \in DOMAIN processed : \A j \in DOMAIN broadcast' : processed[i].id < broadcast'[j].id
      <4>1. ASSUME NEW i \in DOMAIN processed PROVE processed[i].id < e.id
        BY <1>0, <1>a, <2>1, <2>i DEF Ordered
      <4>2. ASSUME NEW i \in DOMAIN processed, NEW j \in DOMAIN broadcast
            PROVE  processed[i].id < broadcast'[j].id
        BY <1>0, <3>1 DEF Ordered
      <4> QED
        BY <3>1, <3>2, <4>1, <4>2
    <3>5. \A j \in DOMAIN broadcast' : broadcast'[j].id <= published + 1
      BY <1>0, <1>a, <2>1, <2>j, <3>1, <3>2 DEF Ordered
    <3>6. \A i \in DOMAIN processed : processed[i].id <= published + 1
      BY <1>0, <1>a, <2>i DEF Ordered
    <3> QED
      BY <1>0, <2>2, <3>3, <3>4, <3>5, <3>6 DEF Ordered
  <2> QED
    BY <2>3, <2>4, <2>5
<1>4. CASE Deliver
  <2> DEFINE e == Head(broadcast)
  <2>1. /\ e \in Event /\ e = broadcast[1] /\ 1 \in DOMAIN broadcast
        /\ \A i \in DOMAIN Tail(broadcast) :
             i + 1 \in DOMAIN broadcast /\ Tail(broadcast)[i] = broadcast[i + 1] /\ i \in Nat
    BY <1>0, <1>4, HeadTaken DEF TypeOK, Deliver
  <2>2. UNCHANGED <<published, since>> /\ broadcast' = Tail(broadcast)
        /\ processed' = Append(processed, e)
    BY <1>4 DEF Deliver
  <2>3. /\ DOMAIN processed = 1..Len(processed) /\ Len(processed') = Len(processed) + 1
        /\ DOMAIN processed' = 1..(Len(processed) + 1)
        /\ \A i \in DOMAIN processed : processed'[i] = processed[i]
        /\ processed'[Len(processed) + 1] = e
    BY <1>0, <2>1, <2>2, Appended DEF TypeOK
  <2> HIDE DEF e
  <2>4. \A i \in DOMAIN processed' : i \in DOMAIN processed \/ i = Len(processed) + 1
    BY <1>a, <2>3
  <2>5. \A i, j \in DOMAIN processed' : i < j => processed'[i].id < processed'[j].id
    BY <1>0, <1>a, <2>1, <2>3, <2>4 DEF Ordered
  <2>6. \A i, j \in DOMAIN broadcast' : i < j => broadcast'[i].id < broadcast'[j].id
    <3>1. ASSUME NEW i \in DOMAIN broadcast', NEW j \in DOMAIN broadcast', i < j
          PROVE  broadcast'[i].id < broadcast'[j].id
      <4>1. i + 1 < j + 1
        BY <2>1, <2>2, <3>1
      <4> QED
        BY <1>0, <2>1, <2>2, <3>1, <4>1 DEF Ordered
    <3> QED
      BY <3>1
  <2>7. \A i \in DOMAIN processed' : \A j \in DOMAIN broadcast' : processed'[i].id < broadcast'[j].id
    <3>1. ASSUME NEW j \in DOMAIN broadcast'
          PROVE  e.id < broadcast'[j].id
      <4>1. 1 < j + 1 /\ j + 1 \in DOMAIN broadcast /\ broadcast'[j] = broadcast[j + 1]
        <5>1. DOMAIN Tail(broadcast) = 1..Len(Tail(broadcast))
          BY <1>0, <1>4, HeadTaken, LenProperties DEF TypeOK, Deliver
        <5> QED
          BY <2>1, <2>2, <5>1
      <4> QED
        BY <1>0, <2>1, <4>1 DEF Ordered
    <3>2. ASSUME NEW i \in DOMAIN processed, NEW j \in DOMAIN broadcast'
          PROVE  processed[i].id < broadcast'[j].id
      BY <1>0, <2>1, <2>2 DEF Ordered
    <3> QED
      BY <2>3, <2>4, <3>1, <3>2
  <2>8. \A i \in DOMAIN processed' : processed'[i].id <= published
    BY <1>0, <2>1, <2>3, <2>4 DEF Ordered
  <2>9. \A j \in DOMAIN broadcast' : broadcast'[j].id <= published
    BY <1>0, <2>1, <2>2 DEF Ordered
  <2>10. \A c \in Clients : since'[c] <= Len(processed')
    BY <1>0, <1>a, <2>2, <2>3 DEF Ordered, TypeOK
  <2> QED
    BY <2>2, <2>5, <2>6, <2>7, <2>8, <2>9, <2>10 DEF Ordered
<1>5. ASSUME NEW c \in Clients,
             \/ Connect(c) \/ Receive(c) \/ SendManifest(c)
             \/ \E p \in Scopes : SendRelay(c, p)
             \/ PeerLeaves(c) \/ ReadFails(c) \/ Unregister(c)
             \/ WriteEvent(c) \/ WriterStops(c)
      PROVE  Ordered'
  BY <1>1, <1>5 DEF Connect, Receive, SendManifest, SendRelay, PeerLeaves, ReadFails,
                    Unregister, WriteEvent, WriterStops, buffers, history
<1>6. CASE ForwardRelay \/ Stop
  BY <1>1, <1>6 DEF ForwardRelay, Stop, buffers, history
<1> QED
  BY <1>2, <1>3, <1>4, <1>5, <1>6 DEF Next

---------------------------------------------------------------------------
(* What a client gets. *)

(* NoGaps, for one client. *)
Complete(c) ==
  /\ {Got(c)[i] : i \in DOMAIN Got(c)} = {processed[i] : i \in Due(c)}
  /\ \A i, j \in DOMAIN Got(c) : i < j => Got(c)[i].id < Got(c)[j].id

(* A client for which nothing changes has still got everything. *)
LEMMA CompleteKept ==
  ASSUME NEW c \in Clients, Complete(c), Got(c)' = Got(c), UNCHANGED processed,
         since'[c] = since[c]
  PROVE  Complete(c)'
<1>1. Due(c)' = Due(c)
  BY DEF Due, Concerns
<1> QED
  BY <1>1 DEF Complete

(* The hub hands out an event: who stays in the map gets it if it concerns him. *)
LEMMA CompleteDelivered ==
  ASSUME HubInv, Deliver, NEW c \in clients', c \in clients
  PROVE  Complete(c)'
<1> DEFINE e == Head(broadcast)
<1>0. TypeOK /\ Ordered /\ c \in Clients /\ Complete(c)
  BY DEF HubInv, TypeOK, NoGaps, Complete
<1>1. e \in Event /\ e = broadcast[1] /\ 1 \in DOMAIN broadcast
  BY <1>0, HeadTaken DEF Deliver, TypeOK
<1>2. UNCHANGED <<since, received>> /\ processed' = Append(processed, e)
  BY DEF Deliver
<1>3. IF Concerns(e, c) THEN send'[c] = Append(send[c], e) ELSE send'[c] = send[c]
  BY <1>0 DEF Deliver
<1>4. /\ DOMAIN processed = 1..Len(processed) /\ Len(processed') = Len(processed) + 1
      /\ Len(processed) \in Nat
      /\ \A i \in DOMAIN processed : processed'[i] = processed[i]
      /\ processed'[Len(processed) + 1] = e
  <2> HIDE DEF e
  <2>1. processed \in Seq(Event) /\ e \in Event
    BY <1>0, <1>1 DEF TypeOK
  <2>2. /\ DOMAIN processed = 1..Len(processed) /\ Len(Append(processed, e)) = Len(processed) + 1
        /\ Len(processed) \in Nat
        /\ \A i \in DOMAIN processed : Append(processed, e)[i] = processed[i]
        /\ Append(processed, e)[Len(processed) + 1] = e
    BY <2>1, Appended
  <2> QED
    BY <1>2, <2>2
<1>5. since[c] \in Nat /\ since[c] <= Len(processed)
  BY <1>0 DEF Ordered, TypeOK
<1>6. Due(c) \subseteq DOMAIN processed
  BY <1>4, <1>5 DEF Due
<1>7. Due(c)' = Due(c) \cup (IF Concerns(e, c) THEN {Len(processed) + 1} ELSE {})
  <2>1. \A i : i \in Due(c)' <=> i \in since[c] + 1 .. Len(processed) + 1 /\ Concerns(processed'[i], c)
    BY <1>2, <1>4 DEF Due, Concerns
  <2>2. \A i \in since[c] + 1 .. Len(processed) : processed'[i] = processed[i]
    BY <1>4, <1>5
  <2> HIDE DEF e
  <2> QED
    BY <1>4, <1>5, <2>1, <2>2 DEF Due
<1>8. {processed'[i] : i \in Due(c)'}
        = {processed[i] : i \in Due(c)} \cup (IF Concerns(e, c) THEN {e} ELSE {})
  BY <1>4, <1>6, <1>7
<1>9. Got(c) \in Seq(Event)
  BY <1>0, ConcatProperties DEF TypeOK, Got
<1>10. CASE ~Concerns(e, c)
  <2>1. Got(c)' = Got(c)
    BY <1>2, <1>3, <1>10 DEF Got
  <2> QED
    BY <1>0, <1>8, <1>10, <2>1 DEF Complete
<1>11. CASE Concerns(e, c)
  <2>1. Got(c)' = Append(Got(c), e)
    <3>1. received[c] \in Seq(Event) /\ send[c] \in Seq(Event)
      BY <1>0 DEF TypeOK
    <3>2. received[c] \o Append(send[c], e) = Append(received[c] \o send[c], e)
      <4>1. \A f \in Event : received[c] \o Append(send[c], f) = Append(received[c] \o send[c], f)
        <5>1. \A r, s \in Seq(Event) : \A f \in Event : r \o Append(s, f) = Append(r \o s, f)
          BY ConcatAppend
        <5> QED
          BY <3>1, <5>1, Zenon
      <4> HIDE DEF e
      <4> QED
        BY <1>1, <4>1, Zenon
    <3> QED
      BY <1>2, <1>3, <1>11, <3>2 DEF Got
  <2>2. /\ DOMAIN Got(c) = 1..Len(Got(c)) /\ Len(Got(c)) \in Nat
        /\ DOMAIN Got(c)' = 1..(Len(Got(c)) + 1)
        /\ \A i \in DOMAIN Got(c) : Got(c)'[i] = Got(c)[i]
        /\ Got(c)'[Len(Got(c)) + 1] = e
    BY <1>1, <1>9, <2>1, Appended
  <2> HIDE DEF e
  <2>3. \A i : i \in DOMAIN Got(c)' <=> i \in DOMAIN Got(c) \/ i = Len(Got(c)) + 1
    BY <2>2
  <2>4. {Got(c)'[i] : i \in DOMAIN Got(c)'} = {Got(c)[i] : i \in DOMAIN Got(c)} \cup {e}
    BY <2>2, <2>3
  <2>5. \A i \in DOMAIN Got(c) : Got(c)[i].id < e.id
    <3>1. ASSUME NEW i \in DOMAIN Got(c) PROVE Got(c)[i].id < e.id
      <4>1. PICK k \in Due(c) : Got(c)[i] = processed[k]
        BY <1>0 DEF Complete
      <4>2. processed[k].id < broadcast[1].id
        BY <1>0, <1>1, <1>6 DEF Ordered
      <4> QED
        BY <1>1, <4>1, <4>2
    <3> QED
      BY <3>1
  <2>6. \A i, j \in DOMAIN Got(c)' : i < j => Got(c)'[i].id < Got(c)'[j].id
    BY <1>0, <2>2, <2>3, <2>5 DEF Complete
  <2> QED
    BY <1>0, <1>8, <1>11, <2>4, <2>6 DEF Complete
<1> QED
  BY <1>10, <1>11

(* Each action keeps NoGaps. *)
LEMMA NoGapsStep ==
  ASSUME HubInv, Next
  PROVE  NoGaps'
<1>0. TypeOK /\ Ordered /\ HandOver /\ \A c \in clients : c \in Clients /\ Complete(c)
  BY DEF HubInv, TypeOK, NoGaps, Complete
<1> SUFFICES \A c \in clients' : Complete(c)'
  BY DEF NoGaps, Complete
<1>1. CASE UNCHANGED <<processed, since, received, send>> /\ clients' \subseteq clients
  BY <1>0, <1>1, CompleteKept DEF Got
<1>2. ASSUME NEW c \in Clients, Admit(c) PROVE \A d \in clients' : Complete(d)'
  <2>1. CASE ~Admissible(c)
    BY <1>1, <1>2, <2>1 DEF Admit
  <2>2. CASE Admissible(c)
    <3>1. /\ UNCHANGED <<processed, received, send>> /\ clients' = clients \cup {c}
          /\ since' = [since EXCEPT ![c] = Len(processed)]
      BY <1>2, <2>2 DEF Admit
    <3>2. send[c] = <<>> /\ received[c] = <<>> /\ c \notin clients
      BY <1>0, <1>2 DEF HandOver, Admit
    <3>3. Got(c)' = <<>>
      BY <1>0, <3>1, <3>2, ConcatEmptySeq, EmptySeq DEF Got
    <3>4. since'[c] = Len(processed) /\ Len(processed) \in Nat
      BY <1>0, <3>1, LenProperties DEF TypeOK
    <3>5. Due(c)' = {}
      BY <3>1, <3>4 DEF Due
    <3>6. Complete(c)'
      BY <3>3, <3>5 DEF Complete
    <3>7. ASSUME NEW d \in clients PROVE Complete(d)'
      <4>1. d # c /\ d \in Clients
        BY <1>0, <3>2
      <4>2. since'[d] = since[d]
        BY <1>0, <3>1, <4>1 DEF TypeOK
      <4> QED
        BY <1>0, <3>1, <4>1, <4>2, CompleteKept DEF Got
    <3> QED
      BY <3>1, <3>6, <3>7
  <2> QED
    BY <2>1, <2>2
<1>3. ASSUME NEW c \in Clients, WriteEvent(c) PROVE \A d \in clients' : Complete(d)'
  <2>1. /\ received' = [received EXCEPT ![c] = Append(received[c], Head(send[c]))]
        /\ send' = [send EXCEPT ![c] = Tail(send[c])]
        /\ UNCHANGED <<processed, since, clients>> /\ send[c] # <<>>
    BY <1>3 DEF WriteEvent, loop
  <2>2. ASSUME NEW d \in clients PROVE Got(d)' = Got(d)
    <3>1. CASE d = c
      <4>1. Got(d)' = Append(received[c], Head(send[c])) \o Tail(send[c])
        BY <1>0, <2>1, <3>1 DEF Got, TypeOK
      <4> QED
        <5>1. received[c] \in Seq(Event) /\ send[c] \in Seq(Event)
          BY <1>0 DEF TypeOK
        <5>2. Append(received[c], Head(send[c])) \o Tail(send[c]) = received[c] \o send[c]
          BY <2>1, <5>1, MoveHead, Zenon
        <5> QED
          BY <3>1, <4>1, <5>2 DEF Got
    <3>2. CASE d # c
      BY <1>0, <2>1, <3>2 DEF Got, TypeOK
    <3> QED
      BY <3>1, <3>2
  <2> QED
    BY <1>0, <2>1, <2>2, CompleteKept
<1>4. CASE Deliver
  BY <1>4, CompleteDelivered DEF Deliver
<1>5. CASE Stop
  BY <1>1, <1>5 DEF Stop, history
<1>6. ASSUME NEW c \in Clients,
             \/ Connect(c) \/ Receive(c) \/ SendManifest(c)
             \/ \E p \in Scopes : SendRelay(c, p)
             \/ PeerLeaves(c) \/ ReadFails(c) \/ WriterStops(c)
      PROVE  \A d \in clients' : Complete(d)'
  BY <1>1, <1>6 DEF Connect, Receive, SendManifest, SendRelay, PeerLeaves, ReadFails,
                    WriterStops, loop, history
<1>7. ASSUME NEW c \in Clients, Unregister(c) PROVE \A d \in clients' : Complete(d)'
  BY <1>1, <1>7 DEF Unregister, history
<1>8. CASE (\E p \in Scopes : Broadcast(p)) \/ ForwardRelay
  BY <1>1, <1>8 DEF Broadcast, ForwardRelay, loop, history
<1> QED
  BY <1>2, <1>3, <1>4, <1>5, <1>6, <1>7, <1>8 DEF Next

---------------------------------------------------------------------------
(* Whatever connections are made, admitted, refused, dropped and lost, and
   whenever the hub is stopped, its state keeps the invariant. *)
THEOREM HubInvariant == Spec => []HubInv
<1>1. HubInv /\ [Next]_vars => HubInv'
  <2> SUFFICES ASSUME HubInv, [Next]_vars PROVE HubInv'
    OBVIOUS
  <2>1. CASE Next
    <3>1. MapLimits' /\ ChannelLimits'
      BY <2>1, MapLimitsStep, ChannelLimitsStep
    <3>2. LimitsRespected' /\ IsFiniteSet(clients')
      BY <3>1 DEF LimitsRespected, MapLimits, ChannelLimits
    <3> QED
      BY <2>1, <3>2, TypeStep, HandOverStep, OrderedStep, NoGapsStep DEF HubInv
  <2>2. CASE UNCHANGED vars
    <3> USE <2>2 DEF vars, loop, buffers, pumps, history, HubInv
    <3>1. TypeOK' /\ IsFiniteSet(clients')
      BY DEF TypeOK
    <3>2. HandOver' /\ RegisteredAreOpen' /\ Ordered'
      BY DEF HandOver, RegisteredAreOpen, Ordered
    <3>3. LimitsRespected'
      BY DEF LimitsRespected, ClientsAt
    <3>4. NoGaps'
      <4>1. \A c \in clients : c \in Clients /\ Complete(c)
        BY DEF TypeOK, NoGaps, Complete
      <4>2. \A c \in clients : Complete(c)'
        BY <4>1, CompleteKept DEF Got
      <4> QED
        BY <4>2 DEF NoGaps, Complete
    <3> QED
      BY <3>1, <3>2, <3>3, <3>4
  <2> QED
    BY <2>1, <2>2
<1> QED
  BY <1>1, HubInvInit, PTL DEF Spec

(* The state of the hub has its type. *)
THEOREM TypeCorrect == Spec => []TypeOK
<1>1. HubInv => TypeOK
  BY DEF HubInv
<1> QED
  BY <1>1, HubInvariant, PTL

(* Run never sends on a channel it has closed. *)
THEOREM RegisteredAlwaysOpen == Spec => []RegisteredAreOpen
<1>1. HubInv => RegisteredAreOpen
  BY DEF HubInv
<1> QED
  BY <1>1, HubInvariant, PTL

(* No limit is exceeded, however many connections wait to be admitted. *)
THEOREM LimitsAlwaysRespected == Spec => []LimitsRespected
<1>1. HubInv => LimitsRespected
  BY DEF HubInv
<1> QED
  BY <1>1, HubInvariant, PTL

(* A registered client gets each event that concerns it once and in order. *)
THEOREM NobodyMissesEvents == Spec => []NoGaps
<1>1. HubInv => NoGaps
  BY DEF HubInv
<1> QED
  BY <1>1, HubInvariant, PTL

---------------------------------------------------------------------------
(* The hub as EventStreams has it. *)

(* The positions in p of what is in s: Places, for any two sequences. *)
PlacesIn(p, s) == {i \in DOMAIN p : \E k \in DOMAIN s : s[k] = p[i]}
Increasing(s) == \A i, j \in DOMAIN s : i < j => s[i].id < s[j].id
Within(s, p) == \A k \in DOMAIN s : \E i \in DOMAIN p : p[i] = s[k]

(* No event is twice in a sequence whose ids increase, and the order of the
   ids is that of the positions. *)
LEMMA IncreasingOrder ==
  ASSUME NEW s \in Seq(Event), Increasing(s)
  PROVE  \A i, j \in DOMAIN s : s[i].id <= s[j].id <=> i <= j
<1>1. DOMAIN s = 1..Len(s) /\ Len(s) \in Nat
  BY LenProperties
<1>2. \A i \in DOMAIN s : s[i].id \in Nat
  BY EventsHaveIds
<1> SUFFICES ASSUME NEW i \in DOMAIN s, NEW j \in DOMAIN s
             PROVE  s[i].id <= s[j].id <=> i <= j
  OBVIOUS
<1>3. i \in Nat /\ j \in Nat
  BY <1>1
<1>4. (i < j => s[i].id < s[j].id) /\ (j < i => s[j].id < s[i].id)
  BY DEF Increasing
<1> QED
  BY <1>2, <1>3, <1>4

(* A sequence has as many places as it has events. *)
LEMMA PlacesCounted ==
  ASSUME NEW s \in Seq(Event), NEW p \in Seq(Event),
         Increasing(s), Increasing(p), Within(s, p)
  PROVE  Cardinality(PlacesIn(p, s)) = Len(s)
<1> DEFINE f == [k \in 1..Len(s) |-> CHOOSE i \in DOMAIN p : p[i] = s[k]]
<1>1. DOMAIN s = 1..Len(s) /\ Len(s) \in Nat /\ DOMAIN p = 1..Len(p)
  BY LenProperties
<1>2. \A k \in 1..Len(s) : f[k] \in DOMAIN p /\ p[f[k]] = s[k]
  BY <1>1 DEF Within
<1>3. f \in [1..Len(s) -> PlacesIn(p, s)]
  BY <1>1, <1>2 DEF PlacesIn
<1>4. \A k, l \in 1..Len(s) : f[k] = f[l] => k = l
  <2>1. ASSUME NEW k \in 1..Len(s), NEW l \in 1..Len(s), s[k] = s[l] PROVE k = l
    <3>1. s[k].id <= s[l].id /\ s[l].id <= s[k].id
      BY <1>1, <2>1, EventsHaveIds
    <3>2. k <= l /\ l <= k
      BY <1>1, <3>1, IncreasingOrder
    <3> QED
      BY <1>1, <3>2
  <2>2. ASSUME NEW k \in 1..Len(s), NEW l \in 1..Len(s), f[k] = f[l] PROVE s[k] = s[l]
    <3> HIDE DEF f
    <3> QED
      BY <1>2, <2>2
  <2> HIDE DEF f
  <2> QED
    BY <2>1, <2>2
<1>5. \A i \in PlacesIn(p, s) : \E k \in 1..Len(s) : f[k] = i
  <2>1. ASSUME NEW i \in PlacesIn(p, s) PROVE \E k \in 1..Len(s) : f[k] = i
    <3>1. PICK k \in 1..Len(s) : s[k] = p[i]
      BY <1>1 DEF PlacesIn
    <3>2. f[k] \in DOMAIN p /\ i \in DOMAIN p /\ p[f[k]] = p[i]
      BY <1>2, <3>1 DEF PlacesIn
    <3>3. p[f[k]].id <= p[i].id /\ p[i].id <= p[f[k]].id
      BY <3>2, EventsHaveIds
    <3>4. f[k] <= i /\ i <= f[k]
      BY <3>2, <3>3, IncreasingOrder
    <3>5. f[k] = i
      BY <1>1, <3>2, <3>4
    <3> QED
      BY <3>5
  <2> QED
    BY <2>1
<1> HIDE DEF f
<1>6. ExistsBijection(1..Len(s), PlacesIn(p, s))
  BY <1>3, <1>4, <1>5 DEF ExistsBijection, Bijection, Injection, Surjection, IsInjective
<1> QED
  BY <1>1, <1>6, FS_CountingElements

(* What was read and what waits have their places apart. *)
LEMMA PlacesSplit ==
  ASSUME NEW r \in Seq(Event), NEW s \in Seq(Event), NEW p \in Seq(Event),
         Increasing(r \o s), Within(r \o s, p)
  PROVE  /\ Increasing(s) /\ Within(s, p)
         /\ PlacesIn(p, r \o s) \ PlacesIn(p, r) = PlacesIn(p, s)
<1>1. /\ DOMAIN s = 1..Len(s) /\ Len(s) \in Nat /\ DOMAIN r = 1..Len(r) /\ Len(r) \in Nat
      /\ DOMAIN (r \o s) = 1..(Len(r) + Len(s)) /\ r \o s \in Seq(Event)
  BY LenProperties, ConcatProperties
<1>2. \A k \in DOMAIN r : k \in DOMAIN (r \o s) /\ (r \o s)[k] = r[k]
  BY <1>1, ConcatProperties
<1>3. \A k \in DOMAIN s : Len(r) + k \in DOMAIN (r \o s) /\ (r \o s)[Len(r) + k] = s[k]
  BY <1>1, ConcatProperties
<1>4. \A k \in DOMAIN (r \o s) :
        k \in DOMAIN r \/ \E l \in DOMAIN s : k = Len(r) + l
  <2>1. ASSUME NEW k \in DOMAIN (r \o s), k \notin DOMAIN r
        PROVE  \E l \in DOMAIN s : k = Len(r) + l
    <3>1. k - Len(r) \in DOMAIN s /\ k = Len(r) + (k - Len(r))
      BY <1>1, <2>1
    <3> QED
      BY <3>1
  <2> QED
    BY <2>1
<1>5. Increasing(s)
  <2>1. ASSUME NEW i \in DOMAIN s, NEW j \in DOMAIN s, i < j PROVE s[i].id < s[j].id
    <3>1. Len(r) + i < Len(r) + j
      BY <1>1, <2>1
    <3> QED
      BY <1>3, <3>1 DEF Increasing
  <2> QED
    BY <2>1 DEF Increasing
<1>6. Within(s, p)
  BY <1>3 DEF Within
<1>7. ASSUME NEW k \in DOMAIN r, NEW l \in DOMAIN s PROVE r[k] # s[l]
  <2>1. k < Len(r) + l /\ k \in DOMAIN (r \o s) /\ Len(r) + l \in DOMAIN (r \o s)
    BY <1>1
  <2>2. (r \o s)[k].id < (r \o s)[Len(r) + l].id
    BY <2>1 DEF Increasing
  <2>3. r[k].id < s[l].id /\ r[k].id \in Nat
    BY <1>2, <1>3, <2>2, EventsHaveIds
  <2> QED
    BY <2>3
<1>8. ASSUME NEW i \in DOMAIN p
      PROVE  i \in PlacesIn(p, r \o s) \ PlacesIn(p, r) <=> i \in PlacesIn(p, s)
  <2>1. i \in PlacesIn(p, r \o s) <=> i \in PlacesIn(p, r) \/ i \in PlacesIn(p, s)
    <3>1. PICK g \in Seq(Event) : g = r \o s
      BY <1>1
    <3>2. ASSUME NEW k \in DOMAIN g, g[k] = p[i]
          PROVE  i \in PlacesIn(p, r) \/ i \in PlacesIn(p, s)
      BY <1>2, <1>3, <1>4, <3>1, <3>2 DEF PlacesIn
    <3>3. ASSUME i \in PlacesIn(p, r) PROVE i \in PlacesIn(p, g)
      BY <1>2, <3>1, <3>3 DEF PlacesIn
    <3>4. ASSUME i \in PlacesIn(p, s) PROVE i \in PlacesIn(p, g)
      BY <1>3, <3>1, <3>4 DEF PlacesIn
    <3>5. ASSUME i \in PlacesIn(p, g) PROVE \E k \in DOMAIN g : g[k] = p[i]
      BY <3>5 DEF PlacesIn
    <3> QED
      BY <3>1, <3>2, <3>3, <3>4, <3>5
  <2>2. ~(i \in PlacesIn(p, r) /\ i \in PlacesIn(p, s))
    BY <1>7 DEF PlacesIn
  <2> QED
    BY <2>1, <2>2
<1>9. PlacesIn(p, r \o s) \subseteq DOMAIN p /\ PlacesIn(p, s) \subseteq DOMAIN p
  BY DEF PlacesIn
<1> QED
  BY <1>5, <1>6, <1>8, <1>9

(* A younger event at the end of the log changes no place, and has its own. *)
LEMMA PlacesAppended ==
  ASSUME NEW s \in Seq(Event), NEW p \in Seq(Event), NEW e \in Event,
         Within(s, p), \A i \in DOMAIN p : p[i].id < e.id
  PROVE  /\ PlacesIn(Append(p, e), s) = PlacesIn(p, s)
         /\ PlacesIn(Append(p, e), Append(s, e)) = PlacesIn(p, s) \cup {Len(p) + 1}
<1>1. /\ DOMAIN p = 1..Len(p) /\ DOMAIN Append(p, e) = 1..(Len(p) + 1) /\ Len(p) \in Nat
      /\ \A i \in DOMAIN p : Append(p, e)[i] = p[i]
      /\ Append(p, e)[Len(p) + 1] = e
  BY Appended
<1>2. /\ DOMAIN s = 1..Len(s) /\ DOMAIN Append(s, e) = 1..(Len(s) + 1) /\ Len(s) \in Nat
      /\ \A i \in DOMAIN s : Append(s, e)[i] = s[i]
      /\ Append(s, e)[Len(s) + 1] = e
  BY Appended
<1>3. DOMAIN Append(p, e) = DOMAIN p \cup {Len(p) + 1} /\ Len(p) + 1 \notin DOMAIN p
  BY <1>1
<1>4. DOMAIN Append(s, e) = DOMAIN s \cup {Len(s) + 1}
  BY <1>2
<1>5. \A i \in DOMAIN p : p[i] # e
  <2>1. e.id \in Nat
    BY LimitsAreNumbers DEF Event
  <2> QED
    BY <2>1
<1>6. \A k \in DOMAIN s : s[k] # e
  BY <1>5 DEF Within
<1>7. PlacesIn(Append(p, e), s) = PlacesIn(p, s)
  BY <1>1, <1>3, <1>6 DEF PlacesIn
<1>8. PlacesIn(Append(p, e), Append(s, e)) = PlacesIn(p, s) \cup {Len(p) + 1}
  BY <1>1, <1>2, <1>3, <1>4, <1>5 DEF PlacesIn
<1> QED
  BY <1>7, <1>8

(* The event at the head of a channel is the first of those that wait. *)
LEMMA PlacesHead ==
  ASSUME NEW r \in Seq(Event), NEW s \in Seq(Event), NEW p \in Seq(Event),
         s # <<>>, Increasing(s), Increasing(p), Within(s, p)
  PROVE  \E i \in PlacesIn(p, s) :
           /\ \A j \in PlacesIn(p, s) : i <= j
           /\ PlacesIn(p, Append(r, Head(s))) = PlacesIn(p, r) \cup {i}
<1>1. Head(s) \in Event /\ Head(s) = s[1] /\ 1 \in DOMAIN s /\ DOMAIN s = 1..Len(s)
  BY HeadTaken, LenProperties
<1>2. PICK i \in DOMAIN p : p[i] = s[1]
  BY <1>1 DEF Within
<1>3. i \in PlacesIn(p, s)
  BY <1>1, <1>2 DEF PlacesIn
<1>4. ASSUME NEW j \in PlacesIn(p, s) PROVE i <= j
  <2>1. PICK k \in DOMAIN s : s[k] = p[j]
    BY DEF PlacesIn
  <2>2. 1 <= k
    BY <1>1
  <2>3. s[1].id <= s[k].id
    BY <1>1, <2>2, IncreasingOrder
  <2>4. p[i].id <= p[j].id
    BY <1>2, <2>1, <2>3
  <2> QED
    BY <2>4, IncreasingOrder DEF PlacesIn
<1>5. PlacesIn(p, Append(r, Head(s))) = PlacesIn(p, r) \cup {i}
  <2>1. /\ DOMAIN Append(r, Head(s)) = DOMAIN r \cup {Len(r) + 1}
        /\ \A k \in DOMAIN r : Append(r, Head(s))[k] = r[k]
        /\ Append(r, Head(s))[Len(r) + 1] = Head(s)
    <3>1. /\ Len(r) \in Nat
          /\ DOMAIN r = 1..Len(r) /\ DOMAIN Append(r, Head(s)) = 1..(Len(r) + 1)
          /\ \A k \in DOMAIN r : Append(r, Head(s))[k] = r[k]
          /\ Append(r, Head(s))[Len(r) + 1] = Head(s)
      BY <1>1, Appended
    <3> QED
      BY <3>1
  <2>2. ASSUME NEW j \in DOMAIN p, p[j] = s[1] PROVE j = i
    <3>1. p[i].id <= p[j].id /\ p[j].id <= p[i].id
      BY <1>2, <2>2, EventsHaveIds
    <3>2. i <= j /\ j <= i
      BY <3>1, IncreasingOrder
    <3> QED
      BY <3>2, LenProperties
  <2>3. ASSUME NEW j \in DOMAIN p
        PROVE  j \in PlacesIn(p, Append(r, Head(s))) <=> j \in PlacesIn(p, r) \/ j = i
    BY <1>1, <1>2, <2>1, <2>2 DEF PlacesIn
  <2>4. PlacesIn(p, Append(r, Head(s))) \subseteq DOMAIN p /\ PlacesIn(p, r) \subseteq DOMAIN p
    BY DEF PlacesIn
  <2> QED
    BY <2>3, <2>4
<1> QED
  BY <1>3, <1>4, <1>5

(* Whoever a client is, also one that is long dropped, what it gets was handed
   out, in that order. *)
Traced == \A c \in Clients : Increasing(Got(c)) /\ Within(Got(c), processed)

(* Nobody has got anything at the start. *)
LEMMA TracedInit == Init => Traced
<1> SUFFICES ASSUME Init, NEW c \in Clients PROVE Increasing(Got(c)) /\ Within(Got(c), processed)
  BY DEF Traced
<1>1. Got(c) = <<>>
  BY ConcatEmptySeq, EmptySeq DEF Init, Got
<1> QED
  BY <1>1 DEF Increasing, Within

(* What a client does not see of a step: its channel and its connection are as
   they were, or the writer moved an event from the one to the other. *)
LEMMA GotMoved ==
  ASSUME HubInv, NEW c \in Clients, WriteEvent(c), NEW d \in Clients
  PROVE  Got(d)' = Got(d)
<1>0. received \in [Clients -> Seq(Event)] /\ send \in [Clients -> Seq(Event)]
  BY DEF HubInv, TypeOK
<1>1. /\ received' = [received EXCEPT ![c] = Append(received[c], Head(send[c]))]
      /\ send' = [send EXCEPT ![c] = Tail(send[c])] /\ send[c] # <<>>
  BY DEF WriteEvent
<1>2. CASE d = c
  <2>1. Got(d)' = Append(received[c], Head(send[c])) \o Tail(send[c])
    BY <1>0, <1>1, <1>2 DEF Got
  <2>2. received[c] \in Seq(Event) /\ send[c] \in Seq(Event)
    BY <1>0
  <2>3. Append(received[c], Head(send[c])) \o Tail(send[c]) = received[c] \o send[c]
    BY <1>1, <2>2, MoveHead, Zenon
  <2> QED
    BY <1>2, <2>1, <2>3 DEF Got
<1>3. CASE d # c
  BY <1>0, <1>1, <1>3 DEF Got
<1> QED
  BY <1>2, <1>3

(* What EventStreams can see of the hub. *)
Seen == <<processed, clients, closed, send, received>>

(* The steps that only the hub, the goroutines and the handlers know of. *)
Behind(c) ==
  \/ Connect(c) \/ Receive(c) \/ (Admit(c) /\ ~Admissible(c)) \/ SendManifest(c)
  \/ (\E p \in Scopes : SendRelay(c, p))
  \/ PeerLeaves(c) \/ ReadFails(c) \/ (Unregister(c) /\ c \notin clients) \/ WriterStops(c)

(* Nothing that EventStreams has changes with them. *)
LEMMA BehindUnseen ==
  ASSUME (\E c \in Clients : Behind(c)) \/ (\E p \in Scopes : Broadcast(p)) \/ ForwardRelay
  PROVE  UNCHANGED Seen
<1>1. ASSUME NEW c \in Clients, Behind(c) PROVE UNCHANGED Seen
  BY <1>1 DEF Behind, Connect, Receive, Admit, SendManifest, SendRelay, PeerLeaves, ReadFails,
              Unregister, WriterStops, Seen, loop, history
<1>2. ASSUME NEW p \in Scopes, Broadcast(p) PROVE UNCHANGED Seen
  BY <1>2 DEF Broadcast, Seen, loop, history
<1>3. ASSUME ForwardRelay PROVE UNCHANGED Seen
  BY <1>3 DEF ForwardRelay, Seen, loop, history
<1> QED
  BY <1>1, <1>2, <1>3

(* A step that EventStreams sees is one of five. *)
LEMMA StepsSeen ==
  ASSUME Next
  PROVE  \/ UNCHANGED Seen
         \/ \E c \in Clients :
              \/ Admit(c) /\ Admissible(c)
              \/ Unregister(c) /\ c \in clients
              \/ WriteEvent(c)
         \/ Deliver \/ Stop
<1>1. ASSUME NEW c \in Clients,
             \/ Connect(c) \/ Receive(c) \/ SendManifest(c)
             \/ \E p \in Scopes : SendRelay(c, p)
             \/ PeerLeaves(c) \/ ReadFails(c) \/ WriterStops(c)
      PROVE  UNCHANGED Seen
  BY <1>1, BehindUnseen DEF Behind
<1>2. ASSUME NEW c \in Clients, Admit(c), ~Admissible(c) PROVE UNCHANGED Seen
  BY <1>2, BehindUnseen DEF Behind
<1>3. ASSUME NEW c \in Clients, Unregister(c), c \notin clients PROVE UNCHANGED Seen
  BY <1>3, BehindUnseen DEF Behind
<1>4. ASSUME (\E p \in Scopes : Broadcast(p)) \/ ForwardRelay PROVE UNCHANGED Seen
  BY <1>4, BehindUnseen
<1> QED
  BY <1>1, <1>2, <1>3, <1>4 DEF Next

(* Traced is kept: who stays in the map, or joins it, is without gaps, and who
   leaves or has left gets nothing new. *)
LEMMA TracedStep ==
  ASSUME HubInv, HubInv', Traced, Next
  PROVE  Traced'
<1>0. TypeOK /\ processed \in Seq(Event)
  BY DEF HubInv, TypeOK
<1>1. /\ DOMAIN processed \subseteq DOMAIN processed'
      /\ \A i \in DOMAIN processed : processed'[i] = processed[i]
  <2>1. CASE UNCHANGED processed
    BY <2>1
  <2>2. CASE Deliver
    <3>1. PICK e \in Event : e = Head(broadcast)
      BY <1>0, <2>2, HeadTaken DEF Deliver, TypeOK
    <3>2. processed' = Append(processed, e)
      BY <2>2, <3>1 DEF Deliver
    <3> QED
      BY <1>0, <3>2, Appended
  <2> QED
    BY <2>1, <2>2, StepsSeen DEF Seen, Admit, Unregister, WriteEvent, Stop, history
<1>2. ASSUME NEW c \in Clients PROVE c \in clients' \/ Got(c)' = Got(c)
  <2>1. CASE UNCHANGED <<send, received>>
    BY <2>1 DEF Got
  <2>2. CASE Deliver
    BY <1>0, <2>2 DEF Deliver, Got, TypeOK
  <2>3. ASSUME NEW d \in Clients, WriteEvent(d) PROVE Got(c)' = Got(c)
    BY <2>3, GotMoved
  <2> QED
    BY <2>1, <2>2, <2>3, StepsSeen DEF Seen, Admit, Unregister, Stop, history
<1>3. ASSUME NEW c \in clients' PROVE (Increasing(Got(c)) /\ Within(Got(c), processed))'
  <2>1. /\ Len(processed') \in Nat /\ DOMAIN processed' = 1..Len(processed') /\ since'[c] \in Nat
        /\ c \in Clients
    BY LenProperties DEF HubInv, TypeOK
  <2>2. Due(c)' \subseteq DOMAIN processed'
    BY <2>1 DEF Due
  <2>3. /\ {Got(c)'[i] : i \in DOMAIN Got(c)'} = {processed'[i] : i \in Due(c)'}
        /\ \A i, j \in DOMAIN Got(c)' : i < j => Got(c)'[i].id < Got(c)'[j].id
    BY DEF HubInv, NoGaps
  <2>4. \A k \in DOMAIN Got(c)' : \E i \in DOMAIN processed' : processed'[i] = Got(c)'[k]
    BY <2>2, <2>3
  <2> QED
    BY <2>3, <2>4 DEF Increasing, Within
<1>4. ASSUME NEW c \in Clients, Got(c)' = Got(c)
      PROVE  (Increasing(Got(c)) /\ Within(Got(c), processed))'
  <2>1. PICK g : g = Got(c)
    OBVIOUS
  <2>2. Increasing(g) /\ Within(g, processed)
    BY <2>1 DEF Traced
  <2>3. \A k \in DOMAIN g : \E i \in DOMAIN processed' : processed'[i] = g[k]
    BY <1>1, <2>2 DEF Within
  <2>4. Got(c)' = g
    BY <1>4, <2>1
  <2> QED
    BY <2>2, <2>3, <2>4 DEF Increasing, Within
<1> QED
  BY <1>2, <1>3, <1>4 DEF Traced

---------------------------------------------------------------------------
(* Steps of the hub are steps of EventStreams. *)

Phase == [c \in Clients |-> IF c \in clients THEN "following"
                            ELSE IF closed[c] THEN "over" ELSE "out"]
Owed == [c \in Clients |-> Places(Got(c))]
Had == [c \in Clients |-> Places(received[c])]

(* EventStreams counts as the hub does. *)
LEMMA SameCount == \A S : Streams!Cardinality(S) = Cardinality(S)
BY DEF Streams!Cardinality, Cardinality

(* The events of the hub are numbered in the order of the log. *)
LEMMA LogOrder ==
  ASSUME HubInv
  PROVE  /\ processed \in Seq(Event) /\ Increasing(processed)
         /\ \A c \in Clients : /\ Got(c) \in Seq(Event) /\ send[c] \in Seq(Event)
                               /\ received[c] \in Seq(Event) /\ Got(c) = received[c] \o send[c]
<1>1. TypeOK /\ Ordered
  BY DEF HubInv
<1>2. \A c \in Clients : received[c] \in Seq(Event) /\ send[c] \in Seq(Event)
  BY <1>1 DEF TypeOK
<1>3. \A r, s \in Seq(Event) : r \o s \in Seq(Event)
  BY ConcatProperties
<1> QED
  BY <1>1, <1>2, <1>3 DEF TypeOK, Ordered, Increasing, Got

(* What a client has still to see is what waits in its channel. *)
LEMMA Waiting ==
  ASSUME HubInv, Traced, NEW c \in Clients
  PROVE  /\ Streams!Unseen(c) = PlacesIn(processed, send[c])
         /\ Cardinality(Streams!Unseen(c)) = Len(send[c])
         /\ Increasing(send[c]) /\ Within(send[c], processed)
<1>1. /\ processed \in Seq(Event) /\ Increasing(processed)
      /\ send[c] \in Seq(Event) /\ received[c] \in Seq(Event) /\ Got(c) = received[c] \o send[c]
  BY LogOrder
<1>2. PICK p \in Seq(Event), r \in Seq(Event), s \in Seq(Event) :
        p = processed /\ r = received[c] /\ s = send[c]
  BY <1>1
<1>3. Increasing(r \o s) /\ Within(r \o s, p) /\ Increasing(p)
  BY <1>1, <1>2 DEF Traced
<1>4. /\ Increasing(s) /\ Within(s, p)
      /\ PlacesIn(p, r \o s) \ PlacesIn(p, r) = PlacesIn(p, s)
  BY <1>3, PlacesSplit
<1>5. Cardinality(PlacesIn(p, s)) = Len(s)
  BY <1>3, <1>4, PlacesCounted
<1>6. Streams!Unseen(c) = PlacesIn(p, r \o s) \ PlacesIn(p, r)
  BY <1>1, <1>2 DEF Streams!Unseen, Places, PlacesIn
<1> QED
  BY <1>2, <1>4, <1>5, <1>6

(* Those that follow are those in the map. *)
LEMMA FollowersInMap ==
  ASSUME HubInv
  PROVE  /\ Streams!Following = clients
         /\ \A c \in clients : ~closed[c] /\ c \in Clients
BY DEF HubInv, TypeOK, RegisteredAreOpen, Streams!Following

(* An admission is a Join: the map and the address have room, whatever the
   counter says. *)
LEMMA AdmitJoins ==
  ASSUME HubInv, NEW c \in Clients, Admit(c), Admissible(c)
  PROVE  Streams!Next
<1>1. /\ clients' = clients \cup {c} /\ UNCHANGED <<processed, closed, send, received>>
      /\ c \notin clients /\ ~closed[c]
  BY DEF Admit, HubInv, HandOver
<1>2. Cardinality(Streams!Following) < MaxClients
  BY FollowersInMap DEF Admissible
<1>3. Cardinality({d \in Streams!Following : addressOf[d] = addressOf[c]}) < MaxPerAddress
  <2>1. {d \in Streams!Following : addressOf[d] = addressOf[c]} = ClientsAt(addressOf[c])
    BY FollowersInMap DEF ClientsAt
  <2>2. addressOf[c] \in Addresses
    OBVIOUS
  <2>3. Cardinality(ClientsAt(addressOf[c])) <= ipCount[addressOf[c]]
    BY <2>2 DEF HubInv, LimitsRespected
  <2>4. Cardinality(ClientsAt(addressOf[c])) \in Nat /\ ipCount[addressOf[c]] \in Nat
    BY <2>2, AddressOfClients DEF HubInv, TypeOK
  <2>5. ipCount[addressOf[c]] < MaxPerAddress
    BY DEF Admissible
  <2> QED
    BY <2>1, <2>3, <2>4, <2>5, LimitsAreNumbers
<1>4. Phase[c] = "out" /\ Phase' = [Phase EXCEPT ![c] = "following"]
  BY <1>1 DEF Phase
<1>5. UNCHANGED <<processed, Owed, Had>>
  BY <1>1 DEF Owed, Had, Places, Got
<1>6. Streams!Join(c)
  <2> HIDE HubAssumption DEF HubAssumption
  <2> SUFFICES /\ Phase[c] = "out"
               /\ Cardinality(Streams!Following) < MaxClients
               /\ Cardinality({d \in Streams!Following : addressOf[d] = addressOf[c]})
                    < MaxPerAddress
               /\ Phase' = [Phase EXCEPT ![c] = "following"]
               /\ UNCHANGED <<processed, Owed, Had>>
    BY SameCount DEF Streams!Join, Phase, Owed, Had
  <2> QED
    BY <1>2, <1>3, <1>4, <1>5
<1> QED
  BY <1>6 DEF Streams!Next

(* Who is taken out of the map without an event has left. *)
LEMMA LeavesTogether ==
  ASSUME HubInv, NEW gone \in SUBSET clients, clients' = clients \ gone,
         closed' = [c \in Clients |-> closed[c] \/ c \in gone],
         UNCHANGED <<processed, send, received>>
  PROVE  Streams!Next
<1>1. gone \in SUBSET Clients /\ gone \subseteq Streams!Following
  BY FollowersInMap
<1>2. Phase' = [c \in Clients |-> IF c \in gone THEN "over" ELSE Phase[c]]
  BY <1>1, FollowersInMap DEF Phase
<1>3. UNCHANGED <<processed, Owed, Had>>
  BY DEF Owed, Had, Places, Got
<1>4. Streams!Leave(gone)
  BY <1>1, <1>2, <1>3 DEF Streams!Leave, Streams!Over, Phase, Owed, Had
<1> QED
  BY <1>1, <1>4 DEF Streams!Next

(* A write takes the first of the events that wait. *)
LEMMA WriteSees ==
  ASSUME HubInv, Traced, NEW c \in Clients, WriteEvent(c)
  PROVE  Streams!Next
<1>1. /\ received' = [received EXCEPT ![c] = Append(received[c], Head(send[c]))]
      /\ send[c] # <<>> /\ UNCHANGED <<processed, clients, closed>>
  BY DEF WriteEvent, loop
<1>2. PICK p \in Seq(Event), r \in Seq(Event), s \in Seq(Event) :
        p = processed /\ r = received[c] /\ s = send[c]
  BY LogOrder
<1>3. Increasing(s) /\ Within(s, p) /\ Increasing(p)
  BY <1>2, LogOrder, Waiting
<1>4. PICK i \in PlacesIn(p, s) :
        /\ \A j \in PlacesIn(p, s) : i <= j
        /\ PlacesIn(p, Append(r, Head(s))) = PlacesIn(p, r) \cup {i}
  <2>1. s # <<>>
    BY <1>1, <1>2
  <2> QED
    BY <1>3, <2>1, PlacesHead
<1>5. i \in Streams!Unseen(c) /\ \A j \in Streams!Unseen(c) : i <= j
  BY <1>2, <1>4, Waiting
<1>6. Had' = [Had EXCEPT ![c] = Had[c] \cup {i}]
  <2>1. received \in [Clients -> Seq(Event)]
    BY DEF HubInv, TypeOK
  <2>2. \A d \in Clients : d # c => received'[d] = received[d]
    BY <1>1, <2>1
  <2>3. received'[c] = Append(r, Head(s)) /\ processed' = p
    BY <1>1, <1>2, <2>1
  <2>4. Had'[c] = PlacesIn(p, Append(r, Head(s))) /\ Had[c] = PlacesIn(p, r)
    <3>1. Had'[c] = PlacesIn(processed', received'[c]) /\ Had[c] = PlacesIn(processed, received[c])
      BY DEF Had, Places, PlacesIn
    <3> QED
      BY <1>2, <2>3, <3>1
  <2>5. \A d \in Clients : d # c => Had'[d] = Had[d]
    BY <1>1, <2>2 DEF Had, Places
  <2>6. Had'[c] = Had[c] \cup {i}
    BY <1>4, <2>4
  <2>7. Had = [d \in Clients |-> Had[d]] /\ Had' = [d \in Clients |-> Had'[d]]
    BY DEF Had
  <2> QED
    BY <2>5, <2>6, <2>7
<1>7. UNCHANGED <<processed, Phase>> /\ Owed' = Owed
  <2>1. \A d \in Clients : Places(Got(d))' = Places(Got(d))
    BY <1>1, GotMoved DEF Places
  <2> QED
    BY <1>1, <2>1 DEF Phase, Owed
<1>8. Streams!See(c)
  BY <1>5, <1>6, <1>7 DEF Streams!See, Phase, Owed, Had
<1> QED
  BY <1>8 DEF Streams!Next

(* Deliver is Publish: the clients that lose their place are those that have
   SendBuffer events still to see, and nobody else misses the event. *)
LEMMA DeliverPublishes ==
  ASSUME HubInv, Traced, Deliver
  PROVE  Streams!Next
<1>0. /\ processed \in Seq(Event) /\ closed \in [Clients -> BOOLEAN]
      /\ clients \subseteq Clients /\ broadcast \in Seq(Event) /\ broadcast # <<>>
      /\ \A c \in Clients : send[c] \in Seq(Event) /\ Len(send[c]) \in Nat
  BY LenProperties DEF HubInv, TypeOK, Deliver
<1>1. PICK e \in Event : e = Head(broadcast)
  BY <1>0, HeadTaken
<1>2. PICK p \in Seq(Event) : p = processed
  BY <1>0
<1> DEFINE concerned == {c \in clients : Concerns(e, c)}
           full == {c \in concerned : Len(send[c]) >= SendBuffer}
<1>3. /\ send' = [c \in Clients |->
                    IF c \in concerned \ full THEN Append(send[c], e) ELSE send[c]]
      /\ clients' = clients \ full
      /\ closed' = [c \in Clients |-> closed[c] \/ c \in full]
      /\ processed' = Append(p, e) /\ UNCHANGED received
  BY <1>1, <1>2 DEF Deliver
<1>4. \A i \in DOMAIN p : p[i].id < e.id
  <2>1. 1 \in DOMAIN broadcast /\ broadcast[1] = e
    BY <1>0, <1>1, HeadTaken
  <2> QED
    BY <1>2, <2>1 DEF HubInv, Ordered
<1>5. /\ concerned = {c \in Streams!Following : Streams!Concerns(e, c)}
      /\ full = {c \in concerned : Streams!Cardinality(Streams!Unseen(c)) >= SendBuffer}
      /\ full \subseteq Clients /\ concerned \subseteq clients
  <2>1. concerned = {c \in Streams!Following : Streams!Concerns(e, c)}
    BY FollowersInMap DEF Concerns, Streams!Concerns
  <2>2. \A c \in clients : Streams!Cardinality(Streams!Unseen(c)) = Len(send[c])
    BY <1>0, SameCount, Waiting
  <2> QED
    BY <1>0, <2>1, <2>2
<1> HIDE DEF concerned, full
<1>6. Phase' = [c \in Clients |-> IF c \in full THEN "over" ELSE Phase[c]]
  BY <1>0, <1>3, <1>5, FollowersInMap DEF Phase
<1>7. ASSUME NEW c \in Clients
      PROVE  Owed'[c] = IF c \in concerned \ full THEN Owed[c] \cup {Len(processed) + 1} ELSE Owed[c]
  <2>1. PICK s \in Seq(Event) : s = send[c]
    BY <1>0
  <2>2. PICK g \in Seq(Event) : g = Got(c) /\ g = received[c] \o s
    BY <2>1, LogOrder
  <2>3. Within(g, p)
    BY <1>2, <2>2 DEF Traced
  <2>4. /\ PlacesIn(Append(p, e), g) = PlacesIn(p, g)
        /\ PlacesIn(Append(p, e), Append(g, e)) = PlacesIn(p, g) \cup {Len(p) + 1}
    BY <1>4, <2>3, PlacesAppended
  <2>5. Owed[c] = PlacesIn(p, g)
    BY <1>2, <2>2 DEF Owed, Places, PlacesIn
  <2>6. Owed'[c] = PlacesIn(Append(p, e), Got(c)')
    BY <1>3 DEF Owed, Places, PlacesIn
  <2>7. CASE c \in concerned \ full
    <3>1. PICK r \in Seq(Event) : r = received[c]
      BY LogOrder
    <3>2. Got(c)' = r \o Append(s, e)
      BY <1>3, <2>1, <2>7, <3>1 DEF Got
    <3>3. r \o Append(s, e) = Append(r \o s, e)
      BY ConcatAppend
    <3>4. Got(c)' = Append(g, e)
      BY <2>2, <3>1, <3>2, <3>3
    <3> QED
      BY <1>2, <2>4, <2>5, <2>6, <2>7, <3>4
  <2>8. CASE c \notin concerned \ full
    <3>1. Got(c)' = g
      BY <1>3, <2>2, <2>8 DEF Got
    <3> QED
      BY <2>4, <2>5, <2>6, <2>8, <3>1
  <2> QED
    BY <2>7, <2>8
<1>8. Owed' = [c \in Clients |-> IF c \in concerned \ full
                                THEN Owed[c] \cup {Len(processed) + 1} ELSE Owed[c]]
  BY <1>7 DEF Owed
<1>9. Had' = Had
  <2>1. ASSUME NEW c \in Clients PROVE Places(received[c])' = Places(received[c])
    <3>1. PICK r \in Seq(Event) : r = received[c]
      BY LogOrder
    <3>2. PICK s \in Seq(Event) : s = send[c]
      BY <1>0
    <3>3. Within(r, p)
      <4>1. Within(r \o s, p)
        BY <1>2, <3>1, <3>2, LogOrder DEF Traced
      <4>2. /\ DOMAIN r = 1..Len(r) /\ Len(r) \in Nat /\ Len(s) \in Nat
            /\ DOMAIN (r \o s) = 1..(Len(r) + Len(s))
        BY LenProperties, ConcatProperties
      <4>3. \A k \in DOMAIN r : k \in DOMAIN (r \o s) /\ (r \o s)[k] = r[k]
        BY <4>2, ConcatProperties
      <4> QED
        BY <4>1, <4>3 DEF Within
    <3>4. PlacesIn(Append(p, e), r) = PlacesIn(p, r)
      BY <1>4, <3>3, PlacesAppended
    <3>5. Places(received[c])' = PlacesIn(processed', received'[c])
      BY DEF Places, PlacesIn
    <3>6. Places(received[c]) = PlacesIn(processed, received[c])
      BY DEF Places, PlacesIn
    <3> QED
      BY <1>2, <1>3, <3>1, <3>4, <3>5, <3>6
  <2> QED
    BY <2>1 DEF Had
<1>10. Streams!Publish(e)
  <2> DEFINE there == {c \in Streams!Following : Streams!Concerns(e, c)}
             late == {c \in there : Streams!Cardinality(Streams!Unseen(c)) >= SendBuffer}
  <2>1. there = concerned /\ late = full
    BY <1>5
  <2>2. /\ Streams!Over(late)
        /\ Owed' = [c \in Clients |-> IF c \in there \ late
                                     THEN Owed[c] \cup {Len(processed) + 1} ELSE Owed[c]]
    <3> HIDE DEF there, late
    <3>1. Streams!Over(late)
      BY <1>6, <2>1 DEF Streams!Over, Phase
    <3>2. Owed' = [c \in Clients |-> IF c \in there \ late
                                     THEN Owed[c] \cup {Len(processed) + 1} ELSE Owed[c]]
      BY <1>8, <2>1
    <3> QED
      BY <3>1, <3>2
  <2>3. /\ \A i \in DOMAIN processed : processed[i].id < e.id
        /\ processed' = Append(processed, e) /\ Had' = Had
    BY <1>2, <1>3, <1>4, <1>9
  <2> QED
    BY <2>2, <2>3 DEF Streams!Publish, Owed, Had
<1> QED
  BY <1>10 DEF Streams!Next

(* For any connections, limits and events, and however its goroutines
   interleave, the hub serves every client as EventStreams says: what it
   drops, it drops for good, and who is not dropped misses nothing. *)
THEOREM HubRefinesStreams == Spec => RefinesStreams
<1>1. Init => Streams!Init
  <2> SUFFICES ASSUME Init PROVE Streams!Init
    OBVIOUS
  <2>1. processed = <<>> /\ DOMAIN processed = {}
    BY EmptySeq DEF Init
  <2>2. \A s : Places(s) = {}
    BY <2>1 DEF Places
  <2> QED
    BY <2>1, <2>2 DEF Init, Streams!Init
<1>2. ASSUME HubInv, Traced, [Next]_vars
      PROVE  Streams!Next \/ UNCHANGED <<processed, Phase, Owed, Had>>
  <2>1. CASE UNCHANGED vars
    BY <2>1 DEF vars, loop, buffers, pumps, history, Phase, Owed, Had, Places, Got
  <2>2. CASE UNCHANGED Seen
    BY <2>2 DEF Seen, Phase, Owed, Had, Places, Got
  <2>3. ASSUME NEW c \in Clients, Unregister(c), c \in clients PROVE Streams!Next
    <3>1. PICK gone \in SUBSET clients : gone = {c}
      BY <2>3
    <3>2. clients' = clients \ gone /\ UNCHANGED <<processed, send, received>>
      BY <2>3, <3>1 DEF Unregister, history
    <3>3. closed' = [d \in Clients |-> closed[d] \/ d \in gone]
      <4>1. closed' = [closed EXCEPT ![c] = TRUE] /\ closed \in [Clients -> BOOLEAN]
        BY <1>2, <2>3 DEF Unregister, HubInv, TypeOK
      <4>2. closed \in [Clients -> BOOLEAN] /\ closed' \in [Clients -> BOOLEAN]
        BY <4>1
      <4>3. \A d \in Clients : closed'[d] = (closed[d] \/ d \in gone)
        BY <3>1, <4>1, Zenon
      <4> QED
        BY <4>2, <4>3
    <3> QED
      BY <1>2, <3>2, <3>3, LeavesTogether
  <2>4. CASE Stop
    <3>1. PICK gone \in SUBSET clients : gone = clients
      OBVIOUS
    <3>2. clients' = clients \ gone /\ UNCHANGED <<processed, send, received>>
      BY <2>4, <3>1 DEF Stop, history
    <3>3. closed' = [d \in Clients |-> closed[d] \/ d \in gone]
      BY <2>4, <3>1 DEF Stop
    <3> QED
      BY <1>2, <3>2, <3>3, LeavesTogether
  <2> QED
    BY <1>2, <2>1, <2>2, <2>3, <2>4, AdmitJoins, WriteSees, DeliverPublishes, StepsSeen
<1>3. HubInv /\ Traced /\ [Next]_vars =>
        [Streams!Next]_<<processed,
                         [c \in Clients |-> IF c \in clients THEN "following"
                                            ELSE IF closed[c] THEN "over" ELSE "out"],
                         [c \in Clients |-> Places(Got(c))],
                         [c \in Clients |-> Places(received[c])]>>
  BY <1>2 DEF Phase, Owed, Had
<1>4. HubInv /\ HubInv' /\ Traced /\ [Next]_vars => Traced'
  <2>1. ASSUME Traced, UNCHANGED vars PROVE Traced'
    <3>1. ASSUME NEW c \in Clients PROVE (Increasing(Got(c)) /\ Within(Got(c), processed))'
      <4>1. PICK g, p : g = Got(c) /\ p = processed
        OBVIOUS
      <4>2. Increasing(g) /\ Within(g, p)
        BY <2>1, <4>1 DEF Traced
      <4>3. Got(c)' = g /\ processed' = p
        BY <2>1, <4>1 DEF vars, history, Got
      <4> QED
        BY <4>2, <4>3 DEF Increasing, Within
    <3> QED
      BY <3>1 DEF Traced
  <2> QED
    BY <2>1, TracedStep
<1> QED
  BY <1>1, <1>3, <1>4, TracedInit, HubInvariant, PTL DEF Spec, RefinesStreams, Streams!Spec
=============================================================================
