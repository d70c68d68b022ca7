----------------------------- MODULE Connection -----------------------------
(***************************************************************************)
(* The daemon's connection to the server: enrolment with an onboarding     *)
(* code, the tokens it keeps in a file, and the WebSocket it opens again   *)
(* and again until it is told to stop.                                     *)
(*                                                                         *)
(* The goroutine of App.Run is "main".  The proxies of chat sessions       *)
(* refresh the access token too, when the server refuses theirs: "proxy".  *)
(* Both end in the same file, which os.WriteFile empties before it writes. *)
(*                                                                         *)
(* An access token is the number of the period in which it is good.        *)
(***************************************************************************)
EXTENDS Naturals, FiniteSets

CONSTANTS
  DaemonsAdmitted,   \* whether the server takes the tokens of daemons where they put them
  MaxPeriods,      \* bound: lifetimes of an access token
  MaxStarts,       \* bound: starts of the process
  Workloads        \* sets of what may happen around the daemon

ASSUME ConnectionAssumption ==
  /\ DaemonsAdmitted \in BOOLEAN
  /\ MaxPeriods \in Nat \ {0}
  /\ MaxStarts \in Nat

VARIABLES
  workload,
  code,        \* server: the onboarding code
  revoked,     \* server: the node was revoked
  online,      \* the server can be reached
  period,      \* tokens of this period are good
  file,        \* tokens.json
  writable,    \* it can be written: there is room, and a right to
  token,       \* a.tokens.AccessToken
  refresh,     \* refreshAccessToken, for each of its callers
  phase,       \* what Run does
  wsToken,     \* the token the WebSocket client has
  firstToken,  \* the token the Docker service and the chat manager have
  link,        \* the WebSocket
  stopping,    \* SIGTERM has arrived
  starts,      \* bound
  unwritten,   \* history: the last save failed
  damaged      \* history: an enrolment went unheard, or the process died during
               \* a save

server == <<code, revoked, online, period>>
disk == <<file, writable, unwritten>>
memory == <<token, refresh, wsToken, firstToken>>
connectionVars ==
  <<workload, server, disk, memory, phase, link, stopping, starts, damaged>>

Callers == {"main", "proxy"}
None == 0

Happens(event) == event \in workload

Running == phase # "off"

Idle == [step |-> "idle", token |-> None]

Saving(r) == r.step \in {"save", "write"}

ConnectionInit ==
  /\ workload \in Workloads
  /\ code = "unused" /\ revoked = FALSE /\ online = TRUE /\ period = 1
  /\ file = "none" /\ writable = TRUE /\ unwritten = FALSE
  /\ token = None /\ wsToken = None /\ firstToken = None
  /\ refresh = [c \in Callers |-> Idle]
  /\ phase = "off" /\ link = "closed" /\ stopping = FALSE
  /\ starts = 0 /\ damaged = FALSE

---------------------------------------------------------------------------
(* The server and the network. *)

Expire ==
  /\ Happens("expire") /\ period < MaxPeriods
  /\ period' = period + 1
  /\ UNCHANGED <<workload, code, revoked, online, disk, memory, phase, link, stopping,
                 starts, damaged>>

(* The server does not close the connections of a node that is revoked. *)
Revoke ==
  /\ Happens("revoke") /\ code = "used"
  /\ revoked' = TRUE
  /\ UNCHANGED <<workload, code, online, period, disk, memory, phase, link, stopping,
                 starts, damaged>>

Cut == link' = IF link = "open" THEN "dead" ELSE link

Outage ==
  /\ Happens("outage")
  /\ online' = FALSE /\ Cut
  /\ UNCHANGED <<workload, code, revoked, period, disk, memory, phase, stopping, starts,
                 damaged>>

Recover ==
  /\ online' = TRUE
  /\ UNCHANGED <<workload, code, revoked, period, disk, memory, phase, link, stopping,
                 starts, damaged>>

Break ==
  /\ Happens("break") /\ link = "open"
  /\ Cut
  /\ UNCHANGED <<workload, server, disk, memory, phase, stopping, starts, damaged>>

(* The file system fills up, or the file's rights are taken away; and back. *)
Fill ==
  /\ Happens("unwritable")
  /\ writable' = FALSE
  /\ UNCHANGED <<workload, server, file, unwritten, memory, phase, link, stopping, starts,
                 damaged>>

Clear ==
  /\ writable' = TRUE
  /\ UNCHANGED <<workload, server, file, unwritten, memory, phase, link, stopping, starts,
                 damaged>>

---------------------------------------------------------------------------
(* The end of the process, of its own will or not. *)

Ends ==
  /\ phase' = "off" /\ link' = "closed" /\ stopping' = FALSE
  /\ token' = None /\ wsToken' = None /\ firstToken' = None
  /\ refresh' = [c \in Callers |-> Idle]

(* Nothing waits for a proxy that is saving the tokens. *)
Dies ==
  /\ Ends
  /\ damaged' = (damaged \/ \E c \in Callers : Saving(refresh[c]))

Crash ==
  /\ Happens("crash") /\ Running
  /\ Dies
  /\ UNCHANGED <<workload, server, disk, starts>>

SignalStop ==
  /\ Happens("stop") /\ Running
  /\ stopping' = TRUE
  /\ UNCHANGED <<workload, server, disk, memory, phase, link, starts, damaged>>

---------------------------------------------------------------------------
(* refreshAccessToken and Save. *)

Ask(c) == refresh' = [refresh EXCEPT ![c] = [step |-> "ask", token |-> None]]

(* The client gives up after 30 seconds, or when the process is to stop. *)
NoAnswer == ~online \/ stopping

(* The server hands out a token. *)
Answer(c) ==
  /\ refresh[c].step = "ask"
  /\ online /\ ~revoked
  /\ refresh' = [refresh EXCEPT ![c] = [step |-> "save", token |-> period]]
  /\ UNCHANGED <<workload, server, disk, token, phase, wsToken, firstToken, link,
                 stopping, starts, damaged>>

(* refreshAccessToken returns an error, or doOnboarding does.  At the start of
   the process there is no second try; afterwards the WebSocket client keeps
   the token that it has; with is the token in use then. *)
ReturnsError(c, with) ==
  /\ IF c = "main" /\ phase \in {"enrol", "start"}
     THEN Ends
     ELSE /\ refresh' = [refresh EXCEPT ![c] = Idle]
          /\ phase' = IF c = "main" THEN "pause" ELSE phase
          /\ token' = with
          /\ UNCHANGED <<wsToken, firstToken, link, stopping>>
  /\ UNCHANGED <<workload, server, file, writable, starts, damaged>>

RefreshFails(c) ==
  /\ refresh[c].step = "ask"
  /\ NoAnswer \/ revoked
  /\ ReturnsError(c, token)
  /\ UNCHANGED unwritten

(* The token is the one in use from now on, and the file is emptied. *)
Save(c) ==
  /\ refresh[c].step = "save"
  /\ token' = refresh[c].token
  /\ file' = "empty"
  /\ refresh' = [refresh EXCEPT ![c].step = "write"]
  /\ UNCHANGED <<workload, server, writable, unwritten, wsToken, firstToken, phase, link,
                 stopping, starts, damaged>>

(* The directory cannot be made or the file cannot be opened: what was in it
   stays, and the token is the one in use all the same. *)
CannotOpen(c) ==
  /\ refresh[c].step = "save" /\ ~writable
  /\ ReturnsError(c, refresh[c].token)
  /\ unwritten' = TRUE

(* Mutant: the new token is not handed to the WebSocket client. *)
WrittenForNobody(c) ==
  CASE c = "proxy" ->
         UNCHANGED <<phase, wsToken, firstToken>> /\ refresh' = [refresh EXCEPT ![c] = Idle]
    [] c = "main" /\ phase = "enrol" ->
         phase' = "start" /\ Ask(c) /\ UNCHANGED <<wsToken, firstToken>>
    [] c = "main" /\ phase = "start" ->
         /\ phase' = "dial" /\ refresh' = [refresh EXCEPT ![c] = Idle]
         /\ wsToken' = token /\ firstToken' = token
    [] OTHER ->
         /\ phase' = "pause" /\ refresh' = [refresh EXCEPT ![c] = Idle]
         /\ UNCHANGED <<wsToken, firstToken>>

(* After the first refresh the services are made, with the token of now. *)
Written(c) ==
  CASE c = "proxy" ->
         UNCHANGED <<phase, wsToken, firstToken>> /\ refresh' = [refresh EXCEPT ![c] = Idle]
    [] c = "main" /\ phase = "enrol" ->
         phase' = "start" /\ Ask(c) /\ UNCHANGED <<wsToken, firstToken>>
    [] c = "main" /\ phase = "start" ->
         /\ phase' = "dial" /\ refresh' = [refresh EXCEPT ![c] = Idle]
         /\ wsToken' = token /\ firstToken' = token
    [] OTHER ->
         /\ phase' = "pause" /\ refresh' = [refresh EXCEPT ![c] = Idle]
         /\ wsToken' = token /\ UNCHANGED firstToken

(* Overlapping writes have the same length: the file holds one of them. *)
Write(c) ==
  /\ refresh[c].step = "write" /\ writable
  /\ file' = "tokens" /\ unwritten' = FALSE
  /\ Written(c)
  /\ UNCHANGED <<workload, server, writable, token, link, stopping, starts, damaged>>

(* What is written of them before the error is no tokens either. *)
CannotWrite(c) ==
  /\ refresh[c].step = "write" /\ ~writable
  /\ ReturnsError(c, token)
  /\ unwritten' = TRUE

---------------------------------------------------------------------------
(* Run. *)

(* Without a file the process enrols; with an empty one it ends at once. *)
Start ==
  /\ phase = "off" /\ starts < MaxStarts
  /\ file # "empty"
  /\ starts' = starts + 1
  /\ IF file = "none"
     THEN phase' = "onboard" /\ UNCHANGED refresh
     ELSE phase' = "start" /\ Ask("main")
  /\ UNCHANGED <<workload, server, disk, token, wsToken, firstToken, link, stopping,
                 damaged>>

(* Mutant: the tokens are left to the first refresh to save. *)
EnrolWithoutSave ==
  /\ phase = "onboard" /\ online /\ code = "unused"
  /\ code' = "used"
  /\ phase' = "start" /\ token' = period /\ Ask("main")
  /\ UNCHANGED <<workload, revoked, online, period, disk, wsToken, firstToken, link,
                 stopping, starts, damaged>>

(* doOnboarding: the server uses the code up, and its answer arrives. *)
Enrol ==
  /\ phase = "onboard" /\ online /\ code = "unused"
  /\ code' = "used"
  /\ phase' = "enrol"
  /\ refresh' = [refresh EXCEPT !["main"] = [step |-> "save", token |-> period]]
  /\ UNCHANGED <<workload, revoked, online, period, disk, token, wsToken, firstToken,
                 link, stopping, starts, damaged>>

(* The code is used up, and the answer is lost. *)
EnrolUnheard ==
  /\ phase = "onboard" /\ online /\ code = "unused"
  /\ Happens("lost_answer")
  /\ code' = "used" /\ damaged' = TRUE
  /\ phase' = "off"
  /\ stopping' = FALSE
  /\ UNCHANGED <<workload, revoked, online, period, disk, memory, link, starts>>

EnrolFails ==
  /\ phase = "onboard"
  /\ NoAnswer \/ code = "used"
  /\ Dies
  /\ UNCHANGED <<workload, server, disk, starts>>

(* The server takes a daemon's token: as its WebSocket handler means to, and
   as it does not when the daemon puts the token elsewhere and the routes are
   behind a check that only takes the tokens of users. *)
Takes(t) == DaemonsAdmitted /\ t = period /\ ~revoked

Admits == Takes(wsToken)

Dial ==
  /\ phase = "dial" /\ online /\ Admits
  /\ phase' = "connected" /\ link' = "open"
  /\ UNCHANGED <<workload, server, disk, memory, stopping, starts, damaged>>

(* 401: the token is refreshed before the next try. *)
DialRefused ==
  /\ phase = "dial" /\ online /\ ~Admits
  /\ phase' = "reauth" /\ Ask("main")
  /\ UNCHANGED <<workload, server, disk, token, wsToken, firstToken, link, stopping,
                 starts, damaged>>

DialFails ==
  /\ phase = "dial" /\ NoAnswer
  /\ phase' = "pause"
  /\ UNCHANGED <<workload, server, disk, memory, link, stopping, starts, damaged>>

(* The reader gets an error, after 60 seconds of silence at the latest. *)
Disconnected ==
  /\ phase = "connected" /\ link = "dead"
  /\ phase' = "pause" /\ link' = "closed"
  /\ UNCHANGED <<workload, server, disk, memory, stopping, starts, damaged>>

(* A timer that fires together with the signal leads to a dial that fails,
   and back here. *)
Retry ==
  /\ phase = "pause" /\ ~stopping
  /\ phase' = "dial"
  /\ UNCHANGED <<workload, server, disk, memory, link, stopping, starts, damaged>>

Disconnect ==
  /\ phase = "connected" /\ stopping
  /\ phase' = "closing"
  /\ UNCHANGED <<workload, server, disk, memory, link, stopping, starts, damaged>>

(* Mutant: the process that is told to stop while it waits to connect again
   does not look at the signal. *)
ExitAfterClosing ==
  /\ phase = "closing"
  /\ Dies
  /\ UNCHANGED <<workload, server, disk, starts>>

(* Run returns while it waits for the next try, or when the reader is done. *)
Exit ==
  /\ \/ phase = "closing"
     \/ phase = "pause" /\ stopping
  /\ Dies
  /\ UNCHANGED <<workload, server, disk, starts>>

(* A session's request is answered 401. *)
ProxyRefused ==
  /\ Happens("proxy")
  /\ phase \in {"dial", "reauth", "connected", "pause", "closing"}
  /\ refresh["proxy"] = Idle
  /\ online /\ ~Takes(token)
  /\ Ask("proxy")
  /\ UNCHANGED <<workload, server, disk, token, wsToken, firstToken, phase, link,
                 stopping, starts, damaged>>

RunStep ==
  \/ Answer("main") \/ RefreshFails("main")
  \/ Save("main") \/ CannotOpen("main") \/ Write("main") \/ CannotWrite("main")
  \/ Enrol \/ EnrolUnheard \/ EnrolFails
  \/ Dial \/ DialRefused \/ DialFails \/ Disconnected \/ Retry \/ Disconnect \/ Exit

ProxyStep ==
  \/ Answer("proxy") \/ RefreshFails("proxy")
  \/ Save("proxy") \/ CannotOpen("proxy") \/ Write("proxy") \/ CannotWrite("proxy")

ConnectionStep ==
  \/ RunStep
  \/ ProxyStep
  \/ Expire \/ Revoke \/ Outage \/ Recover \/ Break \/ Fill \/ Clear
  \/ Crash \/ SignalStop \/ Start \/ ProxyRefused

---------------------------------------------------------------------------
(* Properties. *)

ConnectionTypeOK ==
  /\ workload \in Workloads
  /\ code \in {"unused", "used"}
  /\ revoked \in BOOLEAN /\ online \in BOOLEAN
  /\ stopping \in BOOLEAN /\ damaged \in BOOLEAN
  /\ writable \in BOOLEAN /\ unwritten \in BOOLEAN
  /\ period \in 1..MaxPeriods
  /\ token \in 0..period /\ wsToken \in 0..period /\ firstToken \in 0..period
  /\ file \in {"none", "empty", "tokens"}
  /\ refresh \in [Callers -> [step : {"idle", "ask", "save", "write"}, token : 0..period]]
  /\ phase \in {"off", "onboard", "enrol", "start", "dial", "reauth", "connected",
                "pause", "closing"}
  /\ link \in {"closed", "open", "dead"}
  /\ starts \in 0..MaxStarts

(* A node whose code is used up has its tokens in the file when the process
   is off, unless the answer was lost, the process died before the end of a
   save, or the last save failed; and while the process runs the file is empty
   only during a save or after one that failed. *)
TokensKept ==
  /\ code = "used" /\ ~Running => file = "tokens" \/ damaged \/ unwritten
  /\ Running /\ file = "empty" =>
       unwritten \/ \E c \in Callers : refresh[c].step = "write"

(* The process runs, its node is in use, the server can be reached and the
   tokens can be saved: a token that cannot be is not handed on. *)
Undisturbed == Running /\ ~stopping /\ online /\ ~revoked /\ writable

(* The daemon registers, gets tokens and connects: whatever tokens expired and
   whatever connections broke before, once nothing keeps it from connecting it
   is connected again and again. *)
ComesBack == <>[]Undisturbed => []<>(phase = "connected")

(* A process that is told to stop ends, wherever it waits. *)
StopsWhenTold == stopping ~> ~Running
=============================================================================
