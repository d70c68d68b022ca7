---------------------------- MODULE DaemonProofs ----------------------------
(***************************************************************************)
(* The safety properties of the daemon, for any number of token periods,   *)
(* starts, builds, versions, manifests and releases.                       *)
(***************************************************************************)
EXTENDS Daemon, TLAPS

USE ConnectionAssumption, BuildsAssumption, ResourcesAssumption
    DEF ConnectionAssumption, BuildsAssumption, ResourcesAssumption

---------------------------------------------------------------------------
(* The connection.  What ties the token file to where the process is. *)

(* Before its code is used the daemon has no file, and before its first refresh
   is over there is no session whose proxy could ask for another. *)
NothingBefore ==
  /\ code = "unused" => file = "none" /\ phase \in {"off", "onboard"}
  /\ phase \in {"off", "onboard", "enrol", "start"} => refresh["proxy"] = Idle

(* Run refreshes in three places, and in one of them it is sure to save. *)
MainRefreshes ==
  /\ phase \notin {"enrol", "start", "reauth"} => refresh["main"] = Idle
  /\ phase = "enrol" => Saving(refresh["main"])

(* Once the code is used there is a file, or it is about to be written. *)
FileThere == code = "used" /\ ~damaged /\ ~unwritten => file # "none" \/ phase = "enrol"

(* The file is empty only while somebody writes it, or because he could not, or
   died. *)
EmptyWhileWritten ==
  file = "empty" /\ ~unwritten =>
    IF Running THEN \E c \in Callers : refresh[c].step = "write" ELSE damaged

ConnectionInv ==
  ConnectionTypeOK /\ NothingBefore /\ MainRefreshes /\ FileThere /\ EmptyWhileWritten

(* It holds at the start, and is what keeps the tokens. *)
LEMMA ConnectionInvInit == ConnectionInit => ConnectionInv
<1> SUFFICES ASSUME ConnectionInit PROVE ConnectionInv
  OBVIOUS
<1> USE DEF ConnectionInit, Idle, None, Running
<1>1. ConnectionTypeOK
  <2>1. /\ revoked \in BOOLEAN /\ online \in BOOLEAN /\ stopping \in BOOLEAN
        /\ damaged \in BOOLEAN /\ writable \in BOOLEAN /\ unwritten \in BOOLEAN
    OBVIOUS
  <2>2. period \in 1..MaxPeriods /\ starts \in 0..MaxStarts
    OBVIOUS
  <2>3. token \in 0..period /\ wsToken \in 0..period /\ firstToken \in 0..period
    OBVIOUS
  <2>4. refresh \in [Callers -> [step : {"idle", "ask", "save", "write"}, token : 0..period]]
    OBVIOUS
  <2> QED
    BY <2>1, <2>2, <2>3, <2>4 DEF ConnectionTypeOK
<1>2. NothingBefore /\ MainRefreshes
  BY DEF NothingBefore, MainRefreshes, Callers
<1>3. FileThere /\ EmptyWhileWritten
  BY DEF FileThere, EmptyWhileWritten
<1> QED
  BY <1>1, <1>2, <1>3 DEF ConnectionInv

LEMMA ConnectionInvImplies == ConnectionInv => TokensKept
BY DEF ConnectionInv, ConnectionTypeOK, FileThere, EmptyWhileWritten, TokensKept, Running

(* The types of the connection, in three parts: each step keeps each of them. *)
Flags ==
  /\ revoked \in BOOLEAN /\ online \in BOOLEAN /\ stopping \in BOOLEAN
  /\ damaged \in BOOLEAN /\ writable \in BOOLEAN /\ unwritten \in BOOLEAN

Tokens ==
  /\ period \in 1..MaxPeriods
  /\ token \in 0..period /\ wsToken \in 0..period /\ firstToken \in 0..period
  /\ refresh \in [Callers -> [step : {"idle", "ask", "save", "write"}, token : 0..period]]

LEMMA FlagsKept ==
  ASSUME Flags, ConnectionStep
  PROVE  Flags'
<1> USE DEF Flags, server, disk, Ends, Dies, Running
<1>1. ASSUME NEW c \in Callers, Answer(c) \/ RefreshFails(c) PROVE Flags'
  BY <1>1 DEF Answer, RefreshFails, ReturnsError
<1>2. ASSUME NEW c \in Callers, Save(c) \/ Write(c) PROVE Flags'
  BY <1>2 DEF Save, Write, Written
<1>9. ASSUME NEW c \in Callers, CannotOpen(c) \/ CannotWrite(c) PROVE Flags'
  BY <1>9 DEF CannotOpen, CannotWrite, ReturnsError
<1>10. CASE Fill \/ Clear
  BY <1>10 DEF Fill, Clear
<1>3. CASE Enrol \/ EnrolUnheard \/ EnrolFails
  BY <1>3 DEF Enrol, EnrolUnheard, EnrolFails
<1>4. CASE Dial \/ DialRefused \/ DialFails \/ Disconnected
  BY <1>4 DEF Dial, DialRefused, DialFails, Disconnected
<1>5. CASE Retry \/ Disconnect \/ Exit
  BY <1>5 DEF Retry, Disconnect, Exit
<1>6. CASE Expire \/ Revoke
  BY <1>6 DEF Expire, Revoke
<1>7. CASE Outage \/ Recover \/ Break
  BY <1>7 DEF Outage, Recover, Break
<1>8. CASE Crash \/ SignalStop \/ Start \/ ProxyRefused
  BY <1>8 DEF Crash, SignalStop, Start, ProxyRefused
<1> HIDE DEF Flags, server, disk, Ends, Dies, Running
<1> QED
  BY <1>1, <1>2, <1>3, <1>4, <1>5, <1>6, <1>7, <1>8, <1>9, <1>10
  DEF ConnectionStep, RunStep, ProxyStep, Callers

LEMMA TokensTyped ==
  ASSUME Tokens, ConnectionStep
  PROVE  Tokens'
<1> USE DEF Tokens, server, memory, Idle, None, Callers, Ask, Ends, Dies, Running
<1>1. ASSUME NEW c \in Callers, Answer(c) \/ RefreshFails(c) PROVE Tokens'
  BY <1>1 DEF Answer, RefreshFails, ReturnsError
<1>2. ASSUME NEW c \in Callers, Save(c) \/ Write(c) PROVE Tokens'
  BY <1>2 DEF Save, Write, Written
<1>9. ASSUME NEW c \in Callers, CannotOpen(c) \/ CannotWrite(c) PROVE Tokens'
  BY <1>9 DEF CannotOpen, CannotWrite, ReturnsError
<1>10. CASE Fill \/ Clear
  BY <1>10 DEF Fill, Clear
<1>3. CASE Enrol \/ EnrolUnheard \/ EnrolFails
  BY <1>3 DEF Enrol, EnrolUnheard, EnrolFails
<1>4. CASE Dial \/ DialRefused \/ DialFails \/ Disconnected
  BY <1>4 DEF Dial, DialRefused, DialFails, Disconnected
<1>5. CASE Retry \/ Disconnect \/ Exit
  BY <1>5 DEF Retry, Disconnect, Exit
<1>6. CASE Expire \/ Revoke
  BY <1>6 DEF Expire, Revoke
<1>7. CASE Outage \/ Recover \/ Break
  BY <1>7 DEF Outage, Recover, Break
<1>8. CASE Crash \/ SignalStop \/ Start \/ ProxyRefused
  BY <1>8 DEF Crash, SignalStop, Start, ProxyRefused
<1> QED
  BY <1>1, <1>2, <1>3, <1>4, <1>5, <1>6, <1>7, <1>8, <1>9, <1>10
  DEF ConnectionStep, RunStep, ProxyStep

Places ==
  /\ workload \in Workloads
  /\ code \in {"unused", "used"}
  /\ file \in {"none", "empty", "tokens"}
  /\ phase \in {"off", "onboard", "enrol", "start", "dial", "reauth", "connected",
                "pause", "closing"}
  /\ link \in {"closed", "open", "dead"}
  /\ starts \in 0..MaxStarts

LEMMA PlacesKept ==
  ASSUME Places, ConnectionStep
  PROVE  Places'
<1> USE DEF Places, server, disk, Ends, Dies, Cut
<1>1. ASSUME NEW c \in Callers, Answer(c) \/ RefreshFails(c) PROVE Places'
  BY <1>1 DEF Answer, RefreshFails, ReturnsError
<1>2. ASSUME NEW c \in Callers, Save(c) \/ Write(c) PROVE Places'
  BY <1>2 DEF Save, Write, Written
<1>9. ASSUME NEW c \in Callers, CannotOpen(c) \/ CannotWrite(c) PROVE Places'
  BY <1>9 DEF CannotOpen, CannotWrite, ReturnsError
<1>10. CASE Fill \/ Clear
  BY <1>10 DEF Fill, Clear
<1>3. CASE Enrol \/ EnrolUnheard \/ EnrolFails
  BY <1>3 DEF Enrol, EnrolUnheard, EnrolFails
<1>4. CASE Dial \/ DialRefused \/ DialFails \/ Disconnected
  BY <1>4 DEF Dial, DialRefused, DialFails, Disconnected
<1>5. CASE Retry \/ Disconnect \/ Exit
  BY <1>5 DEF Retry, Disconnect, Exit
<1>6. CASE Expire \/ Revoke
  BY <1>6 DEF Expire, Revoke
<1>7. CASE Outage \/ Recover \/ Break
  BY <1>7 DEF Outage, Recover, Break
<1>8. CASE Crash \/ SignalStop \/ Start \/ ProxyRefused
  BY <1>8 DEF Crash, SignalStop, Start, ProxyRefused
<1> HIDE DEF Places, server, disk, Ends, Dies, Cut
<1> QED
  BY <1>1, <1>2, <1>3, <1>4, <1>5, <1>6, <1>7, <1>8, <1>9, <1>10
  DEF ConnectionStep, RunStep, ProxyStep, Callers

(* Each step of the connection keeps what ties the file to the process. *)
LEMMA ConnectionInvStep ==
  ASSUME ConnectionInv, ConnectionStep
  PROVE  ConnectionInv'
<1> DEFINE Rest == NothingBefore /\ MainRefreshes /\ FileThere /\ EmptyWhileWritten
<1>0. ConnectionTypeOK /\ ConnectionTypeOK'
  BY FlagsKept, TokensTyped, PlacesKept DEF ConnectionInv, ConnectionTypeOK, Flags, Tokens, Places
<1>t. Tokens
  BY <1>0 DEF ConnectionTypeOK, Tokens
<1>a. Rest
  BY DEF ConnectionInv
<1> USE DEF server, disk, memory, Idle, None, Callers, Ask, Ends, Dies, Cut, Running, Saving,
            NothingBefore, MainRefreshes, FileThere, EmptyWhileWritten
<1>1. ASSUME NEW c \in Callers, Answer(c) PROVE Rest'
  BY <1>t, <1>1, <1>a DEF Answer, Tokens
<1>2. ASSUME NEW c \in Callers, RefreshFails(c) PROVE Rest'
  <2>0. /\ refresh[c].step = "ask" /\ ReturnsError(c, token)
        /\ UNCHANGED <<code, file, unwritten, damaged>>
    BY <1>2 DEF RefreshFails, ReturnsError
  <2>1. CASE c = "main" /\ phase = "start"
    <3>1. file = "empty" => unwritten
      BY <1>t, <1>a, <2>0, <2>1 DEF Tokens
    <3> QED
      BY <1>t, <1>a, <2>0, <2>1, <3>1 DEF ReturnsError, Tokens
  <2>2. CASE c = "main" /\ phase # "start"
    <3>1. phase = "reauth"
      BY <1>t, <1>a, <2>0, <2>2 DEF Tokens
    <3>2. phase' = "pause" /\ refresh' = [refresh EXCEPT !["main"] = Idle]
      BY <2>0, <2>2, <3>1 DEF ReturnsError
    <3> QED
      BY <1>t, <1>a, <2>0, <2>2, <3>1, <3>2 DEF Tokens
  <2>3. CASE c = "proxy"
    <3>1. phase' = phase /\ refresh' = [refresh EXCEPT !["proxy"] = Idle]
      BY <2>0, <2>3 DEF ReturnsError
    <3> QED
      BY <1>t, <1>a, <2>0, <2>3, <3>1 DEF Tokens
  <2> QED
    BY <2>1, <2>2, <2>3
<1>3. ASSUME NEW c \in Callers, Save(c) PROVE Rest'
  BY <1>t, <1>3, <1>a DEF Save, Tokens
<1>4. ASSUME NEW c \in Callers, Write(c) PROVE Rest'
  BY <1>t, <1>4, <1>a DEF Write, Written, Tokens
<1>5. ASSUME Enrol PROVE Rest'
  BY <1>t, <1>5, <1>a DEF Enrol, Tokens
<1>6. ASSUME EnrolUnheard PROVE Rest'
  BY <1>t, <1>6, <1>a DEF EnrolUnheard, Tokens
<1>7. ASSUME EnrolFails PROVE Rest'
  BY <1>t, <1>7, <1>a DEF EnrolFails, Tokens
<1>8. ASSUME Dial PROVE Rest'
  BY <1>t, <1>8, <1>a DEF Dial, Tokens
<1>9. ASSUME DialRefused PROVE Rest'
  BY <1>t, <1>9, <1>a DEF DialRefused, Tokens
<1>10. ASSUME DialFails PROVE Rest'
  BY <1>t, <1>10, <1>a DEF DialFails, Tokens
<1>11. ASSUME Disconnected PROVE Rest'
  BY <1>t, <1>11, <1>a DEF Disconnected, Tokens
<1>12. ASSUME Retry PROVE Rest'
  BY <1>t, <1>12, <1>a DEF Retry, Tokens
<1>13. ASSUME Disconnect PROVE Rest'
  BY <1>t, <1>13, <1>a DEF Disconnect, Tokens
<1>14. ASSUME Exit PROVE Rest'
  BY <1>t, <1>14, <1>a DEF Exit, Tokens
<1>15. ASSUME Expire PROVE Rest'
  BY <1>t, <1>15, <1>a DEF Expire, Tokens
<1>16. ASSUME Revoke PROVE Rest'
  BY <1>t, <1>16, <1>a DEF Revoke, Tokens
<1>17. ASSUME Outage PROVE Rest'
  BY <1>t, <1>17, <1>a DEF Outage, Tokens
<1>18. ASSUME Recover PROVE Rest'
  BY <1>t, <1>18, <1>a DEF Recover, Tokens
<1>19. ASSUME Break PROVE Rest'
  BY <1>t, <1>19, <1>a DEF Break, Tokens
<1>20. ASSUME Crash PROVE Rest'
  BY <1>t, <1>20, <1>a DEF Crash, Tokens
<1>21. ASSUME SignalStop PROVE Rest'
  BY <1>t, <1>21, <1>a DEF SignalStop, Tokens
<1>22. ASSUME Start PROVE Rest'
  BY <1>t, <1>22, <1>a DEF Start, Tokens
<1>23. ASSUME ProxyRefused PROVE Rest'
  BY <1>t, <1>23, <1>a DEF ProxyRefused, Tokens
<1>24. ASSUME NEW c \in Callers, CannotOpen(c) \/ CannotWrite(c) PROVE Rest'
  <2>1. PICK with \in {token, refresh[c].token} :
          /\ Saving(refresh[c]) /\ ReturnsError(c, with)
          /\ UNCHANGED <<code, file>> /\ unwritten'
    BY <1>24 DEF CannotOpen, CannotWrite, ReturnsError
  <2>2. CASE c = "main" /\ phase \in {"enrol", "start"}
    BY <1>t, <1>a, <2>1, <2>2 DEF ReturnsError, Tokens
  <2>3. CASE c = "main" /\ phase \notin {"enrol", "start"}
    BY <1>t, <1>a, <2>1, <2>3 DEF ReturnsError, Tokens
  <2>4. CASE c = "proxy"
    BY <1>t, <1>a, <2>1, <2>4 DEF ReturnsError, Tokens
  <2> QED
    BY <2>2, <2>3, <2>4
<1>25. ASSUME Fill \/ Clear PROVE Rest'
  BY <1>25, <1>a DEF Fill, Clear
<1> HIDE DEF server, disk, memory, Idle, None, Callers, Ask, Ends, Dies, Cut, Running, Saving,
             NothingBefore, MainRefreshes, FileThere, EmptyWhileWritten
<1> HIDE DEF Rest
<1> QED
  <2>1. Rest'
    BY <1>1, <1>2, <1>3, <1>4, <1>5, <1>6, <1>7, <1>8, <1>9, <1>10, <1>11, <1>12, <1>13,
       <1>14, <1>15, <1>16, <1>17, <1>18, <1>19, <1>20, <1>21, <1>22, <1>23, <1>24, <1>25
    DEF ConnectionStep, RunStep, ProxyStep, Callers
  <2> QED
    BY <1>0, <2>1 DEF ConnectionInv, Rest
---------------------------------------------------------------------------
(* The builds.  What each step of a build has done so far. *)

(* A build has a record after it made one, and knows its version from the
   answer of the server on. *)
Recorded ==
  \A b \in Builds :
    /\ builder[b].step \in {"none", "fetch", "create"} => b \notin DOMAIN builds
    /\ builder[b].step \notin {"none", "fetch", "done"} => builder[b].version \in Versions

(* Until its outcome is told nobody has heard of one, and what is stored as a
   success has gone through the build. *)
ToldInTime ==
  \A b \in Builds :
    /\ builder[b].step \in {"none", "fetch", "create", "build", "inspect", "store_success"}
         => told[b] \in {"nothing", "started"}
    /\ builder[b].step = "store_failed" => told[b] # "success"
    /\ builder[b].step \in {"inspect", "store_success"} => b \in made \cup cut

BuildsInv == BuildsTypeOK /\ Recorded /\ ToldInTime /\ OutcomeStored

Steps == {"none", "fetch", "create", "build", "inspect", "store_failed", "store_success",
          "done"}
Statuses == {"pending", "failed", "success"}
News == {"nothing", "started", "failed", "success"}

(* The table, apart from what the records say of the outcome. *)
TableOK ==
  /\ DOMAIN builds \subseteq Builds
  /\ \A b \in DOMAIN builds :
       builds[b] \in [version : Versions, status : Statuses, created : 0..clock]
  /\ clock \in 0..MaxBuilds

LEMMA BuildsInvInit == BuildsInit => BuildsInv
<1> SUFFICES ASSUME BuildsInit PROVE BuildsInv
  OBVIOUS
<1>1. DOMAIN builds = {}
  BY DEF BuildsInit
<1>2. BuildsTypeOK
  BY <1>1 DEF BuildsInit, BuildsTypeOK, NotAsked, Builds, Versions
<1>3. Recorded /\ ToldInTime /\ OutcomeStored
  BY <1>1 DEF BuildsInit, Recorded, ToldInTime, OutcomeStored, NotAsked
<1> QED
  BY <1>2, <1>3 DEF BuildsInv

(* One build moves on, the others stay where they are. *)
LEMMA OneBuildMoves ==
  ASSUME BuildsTypeOK, NEW b \in Builds, NEW step \in Steps, Goto(b, step)
  PROVE  /\ builder' \in [Builds -> [step : Steps, version : Versions \cup {0}]]
         /\ builder'[b].step = step /\ builder'[b].version = builder[b].version
         /\ \A o \in Builds : o # b => builder'[o] = builder[o]
BY DEF BuildsTypeOK, Goto, Steps

LEMMA OneBuildDone ==
  ASSUME BuildsTypeOK, NEW b \in Builds, Done(b)
  PROVE  /\ builder' \in [Builds -> [step : Steps, version : Versions \cup {0}]]
         /\ builder'[b].step = "done"
         /\ \A o \in Builds : o # b => builder'[o] = builder[o]
BY DEF BuildsTypeOK, Done, Steps

LEMMA OneBuildTold ==
  ASSUME BuildsTypeOK, NEW b \in Builds, NEW news \in News, Tell(b, news)
  PROVE  /\ told' \in [Builds -> News]
         /\ told'[b] \in {told[b], news}
         /\ \A o \in Builds : o # b => told'[o] = told[o]
BY DEF BuildsTypeOK, Tell, News

(* The outcome of a build is stored in its record, if it has one still. *)
LEMMA OneBuildStored ==
  ASSUME BuildsTypeOK, NEW b \in Builds, NEW status \in Statuses, UpdateStatus(b, status)
  PROVE  /\ DOMAIN builds' = DOMAIN builds
         /\ TableOK'
         /\ b \in unsaved' \/ (b \in DOMAIN builds => builds'[b].status = status)
         /\ \A o \in DOMAIN builds : o # b => builds'[o] = builds[o]
         /\ unsaved' \subseteq unsaved \cup {b} /\ unsaved \subseteq unsaved'
<1> USE DEF BuildsTypeOK, TableOK, Statuses
<1>1. clock' = clock
  BY DEF UpdateStatus
<1>2. CASE UNCHANGED builds /\ unsaved' = unsaved \cup {b}
  BY <1>1, <1>2
<1>3. CASE UNCHANGED unsaved /\ UNCHANGED builds /\ b \notin DOMAIN builds
  BY <1>1, <1>3
<1>4. CASE UNCHANGED unsaved /\ builds' = [builds EXCEPT ![b].status = status] /\ b \in DOMAIN builds
  BY <1>1, <1>4
<1> QED
  BY <1>2, <1>3, <1>4 DEF UpdateStatus

(* What the invariant says of one build, for every build at once. *)
OfBuild(b) ==
  /\ builder[b].step \in {"none", "fetch", "create"} => b \notin DOMAIN builds
  /\ builder[b].step \notin {"none", "fetch", "done"} => builder[b].version \in Versions
  /\ builder[b].step \in {"none", "fetch", "create", "build", "inspect", "store_success"}
       => told[b] \in {"nothing", "started"}
  /\ builder[b].step = "store_failed" => told[b] # "success"
  /\ builder[b].step \in {"inspect", "store_success"} => b \in made \cup cut
  /\ b \in DOMAIN builds /\ builder[b].step = "done" /\ b \notin unsaved =>
       /\ builds[b].status # "pending"
       /\ told[b] \in {"failed", "success"} => builds[b].status = told[b]
       /\ builds[b].status = "success" => b \in made \cup cut

(* The invariant, build by build: before a step, and after it. *)
LEMMA BuildByBuild ==
  ASSUME BuildsTypeOK
  PROVE  (\A b \in Builds : OfBuild(b)) <=> Recorded /\ ToldInTime /\ OutcomeStored
BY DEF BuildsTypeOK, OfBuild, Recorded, ToldInTime, OutcomeStored, At

LEMMA BuildByBuildNext ==
  ASSUME BuildsTypeOK', \A b \in Builds : OfBuild(b)'
  PROVE  BuildsInv'
<1>1. (Recorded /\ ToldInTime /\ OutcomeStored)'
  BY DEF BuildsTypeOK, OfBuild, Recorded, ToldInTime, OutcomeStored, At
<1> QED
  BY <1>1 DEF BuildsInv

(* A build that does not move keeps what is said of it, as long as its record
   stays as it is or goes, and nobody tells anything else of it. *)
LEMMA OtherBuildKept ==
  ASSUME NEW o \in Builds, OfBuild(o), builder'[o] = builder[o], told'[o] = told[o],
         o \in DOMAIN builds' => o \in DOMAIN builds /\ builds'[o] = builds[o],
         made \subseteq made', cut \subseteq cut', unsaved \subseteq unsaved'
  PROVE  OfBuild(o)'
BY DEF OfBuild

(* A build takes a step that leaves the table alone. *)
LEMMA BuildMoves ==
  ASSUME BuildsInv, NEW b \in Builds,
         \/ Rebuild(b) \/ (\E v \in Versions : Fetch(b, v)) \/ FetchFails(b)
         \/ CreateFails(b) \/ BuildFails(b) \/ BuildEnds(b) \/ OutputCut(b) \/ Inspect(b)
  PROVE  BuildsInv'
<1> USE DEF News, Steps
<1>0. BuildsTypeOK /\ \A o \in Builds : OfBuild(o)
  BY BuildByBuild DEF BuildsInv
<1>a. UNCHANGED <<pruner, builds, clock, unsaved>> /\ made \subseteq made' /\ cut \subseteq cut'
  BY <1>0 DEF Rebuild, Fetch, FetchFails, CreateFails, BuildFails, BuildEnds, OutputCut, Inspect
<1>b. images' \subseteq Versions /\ made' \cup cut' \subseteq Builds
  BY <1>0 DEF Rebuild, Fetch, FetchFails, CreateFails, BuildFails, BuildEnds, OutputCut,
              Inspect, BuildsTypeOK, OfBuild, At
<1>c. /\ builder' \in [Builds -> [step : Steps, version : Versions \cup {0}]]
      /\ \A o \in Builds : o # b => builder'[o] = builder[o]
  <2>1. CASE \E step \in Steps : Goto(b, step)
    BY <1>0, <2>1, OneBuildMoves
  <2>2. CASE Done(b)
    BY <1>0, <2>2, OneBuildDone
  <2>3. CASE \E v \in Versions : Fetch(b, v)
    BY <1>0, <2>3 DEF Fetch, BuildsTypeOK
  <2> QED
    BY <2>1, <2>2, <2>3 DEF Rebuild, FetchFails, CreateFails, BuildFails, BuildEnds,
                            OutputCut, Inspect
<1>d. /\ told' \in [Builds -> News]
      /\ \A o \in Builds : o # b => told'[o] = told[o]
  <2>1. CASE \E news \in News : Tell(b, news)
    BY <1>0, <2>1, OneBuildTold
  <2>2. CASE UNCHANGED told
    BY <1>0, <2>2 DEF BuildsTypeOK
  <2> QED
    BY <2>1, <2>2 DEF Rebuild, Fetch, FetchFails, CreateFails, BuildFails, BuildEnds,
                      OutputCut, Inspect
<1>e. BuildsTypeOK'
  BY <1>0, <1>a, <1>b, <1>c, <1>d DEF BuildsTypeOK
<1>f. OfBuild(b)'
  <2> USE DEF OfBuild, At
  <2>1. CASE Rebuild(b)
    BY <1>0, <1>a, <2>1, OneBuildMoves, OneBuildTold DEF Rebuild
  <2>2. CASE \E v \in Versions : Fetch(b, v)
    BY <1>0, <1>a, <2>2 DEF Fetch, BuildsTypeOK
  <2>3. CASE FetchFails(b)
    BY <1>0, <1>a, <2>3, OneBuildDone, OneBuildTold DEF FetchFails
  <2>4. CASE CreateFails(b)
    BY <1>0, <1>a, <2>4, OneBuildDone DEF CreateFails
  <2>5. CASE BuildFails(b)
    BY <1>0, <1>a, <2>5, OneBuildMoves, OneBuildTold DEF BuildFails
  <2>6. CASE BuildEnds(b)
    BY <1>0, <1>a, <2>6, OneBuildMoves DEF BuildEnds
  <2>7. CASE OutputCut(b)
    BY <1>0, <1>a, <2>7, OneBuildMoves DEF OutputCut
  <2>8. CASE Inspect(b)
    BY <1>0, <1>a, <2>8, OneBuildMoves, OneBuildTold DEF Inspect
  <2> QED
    BY <2>1, <2>2, <2>3, <2>4, <2>5, <2>6, <2>7, <2>8
<1>g. \A o \in Builds : o # b => OfBuild(o)'
  BY <1>0, <1>a, <1>c, <1>d, OtherBuildKept
<1> QED
  BY <1>e, <1>f, <1>g, BuildByBuildNext

(* A build that has no record yet makes one. *)
LEMMA BuildRecorded ==
  ASSUME BuildsInv, NEW b \in Builds, NEW now \in 0..MaxBuilds, Create(b, now)
  PROVE  BuildsInv'
<1>0. BuildsTypeOK /\ \A o \in Builds : OfBuild(o)
  BY BuildByBuild DEF BuildsInv
<1>a. /\ builder' \in [Builds -> [step : Steps, version : Versions \cup {0}]]
      /\ builder'[b].step = "build" /\ builder'[b].version = builder[b].version
      /\ \A o \in Builds : o # b => builder'[o] = builder[o]
  BY <1>0, OneBuildMoves DEF Create, Steps
<1>b. UNCHANGED <<pruner, images, made, cut, unsaved, told>>
  BY DEF Create
<1>c. builder[b].version \in Versions /\ b \notin DOMAIN builds
  BY <1>0 DEF Create, OfBuild, At
<1>d. /\ DOMAIN builds' = DOMAIN builds \cup {b}
      /\ builds'[b] = NewBuild(builder[b].version, now)
      /\ \A o \in DOMAIN builds : builds'[o] = builds[o]
  BY <1>c DEF Create
<1>e. clock' = now /\ clock <= now
  BY <1>0 DEF Create, BuildsTypeOK
<1>f. BuildsTypeOK'
  <2>1. \A o \in DOMAIN builds' :
          builds'[o] \in [version : Versions, status : Statuses, created : 0..now]
    <3>1. builds'[b] \in [version : Versions, status : Statuses, created : 0..now]
      BY <1>c, <1>d DEF NewBuild, Statuses
    <3>2. ASSUME NEW o \in DOMAIN builds
          PROVE  builds'[o] \in [version : Versions, status : Statuses, created : 0..now]
      BY <1>0, <1>d, <1>e, <3>2 DEF BuildsTypeOK, Statuses
    <3> QED
      BY <1>d, <3>1, <3>2
  <2> QED
    BY <1>0, <1>a, <1>b, <1>d, <1>e, <2>1 DEF BuildsTypeOK, Steps, Statuses
<1>g. OfBuild(b)'
  BY <1>0, <1>a, <1>b, <1>c DEF OfBuild, Create, At
<1>h. \A o \in Builds : o # b => OfBuild(o)'
  BY <1>0, <1>a, <1>b, <1>d, OtherBuildKept
<1> QED
  BY <1>f, <1>g, <1>h, BuildByBuildNext

(* A build that is over stores how it ended, unless SQLite refuses. *)
LEMMA BuildStored ==
  ASSUME BuildsInv, NEW b \in Builds, StoreFailed(b) \/ StoreSuccess(b)
  PROVE  BuildsInv'
<1>0. BuildsTypeOK /\ \A o \in Builds : OfBuild(o)
  BY BuildByBuild DEF BuildsInv
<1>a. PICK status \in Statuses :
        /\ UpdateStatus(b, status)
        /\ \/ status = "failed" /\ StoreFailed(b)
           \/ status = "success" /\ StoreSuccess(b)
  BY DEF StoreFailed, StoreSuccess, Statuses
<1>b. /\ builder' \in [Builds -> [step : Steps, version : Versions \cup {0}]]
      /\ builder'[b].step = "done"
      /\ \A o \in Builds : o # b => builder'[o] = builder[o]
  BY <1>0, <1>a, OneBuildDone DEF UpdateStatus
<1>c. /\ told' \in [Builds -> News]
      /\ \A o \in Builds : o # b => told'[o] = told[o]
      /\ told'[b] \in {told[b], status} /\ (status = "failed" => told'[b] = told[b])
  <2>1. CASE status = "failed"
    BY <1>0, <1>a, <2>1 DEF StoreFailed, BuildsTypeOK, News
  <2>2. CASE status = "success"
    BY <1>0, <1>a, <2>2, OneBuildTold DEF StoreSuccess, News
  <2> QED
    BY <1>a, <2>1, <2>2
<1>d. /\ DOMAIN builds' = DOMAIN builds /\ TableOK'
      /\ b \in unsaved' \/ (b \in DOMAIN builds => builds'[b].status = status)
      /\ \A o \in DOMAIN builds : o # b => builds'[o] = builds[o]
      /\ unsaved' \subseteq unsaved \cup {b} /\ unsaved \subseteq unsaved'
  BY <1>0, <1>a, OneBuildStored
<1>e. UNCHANGED <<pruner, images, made, cut>>
  BY <1>a DEF UpdateStatus
<1>f. BuildsTypeOK'
  BY <1>0, <1>b, <1>c, <1>d, <1>e DEF BuildsTypeOK, TableOK, Steps, Statuses, News
<1>g. OfBuild(b)'
  <2>1. CASE status = "failed"
    BY <1>0, <1>a, <1>b, <1>c, <1>d, <2>1 DEF OfBuild, StoreFailed, At
  <2>2. CASE status = "success"
    BY <1>0, <1>a, <1>b, <1>c, <1>d, <1>e, <2>2 DEF OfBuild, StoreSuccess, At
  <2> QED
    BY <1>a, <2>1, <2>2
<1>h. \A o \in Builds : o # b => OfBuild(o)'
  BY <1>0, <1>b, <1>c, <1>d, <1>e, OtherBuildKept
<1> QED
  BY <1>f, <1>g, <1>h, BuildByBuildNext

(* Pruning takes records away and leaves the others as they are. *)
LEMMA BuildsPruned ==
  ASSUME BuildsInv, Prune \/ DeleteNonLatest \/ DeleteFails
  PROVE  BuildsInv'
<1>0. BuildsTypeOK /\ \A o \in Builds : OfBuild(o)
  BY BuildByBuild DEF BuildsInv
<1>a. UNCHANGED <<builder, clock, images, made, cut, unsaved, told>> /\ pruner' \in {"idle", "delete"}
  BY DEF Prune, DeleteNonLatest, DeleteFails
<1>b. DOMAIN builds' \subseteq DOMAIN builds /\ \A o \in DOMAIN builds' : builds'[o] = builds[o]
  BY DEF Prune, DeleteNonLatest, DeleteFails
<1>c. BuildsTypeOK'
  BY <1>0, <1>a, <1>b DEF BuildsTypeOK
<1>d. \A o \in Builds : OfBuild(o)'
  BY <1>0, <1>a, <1>b, OtherBuildKept
<1> QED
  BY <1>c, <1>d, BuildByBuildNext

(* The process ends, and no build that was under way will store its outcome. *)
LEMMA BuildsEnded ==
  ASSUME BuildsInv, BuildsDie
  PROVE  BuildsInv'
<1>0. BuildsTypeOK /\ \A o \in Builds : OfBuild(o)
  BY BuildByBuild DEF BuildsInv
<1>a. UNCHANGED <<builds, clock, images, made, cut, told>> /\ pruner' = "idle"
  BY DEF BuildsDie
<1>b. /\ builder' \in [Builds -> [step : Steps, version : Versions \cup {0}]]
      /\ \A o \in Builds : IF o \in UnderWay
                           THEN builder'[o].step = "done" /\ o \in unsaved'
                           ELSE builder'[o] = builder[o]
  BY <1>0 DEF BuildsDie, BuildsTypeOK, Steps
<1>c. unsaved \subseteq unsaved' /\ unsaved' \subseteq Builds
  BY <1>0 DEF BuildsDie, BuildsTypeOK, UnderWay
<1>d. BuildsTypeOK'
  BY <1>0, <1>a, <1>b, <1>c DEF BuildsTypeOK, Steps
<1>e. ASSUME NEW o \in Builds PROVE OfBuild(o)'
  <2>1. CASE o \in UnderWay
    BY <1>b, <2>1 DEF OfBuild
  <2>2. CASE o \notin UnderWay
    BY <1>0, <1>a, <1>b, <1>c, <2>2, OtherBuildKept
  <2> QED
    BY <2>1, <2>2
<1> QED
  BY <1>d, <1>e, BuildByBuildNext

LEMMA BuildsInvStep ==
  ASSUME BuildsInv, BuildsStep
  PROVE  BuildsInv'
BY BuildMoves, BuildRecorded, BuildStored, BuildsPruned DEF BuildsStep

---------------------------------------------------------------------------
(* The cache.  What syncs of one version keep between them. *)

(* Syncs that are under way want the same version, unless that was noticed. *)
OneVersion ==
  ~overlapped =>
    \A s, t \in Syncs : ~SyncAt(s, "idle") /\ ~SyncAt(t, "idle") => sync[s].want = sync[t].want

(* What is about to be noted is in the file, once nobody writes it. *)
NotedIsCached ==
  ~overlapped /\ ~spoiled =>
    \A s \in Syncs :
      SyncAt(s, "note") /\ (\A t \in Syncs : ~SyncAt(t, "write")) => cached = sync[s].want

ResourcesInv == ResourcesTypeOK /\ OneVersion /\ NotedIsCached /\ KnownIsCached

SyncSteps == {"idle", "compare", "hash", "download", "open", "write", "note"}

LEMMA ResourcesInvInit == ResourcesInit => ResourcesInv
<1> SUFFICES ASSUME ResourcesInit PROVE ResourcesInv
  OBVIOUS
<1>1. ResourcesTypeOK
  BY DEF ResourcesInit, ResourcesTypeOK, NoSync, Releases, Missing, Torn
<1>2. OneVersion /\ NotedIsCached /\ KnownIsCached
  BY DEF ResourcesInit, OneVersion, NotedIsCached, KnownIsCached, SyncAt, NoSync
<1> QED
  BY <1>1, <1>2 DEF ResourcesInv

(* One sync moves on, the others stay where they are. *)
LEMMA OneSyncMoves ==
  ASSUME ResourcesTypeOK, NEW s \in Syncs, NEW step \in SyncSteps, SyncTo(s, step)
  PROVE  /\ sync' \in [Syncs -> [step : SyncSteps, want : Releases \cup {0}]]
         /\ sync'[s].step = step /\ sync'[s].want = sync[s].want
         /\ \A o \in Syncs : o # s => sync'[o] = sync[o]
BY DEF ResourcesTypeOK, SyncTo, SyncSteps

LEMMA OneSyncDone ==
  ASSUME ResourcesTypeOK, NEW s \in Syncs, SyncDone(s)
  PROVE  /\ sync' \in [Syncs -> [step : SyncSteps, want : Releases \cup {0}]]
         /\ sync'[s].step = "idle"
         /\ \A o \in Syncs : o # s => sync'[o] = sync[o]
BY DEF ResourcesTypeOK, SyncDone, NoSync, SyncSteps

(* A sync that neither takes a manifest nor touches the file or the map. *)
LEMMA SyncLooks ==
  ASSUME ResourcesInv, NEW s \in Syncs,
         Compare(s) \/ HashFile(s) \/ Download(s) \/ DownloadFails(s)
  PROVE  ResourcesInv'
<1> USE DEF SyncSteps, SyncAt
<1>a. UNCHANGED <<offered, manifest, known, cached, overlapped, spoiled>>
  BY DEF Compare, HashFile, Download, DownloadFails
<1>b. ResourcesTypeOK /\ sync[s].step \in {"compare", "hash", "download"}
  BY DEF ResourcesInv, Compare, HashFile, Download, DownloadFails
<1>c. /\ sync' \in [Syncs -> [step : SyncSteps, want : Releases \cup {0}]]
      /\ sync'[s].step \in {"idle", "hash", "download", "open", "note"}
      /\ sync'[s].step # "idle" => sync'[s].want = sync[s].want
      /\ sync'[s].step = "note" => cached = sync[s].want
      /\ \A o \in Syncs : o # s => sync'[o] = sync[o]
  <2>1. CASE SyncDone(s)
    BY <1>b, <2>1, OneSyncDone
  <2>2. CASE \E step \in {"hash", "download", "open"} : SyncTo(s, step)
    BY <1>b, <2>2, OneSyncMoves
  <2>3. CASE cached = sync[s].want /\ SyncTo(s, "note")
    BY <1>b, <2>3, OneSyncMoves
  <2> QED
    BY <2>1, <2>2, <2>3 DEF Compare, HashFile, Download, DownloadFails
<1>d. ResourcesTypeOK'
  BY <1>a, <1>b, <1>c DEF ResourcesTypeOK
<1>e. OneVersion'
  BY <1>a, <1>b, <1>c DEF ResourcesInv, OneVersion
<1>f. NotedIsCached'
  BY <1>a, <1>b, <1>c DEF ResourcesInv, NotedIsCached
<1>g. KnownIsCached'
  BY <1>a, <1>b, <1>c DEF ResourcesInv, KnownIsCached
<1> QED
  BY <1>d, <1>e, <1>f, <1>g DEF ResourcesInv

(* A manifest arrives: what it wants differs from the others, or is noticed. *)
LEMMA SyncBegins ==
  ASSUME ResourcesInv, NEW s \in Syncs, ReceiveManifest(s)
  PROVE  ResourcesInv'
<1> USE DEF SyncSteps, SyncAt
<1>a. UNCHANGED <<offered, known, cached, spoiled>> /\ manifest' = 0
  BY DEF ReceiveManifest
<1>b. ResourcesTypeOK /\ sync[s].step = "idle"
  BY DEF ResourcesInv, ReceiveManifest
<1>c. /\ sync' \in [Syncs -> [step : SyncSteps, want : Releases \cup {0}]]
      /\ sync'[s].step = "compare" /\ sync'[s].want = manifest
      /\ \A o \in Syncs : o # s => sync'[o] = sync[o]
  BY <1>b DEF ReceiveManifest, ResourcesTypeOK
<1>o. /\ overlapped' \in BOOLEAN \/ overlapped' = overlapped
      /\ ~overlapped' => /\ ~overlapped
                         /\ \A o \in Syncs : sync[o].step # "idle" => sync[o].want = manifest
  BY DEF ReceiveManifest
<1>d. ResourcesTypeOK'
  BY <1>a, <1>b, <1>c DEF ResourcesTypeOK
<1>e. OneVersion'
  BY <1>b, <1>c, <1>o DEF OneVersion
<1>f. NotedIsCached'
  BY <1>a, <1>b, <1>c, <1>o DEF ResourcesInv, NotedIsCached
<1>g. KnownIsCached'
  BY <1>a, <1>b, <1>c, <1>o DEF ResourcesInv, KnownIsCached
<1> QED
  BY <1>d, <1>e, <1>f, <1>g DEF ResourcesInv

(* The file is emptied and filled, or what is in it noted. *)
LEMMA SyncWrites ==
  ASSUME ResourcesInv, NEW s \in Syncs,
         OpenFile(s) \/ WriteFile(s) \/ WriteFails(s) \/ Note(s)
  PROVE  ResourcesInv'
<1> USE DEF SyncSteps, SyncAt
<1>b. ResourcesTypeOK /\ sync[s].step \in {"open", "write", "note"}
  BY DEF ResourcesInv, OpenFile, WriteFile, WriteFails, Note
<1>w. sync[s].want \in Releases \cup {0} /\ Releases \cup {0} \subseteq 0..Torn /\ Torn \in 0..Torn
  BY <1>b DEF ResourcesTypeOK, Releases, Torn
<1>m. UNCHANGED <<offered, manifest, overlapped>>
  BY DEF OpenFile, WriteFile, WriteFails, Note
<1>1. CASE OpenFile(s)
  <2>1. /\ sync' \in [Syncs -> [step : SyncSteps, want : Releases \cup {0}]]
        /\ sync'[s].step = "write" /\ sync'[s].want = sync[s].want
        /\ \A o \in Syncs : o # s => sync'[o] = sync[o]
    BY <1>1, <1>b, OneSyncMoves DEF OpenFile
  <2>2. UNCHANGED <<known, spoiled>> /\ cached' = Torn
    BY <1>1 DEF OpenFile
  <2>3. ResourcesTypeOK'
    BY <1>b, <1>m, <1>w, <2>1, <2>2 DEF ResourcesTypeOK
  <2>4. OneVersion' /\ NotedIsCached' /\ KnownIsCached'
    BY <1>b, <1>m, <2>1, <2>2 DEF ResourcesInv, OneVersion, NotedIsCached, KnownIsCached
  <2> QED
    BY <2>3, <2>4 DEF ResourcesInv
<1>2. CASE WriteFile(s)
  <2>1. /\ sync' \in [Syncs -> [step : SyncSteps, want : Releases \cup {0}]]
        /\ sync'[s].step = "note" /\ sync'[s].want = sync[s].want
        /\ \A o \in Syncs : o # s => sync'[o] = sync[o]
    BY <1>2, <1>b, OneSyncMoves DEF WriteFile
  <2>2. UNCHANGED <<known, spoiled>> /\ cached' = sync[s].want
    BY <1>2 DEF WriteFile
  <2>3. ResourcesTypeOK'
    BY <1>b, <1>m, <1>w, <2>1, <2>2 DEF ResourcesTypeOK
  <2>4. OneVersion' /\ NotedIsCached' /\ KnownIsCached'
    BY <1>b, <1>m, <2>1, <2>2 DEF ResourcesInv, OneVersion, NotedIsCached, KnownIsCached
  <2> QED
    BY <2>3, <2>4 DEF ResourcesInv
<1>3. CASE WriteFails(s)
  <2>1. /\ sync' \in [Syncs -> [step : SyncSteps, want : Releases \cup {0}]]
        /\ sync'[s].step = "idle"
        /\ \A o \in Syncs : o # s => sync'[o] = sync[o]
    BY <1>3, <1>b, OneSyncDone DEF WriteFails
  <2>2. /\ UNCHANGED <<known, cached>>
        /\ ~spoiled' => /\ ~spoiled /\ known = 0
                        /\ \A o \in Syncs : o # s => sync[o].step = "idle"
    BY <1>3 DEF WriteFails
  <2>3. ResourcesTypeOK'
    BY <1>b, <1>m, <1>w, <2>1, <2>2 DEF ResourcesTypeOK
  <2>4. OneVersion' /\ NotedIsCached' /\ KnownIsCached'
    BY <1>b, <1>m, <2>1, <2>2 DEF ResourcesInv, OneVersion, NotedIsCached, KnownIsCached
  <2> QED
    BY <2>3, <2>4 DEF ResourcesInv
<1>4. CASE Note(s)
  <2>1. /\ sync' \in [Syncs -> [step : SyncSteps, want : Releases \cup {0}]]
        /\ sync'[s].step = "idle" /\ sync[s].step = "note"
        /\ \A o \in Syncs : o # s => sync'[o] = sync[o]
    BY <1>4, <1>b, OneSyncDone DEF Note
  <2>2. UNCHANGED <<cached, spoiled>> /\ known' = sync[s].want
    BY <1>4 DEF Note
  <2>3. ResourcesTypeOK'
    BY <1>b, <1>m, <1>w, <2>1, <2>2 DEF ResourcesTypeOK
  <2>4. OneVersion' /\ NotedIsCached'
    BY <1>b, <1>m, <2>1, <2>2 DEF ResourcesInv, OneVersion, NotedIsCached
  <2>5. KnownIsCached'
    BY <1>b, <1>m, <2>1, <2>2 DEF ResourcesInv, NotedIsCached, KnownIsCached
  <2> QED
    BY <2>3, <2>4, <2>5 DEF ResourcesInv
<1> QED
  BY <1>1, <1>2, <1>3, <1>4

(* What goes on around the syncs leaves the file to them, or ends them all. *)
LEMMA SyncsLeftAlone ==
  ASSUME ResourcesInv, (\E v \in Releases : Release(v)) \/ Greet \/ LinkLost
  PROVE  ResourcesInv'
<1>1. UNCHANGED <<sync, known, cached, overlapped, spoiled>>
  BY DEF Release, Greet, LinkLost
<1>2. ResourcesTypeOK'
  BY <1>1 DEF ResourcesInv, ResourcesTypeOK, Release, Greet, LinkLost
<1>3. OneVersion' /\ NotedIsCached' /\ KnownIsCached'
  BY <1>1 DEF ResourcesInv, OneVersion, NotedIsCached, KnownIsCached, SyncAt
<1> QED
  BY <1>2, <1>3 DEF ResourcesInv

LEMMA SyncsEnded ==
  ASSUME ResourcesInv, SyncsDie
  PROVE  ResourcesInv'
<1>1. ResourcesTypeOK'
  BY DEF ResourcesInv, ResourcesTypeOK, SyncsDie, NoSync
<1>2. OneVersion' /\ NotedIsCached' /\ KnownIsCached'
  BY DEF OneVersion, NotedIsCached, KnownIsCached, SyncsDie, NoSync, SyncAt
<1> QED
  BY <1>1, <1>2 DEF ResourcesInv

LEMMA ResourcesInvStep ==
  ASSUME ResourcesInv, ResourcesStep
  PROVE  ResourcesInv'
BY SyncLooks, SyncBegins, SyncWrites, SyncsLeftAlone DEF ResourcesStep

---------------------------------------------------------------------------
(* The daemon. *)

DaemonInv == ConnectionInv /\ BuildsInv /\ ResourcesInv

(* The parts of the daemon's state have no step that leaves the invariant,
   alone or together. *)
LEMMA DaemonInvStep ==
  ASSUME DaemonInv, [Next]_vars
  PROVE  DaemonInv'
<1> USE DEF DaemonInv
<1>1. ConnectionInv /\ UNCHANGED connectionVars => ConnectionInv'
  BY DEF ConnectionInv, ConnectionTypeOK, NothingBefore, MainRefreshes, FileThere,
         EmptyWhileWritten, connectionVars, server, disk, memory, Running, Saving
<1>2. BuildsInv /\ UNCHANGED buildsVars => BuildsInv'
  BY DEF BuildsInv, BuildsTypeOK, Recorded, ToldInTime, OutcomeStored, At, buildsVars
<1>3. ResourcesInv /\ UNCHANGED resourcesVars => ResourcesInv'
  BY DEF ResourcesInv, ResourcesTypeOK, OneVersion, NotedIsCached, KnownIsCached, SyncAt,
         resourcesVars
<1>4. CASE ProcessEnds
  BY <1>4, ConnectionInvStep, BuildsEnded, SyncsEnded DEF ProcessEnds
<1>5. CASE LinkOpens
  BY <1>5, <1>2, ConnectionInvStep, SyncsLeftAlone DEF LinkOpens
<1>6. CASE LinkBreaks
  BY <1>6, <1>2, ConnectionInvStep, SyncsLeftAlone DEF LinkBreaks
<1>7. CASE ConnectionOnly
  BY <1>7, <1>2, <1>3, ConnectionInvStep DEF ConnectionOnly
<1>8. CASE BuildsStep /\ UNCHANGED <<connectionVars, resourcesVars>>
  BY <1>8, <1>1, <1>3, BuildsInvStep
<1>9. CASE ResourcesStep /\ UNCHANGED <<connectionVars, buildsVars>>
  BY <1>9, <1>1, <1>2, ResourcesInvStep
<1>10. CASE UNCHANGED vars
  BY <1>10, <1>1, <1>2, <1>3 DEF vars
<1> QED
  BY <1>4, <1>5, <1>6, <1>7, <1>8, <1>9, <1>10 DEF Next

(* Whatever crashes, outages, losses and overlaps there are, the state of the
   daemon is of its type and its parts keep their invariants. *)
THEOREM DaemonInvariant == Spec => []DaemonInv
<1>1. Init => DaemonInv
  BY ConnectionInvInit, BuildsInvInit, ResourcesInvInit DEF Init, DaemonInv
<1>2. DaemonInv /\ [Next]_vars => DaemonInv'
  BY DaemonInvStep
<1> QED
  BY <1>1, <1>2, PTL DEF Spec

(* The state of the daemon has its type. *)
THEOREM TypeCorrect == Spec => []TypeOK
<1>1. DaemonInv => TypeOK
  BY DEF DaemonInv, ConnectionInv, BuildsInv, ResourcesInv, TypeOK
<1> QED
  BY <1>1, DaemonInvariant, PTL

(* However often the process is killed, stopped and started, whatever tokens
   expire and whoever saves them: a node whose code is used up has its tokens
   in the file when the process is off, save for the cases that TokensKept
   names: a lost answer, a death during a save, and a save that failed. *)
THEOREM TokensAreKept == Spec => []TokensKept
<1>1. DaemonInv => TokensKept
  BY ConnectionInvImplies DEF DaemonInv
<1> QED
  BY <1>1, DaemonInvariant, PTL

(* However many builds overlap each other and the prunings: the record of a
   build that is over says how it ended. *)
THEOREM OutcomesAreStored == Spec => []OutcomeStored
<1>1. DaemonInv => OutcomeStored
  BY DEF DaemonInv, BuildsInv
<1> QED
  BY <1>1, DaemonInvariant, PTL

(* However many manifests are worked off at once: what the map says is in the
   cache is there once nobody writes it. *)
THEOREM CacheIsKnown == Spec => []KnownIsCached
<1>1. DaemonInv => KnownIsCached
  BY DEF DaemonInv, ResourcesInv
<1> QED
  BY <1>1, DaemonInvariant, PTL
=============================================================================
