------------------------- MODULE ChatSessionsProofs -------------------------
(***************************************************************************)
(* The safety properties of ChatSessions, for any number of sessions, of   *)
(* lines and of restarts of the daemon.                                    *)
(***************************************************************************)
EXTENDS ChatSessions, TLAPS

(* Who takes a step: the server, the goroutine that starts a session, its   *)
(* Claude with the reader, or somebody who finds it in the map.             *)
ServerStep(s) ==
  \/ CreateSession(s) \/ EndRow(s)
  \/ \E n \in 1 .. MaxTurns : UpdateTokenUsage(s, n) \/ UploadOfUsageFails(s, n)

StartStep(s) ==
  \/ ReceiveStart(s) \/ CreateWorktree(s) \/ WriteAgents(s) \/ StartProxy(s)
  \/ StartClaude(s) \/ Register(s) \/ Greet(s) \/ StartFails(s)

ClaudeStep(s) ==
  \/ ClaudeWrites(s) \/ ClaudeExits(s)
  \/ \E result \in BOOLEAN : ReadLine(s, result)
  \/ StopsReading(s) \/ Wait(s)

ListStep(s) == RefreshActivity(s) \/ TimePasses(s) \/ EndByUser(s) \/ EndExpired(s)

LEMMA StepKinds ==
  ASSUME Next
  PROVE  \/ \E s \in Sessions :
              ServerStep(s) \/ StartStep(s) \/ ClaudeStep(s) \/ ListStep(s)
         \/ CheckTTL
         \/ \E e \in Enders : EndStep(e)
         \/ Restart
BY DEF Next, ServerStep, StartStep, ClaudeStep, ListStep

---------------------------------------------------------------------------
(* What ties the parts of a session together while it is started and ended. *)
BeingEnded(s) == \E e \in Enders : ender[e].session = s

(* The server makes a session once and then tells the daemon, so nothing is
   started under the id of a session that is there. *)
CreatedFirst == \A s \in Sessions : row[s] = "none" => start[s] = "none"

(* Only a session that was registered can be listed, ended or over. *)
WasRegistered ==
  \A s \in Sessions :
    s \in sessions \cup told \/ BeingEnded(s) => start[s] \in {"greet", "done", "failed"}

(* The pipe of a session that is listed or being ended is closed only once
   Claude has exited; that is how Stopped knows. *)
PipeTells ==
  \A s \in Sessions :
    (start[s] = "register" \/ s \in sessions \/ BeingEnded(s)) /\ s \notin pipes
      => claude[s] = "exited"

(* How far whoever ends a session has come is what is gone of it. *)
EndedSoFar ==
  \A e \in Enders :
    LET s == ender[e].session  step == ender[e].step IN
    /\ step \in {"close", "proxy", "upload", "clean", "tell"} => claude[s] = "exited"
    /\ step \in {"proxy", "upload", "clean", "tell"} => s \notin logging
    /\ step \in {"upload", "clean", "tell"} => s \notin sockets

Safe ==
  /\ CreatedFirst /\ WasRegistered /\ PipeTells /\ EndedSoFar
  /\ EndedOnce /\ EndedIsReleased /\ TranscriptKept

Inv == TypeOK /\ Safe

---------------------------------------------------------------------------
(* The types. That an open transcript is there needs EndedSoFar: it is      *)
(* closed before it is uploaded and deleted.                                *)
LEMMA TypeInit == Init => TypeOK
BY ChatAssumption DEF Init, TypeOK

LEMMA TypeNext == TypeOK /\ EndedSoFar /\ [Next]_vars => TypeOK'
<1> SUFFICES ASSUME TypeOK, EndedSoFar, [Next]_vars PROVE TypeOK'
  OBVIOUS
<1> USE ChatAssumption DEF TypeOK, server, disk, process, reading, ending
<1>1. CASE UNCHANGED vars
  BY <1>1 DEF vars
<1>2. ASSUME NEW s \in Sessions, ServerStep(s) PROVE TypeOK'
  <2>1. CASE CreateSession(s)
    BY <2>1 DEF CreateSession
  <2>2. CASE EndRow(s)
    BY <2>2 DEF EndRow
  <2>3. CASE \E n \in 1 .. MaxTurns : UpdateTokenUsage(s, n)
    BY <2>3 DEF UpdateTokenUsage
  <2>4. CASE \E n \in 1 .. MaxTurns : UploadOfUsageFails(s, n)
    BY <2>4 DEF UploadOfUsageFails
  <2>5. QED
    BY <1>2, <2>1, <2>2, <2>3, <2>4 DEF ServerStep
<1>3. ASSUME NEW s \in Sessions, StartStep(s) PROVE TypeOK'
  <2> USE DEF At, Then
  <2>1. CASE ReceiveStart(s)
    BY <2>1 DEF ReceiveStart
  <2>2. CASE CreateWorktree(s)
    BY <2>2 DEF CreateWorktree
  <2>3. CASE WriteAgents(s)
    BY <2>3 DEF WriteAgents
  <2>4. CASE StartProxy(s)
    BY <2>4 DEF StartProxy
  <2>5. CASE StartClaude(s)
    BY <2>5 DEF StartClaude
  <2>6. CASE Register(s)
    BY <2>6 DEF Register
  <2>7. CASE Greet(s)
    BY <2>7 DEF Greet
  <2>8. CASE StartFails(s)
    BY <2>8 DEF StartFails
  <2>9. QED
    BY <1>3, <2>1, <2>2, <2>3, <2>4, <2>5, <2>6, <2>7, <2>8 DEF StartStep
<1>4. ASSUME NEW s \in Sessions, ClaudeStep(s) PROVE TypeOK'
  <2>1. CASE ClaudeWrites(s)
    BY <2>1 DEF ClaudeWrites
  <2>2. CASE ClaudeExits(s)
    BY <2>2 DEF ClaudeExits
  <2>3. ASSUME NEW result \in BOOLEAN, ReadLine(s, result) PROVE TypeOK'
    BY <2>3 DEF ReadLine
  <2>4. CASE StopsReading(s)
    BY <2>4 DEF StopsReading
  <2>5. CASE Wait(s)
    BY <2>5 DEF Wait
  <2>6. QED
    BY <1>4, <2>1, <2>2, <2>3, <2>4, <2>5 DEF ClaudeStep
<1>5. ASSUME NEW s \in Sessions, ListStep(s) PROVE TypeOK'
  <2> USE DEF TakeToEnd, Ending, Free, Enders
  <2>1. CASE RefreshActivity(s)
    BY <2>1 DEF RefreshActivity
  <2>2. CASE TimePasses(s)
    BY <2>2 DEF TimePasses
  <2>3. CASE EndByUser(s)
    BY <2>3 DEF EndByUser
  <2>4. CASE EndExpired(s)
    BY <2>4 DEF EndExpired
  <2>5. QED
    BY <1>5, <2>1, <2>2, <2>3, <2>4 DEF ListStep
<1>6. CASE CheckTTL
  BY <1>6 DEF CheckTTL
<1>7. ASSUME NEW e \in Enders, EndStep(e) PROVE TypeOK'
  <2> USE DEF Does, Goto, Ending, Free
  <2>1. CASE Stopped(e)
    BY <2>1 DEF Stopped
  <2>2. CASE TimesOut(e)
    BY <2>2 DEF TimesOut
  <2>3. CASE CloseTranscript(e)
    BY <2>3 DEF CloseTranscript
  <2>4. CASE StopProxy(e)
    BY <2>4 DEF StopProxy
  <2>5. CASE UploadJSONL(e)
    <3> DEFINE s == ender[e].session
    <3>1. ender[e].step = "upload" /\ ender[e] \in Ending /\ s \in Sessions
      BY <2>5 DEF UploadJSONL
    <3>2. s \notin logging
      BY <3>1 DEF EndedSoFar
    <3>3. uploaded' \in [Sessions -> 0 .. MaxLines]
      BY <2>5, <3>1 DEF UploadJSONL
    <3>4. logging' \subseteq files' /\ files' \subseteq Sessions
      BY <2>5, <3>2 DEF UploadJSONL
    <3>5. ender' \in [Enders -> Ending \cup {Free}]
      BY <2>5, <3>1 DEF UploadJSONL
    <3>6. QED
      BY <2>5, <3>3, <3>4, <3>5 DEF UploadJSONL
  <2>6. CASE RemoveWorktree(e)
    <3>1. worktrees' \subseteq Sessions
      BY <2>6 DEF RemoveWorktree
    <3>2. ender' \in [Enders -> Ending \cup {Free}]
      BY <2>6 DEF RemoveWorktree
    <3>3. QED
      BY <2>6, <3>1, <3>2 DEF RemoveWorktree
  <2>7. CASE SendEnd(e)
    BY <2>7 DEF SendEnd
  <2>8. QED
    BY <1>7, <2>1, <2>2, <2>3, <2>4, <2>5, <2>6, <2>7 DEF EndStep
<1>8. CASE Restart
  BY <1>8 DEF Restart
<1>9. QED
  BY <1>1, <1>2, <1>3, <1>4, <1>5, <1>6, <1>7, <1>8, StepKinds

---------------------------------------------------------------------------
(* The rest of the invariant.                                               *)
LEMMA SafeInit == Init => Inv
<1> SUFFICES ASSUME Init PROVE Inv
  OBVIOUS
<1>1. TypeOK
  BY TypeInit
<1>2. CreatedFirst /\ WasRegistered /\ PipeTells /\ EndedOnce
  BY ChatAssumption DEF Init, CreatedFirst, WasRegistered, PipeTells, BeingEnded, EndedOnce, Free
<1>3. EndedSoFar /\ EndedIsReleased /\ TranscriptKept
  BY DEF Init, EndedSoFar, EndedIsReleased, TranscriptKept, Free
<1>4. QED
  BY <1>1, <1>2, <1>3 DEF Inv, Safe

(* Steps that touch nothing the invariant speaks of. *)
LEMMA Untouched ==
  ASSUME Inv,
         UNCHANGED <<row, start, sessions, sockets, files, logging, claude, pipes, logged,
                     uploaded, ender, told>>
  PROVE  Safe'
BY DEF Inv, Safe, CreatedFirst, WasRegistered, PipeTells, EndedSoFar, EndedOnce,
       EndedIsReleased, TranscriptKept, BeingEnded

LEMMA SafeNext == Inv /\ [Next]_vars => Inv'
<1> SUFFICES ASSUME Inv, [Next]_vars PROVE Safe'
  BY TypeNext DEF Inv, Safe
<1> USE ChatAssumption DEF Inv, Safe, TypeOK, server, disk, process, reading, ending,
         CreatedFirst, WasRegistered, PipeTells, EndedSoFar, EndedOnce, EndedIsReleased,
         TranscriptKept, BeingEnded
<1>1. CASE UNCHANGED vars
  BY <1>1 DEF vars
<1>2. ASSUME NEW s \in Sessions, ServerStep(s) PROVE Safe'
  <2>1. CASE CreateSession(s)
    BY <2>1 DEF CreateSession
  <2>2. CASE EndRow(s)
    BY <2>2 DEF EndRow
  <2>3. CASE \E n \in 1 .. MaxTurns : UpdateTokenUsage(s, n)
    BY <2>3, Untouched DEF UpdateTokenUsage
  <2>4. CASE \E n \in 1 .. MaxTurns : UploadOfUsageFails(s, n)
    BY <2>4, Untouched DEF UploadOfUsageFails
  <2>5. QED
    BY <1>2, <2>1, <2>2, <2>3, <2>4 DEF ServerStep
<1>3. ASSUME NEW s \in Sessions, StartStep(s) PROVE Safe'
  <2> USE DEF At, Then
  <2>1. CASE ReceiveStart(s)
    BY <2>1 DEF ReceiveStart
  <2>2. CASE CreateWorktree(s)
    BY <2>2 DEF CreateWorktree
  <2>3. CASE WriteAgents(s)
    BY <2>3 DEF WriteAgents
  <2>4. CASE StartProxy(s)
    BY <2>4 DEF StartProxy
  <2>5. CASE StartClaude(s)
    <3>1. start[s] = "claude" /\ s \notin sessions \cup told /\ ~BeingEnded(s)
      BY <2>5 DEF StartClaude
    <3>2. CreatedFirst' /\ WasRegistered'
      BY <2>5, <3>1 DEF StartClaude
    <3>3. PipeTells'
      BY <2>5, <3>1 DEF StartClaude
    <3>4. EndedOnce' /\ EndedIsReleased'
      BY <2>5, <3>1 DEF StartClaude
    <3>5. EndedSoFar'
      <4>1. /\ UNCHANGED <<ender, sockets>>
            /\ logging' \subseteq logging \cup {s}
            /\ claude' \in {claude, [claude EXCEPT ![s] = "running"]}
        BY <2>5 DEF StartClaude
      <4>2. ASSUME NEW e \in Enders, ender[e].step # "idle"
            PROVE  ender[e].session \in Sessions \ {s}
        BY <3>1, <4>2 DEF Free, Ending
      <4>3. QED
        BY <4>1, <4>2
    <3>6. TranscriptKept'
      BY <2>5 DEF StartClaude
    <3>7. QED
      BY <3>2, <3>3, <3>4, <3>5, <3>6
  <2>6. CASE Register(s)
    BY <2>6 DEF Register
  <2>7. CASE Greet(s)
    BY <2>7 DEF Greet
  <2>8. CASE StartFails(s)
    BY <2>8 DEF StartFails
  <2>9. QED
    BY <1>3, <2>1, <2>2, <2>3, <2>4, <2>5, <2>6, <2>7, <2>8 DEF StartStep
<1>4. ASSUME NEW s \in Sessions, ClaudeStep(s) PROVE Safe'
  <2>1. CASE ClaudeWrites(s)
    BY <2>1, Untouched DEF ClaudeWrites
  <2>2. CASE ClaudeExits(s)
    BY <2>2 DEF ClaudeExits
  <2>3. ASSUME NEW result \in BOOLEAN, ReadLine(s, result) PROVE Safe'
    BY <2>3 DEF ReadLine
  <2>4. CASE StopsReading(s)
    BY <2>4, Untouched DEF StopsReading
  <2>5. CASE Wait(s)
    BY <2>5 DEF Wait
  <2>6. QED
    BY <1>4, <2>1, <2>2, <2>3, <2>4, <2>5 DEF ClaudeStep
<1>5. ASSUME NEW s \in Sessions, ListStep(s) PROVE Safe'
  <2> USE DEF TakeToEnd, Ending, Free, Enders
  <2>1. CASE RefreshActivity(s)
    BY <2>1, Untouched DEF RefreshActivity
  <2>2. CASE TimePasses(s)
    BY <2>2, Untouched DEF TimePasses
  <2>3. CASE EndByUser(s)
    BY <2>3 DEF EndByUser
  <2>4. CASE EndExpired(s)
    BY <2>4 DEF EndExpired
  <2>5. QED
    BY <1>5, <2>1, <2>2, <2>3, <2>4 DEF ListStep
<1>6. CASE CheckTTL
  BY <1>6, Untouched DEF CheckTTL
<1>7. ASSUME NEW e \in Enders, EndStep(e) PROVE Safe'
  <2> USE DEF Does, Goto, Ending, Free
  <2>1. CASE Stopped(e)
    BY <2>1 DEF Stopped
  <2>2. CASE TimesOut(e)
    BY <2>2 DEF TimesOut
  <2>3. CASE CloseTranscript(e)
    BY <2>3 DEF CloseTranscript
  <2>4. CASE StopProxy(e)
    BY <2>4 DEF StopProxy
  <2>5. CASE UploadJSONL(e)
    <3> DEFINE s == ender[e].session
    <3>1. ender[e].step = "upload" /\ ender[e] \in Ending /\ s \in Sessions
      BY <2>5 DEF UploadJSONL
    <3>2. s \notin logging
      BY <3>1 DEF EndedSoFar
    <3>3. uploaded' \in [Sessions -> 0 .. MaxLines]
      BY <2>5, <3>1 DEF UploadJSONL
    <3>4. logging' \subseteq files' /\ files' \subseteq Sessions
      BY <2>5, <3>2 DEF UploadJSONL
    <3>5. ender' \in [Enders -> Ending \cup {Free}]
      BY <2>5, <3>1 DEF UploadJSONL
    <3>6. QED
      BY <2>5, <3>3, <3>4, <3>5 DEF UploadJSONL
  <2>6. CASE RemoveWorktree(e)
    BY <2>6 DEF RemoveWorktree
  <2>7. CASE SendEnd(e)
    BY <2>7 DEF SendEnd
  <2>8. QED
    BY <1>7, <2>1, <2>2, <2>3, <2>4, <2>5, <2>6, <2>7 DEF EndStep
<1>8. CASE Restart
  <2>1. \A s \in Sessions : s \notin sessions' /\ ~BeingEnded(s)' /\ start'[s] # "register"
    BY <1>8 DEF Restart, Free, Enders
  <2>2. CreatedFirst' /\ WasRegistered'
    BY <1>8, <2>1 DEF Restart
  <2>3. PipeTells'
    BY <2>1
  <2>4. EndedSoFar' /\ EndedOnce'
    BY <1>8 DEF Restart, Free, Enders
  <2>5. EndedIsReleased' /\ TranscriptKept'
    BY <1>8 DEF Restart
  <2>6. QED
    BY <2>2, <2>3, <2>4, <2>5
<1>9. QED
  BY <1>1, <1>2, <1>3, <1>4, <1>5, <1>6, <1>7, <1>8, StepKinds

LEMMA Invariant == Spec => []Inv
<1>1. Init => Inv
  BY SafeInit
<1>2. Inv /\ [Next]_vars => Inv'
  BY SafeNext
<1>3. QED
  BY <1>1, <1>2, PTL DEF Spec

---------------------------------------------------------------------------
(* Types: in particular, a transcript that is open has its file, because it *)
(* is closed before it is uploaded and deleted.                             *)
THEOREM TypeCorrect == Spec => []TypeOK
<1>1. Inv => TypeOK
  BY DEF Inv
<1>2. QED
  BY <1>1, Invariant, PTL

(* No session is ended twice, by the user and by the TTL checker, however   *)
(* many sessions there are and whatever the checker has collected.          *)
THEOREM SessionsEndedOnce == Spec => []EndedOnce
<1>1. Inv => EndedOnce
  BY DEF Inv, Safe
<1>2. QED
  BY <1>1, Invariant, PTL

(* A session whose end was announced has no process, no proxy, no open      *)
(* transcript, and never gets one again, also after restarts.               *)
THEOREM EndedSessionsReleased == Spec => []EndedIsReleased
<1>1. Inv => EndedIsReleased
  BY DEF Inv, Safe
<1>2. QED
  BY <1>1, Invariant, PTL

(* What was written to a transcript is on the disk or with the server,      *)
(* whatever fails and whenever the daemon dies.                             *)
THEOREM TranscriptsKept == Spec => []TranscriptKept
<1>1. Inv => TranscriptKept
  BY DEF Inv, Safe
<1>2. QED
  BY <1>1, Invariant, PTL

---------------------------------------------------------------------------
(* The sessions as ChatLife has them.                                       *)

(* Claude is started once, and is there when its session is listed.         *)
RunsOnce ==
  \A s \in Sessions :
    /\ start[s] \in {"none", "sent", "worktree", "agents", "proxy", "claude"} => claude[s] = "none"
    /\ start[s] = "register" \/ s \in sessions \/ BeingEnded(s) => claude[s] # "none"

(* The transcript is on the disk until it is uploaded, and open only while   *)
(* its session has not been sealed.                                         *)
TranscriptAtHand ==
  \A s \in Sessions :
    /\ \/ start[s] = "register" \/ s \in sessions
       \/ EndsAt(s, {"wait", "close", "proxy", "upload"})
       => s \in files
    /\ s \in logging
       => start[s] = "register" \/ s \in sessions \/ EndsAt(s, {"wait", "close"})

LifeInv == RunsOnce /\ TranscriptAtHand

(* At the start nothing runs and nothing is on the disk.                    *)
LEMMA LifeInvInit == Init => LifeInv
BY ChatAssumption DEF Init, LifeInv, RunsOnce, TranscriptAtHand, BeingEnded, EndsAt, Free, Enders

(* Steps that touch nothing LifeInv speaks of.                              *)
LEMMA LifeUntouched ==
  ASSUME LifeInv, UNCHANGED <<start, sessions, files, logging, claude, ender>>
  PROVE  LifeInv'
BY DEF LifeInv, RunsOnce, TranscriptAtHand, BeingEnded, EndsAt

(* Every step keeps it.                                                     *)
LEMMA LifeInvNext == Inv /\ LifeInv /\ [Next]_vars => LifeInv'
<1> SUFFICES ASSUME Inv, LifeInv, [Next]_vars PROVE LifeInv'
  OBVIOUS
<1>0. TypeOK /\ WasRegistered /\ EndedOnce /\ EndedSoFar /\ CreatedFirst
  BY DEF Inv, Safe
<1> USE <1>0, ChatAssumption DEF TypeOK, server, disk, process, reading, ending
<1>1. CASE UNCHANGED vars
  BY <1>1, LifeUntouched DEF vars
<1>2. ASSUME NEW s \in Sessions, ServerStep(s) PROVE LifeInv'
  <2>1. CASE CreateSession(s)
    BY <2>1 DEF CreateSession, CreatedFirst, LifeInv, RunsOnce, TranscriptAtHand, BeingEnded, EndsAt
  <2>2. CASE ~CreateSession(s)
    BY <1>2, <2>2, LifeUntouched DEF ServerStep, EndRow, UpdateTokenUsage, UploadOfUsageFails
  <2>3. QED
    BY <2>1, <2>2
<1>3. ASSUME NEW s \in Sessions, StartStep(s) PROVE LifeInv'
  <2> USE DEF At, Then, LifeInv, RunsOnce, TranscriptAtHand, BeingEnded, EndsAt, WasRegistered
  <2>1. CASE ReceiveStart(s)
    BY <2>1 DEF ReceiveStart
  <2>2. CASE CreateWorktree(s)
    BY <2>2 DEF CreateWorktree
  <2>3. CASE WriteAgents(s)
    BY <2>3 DEF WriteAgents
  <2>4. CASE StartProxy(s)
    BY <2>4 DEF StartProxy
  <2>5. CASE StartClaude(s)
    BY <2>5 DEF StartClaude
  <2>6. CASE Register(s)
    BY <2>6 DEF Register
  <2>7. CASE Greet(s)
    BY <2>7 DEF Greet
  <2>8. CASE StartFails(s)
    BY <2>8 DEF StartFails
  <2>9. QED
    BY <1>3, <2>1, <2>2, <2>3, <2>4, <2>5, <2>6, <2>7, <2>8 DEF StartStep
<1>4. ASSUME NEW s \in Sessions, ClaudeStep(s) PROVE LifeInv'
  <2>1. CASE ClaudeExits(s)
    BY <2>1 DEF ClaudeExits, LifeInv, RunsOnce, TranscriptAtHand, BeingEnded, EndsAt
  <2>2. CASE ~ClaudeExits(s)
    BY <1>4, <2>2, LifeUntouched DEF ClaudeStep, ClaudeWrites, ReadLine, StopsReading, Wait
  <2>3. QED
    BY <2>1, <2>2
<1>5. ASSUME NEW s \in Sessions, ListStep(s) PROVE LifeInv'
  <2> USE DEF TakeToEnd, Ending, Free, Enders, LifeInv, RunsOnce, TranscriptAtHand, BeingEnded, EndsAt
  <2>1. CASE RefreshActivity(s) \/ TimePasses(s)
    BY <2>1, LifeUntouched DEF RefreshActivity, TimePasses
  <2>3. CASE EndByUser(s)
    BY <2>3 DEF EndByUser, PumpFree
  <2>4. CASE EndExpired(s)
    BY <2>4 DEF EndExpired
  <2>5. QED
    BY <1>5, <2>1, <2>3, <2>4 DEF ListStep
<1>6. CASE CheckTTL
  BY <1>6, LifeUntouched DEF CheckTTL
<1>7. ASSUME NEW e \in Enders, EndStep(e) PROVE LifeInv'
  <2> USE DEF Does, Goto, Ending, Free, LifeInv, RunsOnce, TranscriptAtHand, BeingEnded, EndsAt
  <2>1. CASE Stopped(e)
    BY <2>1 DEF Stopped
  <2>2. CASE TimesOut(e)
    BY <2>2 DEF TimesOut, WasRegistered
  <2>3. CASE CloseTranscript(e)
    BY <2>3 DEF CloseTranscript
  <2>4. CASE StopProxy(e)
    BY <2>4 DEF StopProxy
  <2>5. CASE UploadJSONL(e)
    BY <2>5 DEF UploadJSONL, EndedOnce, WasRegistered
  <2>6. CASE RemoveWorktree(e)
    BY <2>6 DEF RemoveWorktree
  <2>7. CASE SendEnd(e)
    BY <2>7 DEF SendEnd
  <2>8. QED
    BY <1>7, <2>1, <2>2, <2>3, <2>4, <2>5, <2>6, <2>7 DEF EndStep
<1>8. CASE Restart
  <2>1. /\ \A s \in Sessions : start'[s] \in {"none", "done", "failed"}
                               /\ (start'[s] = "none" => start[s] = "none")
        /\ sessions' = {} /\ logging' = {} /\ UNCHANGED claude
    BY <1>8 DEF Restart
  <2>2. \A s \in Sessions : \A e \in Enders : ender'[e].session # s
    BY <1>8 DEF Restart, Free
  <2>3. QED
    BY <2>1, <2>2 DEF LifeInv, RunsOnce, TranscriptAtHand, BeingEnded, EndsAt
<1>9. QED
  BY <1>1, <1>2, <1>3, <1>4, <1>5, <1>6, <1>7, <1>8, StepKinds

---------------------------------------------------------------------------
Phase == [s \in Sessions |-> PhaseOf(s)]

(* What ChatLife can see of a session.                                      *)
Visible == <<Phase, claude, said, logged, files, uploaded>>

(* Nobody is in two phases: who is started is not listed, who is listed is  *)
(* not being ended, who is being ended was not told, nor is at two steps.   *)
LEMMA OnePhase ==
  ASSUME Inv, NEW s \in Sessions
  PROVE  /\ start[s] \in {"none", "sent", "worktree", "agents", "proxy", "claude", "register"}
              => s \notin sessions \cup told /\ ~BeingEnded(s)
         /\ s \in sessions => s \notin told /\ ~BeingEnded(s)
         /\ BeingEnded(s) => s \notin told
BY DEF Inv, Safe, WasRegistered, EndedOnce, EndedIsReleased, BeingEnded

(* The phase of whom a step does not touch.                                 *)
LEMMA PhaseKept ==
  ASSUME NEW s,
         start'[s] = start[s], s \in told' <=> s \in told, s \in sessions' <=> s \in sessions,
         \A e \in Enders : ender'[e] = ender[e] \/ (ender[e].session # s /\ ender'[e].session # s)
  PROVE  PhaseOf(s)' = PhaseOf(s)
<1>1. ASSUME NEW X PROVE (\E e \in Enders : ender'[e].session = s /\ ender'[e].step \in X)
                         <=> (\E e \in Enders : ender[e].session = s /\ ender[e].step \in X)
  OBVIOUS
<1>2. EndsAt(s, {"wait", "close"})' = EndsAt(s, {"wait", "close"})
  BY <1>1 DEF EndsAt
<1>3. EndsAt(s, {"proxy", "upload", "clean", "tell"})' = EndsAt(s, {"proxy", "upload", "clean", "tell"})
  BY <1>1 DEF EndsAt
<1>4. QED
  BY <1>2, <1>3 DEF PhaseOf

(* A session goes from one phase to another.                                *)
LEMMA PhaseGoes ==
  ASSUME NEW s \in Sessions, \A t \in Sessions \ {s} : PhaseOf(t)' = PhaseOf(t)
  PROVE  Phase' = [Phase EXCEPT ![s] = PhaseOf(s)']
BY DEF Phase

(* A step that touches none of them, or one at the start of its life.        *)
LEMMA PhasesKept ==
  ASSUME UNCHANGED <<start, sessions, told, ender>>
  PROVE  Phase' = Phase
<1>1. ASSUME NEW s \in Sessions PROVE PhaseOf(s)' = PhaseOf(s)
  <2>1. start'[s] = start[s] /\ (s \in told' <=> s \in told) /\ (s \in sessions' <=> s \in sessions)
    OBVIOUS
  <2>2. \A e \in Enders : ender'[e] = ender[e] \/ (ender[e].session # s /\ ender'[e].session # s)
    OBVIOUS
  <2>3. QED
    BY <2>1, <2>2, PhaseKept
<1>2. QED
  BY <1>1 DEF Phase

(* Nor where only its own start and its own entry in the list change.        *)
LEMMA OthersKept ==
  ASSUME UNCHANGED <<told, ender>>, NEW s \in Sessions,
         \A t \in Sessions \ {s} : start'[t] = start[t] /\ (t \in sessions' <=> t \in sessions)
  PROVE  /\ \A t \in Sessions \ {s} : PhaseOf(t)' = PhaseOf(t)
         /\ Phase' = [Phase EXCEPT ![s] = PhaseOf(s)']
<1>1. ASSUME NEW t \in Sessions \ {s} PROVE PhaseOf(t)' = PhaseOf(t)
  <2>1. start'[t] = start[t] /\ (t \in told' <=> t \in told) /\ (t \in sessions' <=> t \in sessions)
    OBVIOUS
  <2>2. \A e \in Enders : ender'[e] = ender[e] \/ (ender[e].session # t /\ ender'[e].session # t)
    OBVIOUS
  <2>3. QED
    BY <2>1, <2>2, PhaseKept
<1>2. QED
  BY <1>1, PhaseGoes

(* The phases of a session that is being started.                           *)
LEMMA StartPhases ==
  ASSUME Inv, NEW s \in Sessions
  PROVE  /\ start[s] = "none" => PhaseOf(s) = "none"
         /\ start[s] \in {"sent", "worktree", "agents", "proxy", "claude", "register"}
              => PhaseOf(s) = "starting"
         /\ s \in sessions => PhaseOf(s) = "open"
BY OnePhase DEF PhaseOf, EndsAt, BeingEnded

(* The phases of a session that is being ended.                             *)
LEMMA EndPhases ==
  ASSUME Inv, NEW e \in Enders
  PROVE  LET s == ender[e].session IN
         /\ ender[e].step \in {"wait", "close", "proxy", "upload", "clean", "tell"}
              => s \in Sessions /\ BeingEnded(s)
                 /\ \A d \in Enders : d # e => ender[d].session # s
         /\ ender[e].step \in {"wait", "close"} => PhaseOf(s) = "ending"
         /\ ender[e].step \in {"proxy", "upload", "clean", "tell"} => PhaseOf(s) = "sealed"
<1> DEFINE s == ender[e].session
<1>1. ender[e] \in Ending \cup {Free}
  BY DEF Inv, TypeOK
<1>2. ASSUME ender[e].step \in {"wait", "close", "proxy", "upload", "clean", "tell"}
      PROVE  /\ s \in Sessions /\ BeingEnded(s) /\ s \notin told
             /\ \A d \in Enders : d # e => ender[d].session # s
  BY <1>1, <1>2 DEF Ending, Free, BeingEnded, Inv, Safe, EndedOnce
<1>3. ASSUME ender[e].step \in {"wait", "close"} PROVE PhaseOf(s) = "ending"
  BY <1>2, <1>3 DEF PhaseOf, EndsAt
<1>4. ASSUME ender[e].step \in {"proxy", "upload", "clean", "tell"} PROVE PhaseOf(s) = "sealed"
  <2>1. ~EndsAt(s, {"wait", "close"}) /\ EndsAt(s, {"proxy", "upload", "clean", "tell"})
    BY <1>2, <1>4 DEF EndsAt
  <2>2. QED
    BY <1>2, <1>4, <2>1 DEF PhaseOf
<1>5. QED
  BY <1>2, <1>3, <1>4

(* What the server does shows only when it asks for a session.              *)
LEMMA ServerLives ==
  ASSUME Inv, LifeInv, NEW s \in Sessions, ServerStep(s)
  PROVE  Life!Next \/ UNCHANGED Visible
<1>0. TypeOK /\ CreatedFirst
  BY DEF Inv, Safe
<1>1. CASE UNCHANGED <<start, sessions, told, ender, claude, said, logged, files, uploaded>>
  BY <1>1, PhasesKept DEF Visible
<1>2. CASE ~CreateSession(s)
  BY <1>1, <1>2 DEF ServerStep, EndRow, UpdateTokenUsage, UploadOfUsageFails, server, disk,
                    process, reading, ending
<1>3. CASE CreateSession(s)
  <2>1. /\ start[s] = "none" /\ UNCHANGED <<sessions, told, ender>>
        /\ UNCHANGED <<claude, said, logged, files, uploaded>>
    BY <1>0, <1>3 DEF CreateSession, CreatedFirst, disk, process, reading, ending
  <2>2. start' \in {start, [start EXCEPT ![s] = "sent"]}
    BY <1>0, <1>3, <2>1 DEF CreateSession, TypeOK
  <2>3. CASE start' = start
    BY <1>1, <2>1, <2>3
  <2>4. CASE start' = [start EXCEPT ![s] = "sent"]
    <3>0. \A t \in Sessions \ {s} : start'[t] = start[t] /\ (t \in sessions' <=> t \in sessions)
      BY <1>0, <2>1, <2>4 DEF TypeOK
    <3>1. \A t \in Sessions \ {s} : PhaseOf(t)' = PhaseOf(t)
      BY <2>1, <3>0, OthersKept
    <3>2. s \notin sessions \cup told /\ ~BeingEnded(s)
      BY <2>1, OnePhase
    <3>3. PhaseOf(s)' = "starting"
      BY <1>0, <2>1, <2>4, <3>2 DEF PhaseOf, EndsAt, BeingEnded, TypeOK
    <3>4. PhaseOf(s) = "none"
      BY <2>1, StartPhases
    <3>5. Phase' = [Phase EXCEPT ![s] = "starting"] /\ Phase[s] = "none"
      BY <3>1, <3>3, <3>4, PhaseGoes DEF Phase
    <3>6. Life!Ask(s)
      BY <2>1, <3>5 DEF Life!Ask, Life!Goes, Phase
    <3>7. QED
      BY <3>6 DEF Life!Next
  <2>5. QED
    BY <2>2, <2>3, <2>4
<1>4. QED
  BY <1>2, <1>3

(* A start shows when Claude runs, when the session is listed, and when it  *)
(* fails.                                                                   *)
LEMMA StartLives ==
  ASSUME Inv, LifeInv, NEW s \in Sessions, StartStep(s)
  PROVE  Life!Next \/ UNCHANGED Visible
<1>a. TypeOK
  BY DEF Inv
<1>b. UNCHANGED <<told, ender, said, logged, uploaded>>
  BY DEF StartStep, ReceiveStart, CreateWorktree, WriteAgents, StartProxy, StartClaude,
         Register, Greet, StartFails, server, process, reading, ending
<1>0. TypeOK /\ UNCHANGED <<told, ender, said, logged, uploaded>>
  BY <1>a, <1>b
<1>1. /\ \A t \in Sessions \ {s} : start'[t] = start[t] /\ (t \in sessions' <=> t \in sessions)
      /\ start'[s] # start[s] => start' = [start EXCEPT ![s] = start'[s]]
  BY <1>0 DEF StartStep, ReceiveStart, CreateWorktree, WriteAgents, StartProxy, StartClaude,
         Register, Greet, StartFails, At, Then, TypeOK
<1>3. Phase' = [Phase EXCEPT ![s] = PhaseOf(s)'] /\ Phase[s] = PhaseOf(s)
  BY <1>0, <1>1, OthersKept DEF Phase
<1>4. ASSUME PhaseOf(s)' = PhaseOf(s) PROVE Phase' = Phase
  BY <1>3, <1>4 DEF Phase
<1> DEFINE early == {"sent", "worktree", "agents", "proxy", "claude", "register"}
<1>5. start[s] \in early => PhaseOf(s) = "starting" /\ s \notin sessions \cup told /\ ~BeingEnded(s)
  BY StartPhases, OnePhase
<1>6. ASSUME start[s] \in early, s \notin sessions'
      PROVE  /\ start'[s] \in early => PhaseOf(s)' = "starting"
             /\ start'[s] = "failed" => PhaseOf(s)' = "lost"
  BY <1>0, <1>5, <1>6 DEF PhaseOf, EndsAt, BeingEnded
<1>7. CASE ReceiveStart(s) \/ CreateWorktree(s) \/ WriteAgents(s) \/ StartProxy(s)
  <2>1. /\ start[s] \in early /\ start'[s] \in early
        /\ UNCHANGED <<sessions, claude, files>>
    BY <1>0, <1>7 DEF ReceiveStart, CreateWorktree, WriteAgents, StartProxy, At, Then, disk, process,
                      TypeOK
  <2>2. Phase' = Phase
    BY <1>4, <1>5, <1>6, <2>1
  <2>3. QED
    BY <1>0, <2>1, <2>2 DEF Visible
<1>8. CASE StartClaude(s) /\ start'[s] = "register"
  <2>1. /\ start[s] = "claude" /\ files' = files \cup {s} /\ UNCHANGED sessions
        /\ claude' = [claude EXCEPT ![s] = "running"]
    BY <1>0, <1>8 DEF StartClaude, At, Then, TypeOK
  <2>2. Phase' = Phase /\ Phase[s] = "starting"
    BY <1>3, <1>4, <1>5, <1>6, <1>8, <2>1
  <2>3. claude[s] = "none"
    BY <2>1 DEF LifeInv, RunsOnce
  <2>4. Life!Run(s)
    BY <1>0, <2>1, <2>2, <2>3 DEF Life!Run, Phase
  <2>5. QED
    BY <2>4 DEF Life!Next
<1>9. CASE StartFails(s) \/ (StartClaude(s) /\ start'[s] # "register")
  <2>1. /\ start[s] \in {"worktree", "agents", "proxy", "claude"} /\ start'[s] = "failed"
        /\ files' \in {files, files \cup {s}} /\ UNCHANGED <<sessions, claude>>
    BY <1>0, <1>9 DEF StartFails, StartClaude, At, Then, disk, process, TypeOK
  <2>2. Phase[s] = "starting" /\ Phase' = [Phase EXCEPT ![s] = "lost"]
    BY <1>3, <1>5, <1>6, <2>1
  <2>3. claude[s] = "none"
    BY <2>1 DEF LifeInv, RunsOnce
  <2>4. Life!Fail(s)
    BY <1>0, <2>1, <2>2, <2>3 DEF Life!Fail, Life!Goes, Phase
  <2>5. QED
    BY <2>4 DEF Life!Next
<1>10. CASE Register(s)
  <2>1. /\ start[s] = "register" /\ s \in sessions' /\ UNCHANGED <<claude, files>>
    BY <1>10 DEF Register, At, disk, process
  <2>2. PhaseOf(s)' = "open"
    BY <1>0, <1>5, <2>1 DEF PhaseOf, EndsAt, BeingEnded
  <2>3. Phase[s] = "starting" /\ Phase' = [Phase EXCEPT ![s] = "open"]
    BY <1>3, <1>5, <2>1, <2>2
  <2>4. claude[s] # "none"
    BY <2>1 DEF LifeInv, RunsOnce
  <2>5. Life!Open(s)
    BY <1>0, <2>1, <2>3, <2>4 DEF Life!Open, Life!Goes, Phase
  <2>6. QED
    BY <2>5 DEF Life!Next
<1>11. CASE Greet(s)
  <2>1. start[s] = "greet" /\ start'[s] = "done" /\ UNCHANGED <<sessions, claude, files>>
    BY <1>0, <1>11 DEF Greet, At, Then, disk, process, TypeOK
  <2>2. PhaseOf(s)' = PhaseOf(s)
    BY <1>0, <2>1 DEF PhaseOf, EndsAt
  <2>3. QED
    BY <1>0, <1>4, <2>1, <2>2 DEF Visible
<1>12. QED
  BY <1>7, <1>8, <1>9, <1>10, <1>11 DEF StartStep

(* Claude speaks and exits, and the reader notes what the transcript takes. *)
LEMMA ClaudeLives ==
  ASSUME Inv, LifeInv, NEW s \in Sessions, ClaudeStep(s)
  PROVE  Life!Next \/ UNCHANGED Visible
<1>0. TypeOK /\ UNCHANGED <<start, sessions, told, ender, files, uploaded>>
  BY DEF Inv, ClaudeStep, ClaudeWrites, ClaudeExits, ReadLine, StopsReading, Wait, server, disk, ending
<1>1. Phase' = Phase
  BY <1>0, PhasesKept
<1>2. CASE ClaudeWrites(s)
  <2>1. Life!Say(s)
    BY <1>0, <1>1, <1>2 DEF Life!Say, ClaudeWrites, Phase, reading
  <2>2. QED
    BY <2>1 DEF Life!Next
<1>3. CASE ClaudeExits(s)
  <2>1. Life!Exit(s)
    BY <1>0, <1>1, <1>3 DEF Life!Exit, ClaudeExits, Phase, reading
  <2>2. QED
    BY <2>1 DEF Life!Next
<1>4. ASSUME NEW result \in BOOLEAN, ReadLine(s, result) PROVE Life!Next \/ UNCHANGED Visible
  <2>1. UNCHANGED <<claude, said>> /\ scanned[s] < said[s]
    BY <1>4 DEF ReadLine, process
  <2>2. CASE s \notin logging
    BY <1>0, <1>1, <1>4, <2>1, <2>2 DEF ReadLine, Visible
  <2>3. CASE s \in logging
    <3>1. logged' = [logged EXCEPT ![s] = logged[s] + 1]
      BY <1>4, <2>3 DEF ReadLine
    <3>2. logged[s] < said[s]
      BY <1>0, <2>1 DEF TypeOK
    <3>3. PhaseOf(s) \in {"starting", "open", "ending"}
      <4>1. CASE start[s] = "register" \/ s \in sessions
        BY <4>1, StartPhases
      <4>2. CASE EndsAt(s, {"wait", "close"})
        BY <4>2, EndPhases DEF EndsAt
      <4>3. QED
        BY <2>3, <4>1, <4>2 DEF LifeInv, TranscriptAtHand
    <3>4. s \in files
      BY <1>0, <2>3 DEF TypeOK
    <3>5. Phase[s] \in {"starting", "open", "ending"}
      BY <3>3 DEF Phase
    <3>6. Life!Note(s)
      BY <1>0, <1>1, <2>1, <3>1, <3>2, <3>4, <3>5 DEF Life!Note, Life!Growing, Phase
    <3>7. QED
      BY <3>6 DEF Life!Next
  <2>4. QED
    BY <2>2, <2>3
<1>5. CASE StopsReading(s) \/ Wait(s)
  BY <1>0, <1>1, <1>5 DEF StopsReading, Wait, process, reading, Visible
<1>6. QED
  BY <1>2, <1>3, <1>4, <1>5 DEF ClaudeStep

(* Whoever takes a listed session to end it is alone with it.               *)
LEMMA TakeLives ==
  ASSUME Inv, NEW s \in sessions, NEW e \in Enders, ender[e] = Free, TakeToEnd(e, s),
         UNCHANGED <<start, told, claude, said, logged, files, uploaded>>
  PROVE  Life!Next
<1>0. TypeOK /\ s \in Sessions /\ s \notin told /\ ~BeingEnded(s) /\ Nobody \notin Sessions
  BY ChatAssumption, OnePhase DEF Inv, TypeOK
<1>1. /\ ender' = [ender EXCEPT ![e] = [session |-> s, step |-> "wait"]]
      /\ sessions' = sessions \ {s}
  BY DEF TakeToEnd
<1>2. ender'[e] = [session |-> s, step |-> "wait"] /\ \A d \in Enders \ {e} : ender'[d] = ender[d]
  BY <1>0, <1>1 DEF TypeOK
<1>3. ASSUME NEW t \in Sessions \ {s} PROVE PhaseOf(t)' = PhaseOf(t)
  <2>1. start'[t] = start[t] /\ (t \in told' <=> t \in told) /\ (t \in sessions' <=> t \in sessions)
    BY <1>1
  <2>2. \A d \in Enders : ender'[d] = ender[d] \/ (ender[d].session # t /\ ender'[d].session # t)
    BY <1>0, <1>2 DEF Free
  <2>3. QED
    BY <2>1, <2>2, PhaseKept
<1>4. EndsAt(s, {"wait", "close"})'
  BY <1>2 DEF EndsAt
<1>5. PhaseOf(s)' = "ending"
  BY <1>0, <1>4 DEF PhaseOf
<1>6. PhaseOf(s) = "open"
  BY <1>0, StartPhases
<1>7. Phase' = [Phase EXCEPT ![s] = "ending"] /\ Phase[s] = "open"
  BY <1>0, <1>3, <1>5, <1>6, PhaseGoes DEF Phase
<1>8. Life!Take(s)
  BY <1>7 DEF Life!Take, Life!Goes, Phase
<1>9. QED
  BY <1>0, <1>8 DEF Life!Next

(* Of what is done to a listed session only its end shows.                  *)
LEMMA ListLives ==
  ASSUME Inv, NEW s \in Sessions, ListStep(s)
  PROVE  Life!Next \/ UNCHANGED Visible
<1>0. UNCHANGED <<start, told, claude, said, logged, files, uploaded>>
  BY DEF ListStep, RefreshActivity, TimePasses, EndByUser, EndExpired, server, disk, process, reading,
         ending
<1>1. CASE EndByUser(s)
  BY <1>0, <1>1, TakeLives DEF EndByUser, PumpFree, Enders
<1>2. CASE EndExpired(s) /\ s \in sessions
  BY <1>0, <1>2, TakeLives DEF EndExpired, Enders
<1>3. CASE RefreshActivity(s) \/ TimePasses(s) \/ (EndExpired(s) /\ s \notin sessions)
  <2>1. UNCHANGED <<start, sessions, told, ender>>
    BY <1>0, <1>3 DEF RefreshActivity, TimePasses, EndExpired, ending
  <2>2. QED
    BY <1>0, <2>1, PhasesKept DEF Visible
<1>4. QED
  BY <1>1, <1>2, <1>3 DEF ListStep

(* Between the steps of an ender the phase of its session changes only where *)
(* its transcript is closed.                                                *)
LEMMA EnderMoves ==
  ASSUME Inv, NEW e \in Enders, NEW step,
         ender[e].step \in {"wait", "close", "proxy", "upload", "clean"},
         step \in {"close", "proxy", "upload", "clean", "tell"},
         NEW s \in Sessions, s = ender[e].session,
         Goto(e, step), UNCHANGED <<start, sessions, told>>
  PROVE  /\ step = "close" => Phase' = [Phase EXCEPT ![s] = "ending"]
         /\ step # "close" => Phase' = [Phase EXCEPT ![s] = "sealed"]
<1>1. s = ender[e].session
  OBVIOUS
<1>2. /\ BeingEnded(s) /\ s \notin told /\ \A d \in Enders : d # e => ender[d].session # s
      /\ ender \in [Enders -> Ending \cup {Free}]
  BY <1>1, EndPhases, OnePhase DEF Inv, TypeOK
<1>3. PICK r \in Ending : r = ender[e]
  BY <1>2 DEF Free
<1>4. /\ ender'[e].session = s /\ ender'[e].step = step
      /\ \A d \in Enders \ {e} : ender'[d] = ender[d]
  <2>1. ender' = [ender EXCEPT ![e] = [r EXCEPT !.step = step]]
    BY <1>2, <1>3 DEF Goto
  <2>2. [r EXCEPT !.step = step].session = s /\ [r EXCEPT !.step = step].step = step
    BY <1>1, <1>3 DEF Ending
  <2>3. QED
    BY <1>2, <2>1, <2>2
<1>5. ASSUME NEW t \in Sessions \ {s} PROVE PhaseOf(t)' = PhaseOf(t)
  <2>1. start'[t] = start[t] /\ (t \in told' <=> t \in told) /\ (t \in sessions' <=> t \in sessions)
    OBVIOUS
  <2>2. \A d \in Enders : ender'[d] = ender[d] \/ (ender[d].session # t /\ ender'[d].session # t)
    BY <1>1, <1>4
  <2>3. QED
    BY <2>1, <2>2, PhaseKept
<1>6. Phase' = [Phase EXCEPT ![s] = PhaseOf(s)']
  BY <1>5, PhaseGoes
<1>7. CASE step = "close"
  <2>1. EndsAt(s, {"wait", "close"})'
    BY <1>4, <1>7 DEF EndsAt
  <2>2. PhaseOf(s)' = "ending"
    BY <1>2, <2>1 DEF PhaseOf
  <2>3. QED
    BY <1>6, <1>7, <2>2
<1>8. CASE step # "close"
  <2>1. ~EndsAt(s, {"wait", "close"})' /\ EndsAt(s, {"proxy", "upload", "clean", "tell"})'
    BY <1>2, <1>4, <1>8 DEF EndsAt
  <2>2. PhaseOf(s)' = "sealed"
    BY <1>2, <2>1 DEF PhaseOf
  <2>3. QED
    BY <1>6, <1>8, <2>2
<1>9. QED
  BY <1>7, <1>8

(* Ending a session seals its transcript once Claude is gone, gives it to   *)
(* the server and is over.                                                  *)
LEMMA EndLives ==
  ASSUME Inv, LifeInv, NEW e \in Enders, EndStep(e)
  PROVE  Life!Next \/ UNCHANGED Visible
<1>0. TypeOK /\ EndedSoFar
  BY DEF Inv, Safe
<1>1. PICK s \in Sessions : s = ender[e].session
  BY EndPhases DEF EndStep, Stopped, TimesOut, CloseTranscript, StopProxy, UploadJSONL, RemoveWorktree,
                   SendEnd, Does
<1>2. ender[e].step \in {"wait", "close"} => Phase[s] = "ending"
  BY <1>1, EndPhases DEF Phase
<1>3. ender[e].step \in {"proxy", "upload", "clean", "tell"} => Phase[s] = "sealed"
  BY <1>1, EndPhases DEF Phase
<1>4. ASSUME NEW t \in Sessions, Phase' = [Phase EXCEPT ![t] = Phase[t]] PROVE Phase' = Phase
  BY <1>4 DEF Phase
<1>5. CASE Stopped(e)
  <2>1. /\ ender[e].step = "wait" /\ Goto(e, "close")
        /\ UNCHANGED <<start, sessions, told, claude, said, logged, files, uploaded>>
    BY <1>5 DEF Stopped, Does, server, disk, process, reading
  <2>2. Phase' = [Phase EXCEPT ![s] = "ending"]
    BY <1>1, <2>1, EnderMoves
  <2>3. QED
    BY <1>2, <1>4, <2>1, <2>2 DEF Visible
<1>6. CASE TimesOut(e)
  <2>1. /\ ender[e].step = "wait" /\ Goto(e, "close")
        /\ claude' = [claude EXCEPT ![s] = "exited"]
        /\ UNCHANGED <<start, sessions, told, said, logged, files, uploaded>>
    BY <1>1, <1>6 DEF TimesOut, Does, server, disk, reading
  <2>2. Phase' = [Phase EXCEPT ![s] = "ending"]
    BY <1>1, <2>1, EnderMoves
  <2>3. Phase' = Phase
    BY <1>2, <1>4, <2>1, <2>2
  <2>4. claude[s] \in {"running", "exited"}
    <3>1. BeingEnded(s)
      BY <1>1 DEF BeingEnded
    <3>2. QED
      BY <1>0, <3>1 DEF LifeInv, RunsOnce, TypeOK
  <2>5. CASE claude[s] = "running"
    <3>1. Life!Exit(s)
      BY <2>1, <2>3, <2>5 DEF Life!Exit, Phase
    <3>2. QED
      BY <3>1 DEF Life!Next
  <2>6. CASE claude[s] = "exited"
    <3>1. claude' = claude
      BY <1>0, <2>1, <2>6 DEF TypeOK
    <3>2. QED
      BY <2>1, <2>3, <3>1 DEF Visible
  <2>7. QED
    BY <2>4, <2>5, <2>6
<1>7. CASE CloseTranscript(e)
  <2>1. /\ ender[e].step = "close" /\ Goto(e, "proxy")
        /\ UNCHANGED <<start, sessions, told, claude, said, logged, files, uploaded>>
    BY <1>7 DEF CloseTranscript, Does, server, process, reading
  <2>2. Phase' = [Phase EXCEPT ![s] = "sealed"]
    BY <1>1, <2>1, EnderMoves
  <2>3. claude[s] = "exited"
    BY <1>0, <1>1, <2>1 DEF EndedSoFar
  <2>4. Life!Seal(s)
    BY <1>2, <2>1, <2>2, <2>3 DEF Life!Seal, Life!Goes, Phase
  <2>5. QED
    BY <2>4 DEF Life!Next
<1>8. CASE StopProxy(e) \/ RemoveWorktree(e)
  <2>1. \/ ender[e].step = "proxy" /\ Goto(e, "upload")
        \/ ender[e].step = "clean" /\ Goto(e, "tell")
    BY <1>8 DEF StopProxy, RemoveWorktree, Does
  <2>2. UNCHANGED <<start, sessions, told, claude, said, logged, files, uploaded>>
    BY <1>8 DEF StopProxy, RemoveWorktree, server, process, reading
  <2>3. Phase' = [Phase EXCEPT ![s] = "sealed"] /\ Phase[s] = "sealed"
    <3>1. CASE ender[e].step = "proxy" /\ Goto(e, "upload")
      BY <1>1, <1>3, <2>2, <3>1, EnderMoves
    <3>2. CASE ender[e].step = "clean" /\ Goto(e, "tell")
      BY <1>1, <1>3, <2>2, <3>2, EnderMoves
    <3>3. QED
      BY <2>1, <3>1, <3>2
  <2>4. QED
    BY <1>4, <2>2, <2>3 DEF Visible
<1>9. CASE UploadJSONL(e)
  <2>1. /\ ender[e].step = "upload" /\ Goto(e, "clean")
        /\ UNCHANGED <<start, sessions, told, claude, said, logged>>
    BY <1>9 DEF UploadJSONL, Does, process, reading
  <2>2. \/ /\ uploaded' = [uploaded EXCEPT ![s] = logged[s]]
           /\ files' \in {files, files \ {s}}
        \/ UNCHANGED <<uploaded, files>>
    BY <1>1, <1>9 DEF UploadJSONL
  <2>3. Phase' = [Phase EXCEPT ![s] = "sealed"]
    BY <1>1, <2>1, EnderMoves
  <2>4. Phase' = Phase /\ Phase[s] = "sealed"
    BY <1>3, <1>4, <2>1, <2>3
  <2>5. s \in files
    <3>1. EndsAt(s, {"wait", "close", "proxy", "upload"})
      BY <1>1, <2>1 DEF EndsAt
    <3>2. QED
      BY <3>1 DEF LifeInv, TranscriptAtHand
  <2>6. CASE UNCHANGED <<uploaded, files>>
    BY <2>1, <2>4, <2>6 DEF Visible
  <2>7. CASE uploaded' = [uploaded EXCEPT ![s] = logged[s]] /\ files' \in {files, files \ {s}}
    <3>1. Life!HandOver(s)
      BY <2>1, <2>4, <2>5, <2>7 DEF Life!HandOver, Phase
    <3>2. QED
      BY <3>1 DEF Life!Next
  <2>8. QED
    BY <2>2, <2>6, <2>7
<1>10. CASE SendEnd(e)
  <2>1. /\ ender[e].step = "tell" /\ told' = told \cup {s} /\ ender' = [ender EXCEPT ![e] = Free]
        /\ UNCHANGED <<start, sessions, claude, said, logged, files, uploaded>>
    BY <1>1, <1>10 DEF SendEnd, Does, server, disk, process, reading
  <2>2. ender'[e] = Free /\ \A d \in Enders \ {e} : ender'[d] = ender[d]
    BY <1>0, <2>1 DEF TypeOK
  <2>3. ASSUME NEW t \in Sessions \ {s} PROVE PhaseOf(t)' = PhaseOf(t)
    <3>1. start'[t] = start[t] /\ (t \in told' <=> t \in told) /\ (t \in sessions' <=> t \in sessions)
      BY <2>1
    <3>2. \A d \in Enders : ender'[d] = ender[d] \/ (ender[d].session # t /\ ender'[d].session # t)
      BY <1>1, <2>2, ChatAssumption DEF Free
    <3>3. QED
      BY <3>1, <3>2, PhaseKept
  <2>4. PhaseOf(s)' = "over"
    BY <2>1 DEF PhaseOf
  <2>5. Phase' = [Phase EXCEPT ![s] = "over"]
    BY <2>3, <2>4, PhaseGoes
  <2>6. Life!End(s)
    BY <1>3, <2>1, <2>5 DEF Life!End, Life!Goes, Phase
  <2>7. QED
    BY <2>6 DEF Life!Next
<1>11. QED
  BY <1>5, <1>6, <1>7, <1>8, <1>9, <1>10 DEF EndStep

(* A restart loses what was not over, and nothing else.                     *)
LEMMA RestartLives ==
  ASSUME Inv, Restart
  PROVE  Life!Next
<1>0. TypeOK /\ WasRegistered /\ Nobody \notin Sessions
  BY ChatAssumption DEF Inv, Safe
<1>1. /\ sessions' = {} /\ UNCHANGED <<told, claude, said, logged, files, uploaded>>
      /\ \A s \in Sessions :
           start'[s] = IF start[s] \in {"none", "done"} THEN start[s] ELSE "failed"
      /\ \A e \in Enders : ender'[e] = Free
  BY DEF Restart, server
<1>2. ASSUME NEW s \in Sessions
      PROVE  PhaseOf(s)' = IF PhaseOf(s) \in {"none", "over"} THEN PhaseOf(s) ELSE "lost"
  <2>1. ~EndsAt(s, {"wait", "close"})' /\ ~EndsAt(s, {"proxy", "upload", "clean", "tell"})'
    BY <1>0, <1>1 DEF EndsAt, Free
  <2>2. PhaseOf(s)' = IF s \in told THEN "over" ELSE IF start'[s] = "none" THEN "none" ELSE "lost"
    BY <1>1, <2>1 DEF PhaseOf
  <2>3. CASE s \in told
    BY <2>2, <2>3 DEF PhaseOf
  <2>4. CASE s \notin told /\ start[s] = "none"
    BY <1>1, <2>2, <2>4, StartPhases
  <2>5. CASE s \notin told /\ start[s] # "none"
    <3>1. PhaseOf(s) \notin {"none", "over"}
      BY <2>5 DEF PhaseOf
    <3>2. start'[s] # "none"
      BY <1>1, <2>5
    <3>3. QED
      BY <2>2, <2>5, <3>1, <3>2
  <2>6. QED
    BY <2>3, <2>4, <2>5
<1>3. Phase' = [s \in Sessions |-> IF Phase[s] \in {"none", "over"} THEN Phase[s] ELSE "lost"]
  BY <1>2 DEF Phase
<1>4. Life!Crash
  BY <1>1, <1>3 DEF Life!Crash, Phase
<1>5. QED
  BY <1>4 DEF Life!Next

(* Any number of sessions, started, used, ended by the user and by the TTL  *)
(* checker and cut off by restarts, live as ChatLife says.                  *)
THEOREM SessionsRefineLife == Spec => RefinesLife
<1>1. Init => Life!Init
  <2>1. Init => \A s \in Sessions : PhaseOf(s) = "none"
    BY ChatAssumption DEF Init, PhaseOf, EndsAt, Free, Enders
  <2>2. QED
    BY <2>1 DEF Init, Life!Init
<1>2. ASSUME Inv, LifeInv, [Next]_vars PROVE Life!Next \/ UNCHANGED Visible
  <2>1. CASE UNCHANGED vars
    BY <2>1, PhasesKept DEF vars, server, disk, process, reading, ending, Visible
  <2>2. CASE CheckTTL
    BY <2>2, PhasesKept DEF CheckTTL, server, disk, process, reading, Visible
  <2>3. QED
    BY <1>2, <2>1, <2>2, StepKinds, ServerLives, StartLives, ClaudeLives, ListLives, EndLives,
       RestartLives
<1>3. Inv /\ LifeInv /\ [Next]_vars =>
        [Life!Next]_<<[s \in Sessions |-> PhaseOf(s)], claude, said, logged, files, uploaded>>
  BY <1>2 DEF Visible, Phase
<1>4. QED
  BY <1>1, <1>3, LifeInvInit, LifeInvNext, Invariant, PTL DEF Spec, RefinesLife, Life!Spec
=============================================================================
