---------------------------- MODULE ChatSessions ----------------------------
(***************************************************************************)
(* Planning chats: the session rows of the server and the ChatManager of   *)
(* the daemon, which runs one Claude process per session.                  *)
(*                                                                         *)
(* Each session has a goroutine that starts it and one that reads what     *)
(* Claude writes.  Two more end sessions: the read pump of the WebSocket,  *)
(* when a chat.end arrives (it does nothing else meanwhile), and the TTL   *)
(* checker, which ends what it found idle one session after the other.     *)
(***************************************************************************)
EXTENDS Naturals, FiniteSets

CONSTANTS
  Sessions,      \* ids of sessions; the server makes a new one for each
  Nobody,        \* no session
  LongLines,     \* whether Claude may write a line longer than the buffer
  MaxLines,      \* bound: lines Claude writes in a session
  MaxTurns,      \* bound: of these, results, which report usage
  MaxRestarts    \* bound: deaths of the daemon

ASSUME ChatAssumption ==
  /\ Nobody \notin Sessions
  /\ LongLines \in BOOLEAN
  /\ {MaxLines, MaxTurns, MaxRestarts} \subseteq Nat

VARIABLES
  row,        \* server: the state of the row
  stored,     \* server: results whose usage the row includes
  uploaded,   \* server: lines of the transcript it has
  start,      \* StartSession: what it does next
  sessions,   \* the map of the manager
  stale,      \* sessions whose LastActivity is longer ago than the TTL
  worktrees, files,   \* the worktree and the transcript, on the disk
  sockets,    \* sessions whose proxy listens
  logging,    \* sessions whose transcript is open
  claude,     \* the process of each session
  pipes,      \* sessions whose stdout pipe is open for reading
  reader,     \* readClaudeOutput
  said,       \* lines Claude has written ...
  scanned,    \* ... that were read ...
  logged,     \* ... and written to the transcript
  turns,      \* results among the lines read
  puts,       \* uploads of usage that are under way
  ender,      \* what the read pump and the TTL checker are ending
  expired,    \* what checkTTL has collected and not ended yet
  told,       \* sessions whose chat.end was sent
  restarts    \* bound

server  == <<row, stored, uploaded>>
disk    == <<worktrees, sockets, files, logging>>
process == <<claude, pipes, said>>
reading == <<reader, scanned, logged, turns, puts>>
ending  == <<ender, expired, told>>
vars == <<server, start, sessions, stale, disk, process, reading, ending, restarts>>

Enders == {"user", "ttl"}
Free == [session |-> Nobody, step |-> "idle"]
Ending == [session : Sessions, step : {"wait", "close", "proxy", "upload", "clean", "tell"}]

PumpFree == ender["user"] = Free

Init ==
  /\ row = [s \in Sessions |-> "none"]
  /\ stored = [s \in Sessions |-> 0] /\ uploaded = [s \in Sessions |-> 0]
  /\ start = [s \in Sessions |-> "none"]
  /\ sessions = {} /\ stale = {}
  /\ worktrees = {} /\ sockets = {} /\ files = {} /\ logging = {}
  /\ claude = [s \in Sessions |-> "none"]
  /\ pipes = {}
  /\ reader = [s \in Sessions |-> "none"]
  /\ said = [s \in Sessions |-> 0] /\ scanned = [s \in Sessions |-> 0]
  /\ logged = [s \in Sessions |-> 0] /\ turns = [s \in Sessions |-> 0]
  /\ puts = [s \in Sessions |-> {}]
  /\ ender = [e \in Enders |-> Free]
  /\ expired = {} /\ told = {}
  /\ restarts = 0

---------------------------------------------------------------------------
(* The server. *)

(* Creates the row and sends chat.start to the daemon; it is lost if the
   daemon is not connected. *)
CreateSession(s) ==
  /\ row[s] = "none"
  /\ row' = [row EXCEPT ![s] = "active"]
  /\ \E sent \in BOOLEAN :
       start' = [start EXCEPT ![s] = IF sent THEN "sent" ELSE "none"]
  /\ UNCHANGED <<stored, uploaded, sessions, stale, disk, process, reading, ending, restarts>>

(* The endpoint that ends a session: it only updates the row. *)
EndRow(s) ==
  /\ row[s] = "active"
  /\ row' = [row EXCEPT ![s] = "ended"]
  /\ UNCHANGED <<stored, uploaded, start, sessions, stale, disk, process, reading, ending,
                 restarts>>

(* An upload of usage arrives; it brings the totals at the time it was made. *)
UpdateTokenUsage(s, n) ==
  /\ n \in puts[s]
  /\ puts' = [puts EXCEPT ![s] = @ \ {n}]
  /\ stored' = [stored EXCEPT ![s] = n]
  /\ UNCHANGED <<row, uploaded, start, sessions, stale, disk, process, reader, scanned, logged,
                 turns, ending, restarts>>

(* ... or runs into its timeout, or is refused. *)
UploadOfUsageFails(s, n) ==
  /\ n \in puts[s]
  /\ puts' = [puts EXCEPT ![s] = @ \ {n}]
  /\ UNCHANGED <<server, start, sessions, stale, disk, process, reader, scanned, logged, turns,
                 ending, restarts>>

---------------------------------------------------------------------------
(* StartSession, one goroutine per chat.start. *)

At(s, step) == start[s] = step
Then(s, step) == start' = [start EXCEPT ![s] = step]

ReceiveStart(s) ==
  /\ PumpFree /\ At(s, "sent") /\ Then(s, "worktree")
  /\ UNCHANGED <<server, sessions, stale, disk, process, reading, ending, restarts>>

CreateWorktree(s) ==
  /\ At(s, "worktree") /\ Then(s, "agents")
  /\ worktrees' = worktrees \cup {s}
  /\ UNCHANGED <<server, sessions, stale, sockets, files, logging, process, reading, ending,
                 restarts>>

WriteAgents(s) ==
  /\ At(s, "agents") /\ Then(s, "proxy")
  /\ UNCHANGED <<server, sessions, stale, disk, process, reading, ending, restarts>>

StartProxy(s) ==
  /\ At(s, "proxy") /\ Then(s, "claude")
  /\ sockets' = sockets \cup {s}
  /\ UNCHANGED <<server, sessions, stale, worktrees, files, logging, process, reading, ending,
                 restarts>>

(* The transcript is created first, and stays if Claude does not start. *)
StartClaude(s) ==
  /\ At(s, "claude")
  /\ files' = files \cup {s}
  /\ \/ /\ Then(s, "register")
        /\ logging' = logging \cup {s}
        /\ claude' = [claude EXCEPT ![s] = "running"]
        /\ pipes' = pipes \cup {s}
        /\ reader' = [reader EXCEPT ![s] = "scanning"]
     \/ /\ Then(s, "failed")
        /\ UNCHANGED <<logging, claude, pipes, reader>>
  /\ UNCHANGED <<server, sessions, stale, worktrees, sockets, said, scanned, logged, turns, puts,
                 ending, restarts>>

Register(s) ==
  /\ At(s, "register") /\ Then(s, "greet")
  /\ sessions' = sessions \cup {s}
  /\ UNCHANGED <<server, stale, disk, process, reading, ending, restarts>>

(* The initial message, if the session is still there, and the answer. *)
Greet(s) ==
  /\ At(s, "greet") /\ Then(s, "done")
  /\ stale' = stale \ {s}
  /\ UNCHANGED <<server, sessions, disk, process, reading, ending, restarts>>

(* What StartSession has set up so far stays when a later step fails. *)
StartFails(s) ==
  /\ start[s] \in {"worktree", "agents", "proxy", "claude"} /\ Then(s, "failed")
  /\ UNCHANGED <<server, sessions, stale, disk, process, reading, ending, restarts>>

---------------------------------------------------------------------------
(* Claude and the goroutine that reads what it writes. *)

ClaudeWrites(s) ==
  /\ claude[s] = "running" /\ said[s] < MaxLines
  /\ said' = [said EXCEPT ![s] = @ + 1]
  /\ UNCHANGED <<server, start, sessions, stale, disk, claude, pipes, reading, ending, restarts>>

ClaudeExits(s) ==
  /\ claude[s] = "running"
  /\ claude' = [claude EXCEPT ![s] = "exited"]
  /\ UNCHANGED <<server, start, sessions, stale, disk, pipes, said, reading, ending, restarts>>

(* A line goes to the transcript if that is open.  What Claude says to the user
   and its results count as activity, other lines do not; a result also starts
   an upload of the totals. *)
ReadLine(s, result) ==
  /\ reader[s] = "scanning" /\ s \in pipes /\ scanned[s] < said[s]
  /\ scanned' = [scanned EXCEPT ![s] = @ + 1]
  /\ logged' = IF s \in logging THEN [logged EXCEPT ![s] = @ + 1] ELSE logged
  /\ (stale' = stale \ {s}) \/ (~result /\ UNCHANGED stale)
  /\ IF result
     THEN /\ turns[s] < MaxTurns
          /\ turns' = [turns EXCEPT ![s] = @ + 1]
          /\ puts' = [puts EXCEPT ![s] = @ \cup {turns'[s]}]
     ELSE UNCHANGED <<turns, puts>>
  /\ UNCHANGED <<server, start, sessions, disk, process, reader, ending, restarts>>

(* The reader stops at the end of the output, when the pipe is closed, and
   at a line longer than its buffer, and waits for Claude. *)
StopsReading(s) ==
  /\ reader[s] = "scanning"
  /\ \/ s \notin pipes
     \/ claude[s] = "exited" /\ scanned[s] = said[s]
     \/ LongLines /\ scanned[s] < said[s]
  /\ reader' = [reader EXCEPT ![s] = "waiting"]
  /\ UNCHANGED <<server, start, sessions, stale, disk, process, scanned, logged, turns, puts,
                 ending, restarts>>

Interrupted(s) == s \in told \/ \E e \in Enders : ender[e].session = s

(* Wait returns when Claude has exited, and closes the pipe: the reader
   calls it at the end, and whoever interrupts Claude at once. *)
Wait(s) ==
  /\ claude[s] = "exited" /\ s \in pipes
  /\ reader[s] = "waiting" \/ Interrupted(s)
  /\ pipes' = pipes \ {s}
  /\ UNCHANGED <<server, start, sessions, stale, disk, claude, said, reading, ending, restarts>>
---------------------------------------------------------------------------
(* What the dashboard sends, handled by the read pump one at a time. *)

(* chat.user_message and chat.ping of a session that is listed. *)
RefreshActivity(s) ==
  /\ PumpFree /\ s \in sessions /\ s \in stale
  /\ stale' = stale \ {s}
  /\ UNCHANGED <<server, start, sessions, disk, process, reading, ending, restarts>>

(* Mutant: the session stays listed until it has been ended. *)
TakeToEndListed(e, s) ==
  /\ ender' = [ender EXCEPT ![e] = [session |-> s, step |-> "wait"]]
  /\ UNCHANGED <<sessions, stale>>

(* EndSession: removes the session from the map under the lock, so that
   nobody else ends it, closes Claude's input and interrupts it. *)
TakeToEnd(e, s) ==
  /\ ender' = [ender EXCEPT ![e] = [session |-> s, step |-> "wait"]]
  /\ sessions' = sessions \ {s}
  /\ stale' = stale \ {s}

(* chat.end of a session that is listed; of another it does nothing. *)
EndByUser(s) ==
  /\ PumpFree /\ s \in sessions
  /\ TakeToEnd("user", s)
  /\ UNCHANGED <<server, start, disk, process, reading, expired, told, restarts>>

---------------------------------------------------------------------------
(* The TTL checker. *)

TimePasses(s) ==
  /\ s \in sessions \ stale
  /\ stale' = stale \cup {s}
  /\ UNCHANGED <<server, start, sessions, disk, process, reading, ending, restarts>>

CheckTTL ==
  /\ ender["ttl"] = Free /\ expired = {}
  /\ expired' = sessions \cap stale
  /\ expired' # {}
  /\ UNCHANGED <<server, start, sessions, stale, disk, process, reading, ender, told, restarts>>

EndExpired(s) ==
  /\ ender["ttl"] = Free /\ s \in expired
  /\ expired' = expired \ {s}
  /\ IF s \in sessions
     THEN TakeToEnd("ttl", s)
     ELSE UNCHANGED <<ender, sessions, stale>>
  /\ UNCHANGED <<server, start, disk, process, reading, told, restarts>>

---------------------------------------------------------------------------
(* The rest of EndSession, the same for both. *)

Does(e, step) == ender[e].step = step
Goto(e, step) == ender' = [ender EXCEPT ![e].step = step]

(* Wait has returned ... *)
Stopped(e) ==
  /\ Does(e, "wait") /\ ender[e].session \notin pipes
  /\ Goto(e, "close")
  /\ UNCHANGED <<server, start, sessions, stale, disk, process, reading, expired, told, restarts>>

(* Mutant: after five seconds EndSession goes on without Claude. *)
TimesOutGently(e) ==
  /\ Does(e, "wait") /\ Goto(e, "close")
  /\ UNCHANGED <<server, start, sessions, stale, disk, process, reading, expired, told, restarts>>

(* Mutant: EndSession waits for as long as Claude takes. *)
NeverTimesOut(e) ==
  /\ Does(e, "wait") /\ claude[ender[e].session] = "exited" /\ Goto(e, "close")
  /\ UNCHANGED <<server, start, sessions, stale, disk, process, reading, expired, told, restarts>>

(* ... or has not in five seconds: Claude is killed, and nobody waits. *)
TimesOut(e) ==
  /\ Does(e, "wait") /\ Goto(e, "close")
  /\ claude' = [claude EXCEPT ![ender[e].session] = "exited"]
  /\ UNCHANGED <<server, start, sessions, stale, disk, pipes, said, reading, expired, told,
                 restarts>>

CloseTranscript(e) ==
  /\ Does(e, "close") /\ Goto(e, "proxy")
  /\ logging' = logging \ {ender[e].session}
  /\ UNCHANGED <<server, start, sessions, stale, worktrees, sockets, files, process, reading,
                 expired, told, restarts>>

StopProxy(e) ==
  /\ Does(e, "proxy") /\ Goto(e, "upload")
  /\ sockets' = sockets \ {ender[e].session}
  /\ UNCHANGED <<server, start, sessions, stale, worktrees, files, logging, process, reading,
                 expired, told, restarts>>

(* Mutant: the transcript is deleted whether the upload worked or not. *)
UploadsAndDeletes(e) ==
  LET s == ender[e].session IN
  /\ Does(e, "upload") /\ Goto(e, "clean")
  /\ uploaded' = [uploaded EXCEPT ![s] = logged[s]] \/ UNCHANGED uploaded
  /\ files' = files \ {s}
  /\ UNCHANGED <<row, stored, start, sessions, stale, worktrees, sockets, logging, process,
                 reading, expired, told, restarts>>

(* The transcript is deleted once the server has confirmed that it has it;
   it may have it without that. *)
UploadJSONL(e) ==
  LET s == ender[e].session IN
  /\ Does(e, "upload") /\ Goto(e, "clean")
  /\ \/ uploaded' = [uploaded EXCEPT ![s] = logged[s]] /\ files' = files \ {s}
     \/ uploaded' = [uploaded EXCEPT ![s] = logged[s]] /\ UNCHANGED files
     \/ UNCHANGED <<uploaded, files>>
  /\ UNCHANGED <<row, stored, start, sessions, stale, worktrees, sockets, logging, process,
                 reading, expired, told, restarts>>

(* A worktree that cannot be removed is logged and left. *)
RemoveWorktree(e) ==
  /\ Does(e, "clean") /\ Goto(e, "tell")
  /\ \/ worktrees' = worktrees \ {ender[e].session}
     \/ UNCHANGED worktrees
  /\ UNCHANGED <<server, start, sessions, stale, sockets, files, logging, process, reading,
                 expired, told, restarts>>

SendEnd(e) ==
  /\ Does(e, "tell")
  /\ told' = told \cup {ender[e].session}
  /\ ender' = [ender EXCEPT ![e] = Free]
  /\ UNCHANGED <<server, start, sessions, stale, disk, process, reading, expired, restarts>>

EndStep(e) ==
  \/ Stopped(e) \/ TimesOut(e) \/ CloseTranscript(e) \/ StopProxy(e)
  \/ UploadJSONL(e) \/ RemoveWorktree(e) \/ SendEnd(e)

---------------------------------------------------------------------------
(* The daemon is stopped or dies, and is started again: nothing is ended or
   cleaned up, neither before nor after.  Claude finds its input closed. *)
Restart ==
  /\ restarts < MaxRestarts
  /\ restarts' = restarts + 1
  /\ sessions' = {} /\ stale' = {} /\ expired' = {}
  /\ sockets' = {} /\ logging' = {} /\ pipes' = {}
  /\ start' = [s \in Sessions |-> IF start[s] \in {"none", "done"} THEN start[s] ELSE "failed"]
  /\ reader' = [s \in Sessions |-> IF reader[s] = "none" THEN "none" ELSE "waiting"]
  /\ ender' = [e \in Enders |-> Free]
  /\ UNCHANGED <<server, worktrees, files, claude, said, scanned, logged, turns, puts, told>>

Next ==
  \/ \E s \in Sessions :
       \/ CreateSession(s) \/ EndRow(s)
       \/ \E n \in 1 .. MaxTurns : UpdateTokenUsage(s, n) \/ UploadOfUsageFails(s, n)
       \/ ReceiveStart(s) \/ CreateWorktree(s) \/ WriteAgents(s) \/ StartProxy(s)
       \/ StartClaude(s) \/ Register(s) \/ Greet(s) \/ StartFails(s)
       \/ ClaudeWrites(s) \/ ClaudeExits(s)
       \/ \E result \in BOOLEAN : ReadLine(s, result)
       \/ StopsReading(s) \/ Wait(s)
       \/ RefreshActivity(s) \/ EndByUser(s) \/ TimePasses(s) \/ EndExpired(s)
  \/ CheckTTL
  \/ \E e \in Enders : EndStep(e)
  \/ Restart

Spec == Init /\ [][Next]_vars

(* The TTL checker ticks every minute; EndSession never waits without a
   timeout, on Claude, on the server or on git. *)
Fairness ==
  /\ WF_vars(CheckTTL)
  /\ \A s \in Sessions : WF_vars(EndExpired(s))
  /\ \A e \in Enders : WF_vars(EndStep(e))

FairSpec == Spec /\ Fairness

---------------------------------------------------------------------------
(* Types of the state. *)
TypeOK ==
  /\ row \in [Sessions -> {"none", "active", "ended"}]
  /\ stored \in [Sessions -> 0 .. MaxTurns] /\ uploaded \in [Sessions -> 0 .. MaxLines]
  /\ start \in [Sessions -> {"none", "sent", "worktree", "agents", "proxy", "claude", "register",
                             "greet", "done", "failed"}]
  /\ stale \subseteq sessions /\ sessions \subseteq Sessions
  /\ worktrees \subseteq Sessions /\ sockets \subseteq Sessions
  /\ logging \subseteq files /\ files \subseteq Sessions
  /\ claude \in [Sessions -> {"none", "running", "exited"}]
  /\ pipes \subseteq Sessions
  /\ reader \in [Sessions -> {"none", "scanning", "waiting"}]
  /\ said \in [Sessions -> 0 .. MaxLines] /\ scanned \in [Sessions -> 0 .. MaxLines]
  /\ logged \in [Sessions -> 0 .. MaxLines]
  /\ turns \in [Sessions -> 0 .. MaxTurns]
  /\ \A s \in Sessions : logged[s] <= scanned[s] /\ scanned[s] <= said[s]
  /\ puts \in [Sessions -> SUBSET (1 .. MaxTurns)]
  /\ ender \in [Enders -> Ending \cup {Free}]
  /\ expired \subseteq Sessions /\ told \subseteq Sessions
  /\ restarts \in 0 .. MaxRestarts

(* What was written to a transcript is not lost, although the reader may    *)
(* still be at work when the session is ended: until the server has all of  *)
(* it, the file is there.                                                   *)
TranscriptKept ==
  \A s \in Sessions : logged[s] > 0 => s \in files \/ uploaded[s] = logged[s]

(* The user and the TTL checker never end the same session both, whatever   *)
(* the checker has collected before: the transcript would be closed and     *)
(* uploaded twice, the second time after it was deleted.                    *)
EndedOnce ==
  /\ \A d, e \in Enders : d # e /\ ender[d] # Free => ender[d].session # ender[e].session
  /\ \A e \in Enders : ender[e].session \notin sessions \cup told

(* When the dashboard is told that a session has ended, its Claude is gone  *)
(* and its proxy, which speaks for the daemon, is too, and never come back. *)
EndedIsReleased ==
  \A s \in told : claude[s] = "exited" /\ s \notin sockets \cup sessions \cup logging

(* A session that is left alone for the TTL ends (README: "30-minute idle   *)
(* TTL"), even if its Claude does not react, unless it is used again or the *)
(* daemon is restarted first.                                               *)
IdleSessionsEnd ==
  \A s \in Sessions : \A n \in 0 .. MaxRestarts :
    s \in stale /\ restarts = n ~> s \in told \/ s \in sessions \ stale \/ restarts # n

(* All of it together: with the two that may end it, the reader that lags   *)
(* behind and the restarts, a session lives as ChatLife has it.              *)
EndsAt(s, steps) == \E e \in Enders : ender[e].session = s /\ ender[e].step \in steps

PhaseOf(s) ==
  IF s \in told THEN "over"
  ELSE IF EndsAt(s, {"wait", "close"}) THEN "ending"
  ELSE IF EndsAt(s, {"proxy", "upload", "clean", "tell"}) THEN "sealed"
  ELSE IF s \in sessions THEN "open"
  ELSE IF start[s] = "none" THEN "none"
  ELSE IF start[s] \in {"greet", "done", "failed"} THEN "lost"
  ELSE "starting"

Life == INSTANCE ChatLife WITH
  phase <- [s \in Sessions |-> PhaseOf(s)],
  kept  <- logged,
  given <- uploaded

RefinesLife == Life!Spec

---------------------------------------------------------------------------
(* What the README says of planning chats ("persists the full conversation  *)
(* on session end"): a transcript the server has confirmed has every line   *)
(* Claude wrote.                                                            *)
FullConversation == \A s \in told : s \notin files => uploaded[s] = said[s]
=============================================================================
