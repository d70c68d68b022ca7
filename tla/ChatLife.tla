------------------------------ MODULE ChatLife ------------------------------
(***************************************************************************)
(* What whoever plans with Claude may rely on, with the goroutines of the  *)
(* daemon, its map, its timers, pipes and proxies left out.                *)
(*                                                                         *)
(* A session goes one way: it is started, open, ended and over, or lost on *)
(* the way when the daemon dies or cannot start it.  It has one Claude,    *)
(* which is gone before the transcript is sealed; the transcript grows by  *)
(* what Claude says until then, never changes afterwards, and that is what *)
(* the server is given, before the session is over and while there is a    *)
(* copy of it.                                                             *)
(***************************************************************************)
EXTENDS Naturals

CONSTANT Sessions

VARIABLES
  phase,
  claude,    \* the process of each session
  said,      \* lines it has written
  kept,      \* lines in the transcript
  files,     \* transcripts that are on the disk of the daemon
  given      \* lines of the transcript that the server has

Goes(s, from, to) == phase[s] = from /\ phase' = [phase EXCEPT ![s] = to]
Growing == {"starting", "open", "ending"}

Init ==
  /\ phase = [s \in Sessions |-> "none"]
  /\ claude = [s \in Sessions |-> "none"]
  /\ said = [s \in Sessions |-> 0] /\ kept = [s \in Sessions |-> 0]
  /\ files = {}
  /\ given = [s \in Sessions |-> 0]

Ask(s) == Goes(s, "none", "starting") /\ UNCHANGED <<claude, said, kept, files, given>>

(* The transcript comes before Claude, and may be all there is of it. *)
Run(s) ==
  /\ phase[s] = "starting" /\ claude[s] = "none"
  /\ claude' = [claude EXCEPT ![s] = "running"]
  /\ files' = files \cup {s}
  /\ UNCHANGED <<phase, said, kept, given>>

Fail(s) ==
  /\ claude[s] = "none" /\ Goes(s, "starting", "lost")
  /\ files' = files \cup {s} \/ UNCHANGED files
  /\ UNCHANGED <<claude, said, kept, given>>

Open(s) ==
  /\ claude[s] # "none" /\ Goes(s, "starting", "open")
  /\ UNCHANGED <<claude, said, kept, files, given>>

Say(s) ==
  /\ claude[s] = "running" /\ said' = [said EXCEPT ![s] = @ + 1]
  /\ UNCHANGED <<phase, claude, kept, files, given>>

Exit(s) ==
  /\ claude[s] = "running" /\ claude' = [claude EXCEPT ![s] = "exited"]
  /\ UNCHANGED <<phase, said, kept, files, given>>

Note(s) ==
  /\ phase[s] \in Growing /\ s \in files
  /\ kept[s] < said[s] /\ kept' = [kept EXCEPT ![s] = @ + 1]
  /\ UNCHANGED <<phase, claude, said, files, given>>

Take(s) == Goes(s, "open", "ending") /\ UNCHANGED <<claude, said, kept, files, given>>

Seal(s) ==
  /\ claude[s] = "exited" /\ Goes(s, "ending", "sealed")
  /\ UNCHANGED <<claude, said, kept, files, given>>

HandOver(s) ==
  /\ phase[s] = "sealed" /\ s \in files
  /\ given' = [given EXCEPT ![s] = kept[s]]
  /\ files' \in {files, files \ {s}}
  /\ UNCHANGED <<phase, claude, said, kept>>

End(s) == Goes(s, "sealed", "over") /\ UNCHANGED <<claude, said, kept, files, given>>

(* The daemon dies: what it was at work on is never taken up again. *)
Crash ==
  /\ phase' = [s \in Sessions |-> IF phase[s] \in {"none", "over"} THEN phase[s] ELSE "lost"]
  /\ UNCHANGED <<claude, said, kept, files, given>>

Next ==
  \/ \E s \in Sessions :
       \/ Ask(s) \/ Run(s) \/ Fail(s) \/ Open(s) \/ Say(s) \/ Exit(s) \/ Note(s)
       \/ Take(s) \/ Seal(s) \/ HandOver(s) \/ End(s)
  \/ Crash

Spec == Init /\ [][Next]_<<phase, claude, said, kept, files, given>>
=============================================================================
