---------------------------- MODULE EventStreams ----------------------------
(***************************************************************************)
(* What the hub promises to who connects to it, without the hub: no loop,  *)
(* no channels, no goroutines, no connections.                             *)
(*                                                                         *)
(* The events form one log.  A client joins once, and from then on is owed *)
(* every event that concerns it, which it sees one by one in the order of  *)
(* the log and at its own pace, until it leaves or falls too far behind;   *)
(* what it was owed by then it may still see, and it does not come back.   *)
(***************************************************************************)
EXTENDS Naturals, FiniteSets, Sequences

CONSTANTS
  Clients, Addresses, Projects, Nothing,
  addressOf, scopeOf,
  Event,          \* records with an id and a project
  MaxClients, MaxPerAddress,
  Lag             \* how many events a client may be behind

VARIABLES
  log,            \* the events, in the order in which they are handed out
  phase,          \* of each client: "out", "following" or "over"
  owed,           \* the positions in the log that are a client's ...
  seen            \* ... and those it has seen

Following == {c \in Clients : phase[c] = "following"}
Unseen(c) == owed[c] \ seen[c]
Concerns(e, c) == e.project = Nothing \/ e.project = scopeOf[c]

Init ==
  /\ log = <<>>
  /\ phase = [c \in Clients |-> "out"]
  /\ owed = [c \in Clients |-> {}]
  /\ seen = [c \in Clients |-> {}]

Join(c) ==
  /\ phase[c] = "out"
  /\ Cardinality(Following) < MaxClients
  /\ Cardinality({d \in Following : addressOf[d] = addressOf[c]}) < MaxPerAddress
  /\ phase' = [phase EXCEPT ![c] = "following"]
  /\ UNCHANGED <<log, owed, seen>>

Over(gone) == phase' = [c \in Clients |-> IF c \in gone THEN "over" ELSE phase[c]]

(* One client leaves, or all of them are told to. *)
Leave(gone) == gone \subseteq Following /\ Over(gone) /\ UNCHANGED <<log, owed, seen>>

(* The next event is younger than all before it. *)
Publish(e) ==
  /\ \A i \in DOMAIN log : log[i].id < e.id
  /\ log' = Append(log, e)
  /\ LET concerned == {c \in Following : Concerns(e, c)}
         late == {c \in concerned : Cardinality(Unseen(c)) >= Lag}
     IN /\ Over(late)
        /\ owed' = [c \in Clients |-> IF c \in concerned \ late
                                      THEN owed[c] \cup {Len(log) + 1} ELSE owed[c]]
  /\ UNCHANGED seen

See(c) ==
  /\ \E i \in Unseen(c) :
       /\ \A j \in Unseen(c) : i <= j
       /\ seen' = [seen EXCEPT ![c] = @ \cup {i}]
  /\ UNCHANGED <<log, phase, owed>>

Next ==
  \/ \E c \in Clients : Join(c) \/ See(c)
  \/ \E gone \in SUBSET Clients : Leave(gone)
  \/ \E e \in Event : Publish(e)

Spec == Init /\ [][Next]_<<log, phase, owed, seen>>
=============================================================================
