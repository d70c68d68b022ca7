----------------------------- MODULE Resources -----------------------------
(***************************************************************************)
(* The daemon's cache of the server's resources.  The server sends its     *)
(* manifest on each connection; each manifest is worked off by a goroutine *)
(* of its own, one entry after the other.  The entries have nothing to do  *)
(* with each other, so there is one resource, in several versions.         *)
(***************************************************************************)
EXTENDS Builds

CONSTANTS
  Syncs,         \* bound: manifests that are worked off at the same time
  MaxReleases    \* bound: versions of the resource

ASSUME ResourcesAssumption == MaxReleases \in Nat \ {0}

VARIABLES
  offered,     \* server: the version of its manifest
  manifest,    \* a manifest on its way, or 0
  sync,        \* Sync, for each manifest
  known,       \* rc.manifest: the version in the cache, or 0
  cached,      \* the file: a version, or what is left of a write
  overlapped,  \* two different versions were being synced at the same time
  spoiled      \* a write failed on the file of a version known or about to be

resourcesVars == <<offered, manifest, sync, known, cached, overlapped, spoiled>>

Releases == 1..MaxReleases
Missing == 0
Torn == MaxReleases + 1

NoSync == [step |-> "idle", want |-> 0]

ResourcesInit ==
  /\ offered = 1 /\ manifest = 0
  /\ sync = [s \in Syncs |-> NoSync]
  /\ known = 0 /\ cached = Missing
  /\ overlapped = FALSE /\ spoiled = FALSE

(* A server of another version: it reads its resources when it starts. *)
Release(v) ==
  /\ Happens("release") /\ ~online /\ v # offered
  /\ offered' = v
  /\ UNCHANGED <<manifest, sync, known, cached, overlapped, spoiled>>

SyncAt(s, step) == sync[s].step = step

SyncTo(s, step) == sync' = [sync EXCEPT ![s].step = step]

SyncDone(s) == sync' = [sync EXCEPT ![s] = NoSync]

(* handleResourceManifest *)
ReceiveManifest(s) ==
  /\ Happens("resources")
  /\ manifest # 0 /\ link = "open" /\ SyncAt(s, "idle")
  /\ sync' = [sync EXCEPT ![s] = [step |-> "compare", want |-> manifest]]
  /\ manifest' = 0
  /\ overlapped' = (overlapped \/ \E other \in Syncs :
                      ~SyncAt(other, "idle") /\ sync[other].want # manifest)
  /\ UNCHANGED <<offered, known, cached, spoiled>>

(* The file is looked at when the map does not know the version. *)
Compare(s) ==
  /\ SyncAt(s, "compare")
  /\ IF known = sync[s].want THEN SyncDone(s) ELSE SyncTo(s, "hash")
  /\ UNCHANGED <<offered, manifest, known, cached, overlapped, spoiled>>

HashFile(s) ==
  /\ SyncAt(s, "hash")
  /\ SyncTo(s, IF cached = sync[s].want THEN "note" ELSE "download")
  /\ UNCHANGED <<offered, manifest, known, cached, overlapped, spoiled>>

Authorized == online /\ Takes(token)

(* Mutant: the hash of what was downloaded is not verified. *)
VerifiedAlways(s) == TRUE

(* What the server has now is the version of the manifest. *)
Verified(s) == offered = sync[s].want

Download(s) ==
  /\ SyncAt(s, "download")
  /\ Authorized /\ Verified(s)
  /\ SyncTo(s, "open")
  /\ UNCHANGED <<offered, manifest, known, cached, overlapped, spoiled>>

(* Nothing tries again until the next manifest. *)
DownloadFails(s) ==
  /\ SyncAt(s, "download")
  /\ ~Authorized \/ ~Verified(s)
  /\ SyncDone(s)
  /\ UNCHANGED <<offered, manifest, known, cached, overlapped, spoiled>>

(* os.WriteFile empties the file and then fills it. *)
OpenFile(s) ==
  /\ SyncAt(s, "open")
  /\ cached' = Torn
  /\ SyncTo(s, "write")
  /\ UNCHANGED <<offered, manifest, known, overlapped, spoiled>>

WriteFile(s) ==
  /\ SyncAt(s, "write")
  /\ cached' = sync[s].want
  /\ SyncTo(s, "note")
  /\ UNCHANGED <<offered, manifest, known, overlapped, spoiled>>

(* Mutant: a write that failed is noted like one that did not. *)
WriteFailsNoted(s) ==
  /\ SyncAt(s, "write") /\ Happens("disk_full")
  /\ SyncDone(s) /\ known' = sync[s].want
  /\ spoiled' = (spoiled \/ known # 0 \/ \E other \in Syncs \ {s} : ~SyncAt(other, "idle"))
  /\ UNCHANGED <<offered, manifest, cached, overlapped>>

(* The disk is full.  What the map knows of the old file stays. *)
WriteFails(s) ==
  /\ SyncAt(s, "write") /\ Happens("disk_full")
  /\ SyncDone(s)
  /\ spoiled' = (spoiled \/ known # 0 \/ \E other \in Syncs \ {s} : ~SyncAt(other, "idle"))
  /\ UNCHANGED <<offered, manifest, known, cached, overlapped>>

Note(s) ==
  /\ SyncAt(s, "note")
  /\ known' = sync[s].want
  /\ SyncDone(s)
  /\ UNCHANGED <<offered, manifest, cached, overlapped, spoiled>>

(* The file stays as it is; the map is gone, and with it what it got wrong. *)
SyncsDie ==
  /\ sync' = [s \in Syncs |-> NoSync]
  /\ known' = 0 /\ manifest' = 0
  /\ overlapped' = FALSE /\ spoiled' = FALSE
  /\ UNCHANGED <<offered, cached>>

(* The server sends its manifest after the upgrade, unless the hub has not
   registered the connection yet. *)
Greet ==
  /\ manifest' \in {0, offered}
  /\ UNCHANGED <<offered, sync, known, cached, overlapped, spoiled>>

LinkLost ==
  /\ manifest' = 0
  /\ UNCHANGED <<offered, sync, known, cached, overlapped, spoiled>>

ResourcesStep ==
  \/ \E v \in Releases : Release(v)
  \/ \E s \in Syncs :
       \/ ReceiveManifest(s) \/ Compare(s) \/ HashFile(s)
       \/ Download(s) \/ DownloadFails(s)
       \/ OpenFile(s) \/ WriteFile(s) \/ WriteFails(s) \/ Note(s)

---------------------------------------------------------------------------
(* Properties. *)

ResourcesTypeOK ==
  /\ offered \in Releases /\ manifest \in Releases \cup {0}
  /\ sync \in [Syncs -> [step : {"idle", "compare", "hash", "download", "open", "write",
                                 "note"},
                         want : Releases \cup {0}]]
  /\ known \in Releases \cup {0}
  /\ cached \in 0..Torn

(* What the map says is in the cache is there, once nobody writes it: what
   was half written when the process died is written again.  Two versions
   synced at the same time may leave the file of one and the note of the
   other, and a failed write the note of the file it has emptied, until the
   process ends. *)
KnownIsCached ==
  known # 0 /\ (\A s \in Syncs : sync[s].step \notin {"write", "note"})
    => known = cached \/ overlapped \/ spoiled
=============================================================================
