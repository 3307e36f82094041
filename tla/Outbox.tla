------------------------------- MODULE Outbox -------------------------------
(***************************************************************************)
(* The durable attestation record of the enforcer: the JSONL spool, the    *)
(* consumer goroutine that appends to it, the submitter goroutine that     *)
(* drains it into Rekor behind a checkpoint file, and the transparency log *)
(* itself (external).  Source: enforcer/internal/outbox/outbox.go, with    *)
(* the caller's half of an append from enforcer/internal/api/drops.go and  *)
(* the answers of enforcer/internal/rekor/rekor.go.                        *)
(*                                                                         *)
(* The file is a sequence of cells.  A cell is either an entry (its whole  *)
(* JSON line, newline included) or Frag, bytes of an entry that hold no    *)
(* newline.  A byte offset is the number of cells before it, so all lines  *)
(* count as equally long.                                                  *)
(***************************************************************************)
EXTENDS Naturals, Sequences, FiniteSets

CONSTANTS
  Entries,     \* spool entries: one per signed breach event
  Frag,        \* a fragment of a line, without its newline
  Faults,      \* which kinds of failure the environment may produce
  MaxCrashes   \* bound on process crashes and power losses together

AllFaults ==
  {"shortWrite",       \* a write fails, maybe after some of its bytes
   "syncError",        \* an fsync of the spool fails
   "checkpointError",  \* the checkpoint file cannot be written
   "readError",        \* the checkpoint cannot be read, or the spool not be opened
   "shortRead",        \* a read of the spool fails before the end of the file
   "powerLoss"}        \* the machine dies

ASSUME FragAssumption == Frag \notin Entries
ASSUME FaultsAssumption == Faults \subseteq AllFaults
ASSUME MaxCrashesAssumption == MaxCrashes \in Nat

None == Frag   \* "no entry": a value that is not an entry

VARIABLES
  \* on disk
  spool,       \* the spool file, as the page cache shows it
  synced,      \* number of cells of it that an fsync has covered
  ckpt,        \* the value in the checkpoint file (a missing file is 0)
  \* the process
  kick,        \* tokens in the capacity-one OutboxKick channel
  cpc,         \* where ConsumeDrops is
  cur,         \* the entry ConsumeDrops is appending
  spc,         \* where Run / drainOnce is; "down" while the process is not running
  off,         \* the submitter's watermark, in memory
  began,       \* where Run began: at the "checkpoint", or, unable to read it, at "zero"
  lim,         \* end of the batch ReadFrom returned: entries off+1 .. lim
  \* the outside world and bookkeeping
  inflight,    \* entries in requests that were sent to Rekor and may land
  rekor,       \* the transparency log
  outcome,     \* how the append of each entry ended
  crashes      \* crashes and power losses so far

disk == <<spool, synced, ckpt>>
consumer == <<cpc, cur, outcome>>
submitter == <<spc, off, lim, began>>
log == <<inflight, rekor>>
vars == <<disk, kick, consumer, submitter, log, crashes>>

TypeOK ==
  /\ spool \in Seq(Entries \cup {Frag})
  /\ synced \in Nat
  /\ ckpt \in Nat
  /\ kick \in 0..1
  /\ cpc \in {"idle", "write", "sync", "kick"}
  /\ cur \in Entries \cup {None}
  /\ spc \in {"down", "start", "drain", "submit", "await", "checkpoint", "wait", "backoff"}
  /\ off \in Nat
  /\ lim \in Nat
  /\ began \in {"checkpoint", "zero"}
  /\ inflight \in SUBSET Entries
  /\ rekor \in Seq(Entries)
  /\ outcome \in [Entries -> {"new", "pending", "acked", "failed"}]
  /\ crashes \in Nat

Init ==
  /\ spool = <<>> /\ synced = 0 /\ ckpt = 0
  /\ kick = 0
  /\ cpc = "idle" /\ cur = None
  /\ spc = "down" /\ off = 0 /\ lim = 0 /\ began = "checkpoint"
  /\ inflight = {} /\ rekor = <<>>
  /\ outcome = [e \in Entries |-> "new"]
  /\ crashes = 0

InRekor(e) == \E i \in 1..Len(rekor) : rekor[i] = e

Acked(e) == outcome[e] = "acked"

Replaying == began = "zero"
-----------------------------------------------------------------------------
(* The consumer: ConsumeDrops with Spool.Append inlined, write and fsync   *)
(* being separate steps that the submitter can run between.                *)

\* recordDrop returned a signed entry; breach ids are fresh, so each entry
\* is appended at most once.
TakeEntry(e) ==
  /\ spc # "down" /\ cpc = "idle" /\ outcome[e] = "new"
  /\ cur' = e
  /\ cpc' = "write"
  /\ outcome' = [outcome EXCEPT ![e] = "pending"]
  /\ UNCHANGED <<disk, kick, submitter, log, crashes>>

\* Append returned an error: the loss is counted and the submitter not kicked.
GiveUp ==
  /\ cpc' = "idle"
  /\ cur' = None
  /\ outcome' = [outcome EXCEPT ![cur] = "failed"]

WriteLine ==
  /\ cpc = "write"
  /\ spool' = Append(spool, cur)
  /\ cpc' = "sync"
  /\ UNCHANGED <<synced, ckpt, kick, cur, outcome, submitter, log, crashes>>

\* Write failed, possibly after some of the bytes reached the file.
WriteFails ==
  /\ "shortWrite" \in Faults
  /\ cpc = "write"
  /\ spool' \in {spool, Append(spool, Frag)}
  /\ GiveUp
  /\ UNCHANGED <<synced, ckpt, kick, submitter, log, crashes>>

\* Mutant of SyncLine: Append returns without the fsync.
SyncLineSkipped ==
  /\ cpc = "sync"
  /\ outcome' = [outcome EXCEPT ![cur] = "acked"]
  /\ cpc' = "kick"
  /\ UNCHANGED <<disk, kick, cur, submitter, log, crashes>>

SyncLine ==
  /\ cpc = "sync"
  /\ synced' = Len(spool)
  /\ outcome' = [outcome EXCEPT ![cur] = "acked"]
  /\ cpc' = "kick"
  /\ UNCHANGED <<spool, ckpt, kick, cur, submitter, log, crashes>>

SyncFails ==
  /\ "syncError" \in Faults
  /\ cpc = "sync"
  /\ GiveUp
  /\ UNCHANGED <<disk, kick, submitter, log, crashes>>

\* Mutant of Kick: an unbuffered channel, so a send nobody waits for is lost.
KickUnbuffered ==
  /\ cpc = "kick"
  /\ kick' = IF spc = "wait" THEN 1 ELSE 0
  /\ cpc' = "idle"
  /\ cur' = None
  /\ UNCHANGED <<disk, outcome, submitter, log, crashes>>

\* Non-blocking send on a channel of capacity one.
Kick ==
  /\ cpc = "kick"
  /\ kick' = 1
  /\ cpc' = "idle"
  /\ cur' = None
  /\ UNCHANGED <<disk, outcome, submitter, log, crashes>>
-----------------------------------------------------------------------------
(* The submitter: Run, drainOnce, ReadFrom, SetCheckpoint.                 *)

\* Mutant of ReadCheckpoint: off by one.
ReadCheckpointOffByOne ==
  /\ spc = "start"
  /\ off' = ckpt - 1
  /\ spc' = "drain"
  /\ UNCHANGED <<disk, kick, consumer, lim, began, log, crashes>>

ReadCheckpoint ==
  /\ spc = "start"
  /\ off' = ckpt
  /\ spc' = "drain"
  /\ UNCHANGED <<disk, kick, consumer, lim, began, log, crashes>>

\* "replaying from 0 (duplicates are 409-safe)".
ReadCheckpointFails ==
  /\ "readError" \in Faults
  /\ spc = "start"
  /\ off' = 0
  /\ began' = "zero"
  /\ spc' = "drain"
  /\ UNCHANGED <<disk, kick, consumer, lim, log, crashes>>

\* ReadFrom(off) succeeds and returns the entries off+1 .. k: every cell up to
\* k is a whole line and only an unfinished line follows.
Readable(k) ==
  /\ k >= off
  /\ \A i \in off+1..Len(spool) : (i <= k) <=> (spool[i] # Frag)

\* drainOnce goes on with the batch, or reports success when it is used up.
NextInBatch(o, l) == IF o = l THEN "wait" ELSE "submit"

ReadPending ==
  /\ spc = "drain"
  /\ \E k \in {off} \cup 1..Len(spool) :
       /\ Readable(k)
       /\ lim' = k
       /\ spc' = NextInBatch(off, k)
  /\ UNCHANGED <<disk, kick, consumer, off, began, log, crashes>>

\* An unparseable line anywhere after off: drainOnce drops the records read
\* before it and reports failure.
ReadCorrupt ==
  /\ spc = "drain"
  /\ ~ \E k \in {off} \cup 1..Len(spool) : Readable(k)
  /\ spc' = "backoff"
  /\ UNCHANGED <<disk, kick, consumer, off, lim, began, log, crashes>>

\* The file cannot be opened, or not be positioned at off.
ReadFails ==
  /\ "readError" \in Faults
  /\ spc = "drain"
  /\ spc' = "backoff"
  /\ UNCHANGED <<disk, kick, consumer, off, lim, began, log, crashes>>

\* A read that fails is taken for the end of the file: the lines before it are returned
\* as if they were all.
ReadCutShort ==
  /\ "shortRead" \in Faults
  /\ spc = "drain"
  /\ \E k \in {off} \cup off+1..Len(spool) :
       /\ \A i \in off+1..k : spool[i] # Frag
       /\ lim' = k
       /\ spc' = NextInBatch(off, k)
  /\ UNCHANGED <<disk, kick, consumer, off, began, log, crashes>>

Submit ==
  /\ spc = "submit"
  /\ inflight' = inflight \cup {spool[off + 1]}
  /\ spc' = "await"
  /\ UNCHANGED <<disk, kick, consumer, off, lim, began, rekor, crashes>>

\* 201, or 409 for an entry that is already in the log.
SubmitSucceeds ==
  /\ spc = "await"
  /\ InRekor(spool[off + 1])
  /\ off' = off + 1
  /\ spc' = "checkpoint"
  /\ UNCHANGED <<disk, kick, consumer, lim, began, log, crashes>>

\* Mutant of SubmitFails: the failed entry is skipped.
SubmitFailsSkips ==
  /\ spc = "await"
  /\ off' = off + 1
  /\ spc' = "backoff"
  /\ UNCHANGED <<disk, kick, consumer, lim, began, log, crashes>>

\* Mutant of SubmitFails: the watermark is not handed back to Run.
SubmitFailsForgets ==
  /\ spc = "await"
  /\ off' = 0
  /\ spc' = "backoff"
  /\ UNCHANGED <<disk, kick, consumer, lim, began, log, crashes>>

\* Any other answer, none within the timeout, or one that cannot be parsed:
\* the request may have been or may still be accepted.
SubmitFails ==
  /\ spc = "await"
  /\ spc' = "backoff"
  /\ UNCHANGED <<disk, kick, consumer, off, lim, began, log, crashes>>

\* Mutant of SetCheckpoint: the whole batch is checkpointed at once.
SetCheckpointBatch ==
  /\ spc = "checkpoint"
  /\ ckpt' = lim
  /\ spc' = NextInBatch(off, lim)
  /\ UNCHANGED <<spool, synced, kick, consumer, off, lim, began, log, crashes>>

SetCheckpoint ==
  /\ spc = "checkpoint"
  /\ ckpt' = off
  /\ spc' = NextInBatch(off, lim)
  /\ UNCHANGED <<spool, synced, kick, consumer, off, lim, began, log, crashes>>

SetCheckpointFails ==
  /\ "checkpointError" \in Faults
  /\ spc = "checkpoint"
  /\ spc' = "backoff"
  /\ UNCHANGED <<disk, kick, consumer, off, lim, began, log, crashes>>

AwaitKick ==
  /\ spc = "wait" /\ kick = 1
  /\ kick' = 0
  /\ spc' = "drain"
  /\ UNCHANGED <<disk, consumer, off, lim, began, log, crashes>>

Backoff ==
  /\ spc = "backoff"
  /\ spc' = "drain"
  /\ UNCHANGED <<disk, kick, consumer, off, lim, began, log, crashes>>
-----------------------------------------------------------------------------
(* Rekor (external): a request that was sent is accepted at any later time *)
(* or never; an entry already in the log is not added again.               *)

RekorAccepts(e) ==
  /\ e \in inflight
  /\ inflight' = inflight \ {e}
  /\ rekor' = IF InRekor(e) THEN rekor ELSE Append(rekor, e)
  /\ UNCHANGED <<disk, kick, consumer, submitter, crashes>>

RequestLost(e) ==
  /\ e \in inflight
  /\ inflight' = inflight \ {e}
  /\ UNCHANGED <<disk, kick, consumer, submitter, rekor, crashes>>
-----------------------------------------------------------------------------
(* The process: Open at start, crashes, loss of power.                     *)

\* Mutant of Open: the torn tail is left in place.
OpenKeepsTail ==
  /\ spc = "down"
  /\ spc' = "start"
  /\ UNCHANGED <<disk, kick, consumer, off, lim, began, log, crashes>>

\* truncateTornTail cuts the file back to its last whole line; main then
\* starts both goroutines.
Open ==
  /\ spc = "down"
  /\ \E k \in 0..Len(spool) :
       /\ k > 0 => spool[k] # Frag
       /\ \A i \in k+1..Len(spool) : spool[i] = Frag
       /\ spool' = SubSeq(spool, 1, k)
       /\ synced' = IF synced < k THEN synced ELSE k
  /\ spc' = "start"
  /\ UNCHANGED <<ckpt, kick, consumer, off, lim, began, log, crashes>>

\* Everything in memory is gone; the files and the requests already sent are not.
ProcessEnds ==
  /\ crashes < MaxCrashes
  /\ crashes' = crashes + 1
  /\ kick' = 0
  /\ cpc' = "idle" /\ cur' = None
  /\ spc' = "down" /\ off' = 0 /\ lim' = 0 /\ began' = "checkpoint"
  /\ UNCHANGED <<outcome, log>>

\* The process dies, possibly in the middle of a write.
Crash ==
  /\ spc # "down"
  /\ ProcessEnds
  /\ spool' \in {spool} \cup (IF cpc = "write" THEN {Append(spool, Frag)} ELSE {})
  /\ UNCHANGED <<synced, ckpt>>

\* The machine dies: cells no fsync covered may be lost, the first of them torn.
\* The rename of the checkpoint may be undone too, as its directory is never
\* synced: an offset it had before comes back, which is a smaller one, or one that a
\* replay had gone behind.
PowerLoss ==
  /\ "powerLoss" \in Faults
  /\ ProcessEnds
  /\ \E k \in synced..Len(spool) :
       /\ \/ spool' = SubSeq(spool, 1, k)
          \/ k < Len(spool) /\ spool' = Append(SubSeq(spool, 1, k), Frag)
       /\ synced' = Len(spool')
  /\ ckpt' \in 0..ckpt \cup (IF Replaying THEN 0..Len(rekor) ELSE {})
-----------------------------------------------------------------------------
Consumer ==
  \/ \E e \in Entries : TakeEntry(e)
  \/ WriteLine \/ WriteFails \/ SyncLine \/ SyncFails \/ Kick

Submitter ==
  \/ ReadCheckpoint \/ ReadCheckpointFails
  \/ ReadPending \/ ReadCorrupt \/ ReadFails \/ ReadCutShort
  \/ Submit \/ SubmitSucceeds \/ SubmitFails
  \/ SetCheckpoint \/ SetCheckpointFails
  \/ AwaitKick \/ Backoff

Rekor == \E e \in Entries : RekorAccepts(e) \/ RequestLost(e)

Next == Consumer \/ Submitter \/ Rekor \/ Open \/ Crash \/ PowerLoss

Spec == Init /\ [][Next]_vars

\* The Go scheduler runs both goroutines, systemd restarts the process, and
\* Rekor is reachable again and again: a request that is sent over and over is
\* accepted in the end, and an answer that is awaited over and over arrives.  A file
\* that is opened over and over is read in the end.
Fairness ==
  /\ WF_vars(WriteLine \/ WriteFails) /\ WF_vars(SyncLine \/ SyncFails) /\ WF_vars(Kick)
  /\ WF_vars(Submitter)
  /\ WF_vars(Open)
  /\ \A e \in Entries : SF_vars(RekorAccepts(e))
  /\ SF_vars(SubmitSucceeds) /\ SF_vars(ReadPending)

FairSpec == Spec /\ Fairness
-----------------------------------------------------------------------------
(* Properties. *)

\* The log holds exactly the first lines of the spool, in the spool's order and
\* once each, whatever is retried, answered late, read in part, replayed after a
\* restart or from 0, or torn by a crash (Run, drainOnce and "409-on-duplicate", outbox.go:146-148).
LoggedInOrder ==
  /\ Len(rekor) <= Len(spool)
  /\ \A i \in 1..Len(rekor) : rekor[i] = spool[i]

\* Checkpoint "returns the byte offset up to which every entry has been accepted
\* by Rekor" (outbox.go:128-129): no whole line at or below it is unsubmitted.
CheckpointCovered ==
  \A i \in 1..Len(spool) : i <= ckpt /\ spool[i] # Frag => InRekor(spool[i])

\* An entry whose Append succeeded stays in the spool through crashes and losses
\* of power: Append "fsyncs before returning" (outbox.go:74-75) and Open only
\* cuts off a line that "was never fsync-acknowledged" (outbox.go:55-58).
AckedDurable ==
  \A e \in Entries : Acked(e) => \E i \in 1..synced : spool[i] = e

\* The submitter never sleeps on an empty kick channel while an entry whose
\* Append succeeded is not in the log, unless that entry's kick is still to come
\* (the capacity-one channel of main.go and the select of drops.go:59-63).  It does
\* where a read is cut short, which ReadFrom hides.
NoLostWakeup ==
  spc = "wait" /\ kick = 0 /\ cpc # "kick" => \A e \in Entries : Acked(e) => InRekor(e)

\* The checkpoint file moves backwards in no process but one that could not read it and
\* replays from 0: "a restart resumes exactly where acceptance stopped"
\* (outbox.go:196-198), and a failed submission, checkpoint or read goes on from there.
RetreatsOnlyInReplay == [][ckpt' < ckpt => Replaying]_vars

\* Every entry whose Append succeeded reaches the log in the end ("drainOnce
\* submits every pending entry, checkpointing after each", outbox.go:232).
AckedIsLogged == \A e \in Entries : Acked(e) ~> InRekor(e)
=============================================================================
