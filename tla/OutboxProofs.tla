---------------------------- MODULE OutboxProofs ----------------------------
(***************************************************************************)
(* Proofs about Outbox for any set of entries, any set of faults and any   *)
(* number of crashes.                                                      *)
(***************************************************************************)
EXTENDS OutboxRefinement, TLAPS

(* What holds whatever fails, a loss of power included.                    *)

\* The consumer holds an entry while it appends, and the line it has written is
\* the last one until its fsync; a process that is down appends nothing.
ConsumerInv ==
  /\ cpc # "idle" => cur \in Entries /\ spc # "down"
  /\ cpc = "sync" => Len(spool) > 0 /\ spool[Len(spool)] = cur
  /\ synced <= Len(spool)

\* The rest of the submitter's batch is made of whole lines of the spool.
BatchInv ==
  /\ spc \in {"submit", "await"} => off < lim
  /\ spc \in {"submit", "await", "checkpoint"} =>
       /\ off <= lim /\ lim <= Len(spool)
       /\ \A i \in off+1..lim : spool[i] # Frag

BaseInv == TypeOK /\ ConsumerInv /\ BatchInv /\ AckedDurable

LEMMA BaseInit == Init => BaseInv
BY FragAssumption
   DEF Init, BaseInv, TypeOK, ConsumerInv, BatchInv, AckedDurable, Acked, None

LEMMA BaseNext == BaseInv /\ [Next]_vars => BaseInv'
<1> SUFFICES ASSUME BaseInv, [Next]_vars PROVE BaseInv'
  OBVIOUS
<1> USE FragAssumption
        DEF disk, consumer, submitter, log, vars, BaseInv, TypeOK, ConsumerInv, BatchInv,
            AckedDurable, Acked, None, Replaying
<1>1. ASSUME NEW e \in Entries, TakeEntry(e) PROVE BaseInv'
  BY <1>1 DEF TakeEntry
<1>2. CASE WriteLine
  BY <1>2 DEF WriteLine
<1>3. CASE WriteFails
  <2>1. CASE spool' = spool
    BY <1>3, <2>1 DEF WriteFails, GiveUp
  <2>2. CASE spool' = Append(spool, Frag)
    BY <1>3, <2>2 DEF WriteFails, GiveUp
  <2>3. QED
    BY <1>3, <2>1, <2>2 DEF WriteFails
<1>4. CASE SyncLine
  BY <1>4 DEF SyncLine
<1>5. CASE SyncFails
  BY <1>5 DEF SyncFails, GiveUp
<1>6. CASE Kick
  BY <1>6 DEF Kick
<1>7. CASE ReadCheckpoint \/ ReadCheckpointFails
  BY <1>7 DEF ReadCheckpoint, ReadCheckpointFails
<1>8. CASE ReadPending \/ ReadCutShort
  <2>1. CASE ReadPending
    BY <2>1 DEF ReadPending, Readable, NextInBatch
  <2>2. CASE ReadCutShort
    BY <2>2 DEF ReadCutShort, NextInBatch
  <2>3. QED
    BY <1>8, <2>1, <2>2
<1>9. CASE ReadCorrupt \/ ReadFails
  BY <1>9 DEF ReadCorrupt, ReadFails
<1>10. CASE Submit
  BY <1>10 DEF Submit
<1>11. CASE SubmitSucceeds
  BY <1>11 DEF SubmitSucceeds
<1>12. CASE SubmitFails
  BY <1>12 DEF SubmitFails
<1>13. CASE SetCheckpoint
  BY <1>13 DEF SetCheckpoint, NextInBatch
<1>14. CASE SetCheckpointFails
  BY <1>14 DEF SetCheckpointFails
<1>15. CASE AwaitKick
  BY <1>15 DEF AwaitKick
<1>16. CASE Backoff
  BY <1>16 DEF Backoff
<1>17. CASE Open
  BY <1>17 DEF Open
<1>18. CASE Crash
  <2>1. CASE spool' = spool
    BY <1>18, <2>1 DEF Crash, ProcessEnds
  <2>2. CASE spool' = Append(spool, Frag)
    BY <1>18, <2>2 DEF Crash, ProcessEnds
  <2>3. QED
    BY <1>18, <2>1, <2>2 DEF Crash
<1>19. CASE PowerLoss
  <2>1. PICK k \in synced..Len(spool) :
          /\ \/ spool' = SubSeq(spool, 1, k)
             \/ k < Len(spool) /\ spool' = Append(SubSeq(spool, 1, k), Frag)
          /\ synced' = Len(spool')
    BY <1>19 DEF PowerLoss
  <2> DEFINE kept == SubSeq(spool, 1, k)
  <2>2. /\ kept \in Seq(Entries \cup {Frag})
        /\ Len(kept) = k
        /\ \A i \in 1..k : kept[i] = spool[i]
    OBVIOUS
  <2>3. /\ spool' \in Seq(Entries \cup {Frag})
        /\ Len(spool') >= k
        /\ \A i \in 1..k : spool'[i] = spool[i]
    <3>1. spool' = kept \/ spool' = Append(kept, Frag)
      BY <2>1
    <3> HIDE DEF kept
    <3>2. CASE spool' = kept
      BY <2>2, <3>2
    <3>3. CASE spool' = Append(kept, Frag)
      BY <2>2, <3>3
    <3>4. QED
      BY <3>1, <3>2, <3>3
  <2>4. TypeOK'
    BY <1>19, <2>1, <2>3 DEF PowerLoss, ProcessEnds
  <2>5. ConsumerInv' /\ BatchInv'
    BY <1>19, <2>1, <2>3 DEF PowerLoss, ProcessEnds
  <2>6. AckedDurable'
    BY <1>19, <2>1, <2>3 DEF PowerLoss, ProcessEnds
  <2>7. QED
    BY <2>4, <2>5, <2>6 DEF BaseInv
<1>20. ASSUME NEW e \in Entries, RekorAccepts(e) PROVE BaseInv'
  BY <1>20 DEF RekorAccepts
<1>21. ASSUME NEW e \in Entries, RequestLost(e) PROVE BaseInv'
  BY <1>21 DEF RequestLost
<1>22. CASE UNCHANGED vars
  BY <1>22
<1>23. QED
  BY <1>1, <1>2, <1>3, <1>4, <1>5, <1>6, <1>7, <1>8, <1>9, <1>10, <1>11, <1>12, <1>13, <1>14, <1>15, <1>16, <1>17, <1>18, <1>19, <1>20, <1>21, <1>22
     DEF Next, Consumer, Submitter, Rekor

\* Every variable keeps its type (the state of ConsumeDrops, Run and the files).
THEOREM TypeCorrect == Spec => []TypeOK
<1>1. BaseInv => TypeOK
  BY DEF BaseInv
<1>2. QED
  BY <1>1, BaseInit, BaseNext, PTL DEF Spec

\* What Append acknowledged, no crash and no loss of power takes out of the spool.
THEOREM AcknowledgedIsDurable == Spec => []AckedDurable
<1>1. BaseInv => AckedDurable
  BY DEF BaseInv
<1>2. QED
  BY <1>1, BaseInit, BaseNext, PTL DEF Spec
-----------------------------------------------------------------------------
(* What holds as long as the machine keeps its power.                      *)

NoPowerLoss == "powerLoss" \notin Faults
NoShortRead == "shortRead" \notin Faults

\* Both watermarks stay within the log, and the one in memory never falls behind
\* the one on disk, but in a replay.
WatermarkInv ==
  /\ ckpt <= Len(rekor) /\ off <= Len(rekor)
  /\ spc \notin {"down", "start"} => ckpt <= off \/ Replaying

\* A request in flight carries an entry the log has, or the line after the last
\* one it has.
RequestInv ==
  \A e \in inflight :
    InRekor(e) \/ (Len(rekor) < Len(spool) /\ spool[Len(rekor) + 1] = e)

\* No entry is written twice: a written entry is not new, nor about to be written.
DistinctInv ==
  /\ \A i, j \in 1..Len(spool) : spool[i] # Frag /\ spool[i] = spool[j] => i = j
  /\ \A i \in 1..Len(spool) :
       spool[i] # Frag => outcome[spool[i]] # "new" /\ (cpc = "write" => spool[i] # cur)
  /\ cpc # "idle" => outcome[cur] # "new"

LogInv == LoggedInOrder /\ WatermarkInv /\ RequestInv /\ DistinctInv

LEMMA LogInit == Init => LogInv
BY FragAssumption
   DEF Init, LogInv, LoggedInOrder, WatermarkInv, Replaying, RequestInv, DistinctInv, InRekor

LEMMA LogNext ==
  ASSUME NoPowerLoss
  PROVE  BaseInv /\ LogInv /\ [Next]_vars => LogInv'
<1> SUFFICES ASSUME BaseInv, LogInv, [Next]_vars PROVE LogInv'
  OBVIOUS
<1> USE FragAssumption
        DEF disk, consumer, submitter, log, vars, BaseInv, TypeOK, ConsumerInv, BatchInv,
            LogInv, LoggedInOrder, WatermarkInv, RequestInv, DistinctInv, InRekor, None, Replaying
<1>1. ASSUME NEW e \in Entries, TakeEntry(e) PROVE LogInv'
  BY <1>1 DEF TakeEntry
<1>2. CASE WriteLine
  BY <1>2 DEF WriteLine
<1>3. CASE WriteFails
  <2>1. CASE spool' = spool
    BY <1>3, <2>1 DEF WriteFails, GiveUp
  <2>2. CASE spool' = Append(spool, Frag)
    <3>1. LoggedInOrder' /\ WatermarkInv' /\ RequestInv'
      BY <1>3, <2>2 DEF WriteFails, GiveUp
    <3>2. DistinctInv'
      BY <1>3, <2>2 DEF WriteFails, GiveUp
    <3>3. QED
      BY <3>1, <3>2 DEF LogInv
  <2>3. QED
    BY <1>3, <2>1, <2>2 DEF WriteFails
<1>4. CASE SyncLine
  BY <1>4 DEF SyncLine
<1>5. CASE SyncFails
  BY <1>5 DEF SyncFails, GiveUp
<1>6. CASE Kick
  BY <1>6 DEF Kick
<1>7. CASE ReadCheckpoint \/ ReadCheckpointFails
  <2>1. CASE ReadCheckpoint
    BY <2>1 DEF ReadCheckpoint
  <2>2. CASE ReadCheckpointFails
    <3>1. WatermarkInv'
      BY <2>2 DEF ReadCheckpointFails
    <3>2. LoggedInOrder' /\ RequestInv' /\ DistinctInv'
      BY <2>2 DEF ReadCheckpointFails
    <3>3. QED
      BY <3>1, <3>2 DEF LogInv
  <2>3. QED
    BY <1>7, <2>1, <2>2
<1>8. CASE ReadPending \/ ReadCutShort
  <2>1. CASE ReadPending
    BY <2>1 DEF ReadPending, Readable, NextInBatch
  <2>2. CASE ReadCutShort
    BY <2>2 DEF ReadCutShort, NextInBatch
  <2>3. QED
    BY <1>8, <2>1, <2>2
<1>9. CASE ReadCorrupt \/ ReadFails
  <2>1. spc = "drain" /\ spc' = "backoff" /\ UNCHANGED <<disk, kick, consumer, off, lim, began, log, crashes>>
    BY <1>9 DEF ReadCorrupt, ReadFails
  <2>2. QED
    BY <2>1
<1>10. CASE Submit
  <2>1. LoggedInOrder' /\ WatermarkInv' /\ DistinctInv'
    BY <1>10 DEF Submit
  <2>2. RequestInv'
    BY <1>10 DEF Submit
  <2>3. QED
    BY <2>1, <2>2 DEF LogInv
<1>11. CASE SubmitSucceeds
  BY <1>11 DEF SubmitSucceeds
<1>12. CASE SubmitFails
  BY <1>12 DEF SubmitFails
<1>13. CASE SetCheckpoint
  BY <1>13 DEF SetCheckpoint, NextInBatch
<1>14. CASE SetCheckpointFails
  BY <1>14 DEF SetCheckpointFails
<1>15. CASE AwaitKick
  BY <1>15 DEF AwaitKick
<1>16. CASE Backoff
  BY <1>16 DEF Backoff
<1>17. CASE Open
  <2>1. PICK k \in 0..Len(spool) :
          /\ \A i \in k+1..Len(spool) : spool[i] = Frag
          /\ spool' = SubSeq(spool, 1, k)
    BY <1>17 DEF Open
  <2>2. Len(spool') = k /\ \A i \in 1..k : spool'[i] = spool[i]
    BY <2>1
  <2>3. \A i \in 1..Len(spool) : spool[i] # Frag => i <= k
    BY <2>1
  <2>4. \A i \in 1..Len(rekor) : i <= k
    BY <2>3
  <2>5. LoggedInOrder' /\ WatermarkInv'
    BY <1>17, <2>2, <2>4 DEF Open
  <2>6. RequestInv'
    <3>1. UNCHANGED <<rekor, inflight>>
      BY <1>17 DEF Open
    <3>2. SUFFICES ASSUME NEW e \in inflight, ~InRekor(e)
                   PROVE  Len(rekor) < Len(spool') /\ spool'[Len(rekor) + 1] = e
      BY <3>1
    <3>3. Len(rekor) < Len(spool) /\ spool[Len(rekor) + 1] = e /\ e # Frag
      BY <3>2
    <3>4. Len(rekor) + 1 <= k
      BY <2>3, <3>3
    <3>5. QED
      BY <2>2, <3>3, <3>4
  <2>7. DistinctInv'
    <3>1. UNCHANGED <<cpc, cur, outcome>>
      BY <1>17 DEF Open
    <3>2. \A i \in 1..Len(spool') : i \in 1..Len(spool) /\ spool'[i] = spool[i]
      BY <2>2
    <3>3. \A m, n \in 1..Len(spool') : spool'[m] # Frag /\ spool'[m] = spool'[n] => m = n
      BY <3>2
    <3>4. \A m \in 1..Len(spool') :
            spool'[m] # Frag => outcome'[spool'[m]] # "new" /\ (cpc' = "write" => spool'[m] # cur')
      BY <3>1, <3>2
    <3>5. cpc' # "idle" => outcome'[cur'] # "new"
      BY <3>1
    <3>6. QED
      BY <3>3, <3>4, <3>5, Zenon DEF DistinctInv
  <2>8. QED
    BY <2>5, <2>6, <2>7 DEF LogInv
<1>18. CASE Crash
  <2>1. CASE spool' = spool
    BY <1>18, <2>1 DEF Crash, ProcessEnds
  <2>2. CASE spool' = Append(spool, Frag)
    BY <1>18, <2>2 DEF Crash, ProcessEnds
  <2>3. QED
    BY <1>18, <2>1, <2>2 DEF Crash
<1>19. CASE PowerLoss
  BY <1>19, NoPowerLoss DEF PowerLoss, NoPowerLoss
<1>20. ASSUME NEW e \in Entries, RekorAccepts(e) PROVE LogInv'
  <2>1. CASE InRekor(e)
    BY <1>20, <2>1 DEF RekorAccepts
  <2>2. CASE ~InRekor(e)
    <3>1. Len(rekor) < Len(spool) /\ spool[Len(rekor) + 1] = e
      BY <1>20, <2>2 DEF RekorAccepts
    <3>2. /\ Len(rekor') = Len(rekor) + 1
          /\ rekor'[Len(rekor) + 1] = e
          /\ \A i \in 1..Len(rekor) : rekor'[i] = rekor[i]
      BY <1>20, <2>2 DEF RekorAccepts
    <3>3. LoggedInOrder' /\ WatermarkInv' /\ DistinctInv'
      BY <1>20, <3>1, <3>2 DEF RekorAccepts
    <3>4. RequestInv'
      BY <1>20, <3>1, <3>2 DEF RekorAccepts
    <3>5. QED
      BY <3>3, <3>4 DEF LogInv
  <2>3. QED
    BY <2>1, <2>2
<1>21. ASSUME NEW e \in Entries, RequestLost(e) PROVE LogInv'
  BY <1>21 DEF RequestLost
<1>22. CASE UNCHANGED vars
  BY <1>22
<1>23. QED
  BY <1>1, <1>2, <1>3, <1>4, <1>5, <1>6, <1>7, <1>8, <1>9, <1>10, <1>11, <1>12, <1>13, <1>14, <1>15, <1>16, <1>17, <1>18, <1>19, <1>20, <1>21, <1>22
     DEF Next, Consumer, Submitter, Rekor

\* While no power is lost, the log is the first lines of the spool, each once and in
\* order, through every retry, late answer, crash and restart.
THEOREM LogIsSpoolPrefix ==
  ASSUME NoPowerLoss
  PROVE  Spec => []LoggedInOrder
<1>1. LogInv => LoggedInOrder
  BY DEF LogInv
<1>2. QED
  BY <1>1, BaseInit, BaseNext, LogInit, LogNext, PTL DEF Spec

\* While no power is lost, every whole line below the checkpoint file's offset has
\* been accepted by Rekor.
THEOREM CheckpointIsCovered ==
  ASSUME NoPowerLoss
  PROVE  Spec => []CheckpointCovered
<1>1. BaseInv /\ LogInv => CheckpointCovered
  BY DEF BaseInv, TypeOK, LogInv, LoggedInOrder, WatermarkInv, CheckpointCovered, InRekor
<1>2. QED
  BY <1>1, BaseInit, BaseNext, LogInit, LogNext, PTL DEF Spec

\* While no power is lost, SetCheckpoint moves the watermark forward in every process
\* that could read it at its start (RetreatsOnlyInReplay).
THEOREM CheckpointRetreatsOnlyInReplay ==
  ASSUME NoPowerLoss
  PROVE  Spec => RetreatsOnlyInReplay
<1>1. BaseInv /\ LogInv /\ [Next]_vars => [ckpt' < ckpt => Replaying]_vars
  <2> SUFFICES ASSUME BaseInv, LogInv, Next PROVE ckpt' < ckpt => Replaying
    OBVIOUS
  <2>1. CASE SetCheckpoint
    BY <2>1 DEF SetCheckpoint, BaseInv, TypeOK, LogInv, WatermarkInv
  <2>2. CASE PowerLoss
    BY <2>2, NoPowerLoss DEF PowerLoss, NoPowerLoss
  <2>3. CASE ~SetCheckpoint /\ ~PowerLoss
    <3>1. ckpt' = ckpt
      BY <2>3
         DEF Next, Consumer, Submitter, Rekor, disk, TakeEntry, WriteLine, WriteFails,
             SyncLine, SyncFails, Kick, ReadCheckpoint, ReadCheckpointFails, ReadPending, ReadCorrupt, ReadFails, ReadCutShort, Submit,
             SubmitSucceeds, SubmitFails, SetCheckpointFails, AwaitKick, Backoff,
             RekorAccepts, RequestLost, Open, Crash
    <3>2. QED
      BY <3>1 DEF BaseInv, TypeOK
  <2>4. QED
    BY <2>1, <2>2, <2>3
<1>2. QED
  BY <1>1, BaseInit, BaseNext, LogInit, LogNext, PTL DEF Spec, RetreatsOnlyInReplay
-----------------------------------------------------------------------------
(* The submitter's wake-up.                                                *)

\* An acknowledged entry that is not in the log has a kick waiting or on its way,
\* or the submitter is yet to read the spool, or has it in its batch.
WakeInv ==
  \A e \in Entries : Acked(e) =>
    \/ InRekor(e)
    \/ kick = 1
    \/ cpc = "kick"
    \/ spc \in {"down", "start", "drain", "backoff"}
    \/ spc # "wait" /\ \E i \in 1..lim : spool[i] = e

LEMMA WakeNext ==
  ASSUME NoPowerLoss, NoShortRead
  PROVE  BaseInv /\ LogInv /\ WakeInv /\ [Next]_vars => WakeInv'
<1> SUFFICES ASSUME BaseInv, LogInv, WakeInv, [Next]_vars PROVE WakeInv'
  OBVIOUS
<1> USE FragAssumption
        DEF disk, consumer, submitter, log, vars, BaseInv, TypeOK, ConsumerInv, BatchInv,
            LogInv, LoggedInOrder, WatermarkInv, AckedDurable, Acked, InRekor, None, WakeInv
<1>1. ASSUME NEW e \in Entries, TakeEntry(e) PROVE WakeInv'
  BY <1>1 DEF TakeEntry
<1>2. CASE WriteLine
  BY <1>2 DEF WriteLine
<1>3. CASE WriteFails
  <2>1. CASE spool' = spool
    BY <1>3, <2>1 DEF WriteFails, GiveUp
  <2>2. CASE spool' = Append(spool, Frag)
    BY <1>3, <2>2 DEF WriteFails, GiveUp
  <2>3. QED
    BY <1>3, <2>1, <2>2 DEF WriteFails
<1>4. CASE SyncLine
  BY <1>4 DEF SyncLine
<1>5. CASE SyncFails
  BY <1>5 DEF SyncFails, GiveUp
<1>6. CASE Kick
  BY <1>6 DEF Kick
<1>7. CASE ReadCheckpoint \/ ReadCheckpointFails
  BY <1>7 DEF ReadCheckpoint, ReadCheckpointFails
<1>8. CASE ReadPending \/ ReadCutShort
  <2>1. CASE ReadPending
    BY <2>1 DEF ReadPending, Readable, NextInBatch
  <2>2. CASE ReadCutShort
    BY <2>2, NoShortRead DEF ReadCutShort, NoShortRead
  <2>3. QED
    BY <1>8, <2>1, <2>2
<1>9. CASE ReadCorrupt \/ ReadFails
  BY <1>9 DEF ReadCorrupt, ReadFails
<1>10. CASE Submit
  BY <1>10 DEF Submit
<1>11. CASE SubmitSucceeds
  BY <1>11 DEF SubmitSucceeds
<1>12. CASE SubmitFails
  BY <1>12 DEF SubmitFails
<1>13. CASE SetCheckpoint
  BY <1>13 DEF SetCheckpoint, NextInBatch
<1>14. CASE SetCheckpointFails
  BY <1>14 DEF SetCheckpointFails
<1>15. CASE AwaitKick
  BY <1>15 DEF AwaitKick
<1>16. CASE Backoff
  BY <1>16 DEF Backoff
<1>17. CASE Open
  BY <1>17 DEF Open
<1>18. CASE Crash
  BY <1>18 DEF Crash, ProcessEnds
<1>19. CASE PowerLoss
  BY <1>19, NoPowerLoss DEF PowerLoss, NoPowerLoss
<1>20. ASSUME NEW e \in Entries, RekorAccepts(e) PROVE WakeInv'
  BY <1>20 DEF RekorAccepts
<1>21. ASSUME NEW e \in Entries, RequestLost(e) PROVE WakeInv'
  BY <1>21 DEF RequestLost
<1>22. CASE UNCHANGED vars
  BY <1>22
<1>23. QED
  BY <1>1, <1>2, <1>3, <1>4, <1>5, <1>6, <1>7, <1>8, <1>9, <1>10, <1>11, <1>12, <1>13, <1>14, <1>15, <1>16, <1>17, <1>18, <1>19, <1>20, <1>21, <1>22
     DEF Next, Consumer, Submitter, Rekor

\* While no power is lost and reads of the spool go to its end, the submitter never sleeps
\* over an acknowledged entry.
THEOREM WakeupIsNeverLost ==
  ASSUME NoPowerLoss, NoShortRead
  PROVE  Spec => []NoLostWakeup
<1>1. Init => WakeInv
  BY DEF Init, WakeInv, Acked
<1>2. WakeInv => NoLostWakeup
  BY DEF WakeInv, NoLostWakeup
<1>3. QED
  BY <1>1, <1>2, BaseInit, BaseNext, LogInit, LogNext, WakeNext, PTL DEF Spec
-----------------------------------------------------------------------------
(* The outbox implements AttestationLog, as long as the machine keeps its power. *)

\* The first k cells of s are whole lines, and a fragment or nothing follows.
End(s, k) ==
  /\ k \in 0..Len(s)
  /\ \A i \in 1..k : s[i] # Frag
  /\ k < Len(s) => s[k + 1] = Frag

\* There is such a k: by induction over the steps, each of which adds a cell or cuts the
\* last ones off.
EndInv == \E k \in 0..Len(spool) : End(spool, k)

LEMMA WholeLinesAre ==
  ASSUME TypeOK, NEW k, End(spool, k)
  PROVE  WholeLines = SubSeq(spool, 1, k)
<1>1. \A j : End(spool, j) => j = k
  BY DEF End, TypeOK
<1>2. (CHOOSE j \in 0..Len(spool) :
         /\ \A i \in 1..j : spool[i] # Frag
         /\ j < Len(spool) => spool[j + 1] = Frag) = k
  BY <1>1 DEF End
<1>3. QED
  BY <1>2 DEF WholeLines

LEMMA WholeLinesAreNext ==
  ASSUME TypeOK', NEW k, End(spool', k)
  PROVE  WholeLines' = SubSeq(spool', 1, k)
<1>1. \A j : End(spool', j) => j = k
  BY DEF End, TypeOK
<1>2. (CHOOSE j \in 0..Len(spool') :
         /\ \A i \in 1..j : spool'[i] # Frag
         /\ j < Len(spool') => spool'[j + 1] = Frag) = k
  BY <1>1 DEF End
<1>3. QED
  BY <1>2 DEF WholeLines

\* What a step does to the spool: nothing, a new line, a fragment, or a cut through fragments.
LEMMA SpoolSteps ==
  ASSUME NoPowerLoss, BaseInv, [Next]_vars
  PROVE  \/ UNCHANGED spool
         \/ cpc = "write" /\ spool' = Append(spool, cur) /\ UNCHANGED rekor
         \/ spool' = Append(spool, Frag) /\ UNCHANGED rekor
         \/ /\ \E k \in 0..Len(spool) :
                 (\A i \in k+1..Len(spool) : spool[i] = Frag) /\ spool' = SubSeq(spool, 1, k)
            /\ UNCHANGED rekor
<1>1. CASE WriteLine
  BY <1>1 DEF WriteLine, log
<1>2. CASE WriteFails
  BY <1>2 DEF WriteFails, log
<1>3. CASE Open
  BY <1>3 DEF Open, log
<1>4. CASE Crash
  BY <1>4 DEF Crash, ProcessEnds, log
<1>5. CASE PowerLoss
  BY <1>5 DEF PowerLoss, NoPowerLoss
<1>6. CASE ~WriteLine /\ ~WriteFails /\ ~Open /\ ~Crash /\ ~PowerLoss
  BY <1>6
     DEF Next, Consumer, Submitter, Rekor, disk, vars, TakeEntry, SyncLine, SyncFails, Kick, ReadCheckpoint,
         ReadCheckpointFails, ReadPending, ReadCorrupt, ReadFails, ReadCutShort, Submit, SubmitSucceeds, SubmitFails, SetCheckpoint,
         SetCheckpointFails, AwaitKick, Backoff, RekorAccepts, RequestLost
<1>7. QED
  BY <1>1, <1>2, <1>3, <1>4, <1>5, <1>6

LEMMA EndInit == Init => EndInv
BY DEF Init, EndInv, End

\* One step, for the end k of the whole lines before it.
LEMMA EndStep ==
  ASSUME NoPowerLoss, BaseInv, BaseInv', LogInv, [Next]_vars, NEW k \in 0..Len(spool), End(spool, k)
  PROVE  \/ End(spool', k) /\ SubSeq(spool', 1, k) = SubSeq(spool, 1, k)
         \/ /\ cpc = "write" /\ k = Len(spool) /\ UNCHANGED rekor
            /\ End(spool', k + 1)
            /\ SubSeq(spool', 1, k + 1) = Append(SubSeq(spool, 1, k), cur)
<1> USE FragAssumption
<1>1. spool \in Seq(Entries \cup {Frag})
  BY DEF BaseInv, TypeOK
<1>2. CASE UNCHANGED spool
  BY <1>2
<1>3. ASSUME NEW x \in Entries \cup {Frag}, spool' = Append(spool, x), k < Len(spool) \/ x = Frag
      PROVE  End(spool', k) /\ SubSeq(spool', 1, k) = SubSeq(spool, 1, k)
  <2>1. Len(spool') = Len(spool) + 1 /\ \A i \in 1..Len(spool) : spool'[i] = spool[i]
    BY <1>1, <1>3
  <2>2. spool'[Len(spool) + 1] = x
    BY <1>1, <1>3
  <2>3. End(spool', k)
    BY <1>1, <1>3, <2>1, <2>2 DEF End
  <2>4. SubSeq(spool', 1, k) = SubSeq(spool, 1, k)
    BY <1>1, <1>3, <2>1
  <2>5. QED
    BY <2>3, <2>4
<1>4. ASSUME cpc = "write", spool' = Append(spool, cur), UNCHANGED rekor, k = Len(spool)
      PROVE  /\ End(spool', k + 1)
             /\ SubSeq(spool', 1, k + 1) = Append(SubSeq(spool, 1, k), cur)
  <2>1. cur \in Entries /\ cur # Frag
    BY <1>4 DEF BaseInv, ConsumerInv
  <2>2. /\ Len(spool') = k + 1
        /\ \A i \in 1..k : spool'[i] = spool[i]
        /\ spool'[k + 1] = cur
    BY <1>1, <1>4, <2>1
  <2>3. End(spool', k + 1)
    BY <1>1, <1>4, <2>1, <2>2 DEF End
  <2>4. SubSeq(spool', 1, k + 1) = spool' /\ SubSeq(spool, 1, k) = spool
    BY <1>1, <1>4, <2>1, <2>2
  <2>5. QED
    BY <1>4, <2>3, <2>4
<1>5. ASSUME NEW n \in 0..Len(spool), \A i \in n+1..Len(spool) : spool[i] = Frag,
             spool' = SubSeq(spool, 1, n)
      PROVE  End(spool', k) /\ SubSeq(spool', 1, k) = SubSeq(spool, 1, k)
  <2>1. k <= n
    BY <1>1, <1>5 DEF End
  <2>2. Len(spool') = n /\ \A i \in 1..n : spool'[i] = spool[i]
    BY <1>1, <1>5
  <2>3. End(spool', k)
    BY <1>1, <1>5, <2>1, <2>2 DEF End
  <2>4. SubSeq(spool', 1, k) = SubSeq(spool, 1, k)
    BY <1>1, <1>5, <2>1, <2>2
  <2>5. QED
    BY <2>3, <2>4
<1>6. CASE cpc = "write" /\ spool' = Append(spool, cur) /\ UNCHANGED rekor
  <2>1. cur \in Entries
    BY <1>6 DEF BaseInv, ConsumerInv
  <2>2. k < Len(spool) \/ k = Len(spool)
    BY <1>1
  <2>3. QED
    BY <1>3, <1>4, <1>6, <2>1, <2>2
<1>7. CASE spool' = Append(spool, Frag)
  BY <1>3, <1>7
<1>8. QED
  BY <1>2, <1>5, <1>6, <1>7, SpoolSteps

LEMMA EndNext ==
  ASSUME NoPowerLoss
  PROVE  BaseInv /\ BaseInv' /\ LogInv /\ EndInv /\ [Next]_vars => EndInv'
<1> SUFFICES ASSUME BaseInv, BaseInv', LogInv, EndInv, [Next]_vars PROVE EndInv'
  OBVIOUS
<1>1. PICK k \in 0..Len(spool) : End(spool, k)
  BY DEF EndInv
<1>2. End(spool', k) \/ End(spool', k + 1)
  BY <1>1, EndStep
<1>3. QED
  BY <1>2 DEF EndInv, End

\* A step of the outbox is a step of the log, or none.
LEMMA RefinesStep ==
  ASSUME NoPowerLoss
  PROVE  BaseInv /\ BaseInv' /\ LogInv /\ EndInv /\ [Next]_vars => [Abstract!Next]_(Abstract!vars)
<1> SUFFICES ASSUME BaseInv, BaseInv', LogInv, EndInv, [Next]_vars
             PROVE  [Abstract!Next]_(Abstract!vars)
  OBVIOUS
<1> USE FragAssumption
<1>1. PICK k \in 0..Len(spool) : End(spool, k)
  BY DEF EndInv
<1>2. WholeLines = SubSeq(spool, 1, k)
  BY <1>1, WholeLinesAre DEF BaseInv
<1>3. spool \in Seq(Entries \cup {Frag}) /\ rekor \in Seq(Entries)
  BY DEF BaseInv, TypeOK
<1>4. Len(WholeLines) = k /\ \A i \in 1..k : WholeLines[i] = spool[i]
  BY <1>1, <1>2, <1>3
<1>5. ASSUME cpc = "write", k = Len(spool), UNCHANGED rekor, End(spool', k + 1),
             SubSeq(spool', 1, k + 1) = Append(SubSeq(spool, 1, k), cur)
      PROVE  Abstract!Next
  <2>1. WholeLines' = Append(WholeLines, cur)
    BY <1>2, <1>5, WholeLinesAreNext DEF BaseInv
  <2>2. cur \in Entries
    BY <1>5 DEF BaseInv, ConsumerInv
  <2>3. \A i \in 1..Len(WholeLines) : WholeLines[i] # cur
    BY <1>1, <1>4, <1>5 DEF LogInv, DistinctInv, End
  <2>4. QED
    BY <1>5, <2>1, <2>2, <2>3 DEF Abstract!Next, Abstract!Record
<1>6. ASSUME End(spool', k), SubSeq(spool', 1, k) = SubSeq(spool, 1, k)
      PROVE  [Abstract!Next]_(Abstract!vars)
  <2>1. WholeLines' = WholeLines
    BY <1>2, <1>6, WholeLinesAreNext DEF BaseInv
  <2>2. CASE UNCHANGED rekor
    BY <2>1, <2>2 DEF Abstract!vars
  <2>3. ASSUME NEW e \in Entries, RekorAccepts(e), ~InRekor(e) PROVE Abstract!Next
    <3>1. rekor' = Append(rekor, e)
      BY <2>3 DEF RekorAccepts
    <3>2. Len(rekor) < Len(spool) /\ spool[Len(rekor) + 1] = e
      BY <2>3 DEF RekorAccepts, LogInv, RequestInv
    <3>3. \A i \in 1..Len(rekor) : spool[i] # Frag
      BY <1>3 DEF LogInv, LoggedInOrder
    <3>4. Len(rekor) + 1 <= k
      BY <1>1, <1>3, <3>2, <3>3 DEF End
    <3>5. Len(rekor) < Len(WholeLines) /\ WholeLines[Len(rekor) + 1] = e
      BY <1>3, <1>4, <3>2, <3>4
    <3>6. QED
      BY <2>1, <3>1, <3>5 DEF Abstract!Next, Abstract!Attest
  <2>4. UNCHANGED rekor \/ \E e \in Entries : RekorAccepts(e) /\ ~InRekor(e)
    <3>1. ASSUME NEW e \in Entries, RekorAccepts(e), InRekor(e) PROVE UNCHANGED rekor
      BY <3>1 DEF RekorAccepts
    <3>2. CASE ~\E e \in Entries : RekorAccepts(e)
      BY <3>2
         DEF Next, Consumer, Submitter, Rekor, disk, log, vars, TakeEntry, WriteLine, WriteFails,
             SyncLine, SyncFails, Kick, ReadCheckpoint, ReadCheckpointFails, ReadPending, ReadCorrupt, ReadFails, ReadCutShort, Submit,
             SubmitSucceeds, SubmitFails, SetCheckpoint, SetCheckpointFails, AwaitKick, Backoff,
             RequestLost, Open, Crash, PowerLoss, ProcessEnds
    <3>3. QED
      BY <3>1, <3>2
  <2>5. QED
    BY <2>2, <2>3, <2>4
<1>7. QED
  BY <1>1, <1>5, <1>6, EndStep

\* Theorem: while no power is lost, the outbox with its crashes, failing writes, retries
\* and late answers is a log that attests every record once and in the order of recording
\* (ImplementsLog).
THEOREM OutboxImplementsLog ==
  ASSUME NoPowerLoss
  PROVE  Spec => ImplementsLog
<1>1. Init => Abstract!Init
  <2> SUFFICES ASSUME Init PROVE WholeLines = <<>> /\ rekor = <<>>
    BY DEF Abstract!Init
  <2>1. spool = <<>> /\ rekor = <<>>
    BY DEF Init
  <2>2. WholeLines = SubSeq(spool, 1, 0)
    <3>1. End(spool, 0) /\ TypeOK
      BY <2>1, BaseInit DEF BaseInv, End
    <3>2. QED
      BY <3>1, WholeLinesAre
  <2>3. QED
    BY <2>1, <2>2
<1>2. QED
  BY <1>1, BaseInit, BaseNext, LogInit, LogNext, EndInit, EndNext, RefinesStep, PTL
     DEF Spec, ImplementsLog, Abstract!Spec
=============================================================================
