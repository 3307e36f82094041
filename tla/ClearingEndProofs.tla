-------------------------- MODULE ClearingEndProofs --------------------------
(***************************************************************************)
(* Proofs of when Clearing lets a bond go and when it ends a session.      *)
(***************************************************************************)
EXTENDS ClearingProofs

(* withdrawal_guard, for a clearing process that runs alone. *)

Alone == \A v, w \in Workers : v = w

NoPending(w, o) ==
  \A b \in Breaches : LET sl == Seen(w, Slash(b)) IN sl # None /\ sl.operator = o => sl.status # "pending"
NoUnsubmitted(w, o) == \A b \in Breaches : OperatorOf(b) = o => Seen(w, Out(b)) # "unsubmitted"

\* The bond of o is released in w's transaction, and not committed.
Releasing(w, o) == Seen(w, Bond(o)).status = "withdrawn" /\ db[Bond(o)].status # "withdrawn"

Guarding == {"guard", "disputes", "unsubmitted", "release"}

\* What the guard has found out about o still holds.
GuardAt(x, w, o) ==
  /\ Seen(w, Bond(o)).request = db[Bond(o)].request
  /\ x.pc \in Guarding /\ o \in x.rows => db[Bond(o)].request = "expired"
  /\ x.pc \in Guarding \ {"guard"} /\ x.item = o => o \in x.rows /\ NoPending(w, o)
  /\ x.pc = "release" /\ x.item = o => NoUnsubmitted(w, o)
  /\ Releasing(w, o) =>
       x.pc \in Guarding /\ db[Bond(o)].request = "expired" /\ NoPending(w, o) /\ NoUnsubmitted(w, o)

GuardInv == \A w \in Workers, o \in Bonded : GuardAt(wk[w], w, o)

\* A step of w that writes nothing.
LEMMA GuardQuiet ==
  ASSUME ClearingInv, Alone, NEW w \in Workers, NEW x, wk' = [wk EXCEPT ![w] = x], UNCHANGED <<db, tx>>,
         \A o \in Bonded : GuardAt(x, w, o)
  PROVE  GuardInv'
<1>1. wk'[w] = x
  BY DEF ClearingInv, WorkerInv
<1>2. \A r : Seen(w, r)' = Seen(w, r)
  BY DEF Seen
<1>3. ASSUME NEW o \in Bonded PROVE GuardAt(wk[w], w, o)'
  <2>1. (NoPending(w, o)' <=> NoPending(w, o)) /\ (NoUnsubmitted(w, o)' <=> NoUnsubmitted(w, o))
    BY <1>2 DEF NoPending, NoUnsubmitted
  <2>2. Releasing(w, o)' <=> Releasing(w, o)
    BY <1>2 DEF Releasing
  <2> QED
    BY <1>1, <1>2, <2>1, <2>2 DEF GuardAt
<1> QED
  BY <1>3 DEF GuardInv, Alone

\* Before the guard, or between cycles: nothing to be released.
LEMMA GuardOther ==
  ASSUME Alone, NEW w \in Workers, wk'[w].pc \notin Guarding,
         \A o \in Bonded : Seen(w, Bond(o))'.request = db'[Bond(o)].request /\ ~Releasing(w, o)'
  PROVE  GuardInv'
<1>1. ASSUME NEW o \in Bonded PROVE GuardAt(wk[w], w, o)'
  BY DEF GuardAt, Guarding
<1> QED
  BY <1>1 DEF GuardInv, Alone

LEMMA GuardCycle ==
  ASSUME ClearingInv, GuardInv, Alone, NEW w \in Workers,
         \/ OpenSpool(w) \/ SkipLine(w) \/ SkipKeyMismatch(w) \/ SkipDuplicate(w) \/ Kill(w)
         \/ SelectUnsubmitted(w) \/ SelectSlashable(w) \/ \E b \in Breaches : ConfirmMisses(w, b)
  PROVE  GuardInv'
<1>1. AtWork(wk[w]) /\ w \in DOMAIN wk /\ \A o \in Bonded : GuardAt(wk[w], w, o)
  BY DEF ClearingInv, WorkerInv, GuardInv
<1>2. wk[w].pc \notin Guarding /\ UNCHANGED <<db, tx>>
  BY DEF OpenSpool, SkipLine, SkipKeyMismatch, SkipDuplicate, AtLine, Kill, SelectUnsubmitted,
     SelectSlashable, Select, ConfirmMisses, Outside, Guarding
<1>3. wk'[w].pc \notin Guarding
  <2>1. CASE OpenSpool(w) \/ Kill(w)
    <3>1. PICK x : wk' = [wk EXCEPT ![w] = x] /\ x.pc = "ingest"
      <4>1. CASE OpenSpool(w)
        <5>1. PICK lines : wk' = [wk EXCEPT ![w].pc = "ingest", ![w].lines = lines]
          BY <4>1 DEF OpenSpool
        <5> DEFINE y == [wk[w] EXCEPT !.pc = "ingest", !.lines = lines]
        <5>2. wk' = [wk EXCEPT ![w] = y] /\ y.pc = "ingest"
          BY <1>1, <5>1 DEF AtWork
        <5> QED
          BY <5>2
      <4>2. CASE Kill(w)
        <5> DEFINE y == [wk[w] EXCEPT !.pc = "ingest", !.lines = Tail(@), !.item = None]
        <5>1. wk' = [wk EXCEPT ![w] = y] /\ y.pc = "ingest"
          BY <1>1, <4>2 DEF AtWork, Kill
        <5> QED
          BY <5>1
      <4> QED
        BY <2>1, <4>1, <4>2
    <3> QED
      BY <1>1, <3>1 DEF Guarding
  <2>2. CASE SkipLine(w) \/ SkipKeyMismatch(w) \/ SkipDuplicate(w)
    <3>1. wk'[w].pc = "ingest"
      BY <1>1, <2>2 DEF AtWork, SkipLine, SkipKeyMismatch, SkipDuplicate, AtLine, NextLine
    <3> QED
      BY <3>1 DEF Guarding
  <2>3. CASE SelectUnsubmitted(w) \/ SelectSlashable(w)
    <3>1. wk'[w].pc \in {"confirm", "slash"}
      BY <1>1, <2>3 DEF AtWork, SelectUnsubmitted, SelectSlashable, Select
    <3> QED
      BY <3>1 DEF Guarding
  <2>4. CASE \E b \in Breaches : ConfirmMisses(w, b)
    <3>1. wk'[w].pc = "confirm"
      BY <1>1, <2>4 DEF AtWork, ConfirmMisses, Done
    <3> QED
      BY <3>1 DEF Guarding
  <2> QED
    BY <2>1, <2>2, <2>3, <2>4
<1>4. \A o \in Bonded : Seen(w, Bond(o))'.request = db'[Bond(o)].request /\ ~Releasing(w, o)'
  BY <1>1, <1>2 DEF GuardAt, Releasing, Seen
<1> QED
  BY <1>3, <1>4, GuardOther

LEMMA GuardSelect ==
  ASSUME ClearingInv, GuardInv, Alone, NEW w \in Workers, SelectCandidates(w)
  PROVE  GuardInv'
<1> DEFINE R == {o \in Operators : LET bond == View(w)[Bond(o)] IN
                   bond # None /\ bond.status = "active" /\ bond.request = "expired"}
           x == [wk[w] EXCEPT !.pc = "guard", !.rows = R]
<1>1. AtWork(wk[w]) /\ \A o \in Bonded : GuardAt(wk[w], w, o)
  BY DEF ClearingInv, WorkerInv, GuardInv
<1>2. wk' = [wk EXCEPT ![w] = x] /\ UNCHANGED <<db, tx>> /\ wk[w].pc = "slash"
  BY DEF SelectCandidates, Select, Outside
<1>3. x.pc = "guard" /\ x.rows = R
  BY <1>1 DEF AtWork
<1>4. ASSUME NEW o \in Bonded PROVE GuardAt(x, w, o)
  <2>1. o \in R => Seen(w, Bond(o)).request = "expired"
    BY RowsAre, ShapeAssumption, ViewIs DEF ClearingInv
  <2> QED
    BY <1>1, <1>2, <1>3, <2>1 DEF GuardAt, Guarding
<1> QED
  BY <1>2, <1>4, GuardQuiet

LEMMA GuardCheck ==
  ASSUME ClearingInv, GuardInv, Alone, NEW w \in Workers, NEW c \in Bonded,
         NEW hit, NEW next \in Guarding \ {"guard"}, hit \in BOOLEAN,
         Check(w, c, hit, next), wk[w].pc \in Guarding, c \in wk[w].rows,
         hit \/ NoPending(w, c),
         next = "release" => hit \/ NoUnsubmitted(w, c)
  PROVE  GuardInv'
<1>1. AtWork(wk[w]) /\ \A o \in Bonded : GuardAt(wk[w], w, o)
  BY DEF ClearingInv, WorkerInv, GuardInv
<1> DEFINE hitTo == [wk[w] EXCEPT !.pc = "guard", !.rows = @ \ {c}, !.item = None]
           missTo == [wk[w] EXCEPT !.pc = next, !.item = c]
<1>2. CASE hit
  <2>1. wk' = [wk EXCEPT ![w] = hitTo] /\ UNCHANGED <<db, tx>>
    BY <1>2 DEF Check, Outside
  <2>2. hitTo.pc = "guard" /\ hitTo.rows = wk[w].rows \ {c}
    BY <1>1 DEF AtWork
  <2>3. \A o \in Bonded : GuardAt(hitTo, w, o)
    BY <1>1, <2>2 DEF GuardAt, Guarding
  <2> QED
    BY <2>1, <2>3, GuardQuiet
<1>3. CASE ~hit
  <2>1. wk' = [wk EXCEPT ![w] = missTo] /\ UNCHANGED <<db, tx>>
    BY <1>3 DEF Check, Outside
  <2>2. missTo.pc = next /\ missTo.rows = wk[w].rows /\ missTo.item = c
    BY <1>1 DEF AtWork
  <2>3. \A o \in Bonded : GuardAt(missTo, w, o)
    BY <1>1, <1>3, <2>2 DEF GuardAt, Guarding
  <2> QED
    BY <2>1, <2>3, GuardQuiet
<1> QED
  BY <1>2, <1>3

LEMMA GuardChecks ==
  ASSUME ClearingInv, GuardInv, Alone, NEW w \in Workers,
         (\E o \in Operators : CheckPending(w, o)) \/ CheckDisputed(w) \/ CheckUnsubmitted(w)
  PROVE  GuardInv'
<1>1. AtWork(wk[w]) /\ \A o \in Bonded : GuardAt(wk[w], w, o)
  BY DEF ClearingInv, WorkerInv, GuardInv
<1>2. ASSUME NEW o PROVE HasSlash(View(w), o, "pending") \/ NoPending(w, o)
  BY RowsAre, ViewIs DEF ClearingInv, HasSlash, NoPending
<1>3. ASSUME NEW o PROVE HasUnsubmitted(View(w), o) \/ NoUnsubmitted(w, o)
  BY RowsAre, ViewIs DEF ClearingInv, HasUnsubmitted, NoUnsubmitted
<1>4. \A o, st : HasSlash(View(w), o, st) \in BOOLEAN /\ HasUnsubmitted(View(w), o) \in BOOLEAN
  BY DEF HasSlash, HasUnsubmitted
<1>5. CASE \E o \in Operators : CheckPending(w, o)
  <2>1. PICK o \in Operators : CheckPending(w, o)
    BY <1>5
  <2>2. o \in Bonded /\ o \in wk[w].rows /\ wk[w].pc \in Guarding /\ "disputes" \in Guarding \ {"guard"}
    BY <1>1, <2>1 DEF CheckPending, AtWork, Guarding
  <2>3. Check(w, o, HasSlash(View(w), o, "pending"), "disputes")
    BY <2>1 DEF CheckPending
  <2> QED
    BY <1>2, <1>4, <2>2, <2>3, GuardCheck
<1>6. CASE CheckDisputed(w)
  <2>1. PICK o : o = wk[w].item
    OBVIOUS
  <2>2. Check(w, o, HasSlash(View(w), o, "disputed"), "unsubmitted") /\ wk[w].pc = "disputes"
    BY <1>6, <2>1 DEF CheckDisputed
  <2>3. o \in Bonded /\ o \in wk[w].rows /\ wk[w].pc \in Guarding /\ NoPending(w, o) /\ "unsubmitted" \in Guarding \ {"guard"}
    BY <1>1, <2>1, <2>2 DEF AtWork, GuardAt, Guarding
  <2> QED
    BY <1>4, <2>2, <2>3, GuardCheck
<1>7. CASE CheckUnsubmitted(w)
  <2>1. PICK o : o = wk[w].item
    OBVIOUS
  <2>2. Check(w, o, HasUnsubmitted(View(w), o), "release") /\ wk[w].pc = "unsubmitted"
    BY <1>7, <2>1 DEF CheckUnsubmitted
  <2>3. o \in Bonded /\ o \in wk[w].rows /\ wk[w].pc \in Guarding /\ NoPending(w, o) /\ "release" \in Guarding \ {"guard"}
    BY <1>1, <2>1, <2>2 DEF AtWork, GuardAt, Guarding
  <2> QED
    BY <1>3, <1>4, <2>2, <2>3, GuardCheck
<1> QED
  BY <1>5, <1>6, <1>7

\* Before the guard a bond is only written to be decremented.
LEMMA GuardWrite ==
  ASSUME ClearingInv, GuardInv, Alone, NEW w \in Workers, NEW f, DOMAIN f \subseteq Rows, Write(w, f), UNCHANGED db,
         wk[w].pc \notin Guarding, wk'[w].pc \notin Guarding,
         \A o \in Bonded : Bond(o) \in DOMAIN f => f[Bond(o)] = Decremented(Seen(w, Bond(o)))
  PROVE  GuardInv'
<1>1. \A r : Seen(w, r)' = IF r \in DOMAIN f THEN f[r] ELSE Seen(w, r)
  BY WriteEffect DEF ClearingInv
<1>2. ASSUME NEW o \in Bonded
      PROVE  Seen(w, Bond(o))'.request = db'[Bond(o)].request /\ ~Releasing(w, o)'
  <2>1. Seen(w, Bond(o)).request = db[Bond(o)].request /\ ~Releasing(w, o)
    BY DEF GuardInv, GuardAt
  <2>2. CASE Bond(o) \in DOMAIN f
    <3>1. Fits(Bond(o), Seen(w, Bond(o)))
      BY <2>2 DEF ClearingInv, RowInv
    <3>2. Seen(w, Bond(o)) \in BondRow
      BY <3>1, ShapeAssumption DEF Fits
    <3>3. Seen(w, Bond(o))' = Decremented(Seen(w, Bond(o)))
      BY <1>1, <2>2
    <3>4. /\ Decremented(Seen(w, Bond(o))).request = Seen(w, Bond(o)).request
          /\ Decremented(Seen(w, Bond(o))).status \in {"depleted", Seen(w, Bond(o)).status}
      BY <3>2, DecrementedKeeps
    <3> QED
      BY <2>1, <3>3, <3>4 DEF Releasing
  <2>3. CASE Bond(o) \notin DOMAIN f
    BY <1>1, <2>1, <2>3 DEF Releasing
  <2> QED
    BY <2>2, <2>3
<1> QED
  BY <1>2, GuardOther

LEMMA GuardWrites ==
  ASSUME ClearingInv, GuardInv, Alone, NEW w \in Workers,
         Ingest(w) \/ \E b \in Breaches : Confirm(w, b) \/ ExecuteSlash(w, b)
  PROVE  GuardInv'
<1>1. AtWork(wk[w]) /\ w \in DOMAIN wk
  BY DEF ClearingInv, WorkerInv
<1>2. DOMAIN View(w) = Rows /\ \A r \in Rows : View(w)[r] = Seen(w, r)
  BY ViewIs DEF ClearingInv
<1>3. CASE Ingest(w)
  <2>1. PICK c \in Breaches : c = Line(w)
    BY <1>3 DEF Ingest
  <2>2. Write(w, Ingested(w, c)) /\ UNCHANGED db /\ wk[w].pc \notin Guarding
    BY <1>3, <2>1 DEF Ingest, AtLine, Outside, Guarding
  <2>3. wk'[w].pc \notin Guarding
    BY <1>1, <1>3 DEF Ingest, AtWork, Guarding
  <2>4. DOMAIN Ingested(w, c) \subseteq {Key(keyOf[c].id), Out(c), Slash(c), Sess(sessionOf[c])}
    BY DEF Ingested, Overlay, KeyRow
  <2>5. DOMAIN Ingested(w, c) \subseteq Rows
    BY <2>4, RowsAre
  <2>6. \A o \in Bonded : Bond(o) \notin DOMAIN Ingested(w, c)
    BY <2>4, RowsDiffer
  <2> QED
    BY <2>2, <2>3, <2>5, <2>6, GuardWrite
<1>4. ASSUME NEW c \in Breaches, Confirm(w, c) PROVE GuardInv'
  <2>1. Write(w, Confirmed(w, c)) /\ UNCHANGED db /\ wk[w].pc \notin Guarding
    BY <1>4 DEF Confirm, Outside, Guarding
  <2>2. wk'[w].pc \notin Guarding
    BY <1>1, <1>4 DEF Confirm, Done, AtWork, Guarding
  <2>3. DOMAIN Confirmed(w, c) \subseteq {Out(c), Slash(c)}
    BY DEF Confirmed
  <2>4. DOMAIN Confirmed(w, c) \subseteq Rows
    BY <2>3, RowsAre
  <2>5. \A o \in Bonded : Bond(o) \notin DOMAIN Confirmed(w, c)
    BY <2>3, RowsDiffer
  <2> QED
    BY <2>1, <2>2, <2>4, <2>5, GuardWrite
<1>5. ASSUME NEW c \in Breaches, ExecuteSlash(w, c) PROVE GuardInv'
  <2>1. PICK o : o = View(w)[Slash(c)].operator
    OBVIOUS
  <2>2. PICK f :
          /\ f = [r \in {Slash(c)} \cup ({Agent(agentOf[c]), Bond(o)} \cap {y \in Rows : View(w)[y] # None}) |->
                   CASE r = Slash(c) -> Settled(View(w)[r])
                     [] r = Agent(agentOf[c]) -> Penalised(View(w)[r])
                     [] r = Bond(o) -> Decremented(View(w)[r])]
          /\ Write(w, f)
    BY <1>5, <2>1 DEF ExecuteSlash
  <2>3. wk[w].pc \notin Guarding /\ UNCHANGED db
    BY <1>5 DEF ExecuteSlash, Outside, Guarding
  <2>4. wk'[w].pc \notin Guarding
    BY <1>1, <1>5 DEF ExecuteSlash, Done, AtWork, Guarding
  <2>5. DOMAIN f \subseteq Rows
    BY <2>2, RowsAre
  <2>6. ASSUME NEW p \in Bonded, Bond(p) \in DOMAIN f PROVE f[Bond(p)] = Decremented(Seen(w, Bond(p)))
    <3>1. p = o /\ Bond(p) \in Rows /\ Bond(p) # Slash(c) /\ Bond(p) # Agent(agentOf[c])
      BY <2>2, <2>5, <2>6, RowsDiffer
    <3> QED
      BY <1>2, <2>2, <2>6, <3>1
  <2> QED
    BY <2>2, <2>3, <2>4, <2>5, <2>6, GuardWrite
<1> QED
  BY <1>3, <1>4, <1>5

LEMMA GuardRelease ==
  ASSUME ClearingInv, GuardInv, Alone, NEW w \in Workers, Release(w)
  PROVE  GuardInv'
<1>1. PICK c : c = wk[w].item
  OBVIOUS
<1> DEFINE f == [r \in {Bond(c)} |-> [View(w)[r] EXCEPT !.status = "withdrawn"]]
           x == [wk[w] EXCEPT !.pc = "guard", !.rows = @ \ {c}, !.item = None]
<1>2. /\ wk[w].pc = "release" /\ Write(w, f) /\ wk' = [wk EXCEPT ![w] = x] /\ UNCHANGED Outside
      /\ AtWork(wk[w]) /\ w \in DOMAIN wk
  BY <1>1 DEF Release, ClearingInv, WorkerInv
<1>3. c \in Bonded /\ Bond(c) \in Rows
  BY <1>1, <1>2, RowsAre, ShapeAssumption DEF AtWork
<1>4. wk'[w] = x /\ x.pc = "guard" /\ x.rows = wk[w].rows \ {c}
  BY <1>2 DEF AtWork
<1>5. DOMAIN f = {Bond(c)} /\ f[Bond(c)].request = Seen(w, Bond(c)).request
  <2>1. Seen(w, Bond(c)) \in BondRow
    BY <1>3, ShapeAssumption DEF ClearingInv, RowInv, Fits
  <2>2. View(w)[Bond(c)] = Seen(w, Bond(c))
    BY <1>3, ViewIs DEF ClearingInv
  <2>3. [Seen(w, Bond(c)) EXCEPT !.status = "withdrawn"].request = Seen(w, Bond(c)).request
    BY <2>1 DEF BondRow
  <2> QED
    BY <2>2, <2>3
<1> HIDE DEF f, x
<1>6. db' = db /\ \A r : Seen(w, r)' = IF r = Bond(c) THEN f[Bond(c)] ELSE Seen(w, r)
  <2>1. DOMAIN f \subseteq Rows /\ UNCHANGED db
    BY <1>2, <1>3, <1>5 DEF Outside
  <2> QED
    BY <1>2, <1>5, <2>1, WriteEffect DEF ClearingInv
<1>7. ASSUME NEW o \in Bonded PROVE GuardAt(wk[w], w, o)'
  <2>1. GuardAt(wk[w], w, o)
    BY DEF GuardInv
  <2>2. (NoPending(w, o)' <=> NoPending(w, o)) /\ (NoUnsubmitted(w, o)' <=> NoUnsubmitted(w, o))
    BY <1>6, RowsDiffer DEF NoPending, NoUnsubmitted
  <2>3. Seen(w, Bond(o))'.request = db'[Bond(o)].request
    BY <1>5, <1>6, <2>1 DEF GuardAt
  <2>4. CASE o = c
    <3>1. db[Bond(o)].request = "expired" /\ NoPending(w, o) /\ NoUnsubmitted(w, o)
      BY <1>1, <1>2, <2>1, <2>4 DEF GuardAt, Guarding
    <3> QED
      BY <1>4, <1>6, <2>2, <2>3, <3>1 DEF GuardAt, Guarding
  <2>5. CASE o # c
    <3>1. Seen(w, Bond(o))' = Seen(w, Bond(o))
      BY <1>6, <2>5, RowsDiffer
    <3>2. Releasing(w, o)' <=> Releasing(w, o)
      BY <1>6, <3>1 DEF Releasing
    <3> QED
      BY <1>2, <1>4, <1>6, <2>1, <2>2, <2>3, <3>2 DEF GuardAt, Guarding
  <2> QED
    BY <2>4, <2>5
<1> QED
  BY <1>7 DEF GuardInv, Alone

LEMMA GuardEnd ==
  ASSUME ClearingInv, GuardInv, Alone, NEW w \in Workers, Commit(w) \/ IngestRejected(w) \/ Fail(w)
  PROVE  GuardInv'
<1>1. tx' = [tx EXCEPT ![w] = Empty] /\ wk' = [wk EXCEPT ![w] = AtRest] /\ w \in DOMAIN wk
  BY DEF Commit, IngestRejected, Fail, Rollback, ClearingInv, WorkerInv
<1>2. \A r : Seen(w, r)' = db'[r]
  BY <1>1, RollbackEffect DEF ClearingInv
<1>3. wk'[w].pc \notin Guarding
  BY <1>1 DEF AtRest, Guarding
<1>4. \A o \in Bonded : ~Releasing(w, o)'
  BY <1>2 DEF Releasing
<1> QED
  BY <1>2, <1>3, <1>4, GuardOther

LEMMA GuardElsewhere ==
  ASSUME ClearingInv, GuardInv,
         \/ \E p \in Operators : RequestWithdrawal(p) \/ HoldExpires(p)
         \/ \E c \in Breaches : Dispute(c)
  PROVE  GuardInv'
<1> SUFFICES ASSUME NEW w \in Workers, NEW o \in Bonded PROVE GuardAt(wk[w], w, o)'
  BY DEF GuardInv
<1>1. GuardAt(wk[w], w, o) /\ Bond(o) \in Rows /\ DOMAIN db = Rows
  BY RowsAre, ShapeAssumption DEF GuardInv, ClearingInv, WorkerInv
<1>2. ASSUME NEW row \in Rows, NEW y, Elsewhere(row, y)
      PROVE  /\ wk' = wk /\ row \notin DOMAIN tx[w]
             /\ \A r \in Rows : db'[r] = IF r = row THEN y ELSE db[r]
             /\ \A r \in Rows : Seen(w, r)' = IF r = row THEN y ELSE Seen(w, r)
  BY <1>1, <1>2 DEF Elsewhere, Seen
<1>3. ASSUME NEW p \in Operators, RequestWithdrawal(p) \/ HoldExpires(p) PROVE GuardAt(wk[w], w, o)'
  <2>1. PICK y : Elsewhere(Bond(p), y) /\ db[Bond(p)].request # "expired"
    BY <1>3 DEF RequestWithdrawal, HoldExpires
  <2>2. Bond(p) \in Rows
    BY RowsAre
  <2>3. /\ wk' = wk /\ Bond(p) \notin DOMAIN tx[w]
        /\ \A r \in Rows : db'[r] = IF r = Bond(p) THEN y ELSE db[r]
        /\ \A r \in Rows : Seen(w, r)' = IF r = Bond(p) THEN y ELSE Seen(w, r)
    BY <1>2, <2>1, <2>2
  <2>4. (NoPending(w, o)' <=> NoPending(w, o)) /\ (NoUnsubmitted(w, o)' <=> NoUnsubmitted(w, o))
    <3>1. \A b \in Breaches : Seen(w, Slash(b))' = Seen(w, Slash(b)) /\ Seen(w, Out(b))' = Seen(w, Out(b))
      BY <2>3, RowsAre, RowsDiffer
    <3> QED
      BY <3>1 DEF NoPending, NoUnsubmitted
  <2>5. CASE p = o
    <3>1. Seen(w, Bond(o))' = y /\ db'[Bond(o)] = y
      BY <1>1, <2>3, <2>5
    <3>2. ~(wk[w].pc \in Guarding /\ o \in wk[w].rows)
      BY <1>1, <2>1, <2>5 DEF GuardAt
    <3> QED
      BY <1>1, <2>3, <3>1, <3>2 DEF GuardAt, Releasing, Guarding
  <2>6. CASE p # o
    <3>1. Seen(w, Bond(o))' = Seen(w, Bond(o)) /\ db'[Bond(o)] = db[Bond(o)]
      BY <1>1, <2>3, <2>6, RowsDiffer
    <3> QED
      BY <1>1, <2>3, <2>4, <3>1 DEF GuardAt, Releasing
  <2> QED
    BY <2>5, <2>6
<1>4. ASSUME NEW c \in Breaches, Dispute(c) PROVE GuardAt(wk[w], w, o)'
  <2> DEFINE y == [db[Slash(c)] EXCEPT !.status = "disputed"]
  <2>1. Slash(c) \in Rows /\ db[Slash(c)] # None /\ Elsewhere(Slash(c), y) /\ Fits(Slash(c), db[Slash(c)])
    BY <1>4, RowsAre DEF Dispute, ClearingInv, RowInv
  <2>2. y.status = "disputed"
    BY <2>1 DEF Fits, SlashRow
  <2> HIDE DEF y
  <2>3. /\ wk' = wk
        /\ \A r \in Rows : db'[r] = IF r = Slash(c) THEN y ELSE db[r]
        /\ \A r \in Rows : Seen(w, r)' = IF r = Slash(c) THEN y ELSE Seen(w, r)
    BY <1>2, <2>1
  <2>4. NoPending(w, o) => NoPending(w, o)'
    BY <2>2, <2>3, RowsAre, RowsDiffer DEF NoPending
  <2>5. NoUnsubmitted(w, o)' <=> NoUnsubmitted(w, o)
    BY <2>3, RowsAre, RowsDiffer DEF NoUnsubmitted
  <2>6. Seen(w, Bond(o))' = Seen(w, Bond(o)) /\ db'[Bond(o)] = db[Bond(o)]
    BY <1>1, <2>3, RowsDiffer
  <2> QED
    BY <1>1, <2>3, <2>4, <2>5, <2>6 DEF GuardAt, Releasing
<1> QED
  BY <1>3, <1>4

LEMMA GuardInitInv == Init => GuardInv
<1> SUFFICES ASSUME Init, NEW w \in Workers, NEW o \in Bonded PROVE GuardAt(wk[w], w, o)
  BY DEF GuardInv
<1>1. wk[w] = AtRest /\ DOMAIN tx[w] = {}
  BY DEF Init, Empty
<1>2. Seen(w, Bond(o)) = db[Bond(o)]
  BY <1>1 DEF Seen
<1>3. wk[w].pc = "rest"
  BY <1>1 DEF AtRest
<1>4. wk[w].pc \notin Guarding /\ wk[w].pc # "release"
  BY <1>3 DEF Guarding
<1>5. ~Releasing(w, o)
  BY <1>2 DEF Releasing
<1> QED
  BY <1>2, <1>4, <1>5 DEF GuardAt

LEMMA GuardNextInv ==
  ASSUME ClearingInv, GuardInv, Alone, [Next]_vars
  PROVE  GuardInv'
<1>1. ASSUME NEW w \in Workers, Cycle(w) \/ Fail(w) PROVE GuardInv'
  BY <1>1, GuardCycle, GuardSelect, GuardChecks, GuardWrites, GuardRelease, GuardEnd DEF Cycle
<1>2. CASE UNCHANGED <<db, tx, wk>>
  <2>1. \A w, r : Seen(w, r)' = Seen(w, r)
    BY <1>2 DEF Seen
  <2>2. ASSUME NEW w \in Workers, NEW o \in Bonded PROVE GuardAt(wk[w], w, o)'
    <3>1. GuardAt(wk[w], w, o)
      BY DEF GuardInv
    <3>2. (NoPending(w, o)' <=> NoPending(w, o)) /\ (NoUnsubmitted(w, o)' <=> NoUnsubmitted(w, o))
      BY <2>1 DEF NoPending, NoUnsubmitted
    <3> QED
      BY <1>2, <2>1, <3>1, <3>2 DEF GuardAt, Releasing
  <2> QED
    BY <2>2 DEF GuardInv
<1>3. Attest \/ (\E b \in Breaches : AppendEntry(b)) \/ UNCHANGED vars => UNCHANGED <<db, tx, wk>>
  BY DEF Attest, AppendEntry, vars
<1> QED
  BY <1>1, <1>2, <1>3, GuardElsewhere DEF Next

\* While one clearing process runs: a release is committed only for a bond whose hold period
\* has expired and whose operator has then no pending slash and no unsubmitted breach
\* (withdrawal_guard).
THEOREM ReleasesCarryNoLiability ==
  ASSUME Alone
  PROVE  Spec => ReleasedWithoutLiability
<1>1. Spec => [](ClearingInv /\ GuardInv)
  <2>1. ClearingInv /\ GuardInv /\ [Next]_vars => ClearingInv' /\ GuardInv'
    BY ClearingNextInv, GuardNextInv
  <2> QED
    BY ClearingInitInv, GuardInitInv, <2>1, PTL DEF Spec
<1>2. ASSUME ClearingInv, GuardInv, [Next]_vars, NEW o \in Bonded, Status(o) # "withdrawn", Status(o)' = "withdrawn"
      PROVE  db[Bond(o)].request = "expired" /\ ~HasSlash(db', o, "pending") /\ ~HasUnsubmitted(db', o)
  <2>1. Bond(o) \in Rows /\ DOMAIN db = Rows
    BY <1>2, RowsAre, ShapeAssumption DEF ClearingInv, WorkerInv
  <2>2. ASSUME NEW p \in Operators, RequestWithdrawal(p) \/ HoldExpires(p) PROVE FALSE
    <3>1. PICK q : db[Bond(p)] # None /\ Elsewhere(Bond(p), [db[Bond(p)] EXCEPT !.request = q])
      BY <2>2 DEF RequestWithdrawal, HoldExpires
    <3>2. Status(o)' = Status(o)
      <4>1. CASE p = o
        <5>1. db[Bond(o)] \in BondRow
          BY <1>2, <2>1, ShapeAssumption DEF ClearingInv, RowInv, Fits
        <5>2. db'[Bond(o)] = [db[Bond(o)] EXCEPT !.request = q]
          BY <2>1, <3>1, <4>1 DEF Elsewhere
        <5> QED
          BY <5>1, <5>2 DEF Status, BondRow
      <4>2. CASE p # o
        BY <2>1, <3>1, <4>2, RowsDiffer DEF Elsewhere, Status
      <4> QED
        BY <4>1, <4>2
    <3> QED
      BY <1>2, <3>2
  <2>3. ASSUME NEW c \in Breaches, Dispute(c) PROVE FALSE
    <3>1. db'[Bond(o)] = db[Bond(o)]
      BY <2>1, <2>3, RowsDiffer DEF Dispute, Elsewhere
    <3> QED
      BY <1>2, <3>1 DEF Status
  <2>4. db' # db
    BY <1>2 DEF Status
  <2>5. PICK w \in Workers : Commit(w)
    BY <1>2, <2>2, <2>3, <2>4, ZenonT(60) DEF Next, vars, Attest, AppendEntry, Cycle, OpenSpool, SkipLine,
       SkipKeyMismatch, SkipDuplicate, Ingest, IngestRejected, Kill, SelectUnsubmitted, SelectSlashable,
       SelectCandidates, Select, Confirm, ConfirmMisses, ExecuteSlash, CheckPending, CheckDisputed,
       CheckUnsubmitted, Check, Release, Fail, Outside
  <2>6. \A r \in Rows : db'[r] = Seen(w, r)
    BY <1>2, <2>5, ViewIs DEF Commit, ClearingInv
  <2>7. Releasing(w, o)
    BY <1>2, <2>1, <2>6 DEF Releasing, Status
  <2>8. db[Bond(o)].request = "expired" /\ NoPending(w, o) /\ NoUnsubmitted(w, o)
    BY <1>2, <2>7 DEF GuardInv, GuardAt
  <2>9. ~HasSlash(db', o, "pending")
    BY <2>6, <2>8, RowsAre DEF HasSlash, NoPending
  <2>10. ~HasUnsubmitted(db', o)
    BY <2>6, <2>8, RowsAre DEF HasUnsubmitted, NoUnsubmitted
  <2> QED
    BY <2>8, <2>9, <2>10
<1>3. ClearingInv /\ GuardInv /\ [Next]_vars =>
        [\A o \in Bonded : Status(o) # "withdrawn" /\ Status(o)' = "withdrawn" =>
           /\ db[Bond(o)].request = "expired"
           /\ ~HasSlash(db', o, "pending")
           /\ ~HasUnsubmitted(db', o)]_vars
  BY <1>2
<1> QED
  BY <1>1, <1>3, PTL DEF Spec, ReleasedWithoutLiability
-----------------------------------------------------------------------------
(* The end of sessions. *)

\* The enforcer was told to delete a session only if a breach of it is in the spool that
\* verifies, whatever lines are torn, forged or skipped and whatever cycle fails after the
\* kill (ingest_and_kill).
KilledForCause == \A s \in killed : \E b \in Spooled \ Forged : sessionOf[b] = s

Unheard == "killFails" \in ClearingFaults

\* What a worker has read is in the spool, or torn; what it is about to kill for verified.
Traced(x) ==
  /\ x.pc = "kill" => x.item \in Spooled \ Forged
  /\ \A i \in 1..Len(x.lines) : x.lines[i] \in Spooled \cup {Torn}

\* A worker that has ended the row of s has told the enforcer, or is about to.
Told(s, x) == Unheard \/ s \in killed \/ (x.pc = "kill" /\ sessionOf[x.item] = s)

\* A breach of s is recorded by w's transaction, and in the committed state.
Holds(w, s) ==
  \E b \in Breaches : sessionOf[b] = s /\ Out(b) \in DOMAIN tx[w] /\ tx[w][Out(b)] # None
Recorded(s) == \E b \in Breaches : sessionOf[b] = s /\ db[Out(b)] # None

EndedInv == \A s \in Sessions : db[Sess(s)] = "terminated" => (Unheard \/ s \in killed) /\ Recorded(s)

EndInv ==
  /\ \A w \in Workers : Traced(wk[w])
  /\ KilledForCause
  /\ \A w \in Workers, s \in Sessions : Sess(s) \in DOMAIN tx[w] => Told(s, wk[w]) /\ Holds(w, s)
  /\ EndedInv

LEMMA EndInitInv == Init => EndInv
<1> SUFFICES ASSUME Init PROVE EndInv
  OBVIOUS
<1>1. spool = <<>> /\ killed = {}
  BY DEF Init, Log!Init
<1>2. \A w \in Workers : DOMAIN tx[w] = {} /\ wk[w] = AtRest
  BY DEF Init, Empty
<1>3. \A s \in Sessions : db[Sess(s)] # "terminated"
  <2>1. \A s \in Sessions : db[Sess(s)] = IF operatorOf[s] = None THEN None ELSE "running"
    BY RowsAre DEF Init, Sess
  <2> QED
    BY <2>1, NothingAssumption
<1>4. \A w \in Workers : Traced(wk[w])
  BY <1>2 DEF Traced, AtRest
<1> QED
  BY <1>1, <1>2, <1>3, <1>4 DEF EndInv, EndedInv, KilledForCause

\* What was traced to the spool stays so, and what w has read now is.
LEMMA TracedOn ==
  ASSUME Spooled \subseteq Spooled', NEW y, Traced(y), NEW v, wk'[v] = y
  PROVE  Traced(wk[v])'
BY DEF Traced

LEMMA TracedAll ==
  ASSUME \A v \in Workers : Traced(wk[v]), Spooled \subseteq Spooled', NEW w \in Workers, Traced(wk'[w]),
         \A v \in Workers : v # w => wk'[v] = wk[v]
  PROVE  \A v \in Workers : Traced(wk[v])'
<1> SUFFICES ASSUME NEW v \in Workers PROVE Traced(wk[v])'
  OBVIOUS
<1>1. PICK y : y = wk'[v] /\ Traced(y)
  OBVIOUS
<1> QED
  BY <1>1, TracedOn

\* Neither a cause nor a record goes while spool, rows and kills stay.
LEMMA CausesStay ==
  ASSUME EndInv, UNCHANGED <<spool, db, killed>>
  PROVE  (KilledForCause /\ EndedInv)' /\ Spooled' = Spooled
BY DEF EndInv, KilledForCause, EndedInv, Recorded, Spooled

\* A step of w that writes nothing.
LEMMA EndQuiet ==
  ASSUME ClearingInv, EndInv, NEW w \in Workers, NEW x, wk' = [wk EXCEPT ![w] = x],
         UNCHANGED <<spool, db, tx, killed>>, Traced(x), wk[w].pc # "kill"
  PROVE  EndInv'
<1>1. wk'[w] = x /\ \A v \in Workers : v # w => wk'[v] = wk[v]
  BY DEF ClearingInv, WorkerInv
<1>2. \A v \in Workers : Traced(wk[v])'
  BY <1>1, CausesStay, TracedAll DEF EndInv
<1>3. ASSUME NEW v \in Workers, NEW s \in Sessions, Sess(s) \in DOMAIN tx'[v] PROVE (Told(s, wk[v]) /\ Holds(v, s))'
  <2>1. Told(s, wk[v]) /\ Holds(v, s)
    BY <1>3 DEF EndInv
  <2> QED
    BY <1>1, <2>1 DEF Told, Holds
<1> QED
  BY <1>2, <1>3, CausesStay DEF EndInv

\* A statement of w that ends no session.
LEMMA EndWrite ==
  ASSUME ClearingInv, EndInv, NEW w \in Workers, NEW f, DOMAIN f \subseteq Rows, Write(w, f), UNCHANGED Outside,
         NEW x, wk' = [wk EXCEPT ![w] = x], wk[w].pc # "kill", x.pc # "kill", x.lines = wk[w].lines,
         \A s \in Sessions : Sess(s) \notin DOMAIN f,
         \A b \in Breaches : Out(b) \in DOMAIN f => f[Out(b)] # None
  PROVE  EndInv'
<1>1. wk'[w] = x /\ \A v \in Workers : v # w => wk'[v] = wk[v]
  BY DEF ClearingInv, WorkerInv
<1>2. UNCHANGED <<spool, db, killed>>
  BY DEF Outside
<1>3. /\ DOMAIN tx'[w] = DOMAIN f \cup DOMAIN tx[w]
      /\ \A r : Seen(w, r)' = IF r \in DOMAIN f THEN f[r] ELSE Seen(w, r)
      /\ \A v \in Workers : v # w => tx'[v] = tx[v]
  BY <1>2, WriteEffect DEF ClearingInv
<1>4. \A v \in Workers : Traced(wk[v])'
  <2>1. Traced(x)
    BY DEF EndInv, Traced
  <2> QED
    BY <1>1, <1>2, <2>1, CausesStay, TracedAll DEF EndInv
<1>5. ASSUME NEW v \in Workers, NEW s \in Sessions, Sess(s) \in DOMAIN tx'[v] PROVE (Told(s, wk[v]) /\ Holds(v, s))'
  <2>1. Sess(s) \in DOMAIN tx[v]
    BY <1>3, <1>5
  <2>2. Told(s, wk[v]) /\ Holds(v, s)
    BY <2>1 DEF EndInv
  <2>3. Told(s, wk[v])'
    BY <1>1, <1>2, <2>2 DEF Told
  <2>4. CASE v # w
    BY <1>3, <2>2, <2>3, <2>4 DEF Holds
  <2>5. CASE v = w
    <3>1. PICK b \in Breaches : sessionOf[b] = s /\ Out(b) \in DOMAIN tx[w] /\ tx[w][Out(b)] # None
      BY <2>2, <2>5 DEF Holds
    <3>2. Out(b) \in DOMAIN tx'[w] /\ tx'[w][Out(b)] = Seen(w, Out(b))' /\ Seen(w, Out(b)) = tx[w][Out(b)]
      BY <1>3, <3>1 DEF Seen
    <3>3. tx'[w][Out(b)] # None
      BY <1>3, <3>1, <3>2
    <3> QED
      BY <2>3, <2>5, <3>1, <3>2, <3>3 DEF Holds
  <2> QED
    BY <2>4, <2>5
<1> QED
  BY <1>2, <1>4, <1>5, CausesStay DEF EndInv

LEMMA EndRollback ==
  ASSUME ClearingInv, EndInv, NEW w \in Workers, Rollback(w), UNCHANGED <<spool, db, killed>>
  PROVE  EndInv'
<1>1. /\ DOMAIN tx'[w] = {} /\ wk'[w] = AtRest
      /\ \A v \in Workers : v # w => tx'[v] = tx[v] /\ wk'[v] = wk[v]
  BY RollbackEffect DEF Rollback, ClearingInv, WorkerInv
<1>2. \A v \in Workers : Traced(wk[v])'
  <2>1. Traced(AtRest)
    BY DEF Traced, AtRest
  <2> QED
    BY <1>1, <2>1, CausesStay, TracedAll DEF EndInv
<1>3. ASSUME NEW v \in Workers, NEW s \in Sessions, Sess(s) \in DOMAIN tx'[v] PROVE (Told(s, wk[v]) /\ Holds(v, s))'
  <2>1. v # w /\ Told(s, wk[v]) /\ Holds(v, s)
    BY <1>1, <1>3 DEF EndInv
  <2> QED
    BY <1>1, <2>1 DEF Told, Holds
<1> QED
  BY <1>2, <1>3, CausesStay DEF EndInv

LEMMA TracedTail ==
  ASSUME NEW q \in Seq(Breaches \cup {Torn}), q # <<>>, \A i \in 1..Len(q) : q[i] \in Spooled \cup {Torn}
  PROVE  \A i \in 1..Len(Tail(q)) : Tail(q)[i] \in Spooled \cup {Torn}
<1> TAKE i \in 1..Len(Tail(q))
<1>1. i + 1 \in 1..Len(q) /\ Tail(q)[i] = q[i + 1]
  OBVIOUS
<1> QED
  BY <1>1

LEMMA EndReads ==
  ASSUME ClearingInv, EndInv, NEW w \in Workers,
         OpenSpool(w) \/ SkipLine(w) \/ SkipKeyMismatch(w) \/ SkipDuplicate(w)
  PROVE  EndInv'
<1>1. AtWork(wk[w]) /\ spool \in Seq(Breaches) /\ w \in DOMAIN wk /\ Traced(wk[w])
  BY DEF ClearingInv, WorkerInv, EndInv
<1>2. CASE OpenSpool(w)
  <2>1. PICK lines \in {spool} \cup {Append(SubSeq(spool, 1, n - 1), Torn) : n \in {Len(spool)} \ {0}} :
          wk' = [wk EXCEPT ![w].pc = "ingest", ![w].lines = lines]
    BY <1>2 DEF OpenSpool
  <2>2. \A i \in 1..Len(lines) : lines[i] \in Spooled \cup {Torn}
    <3>1. CASE lines = spool
      BY <3>1 DEF Spooled
    <3>2. CASE lines # spool
      <4>1. Len(spool) # 0 /\ lines = Append(SubSeq(spool, 1, Len(spool) - 1), Torn)
        BY <2>1, <3>2
      <4>2. \A i \in 1..Len(lines) : lines[i] = Torn \/ (i \in 1..Len(spool) /\ lines[i] = spool[i])
        BY <1>1, <4>1
      <4> QED
        BY <4>2 DEF Spooled
    <3> QED
      BY <3>1, <3>2
  <2> DEFINE x == [wk[w] EXCEPT !.pc = "ingest", !.lines = lines]
  <2>3. wk' = [wk EXCEPT ![w] = x] /\ x.pc = "ingest" /\ x.lines = lines
    BY <1>1, <2>1 DEF AtWork
  <2>4. Traced(x)
    BY <2>2, <2>3 DEF Traced
  <2>5. UNCHANGED <<spool, db, tx, killed>> /\ wk[w].pc # "kill"
    BY <1>2 DEF OpenSpool, Outside
  <2> HIDE DEF x
  <2> QED
    BY <2>3, <2>4, <2>5, EndQuiet
<1>3. CASE SkipLine(w) \/ SkipKeyMismatch(w) \/ SkipDuplicate(w)
  <2> DEFINE x == [wk[w] EXCEPT !.lines = Tail(@)]
  <2>1. AtLine(w) /\ wk' = [wk EXCEPT ![w] = x] /\ UNCHANGED <<spool, db, tx, killed>>
    BY <1>3 DEF SkipLine, SkipKeyMismatch, SkipDuplicate, NextLine, Outside
  <2>2. x.pc = "ingest" /\ x.lines = Tail(wk[w].lines) /\ wk[w].pc = "ingest"
    BY <1>1, <2>1 DEF AtWork, AtLine
  <2>3. \A i \in 1..Len(Tail(wk[w].lines)) : Tail(wk[w].lines)[i] \in Spooled \cup {Torn}
    BY <1>1, <2>1, TracedTail DEF AtWork, AtLine, Traced
  <2>4. Traced(x)
    BY <2>2, <2>3 DEF Traced
  <2> HIDE DEF x
  <2> QED
    BY <2>1, <2>2, <2>4, EndQuiet
<1> QED
  BY <1>2, <1>3

LEMMA EndKill ==
  ASSUME ClearingInv, EndInv, NEW w \in Workers, Kill(w)
  PROVE  EndInv'
<1>1. AtWork(wk[w]) /\ w \in DOMAIN wk /\ Traced(wk[w]) /\ wk[w].pc = "kill"
  BY DEF ClearingInv, WorkerInv, EndInv, Kill
<1> DEFINE x == [wk[w] EXCEPT !.pc = "ingest", !.lines = Tail(@), !.item = None]
           c == wk[w].item
<1>2. /\ wk' = [wk EXCEPT ![w] = x] /\ UNCHANGED <<spool, db, tx>>
      /\ killed' = killed \cup {sessionOf[c]} \/ (Unheard /\ killed' = killed)
  BY DEF Kill, Unheard
<1>3. wk'[w] = x /\ \A v \in Workers : v # w => wk'[v] = wk[v]
  BY <1>2 DEF ClearingInv, WorkerInv
<1>4. x.pc = "ingest" /\ x.lines = Tail(wk[w].lines)
  BY <1>1 DEF AtWork
<1>5. c \in Spooled \ Forged /\ Spooled' = Spooled
  BY <1>1, <1>2 DEF Traced, Spooled
<1>6. \A i \in 1..Len(x.lines) : x.lines[i] \in Spooled \cup {Torn}
  BY <1>1, <1>4, TracedTail DEF AtWork, Traced
<1> HIDE DEF x
<1>7. \A v \in Workers : Traced(wk[v])'
  <2>1. Traced(wk'[w])
    BY <1>3, <1>4, <1>5, <1>6 DEF Traced
  <2> QED
    BY <1>3, <1>5, <2>1, TracedAll DEF EndInv
<1>8. KilledForCause'
  BY <1>2, <1>5 DEF EndInv, KilledForCause
<1>9. ASSUME NEW v \in Workers, NEW s \in Sessions, Sess(s) \in DOMAIN tx'[v] PROVE (Told(s, wk[v]) /\ Holds(v, s))'
  <2>1. Told(s, wk[v]) /\ Holds(v, s)
    BY <1>2, <1>9 DEF EndInv
  <2>2. Holds(v, s)'
    BY <1>2, <2>1 DEF Holds
  <2>3. Told(s, wk[v])'
    <3>1. CASE v = w
      BY <1>2, <2>1, <3>1 DEF Told, Unheard
    <3>2. CASE v # w
      BY <1>2, <1>3, <2>1, <3>2 DEF Told, Unheard
    <3> QED
      BY <3>1, <3>2
  <2> QED
    BY <2>2, <2>3
<1>10. \A s \in Sessions : db'[Sess(s)] = "terminated" => (Unheard \/ s \in killed') /\ Recorded(s)'
  BY <1>2 DEF EndInv, EndedInv, Recorded
<1> QED
  BY <1>7, <1>8, <1>9, <1>10 DEF EndInv, EndedInv, Unheard

LEMMA EndIngest ==
  ASSUME ClearingInv, EndInv, NEW w \in Workers, Ingest(w)
  PROVE  EndInv'
<1>1. PICK c \in Breaches : c = Line(w)
  BY DEF Ingest
<1> DEFINE f == Ingested(w, c)
           x == [wk[w] EXCEPT !.pc = "kill", !.item = c]
<1>2. /\ Write(w, f) /\ UNCHANGED <<spool, db, killed>> /\ wk' = [wk EXCEPT ![w] = x]
      /\ c \notin Forged /\ wk[w].pc = "ingest" /\ wk[w].lines # <<>>
  BY <1>1 DEF Ingest, Fresh, Verified, Outside, AtLine
<1>3. c \in Spooled
  <2>1. wk[w].lines \in Seq(Breaches \cup {Torn}) /\ Traced(wk[w])
    BY DEF ClearingInv, WorkerInv, AtWork, EndInv
  <2>2. c = wk[w].lines[1] /\ 1 \in 1..Len(wk[w].lines)
    BY <1>1, <1>2, <2>1 DEF Line
  <2> QED
    BY <2>1, <2>2, TornAssumption DEF Traced
<1>4. /\ DOMAIN f \subseteq {Key(keyOf[c].id), Out(c), Slash(c), Sess(sessionOf[c])}
      /\ Out(c) \in DOMAIN f /\ f[Out(c)] = "unsubmitted"
  BY RowsDiffer DEF Ingested, Overlay, KeyRow
<1>5. wk'[w] = x /\ \A v \in Workers : v # w => wk'[v] = wk[v]
  BY <1>2 DEF ClearingInv, WorkerInv
<1>6. x.pc = "kill" /\ x.item = c /\ x.lines = wk[w].lines
  BY DEF ClearingInv, WorkerInv, AtWork
<1> HIDE DEF f, x
<1>7. DOMAIN f \subseteq Rows
  BY <1>4, RowsAre
<1>8. /\ DOMAIN tx'[w] = DOMAIN f \cup DOMAIN tx[w]
      /\ \A r : Seen(w, r)' = IF r \in DOMAIN f THEN f[r] ELSE Seen(w, r)
      /\ \A v \in Workers : v # w => tx'[v] = tx[v]
  BY <1>2, <1>7, WriteEffect DEF ClearingInv
<1>9. \A v \in Workers : Traced(wk[v])'
  <2>1. Traced(wk[w])
    BY DEF EndInv
  <2>2. Traced(x)
    BY <1>2, <1>3, <1>6, <2>1 DEF Traced
  <2> QED
    BY <1>2, <1>5, <2>2, CausesStay, TracedAll DEF EndInv
<1>10. ASSUME NEW v \in Workers, NEW s \in Sessions, Sess(s) \in DOMAIN tx'[v] PROVE (Told(s, wk[v]) /\ Holds(v, s))'
  <2>1. CASE v # w
    <3>1. Told(s, wk[v]) /\ Holds(v, s)
      BY <1>8, <1>10, <2>1 DEF EndInv
    <3> QED
      BY <1>2, <1>5, <1>8, <2>1, <3>1 DEF Told, Holds
  <2>2. CASE v = w /\ Sess(s) \in DOMAIN tx[w]
    <3>1. Told(s, wk[w]) /\ Holds(w, s)
      BY <2>2 DEF EndInv
    <3>2. Told(s, wk[w])'
      BY <1>2, <3>1 DEF Told
    <3>3. PICK b \in Breaches : sessionOf[b] = s /\ Out(b) \in DOMAIN tx[w] /\ tx[w][Out(b)] # None
      BY <3>1 DEF Holds
    <3>4. Out(b) \in DOMAIN tx'[w] /\ tx'[w][Out(b)] = Seen(w, Out(b))' /\ Seen(w, Out(b)) = tx[w][Out(b)]
      BY <1>8, <3>3 DEF Seen
    <3>5. Out(b) \in DOMAIN f => f[Out(b)] = "unsubmitted"
      BY <1>4, RowsDiffer
    <3>6. tx'[w][Out(b)] # None
      BY <1>8, <3>3, <3>4, <3>5, NothingAssumption
    <3> QED
      BY <2>2, <3>2, <3>3, <3>4, <3>6 DEF Holds
  <2>3. CASE v = w /\ Sess(s) \notin DOMAIN tx[w]
    <3>1. s = sessionOf[c]
      BY <1>4, <1>8, <1>10, <2>3, RowsDiffer
    <3>2. Told(s, wk[w])'
      BY <1>5, <1>6, <3>1 DEF Told
    <3>3. Out(c) \in DOMAIN tx'[w] /\ tx'[w][Out(c)] = "unsubmitted"
      BY <1>4, <1>8 DEF Seen
    <3> QED
      BY <2>3, <3>1, <3>2, <3>3, NothingAssumption DEF Holds
  <2> QED
    BY <2>1, <2>2, <2>3
<1> QED
  BY <1>2, <1>9, <1>10, CausesStay DEF EndInv

LEMMA EndMoves ==
  ASSUME ClearingInv, EndInv, NEW w \in Workers,
         \/ SelectUnsubmitted(w) \/ SelectSlashable(w) \/ SelectCandidates(w)
         \/ \E b \in Breaches : ConfirmMisses(w, b)
         \/ (\E o \in Operators : CheckPending(w, o)) \/ CheckDisputed(w) \/ CheckUnsubmitted(w)
  PROVE  EndInv'
<1>1. AtWork(wk[w]) /\ w \in DOMAIN wk /\ Traced(wk[w])
  BY DEF ClearingInv, WorkerInv, EndInv
<1>2. UNCHANGED <<spool, db, tx, killed>> /\ wk[w].pc # "kill"
  BY DEF SelectUnsubmitted, SelectSlashable, SelectCandidates, Select, ConfirmMisses, CheckPending, CheckDisputed,
     CheckUnsubmitted, Check, Outside
<1> DEFINE Moved(p, R, o) == [wk[w] EXCEPT !.pc = p, !.rows = R, !.item = o]
<1>3. ASSUME NEW p, p # "kill", NEW R, NEW o, wk' = [wk EXCEPT ![w] = Moved(p, R, o)] PROVE EndInv'
  <2>1. Moved(p, R, o).pc # "kill" /\ Moved(p, R, o).lines = wk[w].lines
    BY <1>1, <1>3 DEF AtWork
  <2> HIDE DEF Moved
  <2>2. Traced(Moved(p, R, o))
    BY <1>1, <2>1 DEF Traced
  <2> QED
    BY <1>2, <1>3, <2>2, EndQuiet
<1>4. ASSUME NEW p, p # "kill", NEW R, Select(w, p, R) PROVE EndInv'
  <2>1. wk' = [wk EXCEPT ![w] = Moved(p, R, wk[w].item)]
    BY <1>1, <1>4 DEF AtWork, Select
  <2> QED
    BY <1>3, <1>4, <2>1
<1>5. ASSUME NEW o, NEW hit, NEW p, p # "kill", Check(w, o, hit, p) PROVE EndInv'
  <2>1. CASE wk' = [wk EXCEPT ![w].pc = "guard", ![w].rows = @ \ {o}, ![w].item = None]
    <3>1. wk' = [wk EXCEPT ![w] = Moved("guard", wk[w].rows \ {o}, None)]
      BY <1>1, <2>1 DEF AtWork
    <3> QED
      BY <1>3, <3>1
  <2>2. CASE wk' = [wk EXCEPT ![w].pc = p, ![w].item = o]
    <3>1. wk' = [wk EXCEPT ![w] = Moved(p, wk[w].rows, o)]
      BY <1>1, <2>2 DEF AtWork
    <3> QED
      BY <1>3, <1>5, <3>1
  <2> QED
    BY <1>5, <2>1, <2>2 DEF Check
<1>6. ASSUME NEW b \in Breaches, ConfirmMisses(w, b) PROVE EndInv'
  <2>1. wk' = [wk EXCEPT ![w] = Moved("confirm", wk[w].rows \ {b}, wk[w].item)]
    BY <1>1, <1>6 DEF AtWork, ConfirmMisses, Done
  <2> QED
    BY <1>3, <2>1
<1>7. CASE SelectUnsubmitted(w) \/ SelectSlashable(w) \/ SelectCandidates(w)
  BY <1>4, <1>7, Zenon DEF SelectUnsubmitted, SelectSlashable, SelectCandidates
<1>8. CASE (\E o \in Operators : CheckPending(w, o)) \/ CheckDisputed(w) \/ CheckUnsubmitted(w)
  BY <1>5, <1>8, Zenon DEF CheckPending, CheckDisputed, CheckUnsubmitted
<1> QED
  BY <1>6, <1>7, <1>8

LEMMA EndWrites ==
  ASSUME ClearingInv, EndInv, NEW w \in Workers,
         (\E b \in Breaches : Confirm(w, b) \/ ExecuteSlash(w, b)) \/ Release(w)
  PROVE  EndInv'
<1>1. AtWork(wk[w]) /\ w \in DOMAIN wk
  BY DEF ClearingInv, WorkerInv
<1>2. ASSUME NEW b \in Breaches, Confirm(w, b) PROVE EndInv'
  <2> DEFINE f == Confirmed(w, b)
             x == [wk[w] EXCEPT !.rows = @ \ {b}]
  <2>1. wk' = [wk EXCEPT ![w] = x] /\ Write(w, f) /\ UNCHANGED Outside /\ wk[w].pc = "confirm"
    BY <1>2 DEF Confirm, Done
  <2>2. x.pc = "confirm" /\ x.lines = wk[w].lines
    BY <1>1, <2>1 DEF AtWork
  <2>3. DOMAIN f \subseteq {Out(b), Slash(b)} /\ (Out(b) \in DOMAIN f => f[Out(b)] = "submitted")
    BY DEF Confirmed
  <2> HIDE DEF f, x
  <2>4. /\ DOMAIN f \subseteq Rows
        /\ \A s \in Sessions : Sess(s) \notin DOMAIN f
        /\ \A c \in Breaches : Out(c) \in DOMAIN f => f[Out(c)] # None
    <3>1. DOMAIN f \subseteq Rows
      BY <2>3, RowsAre
    <3>2. \A s \in Sessions : Sess(s) \notin DOMAIN f
      BY <2>3, RowsDiffer
    <3>3. \A c \in Breaches : Out(c) \in DOMAIN f => Out(c) = Out(b)
      BY <2>3, RowsDiffer
    <3> QED
      BY <2>3, <3>1, <3>2, <3>3, NothingAssumption
  <2> QED
    BY <2>1, <2>2, <2>4, EndWrite
<1>3. ASSUME NEW b \in Breaches, ExecuteSlash(w, b) PROVE EndInv'
  <2> DEFINE x == [wk[w] EXCEPT !.rows = @ \ {b}]
  <2>1. wk' = [wk EXCEPT ![w] = x] /\ UNCHANGED Outside /\ wk[w].pc = "slash"
    BY <1>3 DEF ExecuteSlash, Done
  <2>2. x.pc = "slash" /\ x.lines = wk[w].lines
    BY <1>1, <2>1 DEF AtWork
  <2>3. PICK f, o : Write(w, f) /\ DOMAIN f \subseteq {Slash(b)} \cup ({Agent(agentOf[b]), Bond(o)} \cap Rows)
    BY <1>3 DEF ExecuteSlash
  <2> HIDE DEF x
  <2>4. /\ DOMAIN f \subseteq Rows
        /\ \A s \in Sessions : Sess(s) \notin DOMAIN f
        /\ \A c \in Breaches : Out(c) \notin DOMAIN f
    BY <2>3, RowsAre, RowsDiffer
  <2> QED
    BY <2>1, <2>2, <2>3, <2>4, EndWrite
<1>4. CASE Release(w)
  <2> DEFINE o == wk[w].item
             f == [r \in {Bond(o)} |-> [View(w)[r] EXCEPT !.status = "withdrawn"]]
             x == [wk[w] EXCEPT !.pc = "guard", !.rows = @ \ {o}, !.item = None]
  <2>1. wk' = [wk EXCEPT ![w] = x] /\ Write(w, f) /\ UNCHANGED Outside /\ wk[w].pc = "release"
    BY <1>4 DEF Release
  <2>2. x.pc = "guard" /\ x.lines = wk[w].lines /\ o \in Operators
    BY <1>1, <2>1, ShapeAssumption DEF AtWork
  <2>3. DOMAIN f = {Bond(o)}
    OBVIOUS
  <2> HIDE DEF f, x, o
  <2>4. /\ DOMAIN f \subseteq Rows
        /\ \A s \in Sessions : Sess(s) \notin DOMAIN f
        /\ \A c \in Breaches : Out(c) \notin DOMAIN f
    BY <2>2, <2>3, RowsAre, RowsDiffer
  <2> QED
    BY <2>1, <2>2, <2>4, EndWrite
<1> QED
  BY <1>2, <1>3, <1>4

LEMMA EndCommit ==
  ASSUME ClearingInv, EndInv, NEW w \in Workers, Commit(w)
  PROVE  EndInv'
<1>1. /\ wk[w].pc = "guard" /\ UNCHANGED <<spool, killed>>
      /\ \A r \in Rows : db'[r] = Seen(w, r)
  BY ViewIs DEF Commit, ClearingInv
<1>2. /\ DOMAIN tx'[w] = {} /\ wk'[w] = AtRest
      /\ \A v \in Workers : v # w => tx'[v] = tx[v] /\ wk'[v] = wk[v]
  BY RollbackEffect DEF Commit, ClearingInv, WorkerInv
<1>3. \A v \in Workers : Traced(wk[v])'
  <2>1. Traced(AtRest)
    BY DEF Traced, AtRest
  <2> QED
    BY <1>1, <1>2, <2>1, TracedAll DEF EndInv, Spooled
<1>4. ASSUME NEW v \in Workers, NEW s \in Sessions, Sess(s) \in DOMAIN tx'[v] PROVE (Told(s, wk[v]) /\ Holds(v, s))'
  <2>1. v # w /\ Told(s, wk[v]) /\ Holds(v, s)
    BY <1>2, <1>4 DEF EndInv
  <2> QED
    BY <1>1, <1>2, <2>1 DEF Told, Holds
<1>5. ASSUME NEW s \in Sessions, db'[Sess(s)] = "terminated" PROVE (Unheard \/ s \in killed) /\ Recorded(s)'
  <2>1. Sess(s) \in Rows /\ Seen(w, Sess(s)) = "terminated"
    BY <1>1, <1>5, RowsAre
  <2>2. CASE Sess(s) \in DOMAIN tx[w]
    <3>1. Told(s, wk[w]) /\ Holds(w, s)
      BY <2>2 DEF EndInv
    <3>2. Unheard \/ s \in killed
      BY <1>1, <3>1 DEF Told
    <3>3. PICK b \in Breaches : sessionOf[b] = s /\ Out(b) \in DOMAIN tx[w] /\ tx[w][Out(b)] # None
      BY <3>1 DEF Holds
    <3>4. db'[Out(b)] # None
      BY <1>1, <3>3, RowsAre DEF Seen
    <3> QED
      BY <3>2, <3>3, <3>4 DEF Recorded
  <2>3. CASE Sess(s) \notin DOMAIN tx[w]
    <3>1. db[Sess(s)] = "terminated"
      BY <2>1, <2>3 DEF Seen
    <3>2. (Unheard \/ s \in killed) /\ Recorded(s)
      BY <3>1 DEF EndInv, EndedInv
    <3>3. PICK b \in Breaches : sessionOf[b] = s /\ db[Out(b)] # None
      BY <3>2 DEF Recorded
    <3>4. Ahead(Out(b), db[Out(b)], Seen(w, Out(b)))
      BY RowsAre DEF ClearingInv, RowInv
    <3>5. db'[Out(b)] # None
      <4>1. Seen(w, Out(b)) # None
        BY <3>3, <3>4, AheadAt
      <4>2. db'[Out(b)] = Seen(w, Out(b))
        BY <1>1, <3>3, RowsAre
      <4> QED
        BY <4>1, <4>2
    <3> QED
      BY <3>2, <3>3, <3>5 DEF Recorded
  <2> QED
    BY <2>2, <2>3
<1> QED
  BY <1>1, <1>3, <1>4, <1>5 DEF EndInv, EndedInv, KilledForCause, Spooled, Unheard

LEMMA EndElsewhere ==
  ASSUME ClearingInv, EndInv, NEW row \in Rows, NEW x, Elsewhere(row, x),
         \A s \in Sessions : row # Sess(s), \A b \in Breaches : row # Out(b)
  PROVE  EndInv'
<1>1. UNCHANGED <<spool, tx, wk, killed>>
  BY DEF Elsewhere
<1>2. /\ \A s \in Sessions : db'[Sess(s)] = db[Sess(s)]
      /\ \A b \in Breaches : db'[Out(b)] = db[Out(b)]
  BY RowsAre DEF Elsewhere, ClearingInv, WorkerInv
<1>3. Spooled' = Spooled
  BY <1>1 DEF Spooled
<1>4. \A w \in Workers, s \in Sessions : Sess(s) \in DOMAIN tx'[w] => (Told(s, wk[w]) /\ Holds(w, s))'
  BY <1>1 DEF EndInv, Told, Holds
<1>5. EndedInv'
  BY <1>1, <1>2 DEF EndInv, EndedInv, Recorded
<1>6. KilledForCause'
  BY <1>1, <1>3 DEF EndInv, KilledForCause
<1>7. \A w \in Workers : Traced(wk[w])'
  BY <1>1, <1>3, TracedOn DEF EndInv
<1> QED
  BY <1>4, <1>5, <1>6, <1>7 DEF EndInv

LEMMA EndLonger ==
  ASSUME ClearingInv, EndInv, UNCHANGED <<db, tx, wk, killed>>, Spooled \subseteq Spooled'
  PROVE  EndInv'
<1>1. KilledForCause' /\ EndedInv'
  BY DEF EndInv, KilledForCause, EndedInv, Recorded
<1>2. \A w \in Workers : Traced(wk[w])'
  BY DEF EndInv, Traced
<1>3. \A w \in Workers, s \in Sessions : Sess(s) \in DOMAIN tx'[w] => (Told(s, wk[w]) /\ Holds(w, s))'
  BY DEF EndInv, Told, Holds
<1> QED
  BY <1>1, <1>2, <1>3 DEF EndInv

LEMMA EndNextInv ==
  ASSUME ClearingInv, EndInv, [Next]_vars
  PROVE  EndInv'
<1>1. ASSUME NEW w \in Workers, IngestRejected(w) \/ Fail(w) PROVE EndInv'
  <2>1. Rollback(w) /\ UNCHANGED <<spool, db, killed>>
    BY <1>1 DEF IngestRejected, Fail, Outside
  <2> QED
    BY <2>1, EndRollback
<1>2. ASSUME NEW w \in Workers, Cycle(w) \/ Fail(w) PROVE EndInv'
  BY <1>1, <1>2, EndReads, EndIngest, EndKill, EndMoves, EndWrites, EndCommit DEF Cycle
<1>3. ASSUME NEW b \in Breaches, Dispute(b) PROVE EndInv'
  <2>1. PICK x : Elsewhere(Slash(b), x)
    BY <1>3 DEF Dispute
  <2>2. Slash(b) \in Rows /\ (\A s \in Sessions : Slash(b) # Sess(s)) /\ \A c \in Breaches : Slash(b) # Out(c)
    BY RowsAre, RowsDiffer
  <2> QED
    BY <2>1, <2>2, EndElsewhere
<1>4. ASSUME NEW o \in Operators, RequestWithdrawal(o) \/ HoldExpires(o) PROVE EndInv'
  <2>1. PICK x : Elsewhere(Bond(o), x)
    BY <1>4 DEF RequestWithdrawal, HoldExpires
  <2>2. Bond(o) \in Rows /\ (\A s \in Sessions : Bond(o) # Sess(s)) /\ \A c \in Breaches : Bond(o) # Out(c)
    BY RowsAre, RowsDiffer
  <2> QED
    BY <2>1, <2>2, EndElsewhere
<1>5. ASSUME NEW b \in Breaches, AppendEntry(b) PROVE EndInv'
  <2>1. spool' = Append(spool, b) /\ UNCHANGED <<db, tx, wk, killed>> /\ spool \in Seq(Breaches)
    BY <1>5 DEF AppendEntry, Log!Record, ClearingInv, WorkerInv
  <2>2. Spooled \subseteq Spooled'
    BY <2>1 DEF Spooled
  <2> QED
    BY <2>1, <2>2, EndLonger
<1>6. CASE Attest \/ UNCHANGED vars
  <2>1. UNCHANGED <<spool, db, tx, wk, killed>>
    BY <1>6 DEF Attest, Log!Attest, vars
  <2> QED
    BY <2>1, EndLonger DEF Spooled
<1> QED
  BY <1>2, <1>3, <1>4, <1>5, <1>6 DEF Next

LEMMA EndInvariant == Spec => []EndInv
<1>1. ClearingInv /\ EndInv /\ [Next]_vars => EndInv'
  BY EndNextInv
<1> QED
  BY EndInitInv, ClearingInvariant, <1>1, PTL DEF Spec

\* The outbox row, the slash and the end of the session of a breach are committed together,
\* and no session's row is ended without (ingest_and_kill), for any number of clearing
\* processes.
THEOREM BreachesAreRecordedTogether == Spec => []RecordedTogether
<1>1. ClearingInv /\ EndInv => RecordedTogether
  BY DEF ClearingInv, Committed, Good, EndInv, EndedInv, Recorded, RecordedTogether
<1> QED
  BY ClearingInvariant, EndInvariant, <1>1, PTL

\* The enforcer is told to delete a session only for a breach of it that is spooled and
\* verifies, also by cycles that fail afterwards (ingest_and_kill).
THEOREM KillsHaveACause == Spec => []KilledForCause
<1>1. EndInv => KilledForCause
  BY DEF EndInv
<1> QED
  BY EndInvariant, <1>1, PTL

\* "session.terminated_at set  (clearing killed the session)" (README.md:80) is true of any
\* number of clearing processes, whatever cycles fail, as long as no DELETE does: that its
\* answer is not looked at (enforcer_delete) is the only way to break it.
THEOREM TerminatedIsKilledIfHeard ==
  ASSUME "killFails" \notin ClearingFaults
  PROVE  Spec => []TerminatedIsKilled
<1>1. EndInv => TerminatedIsKilled
  BY DEF EndInv, EndedInv, Unheard, TerminatedIsKilled
<1> QED
  BY EndInvariant, <1>1, PTL
=============================================================================
