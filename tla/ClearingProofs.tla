--------------------------- MODULE ClearingProofs ---------------------------
(***************************************************************************)
(* Proofs about Clearing for any breaches, sessions, operators and keys,   *)
(* any number of clearing processes and any failures.                      *)
(*                                                                         *)
(* Two invariants speak of single rows: every value fits its row, and what *)
(* a transaction wrote is ahead of what is committed.  The others relate   *)
(* the rows of one breach, in the committed state and as a worker sees     *)
(* them, and say which of these rows a transaction holds together.         *)
(***************************************************************************)
EXTENDS Clearing, TLAPS

\* Row r as worker w reads it.
Seen(w, r) == IF r \in DOMAIN tx[w] THEN tx[w][r] ELSE db[r]

Fits(r, x) ==
  /\ \A k \in KeyIds : r = Key(k) => x \in {None} \cup {keyOf[b].x : b \in Breaches}
  /\ \A b \in Breaches : r = Out(b) => x \in {None, "unsubmitted", "submitted"}
  /\ \A b \in Breaches : r = Slash(b) => x \in {None} \cup SlashRow
  /\ \A s \in Sessions : r = Sess(s) => x \in IF operatorOf[s] = None THEN {None} ELSE {"running", "terminated"}
  /\ \A a \in Agents : r = Agent(a) => x \in IF a \in Registered THEN 0..startScore ELSE {None}
  /\ \A o \in Operators : r = Bond(o) => x \in IF o \in Bonded THEN BondRow ELSE {None}

\* What no statement undoes: keys, the end of a session, a row's presence, the log
\* entry, a dispute, the end of a bond.
Ahead(r, x, y) ==
  /\ \A k \in KeyIds : r = Key(k) => (x # None => y = x)
  /\ \A b \in Breaches : r = Out(b) => (x # None => y # None) /\ (x = "submitted" => y = "submitted")
  /\ \A b \in Breaches : r = Slash(b) => (x # None =>
       /\ y # None
       /\ x.entry => y.entry
       /\ x.status = "disputed" => y.status = "disputed")
  /\ \A s \in Sessions : r = Sess(s) => (x # "running" => y # "running")
  /\ \A o \in Bonded : r = Bond(o) => (x.status # "active" => y.status # "active")

RowInv ==
  /\ \A r \in Rows : Fits(r, db[r])
  /\ \A w \in Workers, r \in Rows : Fits(r, Seen(w, r)) /\ Ahead(r, db[r], Seen(w, r))

AtWork(x) ==
  /\ x \in [pc : {"rest", "ingest", "kill", "confirm", "slash", "guard", "disputes", "unsubmitted", "release"},
            lines : Seq(Breaches \cup {Torn}),
            rows : SUBSET (Breaches \cup Operators),
            item : Breaches \cup Operators \cup {None}]
  /\ x.pc = "kill" => x.lines # <<>> /\ x.item \in Breaches
  /\ x.pc \in {"confirm", "slash"} => x.rows \subseteq Breaches
  /\ x.pc \in {"guard", "disputes", "unsubmitted", "release"} => x.rows \subseteq Bonded
  /\ x.pc \in {"disputes", "unsubmitted", "release"} => x.item \in Bonded

WorkerInv ==
  /\ spool \in Seq(Breaches) /\ rekor \in Seq(Breaches)
  /\ killed \subseteq Sessions /\ fails \in 0..MaxFails
  /\ DOMAIN db = Rows /\ DOMAIN tx = Workers
  /\ DOMAIN wk = Workers
  /\ \A w \in Workers :
       /\ AtWork(wk[w])
       /\ DOMAIN tx[w] \subseteq Rows
       /\ \A v \in Workers : v # w => DOMAIN tx[v] \cap DOMAIN tx[w] = {}

\* The rows of breach b in one reading of the tables.
Good(b, out, sl, key, sess) ==
  /\ (out = None) <=> (sl = None)
  /\ out # None => sess # "running" /\ b \notin Forged /\ key = keyOf[b].x
  /\ sl # None =>
       /\ sl.entry <=> out = "submitted"
       /\ sl.entry => b \in Logged
       /\ sl.status = "executed" => sl.entry

\* Between cycles no slash that can be executed is left.
Committed(b) ==
  /\ Good(b, db[Out(b)], db[Slash(b)], db[Key(keyOf[b].id)], db[Sess(sessionOf[b])])
  /\ db[Slash(b)] # None /\ db[Slash(b)].entry => db[Slash(b)].status # "pending"

GoodSeen(w, b) ==
  Good(b, Seen(w, Out(b)), Seen(w, Slash(b)), Seen(w, Key(keyOf[b].id)), Seen(w, Sess(sessionOf[b])))

\* A transaction that holds a row of b holds what the row depends on, or that is committed.
Together(w, b) ==
  /\ Slash(b) \in DOMAIN tx[w] => Out(b) \in DOMAIN tx[w]
  /\ Out(b) \in DOMAIN tx[w] =>
       /\ Slash(b) \in DOMAIN tx[w] \/ (db[Slash(b)] # None /\ db[Slash(b)].entry)
       /\ Key(keyOf[b].id) \in DOMAIN tx[w] \/ db[Key(keyOf[b].id)] = keyOf[b].x
       /\ Sess(sessionOf[b]) \in DOMAIN tx[w] \/ db[Sess(sessionOf[b])] # "running"

Due(sl) == sl # None /\ sl.entry /\ sl.status = "pending"

\* What the selections of a cycle are still worth when their rows are worked on.
PhaseAt(x, w, b) ==
  /\ x.pc = "confirm" /\ b \in x.rows => Seen(w, Out(b)) # None
  /\ x.pc = "slash" =>
       /\ b \in x.rows => Slash(b) \in DOMAIN tx[w] /\ Due(Seen(w, Slash(b)))
       /\ Due(Seen(w, Slash(b))) => b \in x.rows
  /\ x.pc \in {"guard", "disputes", "unsubmitted", "release"} => ~Due(Seen(w, Slash(b)))
Phase(w, b) == PhaseAt(wk[w], w, b)

BreachInv(w, b) == GoodSeen(w, b) /\ Together(w, b) /\ Phase(w, b)

ClearingInv ==
  /\ WorkerInv
  /\ RowInv
  /\ \A b \in Breaches : Committed(b)
  /\ \A w \in Workers, b \in Breaches : BreachInv(w, b)
-----------------------------------------------------------------------------
(* Rows. *)

\* Rows of different tables, and of different ids in one table, are different rows.
LEMMA RowsDiffer ==
  /\ \A x, y : Key(x) # Out(y) /\ Key(x) # Slash(y) /\ Key(x) # Sess(y) /\ Key(x) # Agent(y) /\ Key(x) # Bond(y)
  /\ \A x, y : Out(x) # Slash(y) /\ Out(x) # Sess(y) /\ Out(x) # Agent(y) /\ Out(x) # Bond(y)
  /\ \A x, y : Slash(x) # Sess(y) /\ Slash(x) # Agent(y) /\ Slash(x) # Bond(y)
  /\ \A x, y : Sess(x) # Agent(y) /\ Sess(x) # Bond(y) /\ Agent(x) # Bond(y)
  /\ \A x, y : Key(x) = Key(y) \/ Out(x) = Out(y) \/ Slash(x) = Slash(y) => x = y
  /\ \A x, y : Sess(x) = Sess(y) \/ Agent(x) = Agent(y) \/ Bond(x) = Bond(y) => x = y
BY DEF Key, Out, Slash, Sess, Agent, Bond

LEMMA RowsAre ==
  /\ \A k \in KeyIds : Key(k) \in Rows
  /\ \A b \in Breaches : Out(b) \in Rows /\ Slash(b) \in Rows
  /\ \A b \in Breaches : Key(keyOf[b].id) \in Rows /\ Sess(sessionOf[b]) \in Rows /\ Agent(agentOf[b]) \in Rows
  /\ \A s \in Sessions : Sess(s) \in Rows
  /\ \A a \in Agents : Agent(a) \in Rows
  /\ \A o \in Operators : Bond(o) \in Rows
BY ShapeAssumption DEF Rows

LEMMA KeyRowMoves ==
  ASSUME NEW b \in Breaches, NEW x \in {None, keyOf[b].x}
  PROVE  Fits(Key(keyOf[b].id), keyOf[b].x) /\ Ahead(Key(keyOf[b].id), x, keyOf[b].x)
<1>1. Fits(Key(keyOf[b].id), keyOf[b].x)
  BY RowsDiffer DEF Fits
<1>2. Ahead(Key(keyOf[b].id), x, keyOf[b].x)
  BY RowsDiffer DEF Ahead
<1> QED
  BY <1>1, <1>2

LEMMA OutRowMoves ==
  ASSUME NEW b \in Breaches, NEW x, NEW y \in {"unsubmitted", "submitted"}, x = "submitted" => y = "submitted"
  PROVE  Fits(Out(b), y) /\ Ahead(Out(b), x, y)
<1>1. y # None
  BY NothingAssumption
<1>2. Fits(Out(b), y)
  BY RowsDiffer DEF Fits
<1>3. Ahead(Out(b), x, y)
  BY <1>1, RowsDiffer DEF Ahead
<1> QED
  BY <1>2, <1>3

LEMMA SlashRowMoves ==
  ASSUME NEW b \in Breaches, NEW x, NEW y \in SlashRow,
         x # None => (x.entry => y.entry) /\ (x.status = "disputed" => y.status = "disputed")
  PROVE  Fits(Slash(b), y) /\ Ahead(Slash(b), x, y)
<1>1. y # None
  BY NothingAssumption
<1>2. Fits(Slash(b), y)
  BY RowsDiffer DEF Fits
<1>3. Ahead(Slash(b), x, y)
  BY <1>1, RowsDiffer DEF Ahead
<1> QED
  BY <1>2, <1>3

LEMMA BondRowMoves ==
  ASSUME NEW o \in Bonded, NEW x, NEW y \in BondRow, x.status # "active" => y.status # "active"
  PROVE  Fits(Bond(o), y) /\ Ahead(Bond(o), x, y)
<1>1. Fits(Bond(o), y)
  BY RowsDiffer, ShapeAssumption DEF Fits
<1>2. Ahead(Bond(o), x, y)
  BY RowsDiffer DEF Ahead
<1> QED
  BY <1>1, <1>2

LEMMA AheadSame == \A r, x : Ahead(r, x, x)
BY DEF Ahead

LEMMA AheadTransitive ==
  ASSUME NEW r, NEW x, NEW y, NEW z, Ahead(r, x, y), Ahead(r, y, z)
  PROVE  Ahead(r, x, z)
BY DEF Ahead

LEMMA ViewIs ==
  ASSUME WorkerInv, NEW w \in Workers
  PROVE  /\ DOMAIN View(w) = Rows
         /\ \A r \in Rows : View(w)[r] = Seen(w, r)
BY DEF WorkerInv, View, Overlay, Seen
-----------------------------------------------------------------------------
(* What the statements do to the rows. *)

LEMMA WriteEffect ==
  ASSUME WorkerInv, NEW w \in Workers, NEW f, DOMAIN f \subseteq Rows, Write(w, f), UNCHANGED db
  PROVE  /\ DOMAIN tx' = Workers
         /\ DOMAIN tx'[w] = DOMAIN f \cup DOMAIN tx[w]
         /\ \A r : Seen(w, r)' = IF r \in DOMAIN f THEN f[r] ELSE Seen(w, r)
         /\ \A v \in Workers : v # w => tx'[v] = tx[v] /\ (\A r : Seen(v, r)' = Seen(v, r))
         /\ \A v \in Workers : v # w => DOMAIN tx'[v] \cap DOMAIN tx'[w] = {}
<1>1. tx' = [tx EXCEPT ![w] = Overlay(f, tx[w])] /\ DOMAIN tx = Workers
  BY DEF Write, WorkerInv
<1>2. tx'[w] = Overlay(f, tx[w]) /\ DOMAIN tx' = Workers /\ \A v \in Workers : v # w => tx'[v] = tx[v]
  BY <1>1
<1>3. DOMAIN tx'[w] = DOMAIN f \cup DOMAIN tx[w]
  BY <1>2 DEF Overlay
<1>4. \A r : Seen(w, r)' = IF r \in DOMAIN f THEN f[r] ELSE Seen(w, r)
  BY <1>2 DEF Overlay, Seen
<1>5. \A v \in Workers : v # w => \A r : Seen(v, r)' = Seen(v, r)
  BY <1>2 DEF Seen
<1>6. \A v \in Workers : v # w => DOMAIN tx'[v] \cap DOMAIN tx'[w] = {}
  <2> TAKE v \in Workers
  <2> HAVE v # w
  <2>1. DOMAIN tx[v] \cap DOMAIN tx[w] = {} /\ DOMAIN tx[v] \cap DOMAIN f = {}
    BY DEF WorkerInv, Write, Unlocked
  <2> QED
    BY <1>2, <1>3, <2>1
<1> QED
  BY <1>2, <1>3, <1>4, <1>5, <1>6

LEMMA RollbackEffect ==
  ASSUME WorkerInv, NEW w \in Workers, tx' = [tx EXCEPT ![w] = Empty]
  PROVE  /\ DOMAIN tx' = Workers
         /\ DOMAIN tx'[w] = {}
         /\ \A r : Seen(w, r)' = db'[r]
         /\ \A v \in Workers : v # w => tx'[v] = tx[v]
BY DEF WorkerInv, Empty, Seen

LEMMA WriteRows ==
  ASSUME WorkerInv, RowInv, NEW w \in Workers, NEW f, DOMAIN f \subseteq Rows, Write(w, f), UNCHANGED db,
         \A r \in DOMAIN f : Fits(r, f[r]) /\ Ahead(r, Seen(w, r), f[r])
  PROVE  RowInv'
<1>1. \A r \in Rows : Fits(r, db'[r])
  BY DEF RowInv
<1>2. ASSUME NEW v \in Workers, NEW r \in Rows
      PROVE  Fits(r, Seen(v, r)') /\ Ahead(r, db'[r], Seen(v, r)')
  <2>1. CASE v = w /\ r \in DOMAIN f
    <3>1. Seen(v, r)' = f[r]
      BY <2>1, WriteEffect
    <3>2. Ahead(r, db[r], Seen(w, r)) /\ Ahead(r, Seen(w, r), f[r])
      BY <2>1 DEF RowInv
    <3> QED
      BY <2>1, <3>1, <3>2, AheadTransitive
  <2>2. CASE ~(v = w /\ r \in DOMAIN f)
    <3>1. Seen(v, r)' = Seen(v, r)
      BY <2>2, WriteEffect
    <3> QED
      BY <3>1 DEF RowInv
  <2> QED
    BY <2>1, <2>2
<1> QED
  BY <1>1, <1>2 DEF RowInv
-----------------------------------------------------------------------------
(* What others commit leaves a transaction's own picture in order. *)

LEMMA AheadAt ==
  ASSUME NEW b \in Breaches, NEW x, NEW y
  PROVE  /\ Ahead(Key(keyOf[b].id), x, y) => (x # None => y = x)
         /\ Ahead(Out(b), x, y) => (x # None => y # None) /\ (x = "submitted" => y = "submitted")
         /\ Ahead(Slash(b), x, y) => (x # None => y # None /\ (x.entry => y.entry))
         /\ Ahead(Sess(sessionOf[b]), x, y) => (x # "running" => y # "running")
BY ShapeAssumption DEF Ahead

LEMMA OthersCommit ==
  ASSUME ClearingInv, NEW v \in Workers, NEW b \in Breaches,
         tx'[v] = tx[v], wk'[v] = wk[v], rekor' = rekor,
         \A r \in DOMAIN tx[v] : db'[r] = db[r],
         \A r \in Rows : Ahead(r, db[r], db'[r]),
         Committed(b)'
  PROVE  BreachInv(v, b)'
<1> DEFINE L == DOMAIN tx[v]
           K == Key(keyOf[b].id)
           S == Sess(sessionOf[b])
<1>1. BreachInv(v, b) /\ Committed(b)
  BY DEF ClearingInv
<1>2. K \in Rows /\ S \in Rows /\ Out(b) \in Rows /\ Slash(b) \in Rows
  BY RowsAre
<1>3. \A r : Seen(v, r)' = IF r \in L THEN Seen(v, r) ELSE db'[r]
  BY DEF Seen
<1>4. DOMAIN tx'[v] = L /\ Logged' = Logged
  BY DEF Logged
<1>5. /\ db[K] # None => db'[K] = db[K]
      /\ db[Out(b)] # None => db'[Out(b)] # None
      /\ db[Slash(b)] # None => db'[Slash(b)] # None /\ (db[Slash(b)].entry => db'[Slash(b)].entry)
      /\ db[S] # "running" => db'[S] # "running"
  <2>1. Ahead(K, db[K], db'[K]) /\ Ahead(S, db[S], db'[S])
    BY <1>2
  <2>2. Ahead(Out(b), db[Out(b)], db'[Out(b)]) /\ Ahead(Slash(b), db[Slash(b)], db'[Slash(b)])
    BY <1>2
  <2>3. db[K] # None => db'[K] = db[K]
    BY <2>1, ShapeAssumption DEF Ahead
  <2>4. db[S] # "running" => db'[S] # "running"
    BY <2>1, AheadAt
  <2>5. db[Out(b)] # None => db'[Out(b)] # None
    BY <2>2, AheadAt
  <2>6. db[Slash(b)] # None => db'[Slash(b)] # None /\ (db[Slash(b)].entry => db'[Slash(b)].entry)
    BY <2>2, AheadAt
  <2> QED
    BY <2>3, <2>4, <2>5, <2>6
<1>6. db[K] # None => Seen(v, K) = db[K]
  <2>1. Ahead(K, db[K], Seen(v, K))
    BY <1>2 DEF ClearingInv, RowInv
  <2> QED
    BY <2>1, AheadAt
<1>7. db[S] # "running" => Seen(v, S) # "running"
  <2>1. Ahead(S, db[S], Seen(v, S))
    BY <1>2 DEF ClearingInv, RowInv
  <2> QED
    BY <2>1, AheadAt
<1> HIDE DEF K, S, L
<1>8. GoodSeen(v, b)'
  <2>1. Good(b, Seen(v, Out(b)), Seen(v, Slash(b)), Seen(v, K), Seen(v, S))
    BY <1>1 DEF BreachInv, GoodSeen, K, S
  <2>2. Good(b, db[Out(b)], db[Slash(b)], db[K], db[S])' /\ keyOf[b].x # None
    BY NothingAssumption DEF Committed, K, S
  <2>3. Together(v, b)
    BY <1>1 DEF BreachInv
  <2>4. Good(b, Seen(v, Out(b)), Seen(v, Slash(b)), Seen(v, K), Seen(v, S))'
    <3>1. CASE Out(b) \in L
      BY <1>3, <1>4, <1>5, <2>1, <2>2, <2>3, <3>1 DEF Good, Together, Seen, K, S, L
    <3>2. CASE Out(b) \notin L
      BY <1>3, <1>4, <1>5, <1>6, <1>7, <2>2, <2>3, <3>2 DEF Good, Together, Seen, K, S, L
    <3> QED
      BY <3>1, <3>2
  <2> QED
    BY <2>4 DEF GoodSeen, K, S
<1>9. Together(v, b)'
  BY <1>1, <1>4, <1>5, NothingAssumption DEF BreachInv, Together, K, S, L
<1>10. Phase(v, b)'
  <2>1. ~Due(db'[Slash(b)])
    BY DEF Committed, Due
  <2>2. Seen(v, Out(b)) # None => Seen(v, Out(b))' # None
    BY <1>3, <1>5 DEF Seen
  <2>3. Seen(v, Slash(b))' = IF Slash(b) \in L THEN Seen(v, Slash(b)) ELSE db'[Slash(b)]
    BY <1>3
  <2>4. Phase(v, b)
    BY <1>1 DEF BreachInv
  <2> QED
    BY <1>4, <2>1, <2>2, <2>3, <2>4 DEF Phase, PhaseAt, L
<1> QED
  BY <1>8, <1>9, <1>10 DEF BreachInv
-----------------------------------------------------------------------------
(* The kinds of steps. *)

\* Worker w moves on without a statement that writes.
LEMMA QuietStep ==
  ASSUME ClearingInv, NEW w \in Workers, UNCHANGED <<db, tx, rekor>>, WorkerInv',
         \A v \in Workers : v # w => wk'[v] = wk[v],
         \A b \in Breaches : Phase(w, b)'
  PROVE  ClearingInv'
<1>1. \A v, r : Seen(v, r)' = Seen(v, r)
  BY DEF Seen
<1>2. RowInv'
  BY <1>1 DEF RowInv, ClearingInv
<1>3. Logged' = Logged
  BY DEF Logged
<1>4. ASSUME NEW b \in Breaches PROVE Committed(b)'
  BY <1>3 DEF ClearingInv, Committed, Good
<1>5. ASSUME NEW v \in Workers, NEW b \in Breaches PROVE BreachInv(v, b)'
  <2>1. BreachInv(v, b)
    BY DEF ClearingInv
  <2>2. GoodSeen(v, b)' /\ Together(v, b)'
    BY <1>1, <1>3, <2>1 DEF BreachInv, GoodSeen, Good, Together
  <2>3. Phase(v, b)'
    BY <1>1, <2>1 DEF BreachInv, Phase, PhaseAt
  <2> QED
    BY <2>2, <2>3 DEF BreachInv
<1> QED
  BY <1>2, <1>4, <1>5 DEF ClearingInv

LEMMA QuietMove ==
  ASSUME ClearingInv, NEW w \in Workers, NEW x, AtWork(x), wk' = [wk EXCEPT ![w] = x],
         UNCHANGED <<spool, rekor, db, tx, fails>>, killed' \subseteq Sessions,
         \A b \in Breaches : PhaseAt(x, w, b)
  PROVE  ClearingInv'
<1>1. DOMAIN wk' = Workers /\ wk'[w] = x /\ \A v \in Workers : v # w => wk'[v] = wk[v]
  BY DEF ClearingInv, WorkerInv
<1>2. WorkerInv'
  BY <1>1 DEF ClearingInv, WorkerInv
<1>3. ASSUME NEW b \in Breaches PROVE Phase(w, b)'
  BY <1>1 DEF Phase, PhaseAt, Seen
<1> QED
  BY <1>1, <1>2, <1>3, QuietStep

\* Worker w writes the rows of f.
LEMMA WriteStep ==
  ASSUME ClearingInv, NEW w \in Workers, NEW f, DOMAIN f \subseteq Rows, Write(w, f),
         UNCHANGED <<db, rekor>>, WorkerInv',
         \A v \in Workers : v # w => wk'[v] = wk[v],
         \A r \in DOMAIN f : Fits(r, f[r]) /\ Ahead(r, Seen(w, r), f[r]),
         \A b \in Breaches : BreachInv(w, b)'
  PROVE  ClearingInv'
<1>1. RowInv'
  BY WriteRows DEF ClearingInv
<1>2. Logged' = Logged
  BY DEF Logged
<1>3. ASSUME NEW b \in Breaches PROVE Committed(b)'
  BY <1>2 DEF ClearingInv, Committed, Good
<1>4. ASSUME NEW v \in Workers, v # w, NEW b \in Breaches PROVE BreachInv(v, b)'
  <2>1. tx'[v] = tx[v] /\ \A r : Seen(v, r)' = Seen(v, r)
    BY <1>4, WriteEffect DEF ClearingInv
  <2>2. BreachInv(v, b)
    BY DEF ClearingInv
  <2>3. GoodSeen(v, b)' /\ Together(v, b)'
    BY <1>2, <2>1, <2>2 DEF BreachInv, GoodSeen, Good, Together
  <2>4. Phase(v, b)'
    BY <1>4, <2>1, <2>2 DEF BreachInv, Phase, PhaseAt
  <2> QED
    BY <2>3, <2>4 DEF BreachInv
<1> QED
  BY <1>1, <1>3, <1>4 DEF ClearingInv

LEMMA WriteMove ==
  ASSUME ClearingInv, NEW w \in Workers, NEW f, DOMAIN f \subseteq Rows, Write(w, f),
         NEW x, AtWork(x), wk' = [wk EXCEPT ![w] = x], UNCHANGED Outside,
         \A r \in DOMAIN f : Fits(r, f[r]) /\ Ahead(r, Seen(w, r), f[r]),
         \A b \in Breaches : BreachInv(w, b)'
  PROVE  ClearingInv'
<1>1. DOMAIN wk' = Workers /\ wk'[w] = x /\ \A v \in Workers : v # w => wk'[v] = wk[v]
  BY DEF ClearingInv, WorkerInv
<1>2. /\ DOMAIN tx' = Workers
      /\ \A v \in Workers : DOMAIN tx'[v] \subseteq Rows
      /\ \A v, u \in Workers : v # u => DOMAIN tx'[v] \cap DOMAIN tx'[u] = {}
  <2>1. /\ DOMAIN tx' = Workers
        /\ DOMAIN tx'[w] = DOMAIN f \cup DOMAIN tx[w]
        /\ \A v \in Workers : v # w => tx'[v] = tx[v]
        /\ \A v \in Workers : v # w => DOMAIN tx'[v] \cap DOMAIN tx'[w] = {}
    BY WriteEffect DEF ClearingInv, Outside
  <2> QED
    BY <2>1 DEF ClearingInv, WorkerInv
<1>3. WorkerInv'
  BY <1>1, <1>2 DEF ClearingInv, WorkerInv, Outside
<1> QED
  BY <1>1, <1>3, WriteStep DEF Outside

\* A worker at rest, with nothing written, sees what is committed.
LEMMA RestInv ==
  ASSUME NEW w \in Workers, NEW b \in Breaches, DOMAIN tx'[w] = {}, wk'[w] = AtRest,
         \A r : Seen(w, r)' = db'[r], Committed(b)'
  PROVE  BreachInv(w, b)'
BY DEF BreachInv, GoodSeen, Committed, Together, Phase, PhaseAt, AtRest

\* The committed rows move to db', which none of the transactions that stay holds.
LEMMA CommittedStep ==
  ASSUME ClearingInv, WorkerInv', rekor' = rekor,
         \A r \in Rows : Fits(r, db'[r]) /\ Ahead(r, db[r], db'[r]),
         \A b \in Breaches : Committed(b)',
         \A v \in Workers :
           \/ DOMAIN tx'[v] = {} /\ wk'[v] = AtRest
           \/ tx'[v] = tx[v] /\ wk'[v] = wk[v] /\ (\A r \in DOMAIN tx[v] : db'[r] = db[r])
  PROVE  ClearingInv'
<1>1. ASSUME NEW v \in Workers, NEW r \in Rows
      PROVE  Fits(r, Seen(v, r)') /\ Ahead(r, db'[r], Seen(v, r)')
  <2>1. CASE r \in DOMAIN tx'[v]
    <3>1. Seen(v, r)' = Seen(v, r) /\ db'[r] = db[r]
      BY <2>1 DEF Seen
    <3> QED
      BY <3>1 DEF ClearingInv, RowInv
  <2>2. CASE r \notin DOMAIN tx'[v]
    <3>1. Seen(v, r)' = db'[r]
      BY <2>2 DEF Seen
    <3> QED
      BY <3>1, AheadSame
  <2> QED
    BY <2>1, <2>2
<1>2. RowInv'
  BY <1>1 DEF RowInv
<1>3. ASSUME NEW v \in Workers, NEW b \in Breaches PROVE BreachInv(v, b)'
  <2>1. CASE DOMAIN tx'[v] = {} /\ wk'[v] = AtRest
    <3>1. \A r : Seen(v, r)' = db'[r]
      BY <2>1 DEF Seen
    <3> QED
      BY <2>1, <3>1, RestInv
  <2>2. CASE tx'[v] = tx[v] /\ wk'[v] = wk[v] /\ (\A r \in DOMAIN tx[v] : db'[r] = db[r])
    BY <2>2, OthersCommit
  <2> QED
    BY <2>1, <2>2
<1> QED
  BY <1>2, <1>3 DEF ClearingInv

LEMMA RollbackStep ==
  ASSUME ClearingInv, NEW w \in Workers, Rollback(w), UNCHANGED <<db, rekor>>, WorkerInv'
  PROVE  ClearingInv'
<1>1. /\ DOMAIN tx'[w] = {} /\ wk'[w] = AtRest
      /\ \A v \in Workers : v # w => tx'[v] = tx[v] /\ wk'[v] = wk[v]
  BY RollbackEffect DEF Rollback, ClearingInv, WorkerInv
<1>2. ASSUME NEW b \in Breaches PROVE Committed(b)'
  BY DEF ClearingInv, Committed, Good, Logged
<1>3. \A r \in Rows : Fits(r, db'[r]) /\ Ahead(r, db[r], db'[r])
  BY AheadSame DEF ClearingInv, RowInv
<1> QED
  BY <1>1, <1>2, <1>3, CommittedStep

\* A statement of somebody else on one row.
LEMMA ElsewhereStep ==
  ASSUME ClearingInv, NEW row \in Rows, NEW x, Elsewhere(row, x),
         Fits(row, x), Ahead(row, db[row], x),
         \A b \in Breaches : Committed(b)'
  PROVE  ClearingInv'
<1>1. DOMAIN db' = Rows /\ \A r \in Rows : db'[r] = IF r = row THEN x ELSE db[r]
  BY DEF Elsewhere, ClearingInv, WorkerInv
<1>2. WorkerInv'
  BY <1>1 DEF Elsewhere, ClearingInv, WorkerInv
<1>3. \A r \in Rows : Fits(r, db'[r]) /\ Ahead(r, db[r], db'[r])
  BY <1>1, AheadSame DEF ClearingInv, RowInv
<1>4. \A v \in Workers : tx'[v] = tx[v] /\ wk'[v] = wk[v] /\ (\A r \in DOMAIN tx[v] : db'[r] = db[r])
  BY <1>1 DEF Elsewhere, ClearingInv, WorkerInv
<1> QED
  BY <1>2, <1>3, <1>4, CommittedStep DEF Elsewhere

\* An entry is added to the spool or to Rekor.
LEMMA LogStep ==
  ASSUME ClearingInv, WorkerInv', UNCHANGED <<db, tx, wk>>, Logged \subseteq Logged'
  PROVE  ClearingInv'
<1>1. \A v, r : Seen(v, r)' = Seen(v, r)
  BY DEF Seen
<1>2. RowInv'
  BY <1>1 DEF RowInv, ClearingInv
<1>3. ASSUME NEW b \in Breaches PROVE Committed(b)'
  BY DEF ClearingInv, Committed, Good
<1>4. ASSUME NEW v \in Workers, NEW b \in Breaches PROVE BreachInv(v, b)'
  <2>1. BreachInv(v, b)
    BY DEF ClearingInv
  <2>2. GoodSeen(v, b)'
    BY <1>1, <2>1 DEF BreachInv, GoodSeen, Good
  <2>3. Together(v, b)' /\ Phase(v, b)'
    BY <1>1, <2>1 DEF BreachInv, Together, Phase, PhaseAt
  <2> QED
    BY <2>2, <2>3 DEF BreachInv
<1> QED
  BY <1>2, <1>3, <1>4 DEF ClearingInv
-----------------------------------------------------------------------------
(* The inductive invariant. *)

LEMMA ClearingInitInv == Init => ClearingInv
<1> SUFFICES ASSUME Init PROVE ClearingInv
  OBVIOUS
<1>1. spool = <<>> /\ rekor = <<>> /\ killed = {} /\ fails = 0
  BY DEF Init, Log!Init
<1>2. \A w \in Workers : tx[w] = Empty /\ DOMAIN tx[w] = {} /\ wk[w] = AtRest
  BY DEF Init, Empty
<1>3. DOMAIN db = Rows /\ DOMAIN tx = Workers /\ wk = [w \in Workers |-> AtRest]
  BY DEF Init
<1>4. WorkerInv
  BY <1>1, <1>2, <1>3, AmountAssumption DEF WorkerInv, AtRest, AtWork
<1>5. /\ \A k \in KeyIds : db[Key(k)] = None
      /\ \A b \in Breaches : db[Out(b)] = None /\ db[Slash(b)] = None
  BY RowsAre DEF Init, Key, Out, Slash
<1>6. \A s \in Sessions : db[Sess(s)] = IF operatorOf[s] = None THEN None ELSE "running"
  BY RowsAre DEF Init, Sess
<1>7. \A a \in Agents : db[Agent(a)] = IF a \in Registered THEN startScore ELSE None
  BY RowsAre DEF Init, Agent
<1>8. \A o \in Operators : db[Bond(o)] =
        IF o \in Bonded THEN [amount |-> startBond, status |-> "active", request |-> "none"] ELSE None
  BY RowsAre DEF Init, Bond
<1>9. \A r \in Rows : Fits(r, db[r])
  <2>1. \A a \in Agents : db[Agent(a)] \in IF a \in Registered THEN 0..startScore ELSE {None}
    BY <1>7, AmountAssumption
  <2>2. \A o \in Operators : db[Bond(o)] \in IF o \in Bonded THEN BondRow ELSE {None}
    <3>1. startBond \in Int
      BY AmountAssumption
    <3>2. [amount |-> startBond, status |-> "active", request |-> "none"] \in BondRow
      BY <3>1 DEF BondRow
    <3> QED
      BY <1>8, <3>2
  <2> QED
    BY <1>5, <1>6, <2>1, <2>2 DEF Fits
<1>10. \A w \in Workers, r \in Rows : Seen(w, r) = db[r]
  BY <1>2 DEF Seen
<1>11. RowInv
  BY <1>9, <1>10, AheadSame DEF RowInv
<1>12. ASSUME NEW b \in Breaches PROVE Committed(b)
  BY <1>5 DEF Committed, Good
<1>13. ASSUME NEW w \in Workers, NEW b \in Breaches PROVE BreachInv(w, b)
  <2>1. Seen(w, Out(b)) = None /\ Seen(w, Slash(b)) = None
    BY <1>5, <1>10, RowsAre
  <2>2. GoodSeen(w, b)
    BY <2>1 DEF GoodSeen, Good
  <2>3. Together(w, b)
    BY <1>2 DEF Together
  <2>4. Phase(w, b)
    BY <1>2, <2>1 DEF Phase, PhaseAt, AtRest, Due
  <2> QED
    BY <2>2, <2>3, <2>4 DEF BreachInv
<1> QED
  BY <1>4, <1>11, <1>12, <1>13 DEF ClearingInv

LEMMA IngestInv ==
  ASSUME ClearingInv, NEW w \in Workers,
         OpenSpool(w) \/ SkipLine(w) \/ SkipKeyMismatch(w) \/ SkipDuplicate(w) \/ Kill(w)
  PROVE  ClearingInv'
<1>1. AtWork(wk[w]) /\ spool \in Seq(Breaches) /\ killed \subseteq Sessions /\ w \in DOMAIN wk
  BY DEF ClearingInv, WorkerInv
<1>2. CASE OpenSpool(w)
  <2>1. PICK lines \in {spool} \cup {Append(SubSeq(spool, 1, n - 1), Torn) : n \in {Len(spool)} \ {0}} :
          wk' = [wk EXCEPT ![w].pc = "ingest", ![w].lines = lines]
    BY <1>2 DEF OpenSpool
  <2>2. lines \in Seq(Breaches \cup {Torn})
    <3>1. CASE lines = spool
      BY <1>1, <3>1
    <3>2. CASE lines # spool
      <4>1. Len(spool) # 0 /\ lines = Append(SubSeq(spool, 1, Len(spool) - 1), Torn)
        BY <2>1, <3>2
      <4>2. SubSeq(spool, 1, Len(spool) - 1) \in Seq(Breaches)
        BY <1>1, <4>1
      <4> QED
        BY <4>1, <4>2
    <3> QED
      BY <3>1, <3>2
  <2> DEFINE x == [wk[w] EXCEPT !.pc = "ingest", !.lines = lines]
  <2>3. wk' = [wk EXCEPT ![w] = x] /\ AtWork(x) /\ x.pc = "ingest"
    BY <1>1, <2>1, <2>2 DEF AtWork
  <2>4. \A b \in Breaches : PhaseAt(x, w, b)
    BY <2>3 DEF PhaseAt
  <2> QED
    BY <1>1, <1>2, <2>3, <2>4, QuietMove DEF OpenSpool, Outside
<1>3. CASE SkipLine(w) \/ SkipKeyMismatch(w) \/ SkipDuplicate(w)
  <2> DEFINE x == [wk[w] EXCEPT !.lines = Tail(@)]
  <2>1. AtLine(w) /\ wk' = [wk EXCEPT ![w] = x] /\ UNCHANGED <<Outside, tx>>
    BY <1>3 DEF SkipLine, SkipKeyMismatch, SkipDuplicate, NextLine
  <2>2. AtWork(x) /\ x.pc = "ingest"
    <3>1. wk[w].pc = "ingest" /\ Tail(wk[w].lines) \in Seq(Breaches \cup {Torn})
      BY <1>1, <2>1 DEF AtWork, AtLine
    <3> QED
      BY <1>1, <3>1 DEF AtWork
  <2>3. \A b \in Breaches : PhaseAt(x, w, b)
    BY <2>2 DEF PhaseAt
  <2> QED
    BY <1>1, <2>1, <2>2, <2>3, QuietMove DEF Outside
<1>4. CASE Kill(w)
  <2> DEFINE x == [wk[w] EXCEPT !.pc = "ingest", !.lines = Tail(@), !.item = None]
  <2>1. wk' = [wk EXCEPT ![w] = x] /\ UNCHANGED <<spool, rekor, db, tx, fails>>
    BY <1>4 DEF Kill
  <2>2. AtWork(x) /\ x.pc = "ingest"
    <3>1. Tail(wk[w].lines) \in Seq(Breaches \cup {Torn})
      BY <1>1, <1>4 DEF AtWork, Kill
    <3> QED
      BY <1>1, <3>1 DEF AtWork
  <2>3. killed' \subseteq Sessions
    BY <1>1, <1>4, ShapeAssumption DEF Kill, AtWork
  <2>4. \A b \in Breaches : PhaseAt(x, w, b)
    BY <2>2 DEF PhaseAt
  <2> QED
    BY <2>1, <2>2, <2>3, <2>4, QuietMove
<1> QED
  BY <1>2, <1>3, <1>4

LEMMA SelectInv ==
  ASSUME ClearingInv, NEW w \in Workers,
         \/ SelectUnsubmitted(w) \/ SelectSlashable(w) \/ SelectCandidates(w)
         \/ \E b \in Breaches : ConfirmMisses(w, b)
  PROVE  ClearingInv'
<1>1. AtWork(wk[w]) /\ killed \subseteq Sessions /\ w \in DOMAIN wk /\ Bonded \subseteq Operators
  BY ShapeAssumption DEF ClearingInv, WorkerInv
<1>2. \A r \in Rows : View(w)[r] = Seen(w, r)
  BY ViewIs DEF ClearingInv
<1>3. ASSUME NEW b \in Breaches
      PROVE  GoodSeen(w, b) /\ Together(w, b) /\ PhaseAt(wk[w], w, b) /\ Committed(b) /\ Slash(b) \in Rows /\ Out(b) \in Rows
  BY RowsAre DEF ClearingInv, BreachInv, Phase
<1>4. CASE SelectUnsubmitted(w)
  <2> DEFINE R == {b \in Breaches : View(w)[Out(b)] = "unsubmitted"}
             x == [wk[w] EXCEPT !.pc = "confirm", !.rows = R]
  <2>1. wk' = [wk EXCEPT ![w] = x] /\ UNCHANGED <<Outside, tx>>
    BY <1>4 DEF SelectUnsubmitted, Select
  <2>2. AtWork(x) /\ x.pc = "confirm" /\ x.rows = R
    BY <1>1 DEF AtWork
  <2>3. \A b \in Breaches : PhaseAt(x, w, b)
    BY <1>2, <1>3, <2>2, NothingAssumption DEF PhaseAt
  <2> QED
    BY <1>1, <2>1, <2>2, <2>3, QuietMove DEF Outside
<1>5. CASE SelectSlashable(w)
  <2> DEFINE x == [wk[w] EXCEPT !.pc = "slash", !.rows = Slashable(w)]
  <2>1. wk' = [wk EXCEPT ![w] = x] /\ UNCHANGED <<Outside, tx>>
    BY <1>5 DEF SelectSlashable, Select
  <2>2. AtWork(x) /\ x.pc = "slash" /\ x.rows = Slashable(w)
    BY <1>1 DEF AtWork, Slashable
  <2>3. ASSUME NEW b \in Breaches PROVE PhaseAt(x, w, b)
    <3>1. b \in Slashable(w) <=> Due(Seen(w, Slash(b)))
      BY <1>2, <1>3 DEF Slashable, Due
    <3>2. Due(Seen(w, Slash(b))) => Slash(b) \in DOMAIN tx[w]
      BY <1>3 DEF Seen, Committed, Due
    <3> QED
      BY <2>2, <3>1, <3>2 DEF PhaseAt
  <2> QED
    BY <1>1, <2>1, <2>2, <2>3, QuietMove DEF Outside
<1>6. CASE SelectCandidates(w)
  <2> DEFINE R == {o \in Operators : LET bond == View(w)[Bond(o)] IN
                     bond # None /\ bond.status = "active" /\ bond.request = "expired"}
             x == [wk[w] EXCEPT !.pc = "guard", !.rows = R]
  <2>1. wk' = [wk EXCEPT ![w] = x] /\ UNCHANGED <<Outside, tx>> /\ wk[w].pc = "slash" /\ wk[w].rows = {}
    BY <1>6 DEF SelectCandidates, Select
  <2>2. R \subseteq Bonded
    <3> SUFFICES ASSUME NEW o \in Operators, View(w)[Bond(o)] # None PROVE o \in Bonded
      OBVIOUS
    <3>1. Bond(o) \in Rows
      BY RowsAre
    <3>2. Fits(Bond(o), View(w)[Bond(o)])
      BY <1>2, <3>1 DEF ClearingInv, RowInv
    <3> QED
      BY <3>2 DEF Fits
  <2> HIDE DEF R
  <2>3. AtWork(x) /\ x.pc = "guard"
    BY <1>1, <2>2 DEF AtWork
  <2>4. \A b \in Breaches : PhaseAt(x, w, b)
    BY <1>3, <2>1, <2>3 DEF PhaseAt
  <2> QED
    BY <1>1, <2>1, <2>3, <2>4, QuietMove DEF Outside
<1>7. CASE \E b \in Breaches : ConfirmMisses(w, b)
  <2>1. PICK c \in Breaches : ConfirmMisses(w, c)
    BY <1>7
  <2> DEFINE x == [wk[w] EXCEPT !.rows = @ \ {c}]
  <2>2. wk' = [wk EXCEPT ![w] = x] /\ UNCHANGED <<Outside, tx>> /\ wk[w].pc = "confirm"
    BY <2>1 DEF ConfirmMisses, Done
  <2>3. AtWork(x) /\ x.pc = "confirm" /\ x.rows \subseteq wk[w].rows
    BY <1>1, <2>2 DEF AtWork
  <2>4. \A b \in Breaches : PhaseAt(x, w, b)
    BY <1>3, <2>2, <2>3 DEF PhaseAt
  <2> QED
    BY <1>1, <2>2, <2>3, <2>4, QuietMove DEF Outside
<1> QED
  BY <1>4, <1>5, <1>6, <1>7

LEMMA CheckInv ==
  ASSUME ClearingInv, NEW w \in Workers,
         (\E o \in Operators : CheckPending(w, o)) \/ CheckDisputed(w) \/ CheckUnsubmitted(w)
  PROVE  ClearingInv'
<1>1. AtWork(wk[w]) /\ killed \subseteq Sessions /\ w \in DOMAIN wk /\ Bonded \subseteq Operators
  BY ShapeAssumption DEF ClearingInv, WorkerInv
<1>2. PICK o \in Bonded, next \in {"disputes", "unsubmitted", "release"} :
        \/ wk' = [wk EXCEPT ![w].pc = "guard", ![w].rows = @ \ {o}, ![w].item = None]
        \/ wk' = [wk EXCEPT ![w].pc = next, ![w].item = o]
  <2>1. CASE \E o \in Operators : CheckPending(w, o)
    <3>1. PICK o \in Operators : CheckPending(w, o)
      BY <2>1
    <3>2. o \in Bonded
      BY <1>1, <3>1 DEF CheckPending, AtWork
    <3>3. \/ wk' = [wk EXCEPT ![w].pc = "guard", ![w].rows = @ \ {o}, ![w].item = None]
          \/ wk' = [wk EXCEPT ![w].pc = "disputes", ![w].item = o]
      BY <3>1 DEF CheckPending, Check
    <3> QED
      BY <3>2, <3>3
  <2>2. CASE CheckDisputed(w)
    <3>1. wk[w].item \in Bonded
      BY <1>1, <2>2 DEF CheckDisputed, AtWork
    <3>2. \/ wk' = [wk EXCEPT ![w].pc = "guard", ![w].rows = @ \ {wk[w].item}, ![w].item = None]
          \/ wk' = [wk EXCEPT ![w].pc = "unsubmitted", ![w].item = wk[w].item]
      BY <2>2 DEF CheckDisputed, Check
    <3> QED
      BY <3>1, <3>2
  <2>3. CASE CheckUnsubmitted(w)
    <3>1. wk[w].item \in Bonded
      BY <1>1, <2>3 DEF CheckUnsubmitted, AtWork
    <3>2. \/ wk' = [wk EXCEPT ![w].pc = "guard", ![w].rows = @ \ {wk[w].item}, ![w].item = None]
          \/ wk' = [wk EXCEPT ![w].pc = "release", ![w].item = wk[w].item]
      BY <2>3 DEF CheckUnsubmitted, Check
    <3> QED
      BY <3>1, <3>2
  <2> QED
    BY <2>1, <2>2, <2>3
<1>3. wk[w].pc \in {"guard", "disputes", "unsubmitted"} /\ UNCHANGED <<Outside, tx>>
  BY DEF CheckPending, CheckDisputed, CheckUnsubmitted, Check
<1>4. \A b \in Breaches : ~Due(Seen(w, Slash(b)))
  BY <1>3 DEF ClearingInv, BreachInv, Phase, PhaseAt
<1> DEFINE hitTo == [wk[w] EXCEPT !.pc = "guard", !.rows = @ \ {o}, !.item = None]
           missTo == [wk[w] EXCEPT !.pc = next, !.item = o]
<1>5. wk' = [wk EXCEPT ![w] = hitTo] \/ wk' = [wk EXCEPT ![w] = missTo]
  BY <1>2
<1>6. AtWork(hitTo) /\ hitTo.pc = "guard"
  BY <1>1, <1>2, <1>3 DEF AtWork
<1>7. AtWork(missTo) /\ missTo.pc = next
  BY <1>1, <1>2, <1>3 DEF AtWork
<1>8. \A b \in Breaches : PhaseAt(hitTo, w, b) /\ PhaseAt(missTo, w, b)
  BY <1>2, <1>4, <1>6, <1>7 DEF PhaseAt
<1> QED
  BY <1>1, <1>3, <1>5, <1>6, <1>7, <1>8, QuietMove DEF Outside

LEMMA CommitInv ==
  ASSUME ClearingInv, NEW w \in Workers, Commit(w)
  PROVE  ClearingInv'
<1>1. /\ DOMAIN tx' = Workers /\ DOMAIN tx'[w] = {}
      /\ \A v \in Workers : v # w => tx'[v] = tx[v]
  BY RollbackEffect DEF Commit, ClearingInv
<1>2. DOMAIN wk' = Workers /\ wk'[w] = AtRest /\ \A v \in Workers : v # w => wk'[v] = wk[v]
  BY DEF Commit, ClearingInv, WorkerInv
<1>3. DOMAIN db' = Rows /\ \A r \in Rows : db'[r] = Seen(w, r)
  BY ViewIs DEF Commit, ClearingInv
<1>4. AtWork(AtRest)
  BY DEF AtWork, AtRest
<1>5. WorkerInv'
  BY <1>1, <1>2, <1>3, <1>4 DEF Commit, ClearingInv, WorkerInv
<1>6. \A r \in Rows : Fits(r, db'[r]) /\ Ahead(r, db[r], db'[r])
  BY <1>3 DEF ClearingInv, RowInv
<1>7. ASSUME NEW b \in Breaches PROVE Committed(b)'
  <2>1. GoodSeen(w, b) /\ ~Due(Seen(w, Slash(b)))
    BY DEF ClearingInv, BreachInv, Phase, PhaseAt, Commit
  <2>2. Logged' = Logged
    BY DEF Commit, Logged
  <2> QED
    BY <1>3, <2>1, <2>2, RowsAre DEF GoodSeen, Good, Committed, Due
<1>8. ASSUME NEW v \in Workers, v # w, NEW r \in DOMAIN tx[v] PROVE db'[r] = db[r]
  <2>1. r \in Rows /\ r \notin DOMAIN tx[w]
    BY <1>8 DEF ClearingInv, WorkerInv
  <2> QED
    BY <1>3, <2>1 DEF Seen
<1> QED
  BY <1>1, <1>2, <1>5, <1>6, <1>7, <1>8, CommittedStep DEF Commit

LEMMA FailInv ==
  ASSUME ClearingInv, NEW w \in Workers, IngestRejected(w) \/ Fail(w)
  PROVE  ClearingInv'
<1>1. Rollback(w) /\ UNCHANGED <<spool, rekor, db, killed>> /\ fails' \in 0..MaxFails
  BY AmountAssumption DEF IngestRejected, Fail, Outside, ClearingInv, WorkerInv
<1>2. /\ DOMAIN tx' = Workers /\ DOMAIN tx'[w] = {}
      /\ \A v \in Workers : v # w => tx'[v] = tx[v]
  BY <1>1, RollbackEffect DEF Rollback, ClearingInv
<1>3. DOMAIN wk' = Workers /\ wk'[w] = AtRest /\ \A v \in Workers : v # w => wk'[v] = wk[v]
  BY <1>1 DEF Rollback, ClearingInv, WorkerInv
<1>4. AtWork(AtRest)
  BY DEF AtWork, AtRest
<1>5. WorkerInv'
  BY <1>1, <1>2, <1>3, <1>4 DEF ClearingInv, WorkerInv
<1> QED
  BY <1>1, <1>5, RollbackStep

LEMMA RecordInv ==
  ASSUME ClearingInv, NEW w \in Workers, Ingest(w)
  PROVE  ClearingInv'
<1>1. PICK c \in Breaches : c = Line(w)
  BY DEF Ingest
<1> DEFINE f == Ingested(w, c)
           K == Key(keyOf[c].id)
           S == Sess(sessionOf[c])
           x == [wk[w] EXCEPT !.pc = "kill", !.item = c]
<1>2. /\ K \in Rows /\ S \in Rows /\ Out(c) \in Rows /\ Slash(c) \in Rows
      /\ keyOf[c].id \in KeyIds /\ sessionOf[c] \in Sessions
  BY RowsAre, ShapeAssumption
<1>3. \A r \in Rows : View(w)[r] = Seen(w, r)
  BY ViewIs DEF ClearingInv
<1>4. /\ Write(w, f) /\ UNCHANGED Outside /\ wk' = [wk EXCEPT ![w] = x]
      /\ OperatorOf(c) \in Bonded \cup {None} /\ c \notin Forged
      /\ Seen(w, Out(c)) = None
      /\ StoredKey(w, c) = keyOf[c].x /\ Seen(w, K) \in {None, keyOf[c].x}
  BY <1>1, <1>2, <1>3 DEF Ingest, Fresh, Verified, StoredKey
<1>5. Seen(w, Slash(c)) = None
  BY <1>4 DEF ClearingInv, BreachInv, GoodSeen, Good
<1>6. K # Out(c) /\ K # Slash(c) /\ K # S /\ Out(c) # Slash(c) /\ Out(c) # S /\ Slash(c) # S
  BY RowsDiffer
<1>7. /\ DOMAIN f = (IF Seen(w, K) = None THEN {K} ELSE {}) \cup {Out(c), Slash(c)}
                     \cup (IF Seen(w, S) = "running" THEN {S} ELSE {})
      /\ Seen(w, K) = None => f[K] = keyOf[c].x
      /\ f[Out(c)] = "unsubmitted"
      /\ f[Slash(c)] \in SlashRow /\ ~f[Slash(c)].entry /\ f[Slash(c)].status = "pending"
      /\ Seen(w, S) = "running" => f[S] = "terminated"
  <2> DEFINE new == [status |-> "pending", entry |-> FALSE, operator |-> OperatorOf(c)]
  <2>1. new \in SlashRow /\ ~new.entry /\ new.status = "pending"
    BY <1>4 DEF SlashRow
  <2> HIDE DEF new
  <2>2. /\ DOMAIN f = (IF Seen(w, K) = None THEN {K} ELSE {}) \cup {Out(c), Slash(c)}
                       \cup (IF Seen(w, S) = "running" THEN {S} ELSE {})
        /\ Seen(w, K) = None => f[K] = keyOf[c].x
        /\ f[Out(c)] = "unsubmitted"
        /\ f[Slash(c)] = new
        /\ Seen(w, S) = "running" => f[S] = "terminated"
    BY <1>2, <1>3, <1>4, <1>6 DEF Ingested, Overlay, KeyRow, new
  <2> QED
    BY <2>1, <2>2
<1>8. /\ \A r : Seen(w, r)' = IF r \in DOMAIN f THEN f[r] ELSE Seen(w, r)
      /\ DOMAIN tx'[w] = DOMAIN f \cup DOMAIN tx[w]
  <2>1. DOMAIN f \subseteq Rows /\ UNCHANGED db
    BY <1>2, <1>4, <1>7 DEF Outside
  <2> QED
    BY <1>4, <2>1, WriteEffect DEF ClearingInv
<1>9. AtWork(x) /\ x.pc = "kill" /\ wk'[w] = x
  <2>1. AtWork(wk[w]) /\ DOMAIN wk = Workers /\ wk[w].lines # <<>>
    BY DEF ClearingInv, WorkerInv, Ingest, AtLine
  <2>2. AtWork(x) /\ x.pc = "kill"
    BY <2>1 DEF AtWork
  <2> HIDE DEF x
  <2> QED
    BY <1>4, <2>1, <2>2
<1> HIDE DEF f, x
<1>10. ASSUME NEW r \in DOMAIN f PROVE Fits(r, f[r]) /\ Ahead(r, Seen(w, r), f[r])
  <2>1. CASE r = K /\ Seen(w, K) = None
    BY <1>4, <1>7, <2>1, KeyRowMoves
  <2>2. CASE r = Out(c)
    <3>1. Seen(w, Out(c)) # "submitted"
      BY <1>4, NothingAssumption
    <3> QED
      BY <1>7, <2>2, <3>1, OutRowMoves
  <2>3. CASE r = Slash(c)
    BY <1>5, <1>7, <2>3, SlashRowMoves
  <2>4. CASE r = S /\ Seen(w, S) = "running"
    <3>1. Fits(S, "running")
      BY <1>2, <2>4 DEF ClearingInv, RowInv
    <3>2. operatorOf[sessionOf[c]] # None
      BY <1>2, <3>1, NothingAssumption DEF Fits
    <3> QED
      BY <1>7, <2>4, <3>2, RowsDiffer DEF Fits, Ahead
  <2> QED
    BY <1>7, <2>1, <2>2, <2>3, <2>4
<1>11. ASSUME NEW b \in Breaches PROVE BreachInv(w, b)'
  <2>1. GoodSeen(w, b) /\ Together(w, b) /\ Logged' = Logged /\ db' = db
    BY <1>4 DEF ClearingInv, BreachInv, Outside, Logged
  <2>2. Phase(w, b)'
    BY <1>9 DEF Phase, PhaseAt
  <2>3. CASE b = c
    <3>1. /\ Seen(w, Out(b))' = "unsubmitted" /\ Seen(w, K)' = keyOf[b].x
          /\ Seen(w, Slash(b))' = f[Slash(b)] /\ Seen(w, S)' # "running"
      BY <1>4, <1>6, <1>7, <1>8, <2>3
    <3>2. f[Slash(b)] # None /\ ~f[Slash(b)].entry /\ f[Slash(b)].status = "pending"
      BY <1>7, <2>3, NothingAssumption
    <3>3. GoodSeen(w, b)'
      BY <1>4, <2>3, <3>1, <3>2, NothingAssumption DEF GoodSeen, Good
    <3>4. Together(w, b)'
      <4>1. Seen(w, S) # "running" => S \in DOMAIN tx[w] \/ db[S] # "running"
        BY DEF Seen
      <4>2. Seen(w, K) # None => K \in DOMAIN tx[w] \/ db[K] = keyOf[c].x
        BY <1>4 DEF Seen
      <4> QED
        BY <1>7, <1>8, <2>1, <2>3, <4>1, <4>2 DEF Together
    <3> QED
      BY <2>2, <3>3, <3>4 DEF BreachInv
  <2>4. CASE b # c
    <3>1. Out(b) \notin DOMAIN f /\ Slash(b) \notin DOMAIN f
      BY <1>7, <2>4, RowsDiffer
    <3>2. Seen(w, Out(b))' = Seen(w, Out(b)) /\ Seen(w, Slash(b))' = Seen(w, Slash(b))
      BY <1>8, <3>1
    <3>3. Seen(w, Sess(sessionOf[b])) # "running" => Seen(w, Sess(sessionOf[b]))' # "running"
      BY <1>7, <1>8, RowsDiffer
    <3>4. Seen(w, Key(keyOf[b].id)) = keyOf[b].x => Seen(w, Key(keyOf[b].id))' = keyOf[b].x
      <4> DEFINE B == Key(keyOf[b].id)
      <4>1. CASE B = K
        <5>1. CASE Seen(w, K) = None
          BY <4>1, <5>1, NothingAssumption
        <5>2. CASE Seen(w, K) # None
          <6>1. B \notin DOMAIN f
            BY <1>6, <1>7, <4>1, <5>2
          <6> QED
            BY <1>8, <6>1
        <5> QED
          BY <5>1, <5>2
      <4>2. CASE B # K
        <5>1. B \notin DOMAIN f
          BY <1>7, <4>2, RowsDiffer
        <5> QED
          BY <1>8, <5>1
      <4> QED
        BY <4>1, <4>2
    <3>5. GoodSeen(w, b)'
      BY <2>1, <3>2, <3>3, <3>4 DEF GoodSeen, Good
    <3>6. Together(w, b)'
      BY <1>8, <2>1, <3>1 DEF Together
    <3> QED
      BY <2>2, <3>5, <3>6 DEF BreachInv
  <2> QED
    BY <2>3, <2>4
<1>12. DOMAIN f \subseteq Rows
  BY <1>2, <1>7
<1> QED
  BY <1>4, <1>9, <1>10, <1>11, <1>12, WriteMove

LEMMA ConfirmInv ==
  ASSUME ClearingInv, NEW w \in Workers, NEW c \in Breaches, Confirm(w, c)
  PROVE  ClearingInv'
<1> DEFINE f == Confirmed(w, c)
           sl == Seen(w, Slash(c))
           x == [wk[w] EXCEPT !.rows = @ \ {c}]
<1>1. Out(c) \in Rows /\ Slash(c) \in Rows /\ Out(c) # Slash(c)
  BY RowsAre, RowsDiffer
<1>2. \A r \in Rows : View(w)[r] = Seen(w, r)
  BY ViewIs DEF ClearingInv
<1>3. /\ wk[w].pc = "confirm" /\ c \in wk[w].rows /\ c \in Logged
      /\ Write(w, f) /\ UNCHANGED Outside /\ wk' = [wk EXCEPT ![w] = x]
  BY DEF Confirm, Done
<1>4. GoodSeen(w, c) /\ Together(w, c) /\ PhaseAt(wk[w], w, c) /\ Committed(c)
  BY DEF ClearingInv, BreachInv, Phase
<1>5. Seen(w, Out(c)) # None /\ sl # None
  BY <1>3, <1>4 DEF PhaseAt, GoodSeen, Good
<1>6. sl \in SlashRow
  BY <1>1, <1>5 DEF ClearingInv, RowInv, Fits
<1>7. /\ DOMAIN f = {Out(c)} \cup (IF sl.entry THEN {} ELSE {Slash(c)})
      /\ f[Out(c)] = "submitted"
      /\ ~sl.entry => f[Slash(c)] = [sl EXCEPT !.entry = TRUE]
  BY <1>1, <1>2 DEF Confirmed
<1>8. ~sl.entry => f[Slash(c)] \in SlashRow /\ f[Slash(c)].entry /\ f[Slash(c)].status = sl.status
  BY <1>6, <1>7 DEF SlashRow
<1>9. /\ DOMAIN f \subseteq Rows
      /\ \A r : Seen(w, r)' = IF r \in DOMAIN f THEN f[r] ELSE Seen(w, r)
      /\ DOMAIN tx'[w] = DOMAIN f \cup DOMAIN tx[w]
  <2>1. DOMAIN f \subseteq Rows /\ UNCHANGED db
    BY <1>1, <1>3, <1>7 DEF Outside
  <2> QED
    BY <1>3, <2>1, WriteEffect DEF ClearingInv
<1>10. AtWork(x) /\ x.pc = "confirm" /\ x.rows = wk[w].rows \ {c} /\ wk'[w] = x
  BY <1>3 DEF ClearingInv, WorkerInv, AtWork
<1> HIDE DEF f, x
<1>11. ASSUME NEW r \in DOMAIN f PROVE Fits(r, f[r]) /\ Ahead(r, Seen(w, r), f[r])
  <2>1. CASE r = Out(c)
    BY <1>7, <2>1, OutRowMoves
  <2>2. CASE r = Slash(c) /\ ~sl.entry
    BY <1>8, <2>2, SlashRowMoves
  <2> QED
    BY <1>7, <2>1, <2>2
<1>12. ASSUME NEW b \in Breaches PROVE BreachInv(w, b)'
  <2>1. GoodSeen(w, b) /\ Together(w, b) /\ PhaseAt(wk[w], w, b) /\ Logged' = Logged /\ db' = db
    BY <1>3 DEF ClearingInv, BreachInv, Phase, Outside, Logged
  <2>2. /\ Seen(w, Key(keyOf[b].id))' = Seen(w, Key(keyOf[b].id))
        /\ Seen(w, Sess(sessionOf[b]))' = Seen(w, Sess(sessionOf[b]))
    BY <1>7, <1>9, RowsDiffer
  <2>3. CASE b = c
    <3>1. /\ Seen(w, Out(b))' = "submitted"
          /\ Seen(w, Slash(b))' # None /\ Seen(w, Slash(b))'.entry
      BY <1>1, <1>5, <1>7, <1>8, <1>9, <2>3, NothingAssumption
    <3>2. GoodSeen(w, b)'
      BY <1>3, <1>5, <2>1, <2>2, <2>3, <3>1, NothingAssumption DEF GoodSeen, Good
    <3>3. Together(w, b)'
      <4>1. CASE Out(c) \in DOMAIN tx[w]
        BY <1>9, <2>1, <2>3, <4>1 DEF Together
      <4>2. CASE Out(c) \notin DOMAIN tx[w]
        <5>1. Slash(c) \notin DOMAIN tx[w] /\ Seen(w, Out(c)) = db[Out(c)] /\ sl = db[Slash(c)]
          BY <1>4, <4>2 DEF Together, Seen
        <5>2. db[Key(keyOf[c].id)] = keyOf[c].x /\ db[Sess(sessionOf[c])] # "running"
          BY <1>4, <1>5, <5>1 DEF Committed, Good
        <5>3. Slash(c) \in DOMAIN f \/ (db[Slash(c)] # None /\ db[Slash(c)].entry)
          BY <1>5, <1>7, <5>1
        <5> QED
          BY <1>7, <1>9, <2>1, <2>3, <5>2, <5>3 DEF Together
      <4> QED
        BY <4>1, <4>2
    <3>4. Phase(w, b)'
      BY <1>10, <2>3 DEF Phase, PhaseAt
    <3> QED
      BY <3>2, <3>3, <3>4 DEF BreachInv
  <2>4. CASE b # c
    <3>1. Out(b) \notin DOMAIN f /\ Slash(b) \notin DOMAIN f
      BY <1>7, <2>4, RowsDiffer
    <3>2. Seen(w, Out(b))' = Seen(w, Out(b)) /\ Seen(w, Slash(b))' = Seen(w, Slash(b))
      BY <1>9, <3>1
    <3>3. GoodSeen(w, b)'
      BY <2>1, <2>2, <3>2 DEF GoodSeen, Good
    <3>4. Together(w, b)'
      BY <1>9, <2>1, <3>1 DEF Together
    <3>5. Phase(w, b)'
      BY <1>3, <1>10, <2>1, <3>2 DEF Phase, PhaseAt
    <3> QED
      BY <3>3, <3>4, <3>5 DEF BreachInv
  <2> QED
    BY <2>3, <2>4
<1> QED
  BY <1>3, <1>9, <1>10, <1>11, <1>12, WriteMove

\* Rows of other tables leave what is known of a breach as it is.
LEMMA OtherRows ==
  ASSUME ClearingInv, NEW w \in Workers, NEW b \in Breaches, NEW f,
         UNCHANGED <<db, rekor>>, DOMAIN tx'[w] = DOMAIN f \cup DOMAIN tx[w],
         \A r : Seen(w, r)' = IF r \in DOMAIN f THEN f[r] ELSE Seen(w, r),
         {Out(b), Slash(b), Key(keyOf[b].id), Sess(sessionOf[b])} \cap DOMAIN f = {}
  PROVE  /\ GoodSeen(w, b)' /\ Together(w, b)'
         /\ Seen(w, Slash(b))' = Seen(w, Slash(b))
<1>1. GoodSeen(w, b) /\ Together(w, b) /\ Logged' = Logged
  BY DEF ClearingInv, BreachInv, Logged
<1>2. /\ Seen(w, Out(b))' = Seen(w, Out(b)) /\ Seen(w, Slash(b))' = Seen(w, Slash(b))
      /\ Seen(w, Key(keyOf[b].id))' = Seen(w, Key(keyOf[b].id))
      /\ Seen(w, Sess(sessionOf[b]))' = Seen(w, Sess(sessionOf[b]))
  OBVIOUS
<1>3. GoodSeen(w, b)'
  BY <1>1, <1>2 DEF GoodSeen, Good
<1>4. Together(w, b)'
  BY <1>1 DEF Together
<1> QED
  BY <1>2, <1>3, <1>4

LEMMA ReleaseInv ==
  ASSUME ClearingInv, NEW w \in Workers, Release(w)
  PROVE  ClearingInv'
<1>1. PICK o : o = wk[w].item
  OBVIOUS
<1> DEFINE bond == Seen(w, Bond(o))
           f == [r \in {Bond(o)} |-> [View(w)[r] EXCEPT !.status = "withdrawn"]]
           x == [wk[w] EXCEPT !.pc = "guard", !.rows = @ \ {o}, !.item = None]
<1>2. /\ wk[w].pc = "release" /\ Write(w, f) /\ wk' = [wk EXCEPT ![w] = x] /\ UNCHANGED Outside
  BY <1>1 DEF Release
<1>3. o \in Bonded /\ Bond(o) \in Rows
  BY <1>1, <1>2, RowsAre, ShapeAssumption DEF ClearingInv, WorkerInv, AtWork
<1>4. bond \in BondRow
  BY <1>3, ShapeAssumption DEF ClearingInv, RowInv, Fits
<1>5. DOMAIN f = {Bond(o)} /\ f[Bond(o)] \in BondRow /\ f[Bond(o)].status = "withdrawn"
  <2>1. View(w)[Bond(o)] = bond
    BY <1>3, ViewIs DEF ClearingInv
  <2>2. [bond EXCEPT !.status = "withdrawn"] \in BondRow /\ [bond EXCEPT !.status = "withdrawn"].status = "withdrawn"
    BY <1>4 DEF BondRow
  <2> QED
    BY <2>1, <2>2
<1>6. AtWork(x) /\ x.pc = "guard" /\ wk'[w] = x
  BY <1>2 DEF ClearingInv, WorkerInv, AtWork
<1> HIDE DEF f, x
<1>7. /\ DOMAIN f \subseteq Rows
      /\ \A r : Seen(w, r)' = IF r \in DOMAIN f THEN f[r] ELSE Seen(w, r)
      /\ DOMAIN tx'[w] = DOMAIN f \cup DOMAIN tx[w]
  <2>1. DOMAIN f \subseteq Rows /\ UNCHANGED db
    BY <1>2, <1>3, <1>5 DEF Outside
  <2> QED
    BY <1>2, <2>1, WriteEffect DEF ClearingInv
<1>8. \A r \in DOMAIN f : Fits(r, f[r]) /\ Ahead(r, Seen(w, r), f[r])
  BY <1>3, <1>5, BondRowMoves
<1>9. ASSUME NEW b \in Breaches PROVE BreachInv(w, b)'
  <2>1. {Out(b), Slash(b), Key(keyOf[b].id), Sess(sessionOf[b])} \cap DOMAIN f = {}
    BY <1>5, RowsDiffer
  <2>2. GoodSeen(w, b)' /\ Together(w, b)' /\ Seen(w, Slash(b))' = Seen(w, Slash(b))
    BY <1>2, <1>7, <2>1, OtherRows DEF Outside
  <2>3. ~Due(Seen(w, Slash(b)))
    BY <1>2 DEF ClearingInv, BreachInv, Phase, PhaseAt
  <2>4. Phase(w, b)'
    BY <1>6, <2>2, <2>3 DEF Phase, PhaseAt
  <2> QED
    BY <2>2, <2>4 DEF BreachInv
<1> QED
  BY <1>2, <1>6, <1>7, <1>8, <1>9, WriteMove

LEMMA PenalisedScore ==
  ASSUME NEW score \in 0..startScore
  PROVE  Penalised(score) \in 0..startScore
BY AmountAssumption DEF Penalised, REPUTATION_PENALTY

LEMMA DecrementedBond ==
  ASSUME NEW bond \in BondRow
  PROVE  /\ Decremented(bond) \in BondRow
         /\ bond.status # "active" => Decremented(bond).status # "active"
<1>1. PICK n \in Int : n = bond.amount - SLASH_AMOUNT
  BY DEF BondRow, SLASH_AMOUNT
<1>2. Decremented(bond) = [bond EXCEPT !.amount = n, !.status = IF n <= 0 THEN "depleted" ELSE bond.status]
  BY <1>1 DEF Decremented, BondRow
<1>3. Decremented(bond) \in BondRow
  BY <1>2 DEF BondRow
<1>4. Decremented(bond).status = IF n <= 0 THEN "depleted" ELSE bond.status
  BY <1>2 DEF BondRow
<1> QED
  BY <1>3, <1>4

LEMMA DecrementedKeeps ==
  ASSUME NEW bond \in BondRow
  PROVE  Decremented(bond).request = bond.request /\ Decremented(bond).status \in {"depleted", bond.status}
<1>1. PICK n \in Int : n = bond.amount - SLASH_AMOUNT
  BY DEF BondRow, SLASH_AMOUNT
<1>2. Decremented(bond) = [bond EXCEPT !.amount = n, !.status = IF n <= 0 THEN "depleted" ELSE bond.status]
  BY <1>1 DEF Decremented, BondRow
<1> QED
  BY <1>2 DEF BondRow

LEMMA ExecuteInv ==
  ASSUME ClearingInv, NEW w \in Workers, NEW c \in Breaches, ExecuteSlash(w, c)
  PROVE  ClearingInv'
<1> DEFINE sl == Seen(w, Slash(c))
           x == [wk[w] EXCEPT !.rows = @ \ {c}]
<1>1. Slash(c) \in Rows /\ agentOf[c] \in Agents /\ Agent(agentOf[c]) \in Rows
  BY RowsAre, ShapeAssumption
<1>2. \A r \in Rows : View(w)[r] = Seen(w, r)
  BY ViewIs DEF ClearingInv
<1>3. /\ wk[w].pc = "slash" /\ c \in wk[w].rows /\ UNCHANGED Outside /\ wk' = [wk EXCEPT ![w] = x]
  BY DEF ExecuteSlash, Done
<1>4. Slash(c) \in DOMAIN tx[w] /\ Due(sl) /\ sl \in SlashRow
  <2>1. Slash(c) \in DOMAIN tx[w] /\ Due(sl)
    BY <1>3 DEF ClearingInv, BreachInv, Phase, PhaseAt
  <2>2. Fits(Slash(c), sl)
    BY <1>1 DEF ClearingInv, RowInv
  <2> QED
    BY <2>1, <2>2 DEF Fits, Due
<1>5. PICK o \in Bonded \cup {None} : o = sl.operator
  BY <1>4 DEF SlashRow
<1>6. PICK f :
        /\ f = [r \in {Slash(c)} \cup ({Agent(agentOf[c]), Bond(o)} \cap {y \in Rows : View(w)[y] # None}) |->
                 CASE r = Slash(c) -> Settled(View(w)[r])
                   [] r = Agent(agentOf[c]) -> Penalised(View(w)[r])
                   [] r = Bond(o) -> Decremented(View(w)[r])]
        /\ Write(w, f)
  <2>1. o = View(w)[Slash(c)].operator
    BY <1>1, <1>2, <1>5
  <2> QED
    BY <2>1 DEF ExecuteSlash
<1>7. Agent(agentOf[c]) # Slash(c) /\ Bond(o) # Slash(c) /\ Agent(agentOf[c]) # Bond(o)
  BY RowsDiffer
<1>8. /\ DOMAIN f = {Slash(c)} \cup ({Agent(agentOf[c]), Bond(o)} \cap {y \in Rows : View(w)[y] # None})
      /\ f[Slash(c)] = Settled(sl)
      /\ Agent(agentOf[c]) \in DOMAIN f => f[Agent(agentOf[c])] = Penalised(Seen(w, Agent(agentOf[c])))
      /\ Bond(o) \in DOMAIN f => f[Bond(o)] = Decremented(Seen(w, Bond(o)))
  BY <1>1, <1>2, <1>6, <1>7
<1>9. /\ DOMAIN f \subseteq Rows
      /\ \A r : Seen(w, r)' = IF r \in DOMAIN f THEN f[r] ELSE Seen(w, r)
      /\ DOMAIN tx'[w] = DOMAIN f \cup DOMAIN tx[w]
  <2>1. DOMAIN f \subseteq Rows /\ UNCHANGED db
    BY <1>1, <1>3, <1>8 DEF Outside
  <2> QED
    BY <1>6, <2>1, WriteEffect DEF ClearingInv
<1>10. AtWork(x) /\ x.pc = "slash" /\ x.rows = wk[w].rows \ {c} /\ wk'[w] = x
  BY <1>3 DEF ClearingInv, WorkerInv, AtWork
<1> HIDE DEF x
<1>11. f[Slash(c)] \in SlashRow /\ f[Slash(c)].entry /\ f[Slash(c)].status = "executed"
  BY <1>4, <1>8 DEF Settled, SlashRow, Due
<1>12. ASSUME NEW r \in DOMAIN f PROVE Fits(r, f[r]) /\ Ahead(r, Seen(w, r), f[r])
  <2>1. CASE r = Slash(c)
    BY <1>4, <1>11, <2>1, SlashRowMoves DEF Due
  <2>2. CASE r = Agent(agentOf[c])
    <3>1. Fits(r, Seen(w, r)) /\ Seen(w, r) # None
      BY <1>1, <1>2, <1>7, <1>8, <2>2 DEF ClearingInv, RowInv
    <3>2. agentOf[c] \in Registered /\ Seen(w, r) \in 0..startScore
      BY <1>1, <2>2, <3>1 DEF Fits
    <3>3. f[r] \in 0..startScore
      BY <1>8, <2>2, <3>2, PenalisedScore
    <3>4. Fits(r, f[r])
      BY <2>2, <3>2, <3>3, RowsDiffer DEF Fits
    <3>5. Ahead(r, Seen(w, r), f[r])
      BY <2>2, RowsDiffer DEF Ahead
    <3> QED
      BY <3>4, <3>5
  <2>3. CASE r = Bond(o)
    <3>1. r \in Rows /\ Seen(w, r) # None /\ Fits(r, Seen(w, r))
      BY <1>1, <1>2, <1>7, <1>8, <2>3 DEF ClearingInv, RowInv
    <3>2. o \in Bonded
      <4>1. o \in Operators
        BY <2>3, <3>1, RowsDiffer DEF Rows
      <4> QED
        BY <4>1, NothingAssumption
    <3>3. Seen(w, r) \in BondRow
      BY <2>3, <3>1, <3>2, ShapeAssumption DEF Fits
    <3>4. f[r] \in BondRow /\ (Seen(w, r).status # "active" => f[r].status # "active")
      BY <1>8, <2>3, <3>3, DecrementedBond
    <3> QED
      BY <2>3, <3>2, <3>4, BondRowMoves
  <2> QED
    BY <1>8, <2>1, <2>2, <2>3
<1>13. ASSUME NEW b \in Breaches PROVE BreachInv(w, b)'
  <2>1. GoodSeen(w, b) /\ Together(w, b) /\ PhaseAt(wk[w], w, b) /\ Logged' = Logged /\ UNCHANGED <<db, rekor>>
    BY <1>3 DEF ClearingInv, BreachInv, Phase, Outside, Logged
  <2>2. {Out(b), Key(keyOf[b].id), Sess(sessionOf[b])} \cap DOMAIN f = {}
    BY <1>8, RowsDiffer
  <2>3. CASE b = c
    <3>1. Seen(w, Slash(b))' = f[Slash(b)] /\ Seen(w, Out(b))' = Seen(w, Out(b))
      BY <1>8, <1>9, <2>2, <2>3
    <3>2. /\ Seen(w, Key(keyOf[b].id))' = Seen(w, Key(keyOf[b].id))
          /\ Seen(w, Sess(sessionOf[b]))' = Seen(w, Sess(sessionOf[b]))
      BY <1>9, <2>2
    <3>3. f[Slash(b)] # None /\ Seen(w, Slash(b)) # None
      BY <1>4, <1>11, <2>3, NothingAssumption DEF Due
    <3>4. GoodSeen(w, b)'
      BY <1>4, <1>11, <2>1, <2>3, <3>1, <3>2, <3>3 DEF GoodSeen, Good, Due
    <3>5. Together(w, b)'
      BY <1>4, <1>9, <2>1, <2>2, <2>3 DEF Together
    <3>6. Phase(w, b)'
      BY <1>10, <1>11, <2>3, <3>1 DEF Phase, PhaseAt, Due
    <3> QED
      BY <3>4, <3>5, <3>6 DEF BreachInv
  <2>4. CASE b # c
    <3>1. {Out(b), Slash(b), Key(keyOf[b].id), Sess(sessionOf[b])} \cap DOMAIN f = {}
      BY <1>8, <2>2, <2>4, RowsDiffer
    <3>2. GoodSeen(w, b)' /\ Together(w, b)' /\ Seen(w, Slash(b))' = Seen(w, Slash(b))
      BY <1>9, <2>1, <3>1, OtherRows
    <3>3. Phase(w, b)'
      BY <1>3, <1>9, <1>10, <2>1, <2>4, <3>2 DEF Phase, PhaseAt
    <3> QED
      BY <3>2, <3>3 DEF BreachInv
  <2> QED
    BY <2>3, <2>4
<1> QED
  BY <1>3, <1>6, <1>9, <1>10, <1>12, <1>13, WriteMove

\* Statements on a bond: the breaches' rows are not touched.
LEMMA RequestInv ==
  ASSUME ClearingInv, NEW o \in Operators, RequestWithdrawal(o) \/ HoldExpires(o)
  PROVE  ClearingInv' /\ \A r \in Rows : Ahead(r, db[r], db'[r])
<1>1. PICK q \in {"held", "expired"} :
        db[Bond(o)] # None /\ Elsewhere(Bond(o), [db[Bond(o)] EXCEPT !.request = q])
  BY DEF RequestWithdrawal, HoldExpires
<1>2. Bond(o) \in Rows /\ Fits(Bond(o), db[Bond(o)])
  BY RowsAre DEF ClearingInv, RowInv
<1>3. o \in Bonded /\ db[Bond(o)] \in BondRow
  BY <1>1, <1>2 DEF Fits
<1> DEFINE y == [db[Bond(o)] EXCEPT !.request = q]
<1>4. y \in BondRow /\ y.status = db[Bond(o)].status
  BY <1>3 DEF BondRow
<1>5. DOMAIN db' = Rows /\ \A r \in Rows : db'[r] = IF r = Bond(o) THEN y ELSE db[r]
  BY <1>1 DEF Elsewhere, ClearingInv, WorkerInv
<1> HIDE DEF y
<1>6. Fits(Bond(o), y) /\ Ahead(Bond(o), db[Bond(o)], y)
  BY <1>3, <1>4, BondRowMoves
<1>7. ASSUME NEW b \in Breaches PROVE Committed(b)'
  <2>1. /\ db'[Out(b)] = db[Out(b)] /\ db'[Slash(b)] = db[Slash(b)]
        /\ db'[Key(keyOf[b].id)] = db[Key(keyOf[b].id)]
        /\ db'[Sess(sessionOf[b])] = db[Sess(sessionOf[b])]
    BY <1>5, RowsAre, RowsDiffer
  <2>2. Committed(b) /\ Logged' = Logged
    BY <1>1 DEF ClearingInv, Elsewhere, Logged
  <2> QED
    BY <2>1, <2>2 DEF Committed, Good
<1>8. ClearingInv'
  BY <1>1, <1>2, <1>6, <1>7, ElsewhereStep DEF y
<1>9. \A r \in Rows : Ahead(r, db[r], db'[r])
  BY <1>5, <1>6, AheadSame
<1> QED
  BY <1>8, <1>9

LEMMA DisputeInv ==
  ASSUME ClearingInv, NEW c \in Breaches, Dispute(c)
  PROVE  ClearingInv' /\ \A r \in Rows : Ahead(r, db[r], db'[r])
<1> DEFINE y == [db[Slash(c)] EXCEPT !.status = "disputed"]
<1>1. Slash(c) \in Rows /\ Fits(Slash(c), db[Slash(c)]) /\ db[Slash(c)] # None /\ Elsewhere(Slash(c), y)
  BY RowsAre DEF ClearingInv, RowInv, Dispute
<1>2. db[Slash(c)] \in SlashRow
  BY <1>1 DEF Fits
<1>3. y \in SlashRow /\ y.entry = db[Slash(c)].entry /\ y.status = "disputed" /\ y # None
  BY <1>2, NothingAssumption DEF SlashRow
<1>4. DOMAIN db' = Rows /\ \A r \in Rows : db'[r] = IF r = Slash(c) THEN y ELSE db[r]
  BY <1>1 DEF Elsewhere, ClearingInv, WorkerInv
<1> HIDE DEF y
<1>5. Fits(Slash(c), y) /\ Ahead(Slash(c), db[Slash(c)], y)
  BY <1>3, SlashRowMoves
<1>6. ASSUME NEW b \in Breaches PROVE Committed(b)'
  <2>1. /\ db'[Out(b)] = db[Out(b)]
        /\ db'[Slash(b)] = IF b = c THEN y ELSE db[Slash(b)]
        /\ db'[Key(keyOf[b].id)] = db[Key(keyOf[b].id)]
        /\ db'[Sess(sessionOf[b])] = db[Sess(sessionOf[b])]
    BY <1>4, RowsAre, RowsDiffer
  <2>2. Committed(b) /\ Logged' = Logged
    BY <1>1 DEF ClearingInv, Elsewhere, Logged
  <2> QED
    BY <1>1, <1>3, <2>1, <2>2 DEF Committed, Good
<1>7. ClearingInv'
  BY <1>1, <1>5, <1>6, ElsewhereStep
<1>8. \A r \in Rows : Ahead(r, db[r], db'[r])
  BY <1>4, <1>5, AheadSame
<1> QED
  BY <1>7, <1>8

LEMMA AppendInv ==
  ASSUME ClearingInv, Attest \/ \E b \in Breaches : AppendEntry(b)
  PROVE  ClearingInv'
<1>1. spool \in Seq(Breaches) /\ rekor \in Seq(Breaches)
  BY DEF ClearingInv, WorkerInv
<1>2. CASE Attest
  <2>1. /\ Len(rekor) < Len(spool) /\ rekor' = Append(rekor, spool[Len(rekor) + 1])
        /\ UNCHANGED <<spool, db, tx, wk, killed, fails>>
    BY <1>2 DEF Attest, Log!Attest
  <2>2. spool[Len(rekor) + 1] \in Breaches
    BY <1>1, <2>1
  <2>3. rekor' \in Seq(Breaches) /\ Logged \subseteq Logged'
    BY <1>1, <2>1, <2>2 DEF Logged
  <2>4. WorkerInv'
    BY <2>1, <2>3 DEF ClearingInv, WorkerInv
  <2> QED
    BY <2>1, <2>3, <2>4, LogStep
<1>3. CASE \E b \in Breaches : AppendEntry(b)
  <2>1. PICK b \in Breaches : spool' = Append(spool, b) /\ UNCHANGED <<rekor, db, tx, wk, killed, fails>>
    BY <1>3 DEF AppendEntry, Log!Record
  <2>2. WorkerInv' /\ Logged' = Logged
    BY <1>1, <2>1 DEF ClearingInv, WorkerInv, Logged
  <2> QED
    BY <2>1, <2>2, LogStep
<1> QED
  BY <1>2, <1>3

LEMMA ClearingNextInv ==
  ASSUME ClearingInv, [Next]_vars
  PROVE  ClearingInv' /\ \A r \in Rows : Ahead(r, db[r], db'[r])
<1>1. ASSUME UNCHANGED db PROVE \A r \in Rows : Ahead(r, db[r], db'[r])
  BY <1>1, AheadSame
<1>2. ASSUME NEW w \in Workers, Cycle(w) \/ Fail(w) PROVE ClearingInv'
  BY <1>2, IngestInv, RecordInv, FailInv, SelectInv, ConfirmInv, ExecuteInv, CheckInv, ReleaseInv, CommitInv
     DEF Cycle
<1>3. ASSUME NEW w \in Workers, Commit(w) PROVE \A r \in Rows : Ahead(r, db[r], db'[r])
  <2>1. \A r \in Rows : db'[r] = Seen(w, r)
    BY <1>3, ViewIs DEF Commit, ClearingInv
  <2> QED
    BY <2>1 DEF ClearingInv, RowInv
<1>4. ASSUME NEW w \in Workers, Cycle(w) \/ Fail(w), ~Commit(w) PROVE UNCHANGED db
  BY <1>4 DEF Cycle, OpenSpool, SkipLine, SkipKeyMismatch, SkipDuplicate, Ingest, IngestRejected, Kill,
     SelectUnsubmitted, SelectSlashable, SelectCandidates, Select, Confirm, ConfirmMisses, ExecuteSlash,
     CheckPending, CheckDisputed, CheckUnsubmitted, Check, Release, Fail, Outside
<1>5. CASE Attest \/ \E b \in Breaches : AppendEntry(b)
  <2>1. UNCHANGED db
    BY <1>5 DEF Attest, AppendEntry
  <2> QED
    BY <1>1, <1>5, <2>1, AppendInv
<1>6. CASE UNCHANGED vars
  <2>1. UNCHANGED <<spool, rekor, db, tx, wk, killed, fails>>
    BY <1>6 DEF vars
  <2>2. WorkerInv' /\ Logged' = Logged
    BY <2>1 DEF ClearingInv, WorkerInv, Logged
  <2> QED
    BY <1>1, <2>1, <2>2, LogStep
<1> QED
  BY <1>1, <1>2, <1>3, <1>4, <1>5, <1>6, DisputeInv, RequestInv DEF Next
-----------------------------------------------------------------------------
(* Theorems. *)

LEMMA ClearingInvariant == Spec => []ClearingInv
<1>1. ClearingInv /\ [Next]_vars => ClearingInv'
  BY ClearingNextInv
<1> QED
  BY ClearingInitInv, <1>1, PTL DEF Spec

\* Whatever clearing processes run beside each other and whatever cycles fail: the rows keep
\* their types, a score stays between 0 and what it was, and a breach has one status.
THEOREM ClearingTypeCorrect == Spec => []ClearingTypeOK
<1>1. ClearingInv => ClearingTypeOK
  <2> SUFFICES ASSUME ClearingInv PROVE ClearingTypeOK
    OBVIOUS
  <2>1. \A r \in Rows : Fits(r, db[r])
    BY DEF ClearingInv, RowInv
  <2>2. /\ \A k \in KeyIds : Fits(Key(k), db[Key(k)])
        /\ \A b \in Breaches : Fits(Out(b), db[Out(b)]) /\ Fits(Slash(b), db[Slash(b)])
        /\ \A s \in Sessions : Fits(Sess(s), db[Sess(s)])
        /\ \A a \in Agents : Fits(Agent(a), db[Agent(a)])
        /\ \A o \in Operators : Fits(Bond(o), db[Bond(o)])
    BY <2>1, RowsAre
  <2>3. \A k \in KeyIds : db[Key(k)] \in {None} \cup {keyOf[b].x : b \in Breaches}
    BY <2>2 DEF Fits
  <2>4. \A b \in Breaches : db[Out(b)] \in {None, "unsubmitted", "submitted"} /\ db[Slash(b)] \in {None} \cup SlashRow
    BY <2>2 DEF Fits
  <2>5. \A s \in Sessions : db[Sess(s)] \in IF operatorOf[s] = None THEN {None} ELSE {"running", "terminated"}
    BY <2>2 DEF Fits
  <2>6. \A a \in Agents : db[Agent(a)] \in IF a \in Registered THEN 0..startScore ELSE {None}
    BY <2>2 DEF Fits
  <2>7. \A o \in Operators : db[Bond(o)] \in IF o \in Bonded THEN BondRow ELSE {None}
    BY <2>2 DEF Fits
  <2>8. WorkerInv
    BY DEF ClearingInv
  <2> QED
    BY <2>3, <2>4, <2>5, <2>6, <2>7, <2>8 DEF ClearingTypeOK, WorkerInv, AtWork
<1> QED
  BY ClearingInvariant, <1>1, PTL

\* No slash is committed as executed unless its breach is in Rekor, recorded as submitted and
\* signed by the key stored under its id (confirm, slash), for any number of clearing processes.
THEOREM SlashesAreLogged == Spec => []SlashedOnlyWhenLogged
<1>1. ClearingInv => SlashedOnlyWhenLogged
  BY NothingAssumption DEF ClearingInv, Committed, Good, SlashedOnlyWhenLogged, Executed
<1> QED
  BY ClearingInvariant, <1>1, PTL

\* A dispute that was filed is not overwritten by a cycle under way (slash), for any number of
\* clearing processes.
THEOREM DisputesAreKept == Spec => DisputeIsKept
<1>1. ASSUME ClearingInv, [Next]_vars, NEW b \in Breaches, db[Slash(b)] # None, db[Slash(b)].status = "disputed"
      PROVE  db'[Slash(b)].status = "disputed"
  <2>1. Ahead(Slash(b), db[Slash(b)], db'[Slash(b)])
    BY <1>1, ClearingNextInv, RowsAre
  <2> QED
    BY <1>1, <2>1 DEF Ahead
<1>2. ClearingInv /\ [Next]_vars =>
        [\A b \in Breaches : db[Slash(b)] # None /\ db[Slash(b)].status = "disputed"
           => db'[Slash(b)].status = "disputed"]_vars
  BY <1>1
<1> QED
  BY ClearingInvariant, <1>2, PTL DEF Spec, DisputeIsKept

\* No step makes a bond active again that is depleted or withdrawn (slash, withdrawal_guard).
THEOREM BondsNeverReturn == Spec => NeverActiveAgain
<1>1. ASSUME ClearingInv, [Next]_vars, NEW o \in Bonded, Status(o) # "active"
      PROVE  Status(o)' # "active"
  <2>1. Ahead(Bond(o), db[Bond(o)], db'[Bond(o)])
    BY <1>1, ClearingNextInv, RowsAre, ShapeAssumption
  <2> QED
    BY <1>1, <2>1 DEF Ahead, Status
<1>2. ClearingInv /\ [Next]_vars =>
        [\A o \in Bonded : Status(o) # "active" => Status(o)' # "active"]_vars
  BY <1>1
<1> QED
  BY ClearingInvariant, <1>2, PTL DEF Spec, NeverActiveAgain
=============================================================================
