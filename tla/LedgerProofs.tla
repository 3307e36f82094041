---------------------------- MODULE LedgerProofs ----------------------------
(***************************************************************************)
(* Proof that the scores and balances of Clearing are those the executed   *)
(* slashes account for, for any number of clearing processes.              *)
(*                                                                         *)
(* An account is the row of a registered agent or of a bond.  The balance  *)
(* is right in the committed rows and in each worker's picture of them; a  *)
(* transaction that has executed a slash holds the accounts it wrote, so   *)
(* no other one counts strikes on them before it ends.                     *)
(***************************************************************************)
EXTENDS ClearingProofs, FiniteSetTheorems

Accounts == {Agent(a) : a \in Registered} \cup {Bond(o) : o \in Bonded}
AccountsOf(b) == {Agent(agentOf[b]), Bond(OperatorOf(b))} \cap Accounts
Of(r) == {b \in Breaches : r \in AccountsOf(b)}

\* Row r with value x shows n strikes.
Shows(r, x, n) ==
  /\ \A a \in Registered : r = Agent(a) =>
       x = IF startScore - REPUTATION_PENALTY * n > 0 THEN startScore - REPUTATION_PENALTY * n ELSE 0
  /\ \A o \in Bonded : r = Bond(o) => x.amount = startBond - SLASH_AMOUNT * n

St(sl) == IF sl = None THEN "none" ELSE sl.status
DbSt(b) == St(db[Slash(b)])
SeenSt(w, b) == St(Seen(w, Slash(b)))

StruckDb(r) == {b \in Of(r) : DbSt(b) = "executed"}
Struck(w, r) == {b \in Of(r) : SeenSt(w, b) = "executed"}

BalancedDb(r) == (\A b \in Of(r) : DbSt(b) # "disputed") => Shows(r, db[r], Cardinality(StruckDb(r)))
Balanced(w, r) == (\A b \in Of(r) : SeenSt(w, b) # "disputed") => Shows(r, Seen(w, r), Cardinality(Struck(w, r)))

\* What w executed and did not commit is held with its accounts.
Held(w, b) ==
  /\ SeenSt(w, b) = "disputed" <=> DbSt(b) = "disputed"
  /\ DbSt(b) = "executed" => SeenSt(w, b) = "executed"
  /\ SeenSt(w, b) = "executed" /\ DbSt(b) # "executed" => AccountsOf(b) \subseteq DOMAIN tx[w]

\* The slash names the operator of its session.
Named(sl, b) == sl # None => sl.operator = OperatorOf(b)

LedgerInv ==
  /\ \A r \in Accounts : BalancedDb(r)
  /\ \A b \in Breaches : Named(db[Slash(b)], b)
  /\ \A w \in Workers, r \in Accounts : Balanced(w, r)
  /\ \A w \in Workers, b \in Breaches : Held(w, b) /\ Named(Seen(w, Slash(b)), b)
-----------------------------------------------------------------------------
LEMMA AccountsAre ==
  /\ Accounts \subseteq Rows
  /\ \A r \in Accounts, b \in Breaches :
       r # Out(b) /\ r # Slash(b) /\ r # Key(keyOf[b].id) /\ r # Sess(sessionOf[b])
  /\ \A r : Of(r) \subseteq Breaches
<1>1. Accounts \subseteq Rows
  BY RowsAre, ShapeAssumption DEF Accounts
<1>2. ASSUME NEW r \in Accounts, NEW b \in Breaches
      PROVE  r # Out(b) /\ r # Slash(b) /\ r # Key(keyOf[b].id) /\ r # Sess(sessionOf[b])
  <2>1. (\E a \in Registered : r = Agent(a)) \/ (\E o \in Bonded : r = Bond(o))
    BY DEF Accounts
  <2> QED
    BY <2>1, RowsDiffer
<1>3. \A r : Of(r) \subseteq Breaches
  BY DEF Of
<1> QED
  BY <1>1, <1>2, <1>3

LEMMA OneMoreStrike ==
  ASSUME NEW n \in Nat, NEW a \in Registered,
         NEW x, Shows(Agent(a), x, n)
  PROVE  Shows(Agent(a), Penalised(x), n + 1)
<1>1. x = IF startScore - 10 * n > 0 THEN startScore - 10 * n ELSE 0
  BY DEF Shows, REPUTATION_PENALTY
<1>2. startScore \in Nat
  BY AmountAssumption
<1>3. Penalised(x) = IF startScore - 10 * (n + 1) > 0 THEN startScore - 10 * (n + 1) ELSE 0
  BY <1>1, <1>2 DEF Penalised, REPUTATION_PENALTY
<1> QED
  BY <1>3, RowsDiffer DEF Shows, REPUTATION_PENALTY

LEMMA OneMoreDecrement ==
  ASSUME NEW n \in Nat, NEW o \in Bonded, NEW x \in BondRow, Shows(Bond(o), x, n)
  PROVE  Shows(Bond(o), Decremented(x), n + 1)
<1>1. startBond \in Nat /\ x.amount = startBond - 100 * n
  BY AmountAssumption DEF Shows, SLASH_AMOUNT
<1>2. Decremented(x).amount = x.amount - 100
  BY DEF Decremented, BondRow, SLASH_AMOUNT
<1>3. Decremented(x).amount = startBond - 100 * (n + 1)
  BY <1>1, <1>2
<1> QED
  BY <1>3, RowsDiffer DEF Shows, SLASH_AMOUNT

\* The committed rows stay, or move to rows that are balanced, and w's transaction stays.
LEMMA OthersStrike ==
  ASSUME LedgerInv, NEW w \in Workers, tx'[w] = tx[w],
         \A r \in DOMAIN tx[w] : db'[r] = db[r],
         \A r \in Accounts : BalancedDb(r)',
         \A b \in Breaches : Named(db[Slash(b)], b)',
         \A b \in Breaches :
           /\ DbSt(b) = "disputed" => DbSt(b)' = "disputed"
           /\ DbSt(b) = "executed" => DbSt(b)' \in {"executed", "disputed"}
           /\ DbSt(b)' = "executed" /\ DbSt(b) # "executed" => AccountsOf(b) \cap DOMAIN tx[w] = {}
  PROVE  /\ \A r \in Accounts : Balanced(w, r)'
         /\ \A b \in Breaches : Held(w, b)' /\ Named(Seen(w, Slash(b)), b)'
<1>1. \A r : Seen(w, r)' = IF r \in DOMAIN tx[w] THEN Seen(w, r) ELSE db'[r]
  BY DEF Seen
<1>2. \A b \in Breaches : SeenSt(w, b)' = IF Slash(b) \in DOMAIN tx[w] THEN SeenSt(w, b) ELSE DbSt(b)'
  BY <1>1 DEF SeenSt, DbSt
<1>3. \A b \in Breaches : Slash(b) \in DOMAIN tx[w] => DbSt(b)' = DbSt(b)
  BY DEF DbSt
<1>4. \A b \in Breaches : Slash(b) \notin DOMAIN tx[w] => SeenSt(w, b) = DbSt(b)
  BY DEF SeenSt, DbSt, Seen
<1>5. \A b \in Breaches : Held(w, b)
  BY DEF LedgerInv
<1>6. ASSUME NEW b \in Breaches PROVE Held(w, b)' /\ Named(Seen(w, Slash(b)), b)'
  <2>1. Held(w, b)'
    BY <1>2, <1>3, <1>5 DEF Held
  <2>2. Named(Seen(w, Slash(b)), b)'
    BY <1>1 DEF Named, LedgerInv
  <2> QED
    BY <2>1, <2>2
<1>7. ASSUME NEW r \in Accounts, \A b \in Of(r) : SeenSt(w, b)' # "disputed"
      PROVE  Shows(r, Seen(w, r)', Cardinality(Struck(w, r)'))
  <2>1. CASE r \in DOMAIN tx[w]
    <3>1. ASSUME NEW b \in Of(r)
          PROVE  (SeenSt(w, b)' = "executed" <=> SeenSt(w, b) = "executed") /\ SeenSt(w, b) # "disputed"
      <4>1. b \in Breaches /\ r \in AccountsOf(b) \cap DOMAIN tx[w]
        BY <2>1 DEF Of
      <4> QED
        BY <1>2, <1>4, <1>7, <4>1
    <3>2. Struck(w, r)' = Struck(w, r)
      BY <3>1 DEF Struck
    <3>3. Balanced(w, r) /\ Seen(w, r)' = Seen(w, r)
      BY <1>1, <2>1 DEF LedgerInv
    <3> QED
      BY <3>1, <3>2, <3>3 DEF Balanced
  <2>2. CASE r \notin DOMAIN tx[w]
    <3>1. ASSUME NEW b \in Of(r)
          PROVE  (SeenSt(w, b)' = "executed" <=> DbSt(b)' = "executed") /\ DbSt(b)' # "disputed"
      <4>1. b \in Breaches /\ r \in AccountsOf(b)
        BY DEF Of
      <4> QED
        BY <1>2, <1>3, <1>5, <1>7, <2>2, <4>1 DEF Held
    <3>2. Struck(w, r)' = StruckDb(r)'
      BY <3>1 DEF Struck, StruckDb
    <3>3. BalancedDb(r)' /\ Seen(w, r)' = db'[r]
      BY <1>1, <2>2
    <3> QED
      BY <3>1, <3>2, <3>3 DEF BalancedDb
  <2> QED
    BY <2>1, <2>2
<1>8. \A r \in Accounts : Balanced(w, r)'
  BY <1>7 DEF Balanced
<1> QED
  BY <1>6, <1>8

\* Worker w writes: no strike is added and the accounts show what they showed.
LEMMA NoStrike ==
  ASSUME ClearingInv, LedgerInv, NEW w \in Workers, NEW f, DOMAIN f \subseteq Rows, Write(w, f), UNCHANGED db,
         \A b \in Breaches : Slash(b) \in DOMAIN f =>
           /\ St(f[Slash(b)]) = SeenSt(w, b) \/ {St(f[Slash(b)]), SeenSt(w, b)} \cap {"executed", "disputed"} = {}
           /\ Named(f[Slash(b)], b),
         \A r \in Accounts \cap DOMAIN f, n \in Nat : Shows(r, Seen(w, r), n) => Shows(r, f[r], n),
         IsFiniteSet(Breaches)
  PROVE  LedgerInv'
<1>1. /\ DOMAIN tx'[w] = DOMAIN f \cup DOMAIN tx[w]
      /\ \A r : Seen(w, r)' = IF r \in DOMAIN f THEN f[r] ELSE Seen(w, r)
      /\ \A v \in Workers : v # w => tx'[v] = tx[v]
  BY WriteEffect DEF ClearingInv
<1>2. /\ \A b \in Breaches : DbSt(b)' = DbSt(b) /\ Named(db[Slash(b)], b)'
      /\ \A r \in Accounts : BalancedDb(r)'
  BY DEF LedgerInv, DbSt, Named, BalancedDb, StruckDb
<1>3. ASSUME NEW v \in Workers, v # w
      PROVE  /\ \A r \in Accounts : Balanced(v, r)'
             /\ \A b \in Breaches : Held(v, b)' /\ Named(Seen(v, Slash(b)), b)'
  BY <1>1, <1>2, <1>3, OthersStrike
<1>4. \A b \in Breaches :
        /\ SeenSt(w, b)' = "executed" <=> SeenSt(w, b) = "executed"
        /\ SeenSt(w, b)' = "disputed" <=> SeenSt(w, b) = "disputed"
  BY <1>1 DEF SeenSt
<1>5. ASSUME NEW b \in Breaches PROVE Held(w, b)' /\ Named(Seen(w, Slash(b)), b)'
  <2>1. Held(w, b) /\ Named(Seen(w, Slash(b)), b)
    BY DEF LedgerInv
  <2>2. Held(w, b)'
    BY <1>1, <1>2, <1>4, <2>1 DEF Held
  <2>3. Named(Seen(w, Slash(b)), b)'
    BY <1>1, <2>1 DEF Named
  <2> QED
    BY <2>2, <2>3
<1>6. ASSUME NEW r \in Accounts PROVE Balanced(w, r)'
  <2>1. \A b \in Of(r) : b \in Breaches
    BY AccountsAre
  <2>2. Struck(w, r)' = Struck(w, r)
    BY <1>4, <2>1 DEF Struck
  <2>3. Cardinality(Struck(w, r)) \in Nat
    <3>1. Struck(w, r) \subseteq Breaches
      BY <2>1 DEF Struck
    <3> QED
      BY <3>1, FS_Subset, FS_CardinalityType
  <2>4. Balanced(w, r)
    BY DEF LedgerInv
  <2> QED
    BY <1>1, <1>4, <2>1, <2>2, <2>3, <2>4 DEF Balanced
<1> QED
  BY <1>2, <1>3, <1>5, <1>6 DEF LedgerInv

\* A step that writes no row and commits none.
LEMMA LedgerStays ==
  ASSUME LedgerInv, UNCHANGED <<db, tx>>
  PROVE  LedgerInv'
<1>1. \A v, r : Seen(v, r)' = Seen(v, r)
  BY DEF Seen
<1>2. \A b : DbSt(b)' = DbSt(b) /\ \A v : SeenSt(v, b)' = SeenSt(v, b)
  BY <1>1 DEF DbSt, SeenSt
<1>3. \A r \in Accounts : BalancedDb(r)'
  BY <1>2 DEF LedgerInv, BalancedDb, StruckDb
<1>4. \A v \in Workers, r \in Accounts : Balanced(v, r)'
  BY <1>1, <1>2 DEF LedgerInv, Balanced, Struck
<1>5. \A v \in Workers, b \in Breaches : Held(v, b)' /\ Named(Seen(v, Slash(b)), b)'
  BY <1>1, <1>2 DEF LedgerInv, Held, Named
<1> QED
  BY <1>3, <1>4, <1>5 DEF LedgerInv, Named

LEMMA IngestStrikes ==
  ASSUME ClearingInv, LedgerInv, IsFiniteSet(Breaches), NEW w \in Workers, Ingest(w)
  PROVE  LedgerInv'
<1>1. PICK c \in Breaches : c = Line(w)
  BY DEF Ingest
<1> DEFINE f == Ingested(w, c)
           new == [status |-> "pending", entry |-> FALSE, operator |-> OperatorOf(c)]
<1>2. Write(w, f) /\ UNCHANGED db /\ View(w)[Out(c)] = None /\ OperatorOf(c) \in Bonded \cup {None}
  BY <1>1 DEF Ingest, Fresh, Outside
<1>3. Seen(w, Slash(c)) = None
  <2>1. Seen(w, Out(c)) = None
    BY <1>2, RowsAre, ViewIs DEF ClearingInv
  <2> QED
    BY <2>1 DEF ClearingInv, BreachInv, GoodSeen, Good
<1>4. DOMAIN f \subseteq {Key(keyOf[c].id), Out(c), Slash(c), Sess(sessionOf[c])}
  BY DEF Ingested, Overlay, KeyRow
<1>5. new.status = "pending" /\ new.operator = OperatorOf(c) /\ new # None
  <2>1. new \in SlashRow /\ new.status = "pending" /\ new.operator = OperatorOf(c)
    BY <1>2 DEF SlashRow
  <2> QED
    BY <2>1, NothingAssumption
<1> HIDE DEF new
<1>6. f[Slash(c)] = new
  BY RowsDiffer DEF Ingested, Overlay, KeyRow, new
<1> HIDE DEF f
<1>7. DOMAIN f \subseteq Rows
  BY <1>4, RowsAre
<1>8. Accounts \cap DOMAIN f = {}
  BY <1>4, AccountsAre
<1>9. \A b \in Breaches : Slash(b) \in DOMAIN f =>
        /\ {St(f[Slash(b)]), SeenSt(w, b)} \cap {"executed", "disputed"} = {}
        /\ Named(f[Slash(b)], b)
  <2> TAKE b \in Breaches
  <2> HAVE Slash(b) \in DOMAIN f
  <2>1. b = c
    BY <1>4, RowsDiffer
  <2>2. St(f[Slash(b)]) = "pending" /\ SeenSt(w, b) = "none"
    BY <1>3, <1>5, <1>6, <2>1 DEF St, SeenSt
  <2> QED
    BY <1>5, <1>6, <2>1, <2>2 DEF Named
<1> QED
  BY <1>2, <1>7, <1>8, <1>9, NoStrike

LEMMA ConfirmStrikes ==
  ASSUME ClearingInv, LedgerInv, IsFiniteSet(Breaches), NEW w \in Workers, NEW c \in Breaches, Confirm(w, c)
  PROVE  LedgerInv'
<1> DEFINE f == Confirmed(w, c)
           sl == Seen(w, Slash(c))
<1>1. Out(c) \in Rows /\ Slash(c) \in Rows /\ Out(c) # Slash(c)
  BY RowsAre, RowsDiffer
<1>2. Write(w, f) /\ UNCHANGED db /\ wk[w].pc = "confirm" /\ c \in wk[w].rows
  BY DEF Confirm, Outside
<1>3. sl # None /\ Fits(Slash(c), sl)
  <2>1. GoodSeen(w, c) /\ PhaseAt(wk[w], w, c)
    BY DEF ClearingInv, BreachInv, Phase
  <2>2. Fits(Slash(c), sl)
    BY <1>1 DEF ClearingInv, RowInv
  <2> QED
    BY <1>2, <2>1, <2>2 DEF PhaseAt, GoodSeen, Good
<1>4. sl \in SlashRow
  BY <1>3 DEF Fits
<1>5. DOMAIN f \subseteq {Out(c), Slash(c)} /\ (Slash(c) \in DOMAIN f => f[Slash(c)] = [sl EXCEPT !.entry = TRUE])
  <2>1. View(w)[Slash(c)] = sl
    BY <1>1, ViewIs DEF ClearingInv
  <2> QED
    BY <1>1, <2>1 DEF Confirmed
<1>6. Slash(c) \in DOMAIN f =>
        f[Slash(c)] \in SlashRow /\ f[Slash(c)].status = sl.status /\ f[Slash(c)].operator = sl.operator
  BY <1>4, <1>5 DEF SlashRow
<1> HIDE DEF f
<1>7. DOMAIN f \subseteq Rows /\ Accounts \cap DOMAIN f = {}
  BY <1>1, <1>5, AccountsAre
<1>8. \A b \in Breaches : Slash(b) \in DOMAIN f => St(f[Slash(b)]) = SeenSt(w, b) /\ Named(f[Slash(b)], b)
  <2> TAKE b \in Breaches
  <2> HAVE Slash(b) \in DOMAIN f
  <2>1. b = c
    BY <1>5, RowsDiffer
  <2>2. f[Slash(c)] # None
    BY <1>6, <2>1, NothingAssumption
  <2>3. Named(sl, c)
    BY DEF LedgerInv
  <2> QED
    BY <1>3, <1>6, <2>1, <2>2, <2>3 DEF St, SeenSt, Named
<1> QED
  BY <1>2, <1>7, <1>8, NoStrike

LEMMA ReleaseStrikes ==
  ASSUME ClearingInv, LedgerInv, IsFiniteSet(Breaches), NEW w \in Workers, Release(w)
  PROVE  LedgerInv'
<1>1. PICK o : o = wk[w].item
  OBVIOUS
<1> DEFINE bond == Seen(w, Bond(o))
           f == [r \in {Bond(o)} |-> [View(w)[r] EXCEPT !.status = "withdrawn"]]
<1>2. wk[w].pc = "release" /\ Write(w, f) /\ UNCHANGED db
  BY <1>1 DEF Release, Outside
<1>3. o \in Bonded /\ Bond(o) \in Rows
  BY <1>1, <1>2, RowsAre, ShapeAssumption DEF ClearingInv, WorkerInv, AtWork
<1>4. bond \in BondRow
  BY <1>3, ShapeAssumption DEF ClearingInv, RowInv, Fits
<1>5. DOMAIN f = {Bond(o)} /\ f[Bond(o)].amount = bond.amount
  <2>1. View(w)[Bond(o)] = bond
    BY <1>3, ViewIs DEF ClearingInv
  <2>2. [bond EXCEPT !.status = "withdrawn"].amount = bond.amount
    BY <1>4 DEF BondRow
  <2> QED
    BY <2>1, <2>2
<1> HIDE DEF f
<1>6. \A b \in Breaches : Slash(b) \notin DOMAIN f
  BY <1>5, RowsDiffer
<1>7. \A r \in Accounts \cap DOMAIN f, n \in Nat : Shows(r, Seen(w, r), n) => Shows(r, f[r], n)
  BY <1>3, <1>5, RowsDiffer DEF Shows
<1> QED
  BY <1>2, <1>3, <1>5, <1>6, <1>7, NoStrike

LEMMA ExecuteStrikes ==
  ASSUME ClearingInv, LedgerInv, IsFiniteSet(Breaches), NEW w \in Workers, NEW c \in Breaches, ExecuteSlash(w, c)
  PROVE  LedgerInv'
<1> DEFINE sl == Seen(w, Slash(c))
           A == Agent(agentOf[c])
           B == Bond(OperatorOf(c))
<1>1. Slash(c) \in Rows /\ A \in Rows /\ A # Slash(c) /\ B # Slash(c) /\ A # B
  BY RowsAre, RowsDiffer
<1>2. \A r \in Rows : View(w)[r] = Seen(w, r)
  BY ViewIs DEF ClearingInv
<1>3. Due(sl) /\ sl \in SlashRow /\ sl.operator = OperatorOf(c) /\ SeenSt(w, c) = "pending" /\ UNCHANGED db
  <2>1. wk[w].pc = "slash" /\ c \in wk[w].rows /\ UNCHANGED db
    BY DEF ExecuteSlash, Outside
  <2>2. Due(sl)
    BY <2>1 DEF ClearingInv, BreachInv, Phase, PhaseAt
  <2>3. Fits(Slash(c), sl) /\ Named(sl, c)
    BY <1>1 DEF ClearingInv, RowInv, LedgerInv
  <2> QED
    BY <2>1, <2>2, <2>3 DEF Fits, Due, Named, SeenSt, St
<1>4. PICK f :
        /\ f = [r \in {Slash(c)} \cup ({A, B} \cap {y \in Rows : View(w)[y] # None}) |->
                 CASE r = Slash(c) -> Settled(View(w)[r])
                   [] r = A -> Penalised(View(w)[r])
                   [] r = B -> Decremented(View(w)[r])]
        /\ Write(w, f)
  <2>1. View(w)[Slash(c)].operator = OperatorOf(c)
    BY <1>1, <1>2, <1>3
  <2> QED
    BY <2>1 DEF ExecuteSlash
<1>5. /\ DOMAIN f = {Slash(c)} \cup ({A, B} \cap {y \in Rows : View(w)[y] # None}) /\ DOMAIN f \subseteq Rows
      /\ f[Slash(c)] = Settled(sl)
      /\ A \in DOMAIN f => f[A] = Penalised(Seen(w, A))
      /\ B \in DOMAIN f => f[B] = Decremented(Seen(w, B))
  BY <1>1, <1>2, <1>4
<1>6. AccountsOf(c) \subseteq DOMAIN f
  <2>1. ASSUME NEW r \in AccountsOf(c) PROVE r \in DOMAIN f
    <3>1. r \in Rows /\ r \in {A, B} /\ Fits(r, Seen(w, r))
      BY AccountsAre DEF AccountsOf, ClearingInv, RowInv
    <3>2. (\E a \in Registered : r = Agent(a)) \/ (\E o \in Bonded : r = Bond(o))
      BY DEF AccountsOf, Accounts
    <3>3. Seen(w, r) \in 0..startScore \/ Seen(w, r) \in BondRow
      BY <3>1, <3>2, ShapeAssumption DEF Fits
    <3>4. Seen(w, r) # None
      BY <3>3, NothingAssumption
    <3> QED
      BY <1>2, <1>5, <3>1, <3>4
  <2> QED
    BY <2>1
<1>7. f[Slash(c)].status = "executed" /\ f[Slash(c)] # None /\ f[Slash(c)].operator = OperatorOf(c)
  <2>1. Settled(sl) \in SlashRow /\ Settled(sl).status = "executed" /\ Settled(sl).operator = sl.operator
    BY <1>3 DEF Settled, SlashRow
  <2> QED
    BY <1>3, <1>5, <2>1, NothingAssumption
<1>8. /\ DOMAIN tx'[w] = DOMAIN f \cup DOMAIN tx[w]
      /\ \A r : Seen(w, r)' = IF r \in DOMAIN f THEN f[r] ELSE Seen(w, r)
      /\ \A v \in Workers : v # w => tx'[v] = tx[v]
  BY <1>3, <1>4, <1>5, WriteEffect DEF ClearingInv
<1>9. \A b \in Breaches : SeenSt(w, b)' = IF b = c THEN "executed" ELSE SeenSt(w, b)
  <2> TAKE b \in Breaches
  <2>1. CASE b = c
    BY <1>5, <1>7, <1>8, <2>1 DEF SeenSt, St
  <2>2. CASE b # c
    <3>1. Slash(b) \notin DOMAIN f
      BY <1>5, <2>2, RowsDiffer
    <3> QED
      BY <1>8, <2>2, <3>1 DEF SeenSt
  <2> QED
    BY <2>1, <2>2
<1>10. /\ \A b \in Breaches : DbSt(b)' = DbSt(b) /\ Named(db[Slash(b)], b)'
       /\ \A r \in Accounts : BalancedDb(r)'
  BY <1>3 DEF LedgerInv, DbSt, Named, BalancedDb, StruckDb
<1>11. ASSUME NEW v \in Workers, v # w
       PROVE  /\ \A r \in Accounts : Balanced(v, r)'
              /\ \A b \in Breaches : Held(v, b)' /\ Named(Seen(v, Slash(b)), b)'
  BY <1>3, <1>8, <1>10, <1>11, OthersStrike
<1>12. ASSUME NEW b \in Breaches PROVE Held(w, b)' /\ Named(Seen(w, Slash(b)), b)'
  <2>1. Held(w, b) /\ Named(Seen(w, Slash(b)), b)
    BY DEF LedgerInv
  <2>2. Held(w, b)'
    BY <1>3, <1>6, <1>8, <1>9, <1>10, <2>1 DEF Held
  <2>3. Named(Seen(w, Slash(b)), b)'
    <3>1. CASE b = c
      BY <1>5, <1>7, <1>8, <3>1 DEF Named
    <3>2. CASE b # c
      <4>1. Slash(b) \notin DOMAIN f
        BY <1>5, <3>2, RowsDiffer
      <4> QED
        BY <1>8, <2>1, <4>1 DEF Named
    <3> QED
      BY <3>1, <3>2
  <2> QED
    BY <2>2, <2>3
<1>13. ASSUME NEW r \in Accounts, \A b \in Of(r) : SeenSt(w, b)' # "disputed"
       PROVE  Shows(r, Seen(w, r)', Cardinality(Struck(w, r)'))
  <2>1. Of(r) \subseteq Breaches /\ \A b \in Of(r) : SeenSt(w, b) # "disputed"
    BY <1>3, <1>9, <1>13, AccountsAre
  <2>2. PICK n \in Nat : n = Cardinality(Struck(w, r)) /\ IsFiniteSet(Struck(w, r))
    <3>1. Struck(w, r) \subseteq Breaches
      BY <2>1 DEF Struck
    <3> QED
      BY <3>1, FS_Subset, FS_CardinalityType
  <2>3. Shows(r, Seen(w, r), n)
    BY <2>1, <2>2 DEF LedgerInv, Balanced
  <2>4. CASE c \in Of(r)
    <3>1. Struck(w, r)' = Struck(w, r) \cup {c} /\ c \notin Struck(w, r)
      BY <1>3, <1>9, <2>1, <2>4 DEF Struck
    <3>2. Cardinality(Struck(w, r)') = n + 1
      BY <2>2, <3>1, FS_AddElement
    <3>3. r \in AccountsOf(c) /\ r \in DOMAIN f /\ Seen(w, r)' = f[r] /\ r \in {A, B}
      BY <1>6, <1>8, <2>4 DEF Of, AccountsOf
    <3>4. Shows(r, f[r], n + 1)
      <4>1. CASE r = A
        <5>1. PICK a \in Registered : r = Agent(a)
          BY <4>1, RowsDiffer DEF Accounts
        <5> QED
          BY <1>5, <2>3, <3>3, <4>1, <5>1, OneMoreStrike
      <4>2. CASE r = B
        <5>1. PICK o \in Bonded : r = Bond(o)
          BY <4>2, RowsDiffer DEF Accounts
        <5>2. Fits(Bond(o), Seen(w, Bond(o)))
          BY <5>1, AccountsAre DEF ClearingInv, RowInv
        <5>3. Seen(w, Bond(o)) \in BondRow
          BY <5>2, ShapeAssumption DEF Fits
        <5> QED
          BY <1>5, <2>3, <3>3, <4>2, <5>1, <5>3, OneMoreDecrement
      <4> QED
        BY <3>3, <4>1, <4>2
    <3> QED
      BY <3>2, <3>3, <3>4
  <2>5. CASE c \notin Of(r)
    <3>1. Struck(w, r)' = Struck(w, r)
      BY <1>9, <2>1, <2>5 DEF Struck
    <3>2. r \notin DOMAIN f
      <4>1. r # Slash(c) /\ r \notin {A, B}
        BY <2>5, AccountsAre DEF Of, AccountsOf
      <4> QED
        BY <1>5, <4>1
    <3> QED
      BY <1>8, <2>2, <2>3, <3>1, <3>2
  <2> QED
    BY <2>4, <2>5
<1>14. \A r \in Accounts : Balanced(w, r)'
  BY <1>13 DEF Balanced
<1> QED
  BY <1>10, <1>11, <1>12, <1>14 DEF LedgerInv

\* A worker with nothing written sees the committed rows.
LEMMA AtRestBalanced ==
  ASSUME NEW w \in Workers, DOMAIN tx'[w] = {},
         \A r \in Accounts : BalancedDb(r)',
         \A b \in Breaches : Named(db[Slash(b)], b)'
  PROVE  /\ \A r \in Accounts : Balanced(w, r)'
         /\ \A b \in Breaches : Held(w, b)' /\ Named(Seen(w, Slash(b)), b)'
<1>1. \A r : Seen(w, r)' = db'[r]
  BY DEF Seen
<1>2. \A b : SeenSt(w, b)' = DbSt(b)'
  BY <1>1 DEF SeenSt, DbSt
<1>3. ASSUME NEW r \in Accounts PROVE Balanced(w, r)'
  <2>1. Struck(w, r)' = StruckDb(r)'
    BY <1>2 DEF Struck, StruckDb
  <2> QED
    BY <1>1, <1>2, <2>1 DEF Balanced, BalancedDb
<1>4. ASSUME NEW b \in Breaches PROVE Held(w, b)' /\ Named(Seen(w, Slash(b)), b)'
  BY <1>1, <1>2 DEF Held, Named
<1> QED
  BY <1>3, <1>4

LEMMA CommitStrikes ==
  ASSUME ClearingInv, LedgerInv, NEW w \in Workers, Commit(w)
  PROVE  LedgerInv'
<1>1. DOMAIN tx'[w] = {} /\ \A v \in Workers : v # w => tx'[v] = tx[v]
  BY RollbackEffect DEF Commit, ClearingInv
<1>2. \A r \in Rows : db'[r] = Seen(w, r)
  BY ViewIs DEF Commit, ClearingInv
<1>3. \A b \in Breaches : DbSt(b)' = SeenSt(w, b)
  BY <1>2, RowsAre DEF DbSt, SeenSt
<1>4. ASSUME NEW r \in Accounts PROVE BalancedDb(r)'
  <2>1. \A b \in Of(r) : DbSt(b)' = SeenSt(w, b)
    BY <1>3, AccountsAre
  <2>2. StruckDb(r)' = Struck(w, r)
    BY <2>1 DEF Struck, StruckDb
  <2>3. db'[r] = Seen(w, r) /\ Balanced(w, r)
    BY <1>2, AccountsAre DEF LedgerInv
  <2> QED
    BY <2>1, <2>2, <2>3 DEF Balanced, BalancedDb
<1>5. \A b \in Breaches : Named(db[Slash(b)], b)'
  BY <1>2, RowsAre DEF LedgerInv, Named
<1>6. ASSUME NEW v \in Workers
      PROVE  /\ \A r \in Accounts : Balanced(v, r)'
             /\ \A b \in Breaches : Held(v, b)' /\ Named(Seen(v, Slash(b)), b)'
  <2>1. CASE v = w
    BY <1>1, <1>4, <1>5, <2>1, AtRestBalanced
  <2>2. CASE v # w
    <3>1. DOMAIN tx[v] \cap DOMAIN tx[w] = {} /\ DOMAIN tx[v] \subseteq Rows
      BY <2>2 DEF ClearingInv, WorkerInv
    <3>2. \A r \in DOMAIN tx[v] : db'[r] = db[r]
      BY <1>2, <3>1 DEF Seen
    <3>3. ASSUME NEW b \in Breaches
          PROVE  /\ DbSt(b) = "disputed" => DbSt(b)' = "disputed"
                 /\ DbSt(b) = "executed" => DbSt(b)' \in {"executed", "disputed"}
                 /\ DbSt(b)' = "executed" /\ DbSt(b) # "executed" => AccountsOf(b) \cap DOMAIN tx[v] = {}
      <4>1. Held(w, b)
        BY DEF LedgerInv
      <4> QED
        BY <1>3, <3>1, <4>1 DEF Held
    <3> QED
      BY <1>1, <1>4, <1>5, <2>2, <3>2, <3>3, OthersStrike
  <2> QED
    BY <2>1, <2>2
<1> QED
  BY <1>4, <1>5, <1>6 DEF LedgerInv

LEMMA FailStrikes ==
  ASSUME ClearingInv, LedgerInv, NEW w \in Workers, IngestRejected(w) \/ Fail(w)
  PROVE  LedgerInv'
<1>1. tx' = [tx EXCEPT ![w] = Empty] /\ UNCHANGED db
  BY DEF IngestRejected, Fail, Rollback, Outside
<1>2. DOMAIN tx'[w] = {} /\ \A v \in Workers : v # w => tx'[v] = tx[v]
  BY <1>1, RollbackEffect DEF ClearingInv
<1>3. /\ \A b \in Breaches : DbSt(b)' = DbSt(b) /\ Named(db[Slash(b)], b)'
      /\ \A r \in Accounts : BalancedDb(r)'
  BY <1>1 DEF LedgerInv, DbSt, Named, BalancedDb, StruckDb
<1>4. ASSUME NEW v \in Workers
      PROVE  /\ \A r \in Accounts : Balanced(v, r)'
             /\ \A b \in Breaches : Held(v, b)' /\ Named(Seen(v, Slash(b)), b)'
  <2>1. CASE v = w
    BY <1>2, <1>3, <2>1, AtRestBalanced
  <2>2. CASE v # w
    BY <1>1, <1>2, <1>3, <2>2, OthersStrike
  <2> QED
    BY <2>1, <2>2
<1> QED
  BY <1>3, <1>4 DEF LedgerInv

\* A statement of somebody else is about a row no transaction holds.
LEMMA ElsewhereKeeps ==
  ASSUME ClearingInv, NEW row, NEW x, Elsewhere(row, x), NEW v \in Workers
  PROVE  tx'[v] = tx[v] /\ \A r \in DOMAIN tx[v] : db'[r] = db[r]
<1>1. row \notin DOMAIN tx[v] /\ tx' = tx /\ db' = [db EXCEPT ![row] = x]
  BY DEF Elsewhere
<1>2. \A r : r \in DOMAIN tx[v] => r \in DOMAIN db /\ r # row
  BY <1>1 DEF ClearingInv, WorkerInv
<1> QED
  BY <1>1, <1>2

LEMMA RequestStrikes ==
  ASSUME ClearingInv, LedgerInv, NEW p \in Operators, RequestWithdrawal(p) \/ HoldExpires(p)
  PROVE  LedgerInv'
<1>1. PICK q : db[Bond(p)] # None /\ Elsewhere(Bond(p), [db[Bond(p)] EXCEPT !.request = q])
  BY DEF RequestWithdrawal, HoldExpires
<1> DEFINE y == [db[Bond(p)] EXCEPT !.request = q]
<1>2. Bond(p) \in Rows /\ Fits(Bond(p), db[Bond(p)])
  BY RowsAre DEF ClearingInv, RowInv
<1>3. p \in Bonded /\ y.amount = db[Bond(p)].amount
  BY <1>1, <1>2 DEF Fits, BondRow
<1>4. \A r \in Rows : db'[r] = IF r = Bond(p) THEN y ELSE db[r]
  BY <1>1, <1>2 DEF Elsewhere, ClearingInv, WorkerInv
<1> HIDE DEF y
<1>5. \A b \in Breaches : DbSt(b)' = DbSt(b) /\ Named(db[Slash(b)], b)'
  <2>1. \A b \in Breaches : db'[Slash(b)] = db[Slash(b)]
    BY <1>4, RowsAre, RowsDiffer
  <2> QED
    BY <2>1 DEF DbSt, Named, LedgerInv
<1>6. ASSUME NEW r \in Accounts PROVE BalancedDb(r)'
  <2>1. \A b \in Of(r) : DbSt(b)' = DbSt(b)
    BY <1>5, AccountsAre
  <2>2. StruckDb(r)' = StruckDb(r)
    BY <2>1 DEF StruckDb
  <2>3. ASSUME NEW n, Shows(r, db[r], n) PROVE Shows(r, db'[r], n)
    BY <1>3, <1>4, <2>3, AccountsAre, RowsDiffer DEF Shows
  <2>4. BalancedDb(r)
    BY DEF LedgerInv
  <2> QED
    BY <2>1, <2>2, <2>3, <2>4 DEF BalancedDb
<1>7. ASSUME NEW v \in Workers
      PROVE  /\ \A r \in Accounts : Balanced(v, r)'
             /\ \A b \in Breaches : Held(v, b)' /\ Named(Seen(v, Slash(b)), b)'
  <2>1. tx'[v] = tx[v] /\ \A r \in DOMAIN tx[v] : db'[r] = db[r]
    BY <1>1, ElsewhereKeeps
  <2> QED
    BY <1>5, <1>6, <2>1, OthersStrike
<1> QED
  BY <1>5, <1>6, <1>7 DEF LedgerInv

LEMMA DisputeStrikes ==
  ASSUME ClearingInv, LedgerInv, NEW c \in Breaches, Dispute(c)
  PROVE  LedgerInv'
<1> DEFINE y == [db[Slash(c)] EXCEPT !.status = "disputed"]
<1>1. Slash(c) \in Rows /\ Fits(Slash(c), db[Slash(c)]) /\ db[Slash(c)] # None /\ Elsewhere(Slash(c), y)
  BY RowsAre DEF ClearingInv, RowInv, Dispute
<1>2. db[Slash(c)] \in SlashRow
  BY <1>1 DEF Fits
<1>3. y \in SlashRow /\ y.status = "disputed" /\ y.operator = db[Slash(c)].operator /\ y # None
  BY <1>2, NothingAssumption DEF SlashRow
<1>4. \A r \in Rows : db'[r] = IF r = Slash(c) THEN y ELSE db[r]
  BY <1>1 DEF Elsewhere, ClearingInv, WorkerInv
<1> HIDE DEF y
<1>5. \A b \in Breaches : db'[Slash(b)] = IF b = c THEN y ELSE db[Slash(b)]
  BY <1>4, RowsAre, RowsDiffer
<1>6. \A b \in Breaches : DbSt(b)' = IF b = c THEN "disputed" ELSE DbSt(b)
  BY <1>3, <1>5 DEF DbSt, St
<1>7. \A b \in Breaches : Named(db[Slash(b)], b)'
  BY <1>1, <1>3, <1>5 DEF Named, LedgerInv
<1>8. ASSUME NEW r \in Accounts, \A b \in Of(r) : DbSt(b)' # "disputed"
      PROVE  Shows(r, db'[r], Cardinality(StruckDb(r)'))
  <2>1. c \notin Of(r) /\ \A b \in Of(r) : DbSt(b)' = DbSt(b)
    BY <1>6, <1>8, AccountsAre
  <2>2. StruckDb(r)' = StruckDb(r)
    BY <2>1 DEF StruckDb
  <2>3. db'[r] = db[r]
    BY <1>4, AccountsAre
  <2>4. BalancedDb(r)
    BY DEF LedgerInv
  <2> QED
    BY <1>8, <2>1, <2>2, <2>3, <2>4 DEF BalancedDb
<1>9. \A r \in Accounts : BalancedDb(r)'
  BY <1>8 DEF BalancedDb
<1>10. ASSUME NEW v \in Workers
       PROVE  /\ \A r \in Accounts : Balanced(v, r)'
              /\ \A b \in Breaches : Held(v, b)' /\ Named(Seen(v, Slash(b)), b)'
  <2>1. tx'[v] = tx[v] /\ \A r \in DOMAIN tx[v] : db'[r] = db[r]
    BY <1>1, ElsewhereKeeps
  <2> QED
    BY <1>6, <1>7, <1>9, <2>1, OthersStrike
<1> QED
  BY <1>7, <1>9, <1>10 DEF LedgerInv

LEMMA LedgerInitInv ==
  ASSUME Init
  PROVE  LedgerInv
<1>1. \A w \in Workers : DOMAIN tx[w] = {}
  BY DEF Init, Empty
<1>2. \A b \in Breaches : db[Slash(b)] = None
  BY RowsAre DEF Init, Slash
<1>3. \A w \in Workers : \A r : Seen(w, r) = db[r]
  BY <1>1 DEF Seen
<1>4. \A b \in Breaches : DbSt(b) = "none" /\ \A w \in Workers : SeenSt(w, b) = "none"
  BY <1>2, <1>3 DEF DbSt, SeenSt, St
<1>5. ASSUME NEW r \in Accounts PROVE Shows(r, db[r], 0)
  <2>1. startScore \in Nat /\ startBond \in Nat
    BY AmountAssumption
  <2>2. \A a \in Registered : db[Agent(a)] = startScore
    BY RowsAre, ShapeAssumption DEF Init, Agent
  <2>3. \A o \in Bonded : db[Bond(o)] = [amount |-> startBond, status |-> "active", request |-> "none"]
    BY RowsAre, ShapeAssumption DEF Init, Bond
  <2>4. \A o \in Bonded : db[Bond(o)].amount = startBond
    BY <2>3
  <2> QED
    BY <2>1, <2>2, <2>4 DEF Shows, REPUTATION_PENALTY, SLASH_AMOUNT
<1>6. ASSUME NEW r \in Accounts
      PROVE  StruckDb(r) = {} /\ \A w \in Workers : Struck(w, r) = {}
  BY <1>4, AccountsAre DEF StruckDb, Struck
<1>7. Cardinality({}) = 0
  BY FS_EmptySet
<1>8. \A r \in Accounts : BalancedDb(r) /\ \A w \in Workers : Balanced(w, r)
  BY <1>3, <1>5, <1>6, <1>7 DEF BalancedDb, Balanced
<1>9. \A w \in Workers, b \in Breaches : Held(w, b)
  BY <1>4 DEF Held
<1> QED
  BY <1>2, <1>3, <1>8, <1>9 DEF LedgerInv, Named

LEMMA LedgerNextInv ==
  ASSUME ClearingInv, LedgerInv, IsFiniteSet(Breaches), [Next]_vars
  PROVE  LedgerInv'
<1>1. CASE UNCHANGED <<db, tx>>
  BY <1>1, LedgerStays
<1>2. ASSUME NEW w \in Workers, Cycle(w) \/ Fail(w) PROVE LedgerInv'
  <2>1. \/ UNCHANGED <<db, tx>>
        \/ Ingest(w) \/ Release(w) \/ Commit(w) \/ IngestRejected(w) \/ Fail(w)
        \/ \E b \in Breaches : Confirm(w, b) \/ ExecuteSlash(w, b)
    BY <1>2 DEF Cycle, OpenSpool, SkipLine, SkipKeyMismatch, SkipDuplicate, Kill, SelectUnsubmitted,
       SelectSlashable, SelectCandidates, Select, ConfirmMisses, CheckPending, CheckDisputed,
       CheckUnsubmitted, Check, Outside
  <2> QED
    BY <1>1, <2>1, IngestStrikes, ReleaseStrikes, CommitStrikes, FailStrikes, ConfirmStrikes, ExecuteStrikes
<1>3. Attest \/ (\E b \in Breaches : AppendEntry(b)) \/ UNCHANGED vars => UNCHANGED <<db, tx>>
  BY DEF Attest, AppendEntry, vars
<1> QED
  BY <1>1, <1>2, <1>3, DisputeStrikes, RequestStrikes DEF Next

\* One reputation strike and one decrement of the bond for each executed slash, none lost and
\* none doubled (slash, run_once), whatever cycles fail and for any number of clearing
\* processes that work on the same agents and bonds.
THEOREM LedgerIsBalanced ==
  ASSUME IsFiniteSet(Breaches)
  PROVE  Spec => []LedgerBalanced
<1>1. Spec => [](ClearingInv /\ LedgerInv)
  <2>1. ClearingInv /\ LedgerInv /\ [Next]_vars => ClearingInv' /\ LedgerInv'
    BY ClearingNextInv, LedgerNextInv
  <2>2. Init => ClearingInv /\ LedgerInv
    BY ClearingInitInv, LedgerInitInv
  <2> QED
    BY <2>1, <2>2, PTL DEF Spec
<1>2. ClearingInv /\ LedgerInv => LedgerBalanced
  <2> SUFFICES ASSUME LedgerInv PROVE LedgerBalanced
    OBVIOUS
  <2>1. \A b \in Breaches :
          /\ Executed(b) <=> DbSt(b) = "executed"
          /\ DbSt(b) = "disputed" <=> db[Slash(b)] # None /\ db[Slash(b)].status = "disputed"
    BY DEF Executed, DbSt, St
  <2>2. ASSUME NEW a \in Registered,
               \A b \in {x \in Breaches : agentOf[x] = a} : db[Slash(b)] # None => db[Slash(b)].status # "disputed"
        PROVE  Shows(Agent(a), db[Agent(a)], Strikes({x \in Breaches : agentOf[x] = a}))
    <3>1. Agent(a) \in Accounts /\ Of(Agent(a)) = {x \in Breaches : agentOf[x] = a}
      BY RowsDiffer DEF Accounts, Of, AccountsOf
    <3>2. StruckDb(Agent(a)) = {b \in {x \in Breaches : agentOf[x] = a} : Executed(b)}
      BY <2>1, <3>1 DEF StruckDb
    <3>3. \A b \in Of(Agent(a)) : DbSt(b) # "disputed"
      BY <2>1, <2>2, <3>1
    <3> QED
      BY <3>1, <3>2, <3>3 DEF LedgerInv, BalancedDb, Strikes
  <2>3. ASSUME NEW o \in Bonded,
               \A b \in {x \in Breaches : OperatorOf(x) = o} : db[Slash(b)] # None => db[Slash(b)].status # "disputed"
        PROVE  Shows(Bond(o), db[Bond(o)], Strikes({x \in Breaches : OperatorOf(x) = o}))
    <3>1. Bond(o) \in Accounts /\ Of(Bond(o)) = {x \in Breaches : OperatorOf(x) = o}
      BY RowsDiffer DEF Accounts, Of, AccountsOf
    <3>2. StruckDb(Bond(o)) = {b \in {x \in Breaches : OperatorOf(x) = o} : Executed(b)}
      BY <2>1, <3>1 DEF StruckDb
    <3>3. \A b \in Of(Bond(o)) : DbSt(b) # "disputed"
      BY <2>1, <2>3, <3>1
    <3> QED
      BY <3>1, <3>2, <3>3 DEF LedgerInv, BalancedDb, Strikes
  <2> QED
    BY <2>2, <2>3 DEF LedgerBalanced, Shows
<1> QED
  BY <1>1, <1>2, PTL
=============================================================================
