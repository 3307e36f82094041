------------------------------ MODULE Clearing ------------------------------
(***************************************************************************)
(* The clearing service (clearing/service.py): each cycle reads the spool, *)
(* records and kills, confirms against Rekor, slashes and releases bonds   *)
(* in one database transaction, while the enforcer appends, Rekor logs,    *)
(* operators file disputes and ask for their bonds, and the enforcer is    *)
(* told to delete sessions outside of any transaction.                     *)
(*                                                                         *)
(* The spool and Rekor are those of AttestationLog, which Outbox           *)
(* implements.  PostgreSQL (external) is a function from rows to values:   *)
(* a transaction reads what is committed and its own writes (READ          *)
(* COMMITTED), and a row it wrote is locked until it ends.                 *)
(***************************************************************************)
EXTENDS Integers, Sequences, FiniteSets

CONSTANTS
  Breaches,         \* breach ids of the entries that may be spooled
  Sessions, Agents, Operators, KeyIds,
  sessionOf,        \* the session of a breach
  agentOf,          \* the agent a breach names
  keyOf,            \* [id, x]: the key id and the public key of a breach
  Forged,           \* breaches whose signatures do not verify
  operatorOf,       \* the operator of a session; None: no session row
  Bonded,           \* operators with a row in operator_bond
  Registered,       \* agents with a row in agent_identity
  Workers,          \* clearing processes: a daemon, perhaps a --once beside it
  ClearingFaults,   \* what may go wrong
  MaxFails,         \* bound on failed cycles
  startScore,       \* reputation_score at the start
  startBond,        \* amount_usd at the start
  None

AllClearingFaults ==
  {"killFails",     \* the DELETE to the enforcer fails
   "dispute"}       \* an operator sets a slash to disputed

ASSUME ShapeAssumption ==
  /\ sessionOf \in [Breaches -> Sessions]
  /\ agentOf \in [Breaches -> Agents]
  /\ \A b \in Breaches : keyOf[b].id \in KeyIds
  /\ operatorOf \in [Sessions -> Operators \cup {None}]
  /\ Forged \subseteq Breaches /\ Bonded \subseteq Operators /\ Registered \subseteq Agents
ASSUME ClearingFaultsAssumption == ClearingFaults \subseteq AllClearingFaults
ASSUME AmountAssumption == {MaxFails, startScore, startBond} \subseteq Nat

\* A row of slash_event, and one of operator_bond.
SlashRow ==
  [status : {"pending", "executed", "disputed"}, entry : BOOLEAN, operator : Bonded \cup {None}]
BondRow ==
  [amount : Int, status : {"active", "depleted", "withdrawn"}, request : {"none", "held", "expired"}]

\* SQL's NULL is none of the values a column holds.
ASSUME NothingAssumption ==
  /\ None \notin Breaches \cup Operators
  /\ None \notin {"unsubmitted", "submitted", "running", "terminated"}
  /\ None \notin SlashRow /\ None \notin BondRow /\ None \notin 0..startScore
  /\ \A b \in Breaches : keyOf[b].x # None

REPUTATION_PENALTY == 10
SLASH_AMOUNT == 100

\* A line read while it was being written, which is no entry.
Torn == "torn"
ASSUME TornAssumption == Torn \notin Breaches

Key(k) == <<"signing_key", k>>
Out(b) == <<"attestation_outbox", b>>
Slash(b) == <<"slash_event", b>>
Sess(s) == <<"session", s>>
Agent(a) == <<"agent_identity", a>>
Bond(o) == <<"operator_bond", o>>

Rows ==
  {Key(k) : k \in KeyIds} \cup {Out(b) : b \in Breaches} \cup {Slash(b) : b \in Breaches}
  \cup {Sess(s) : s \in Sessions} \cup {Agent(a) : a \in Agents} \cup {Bond(o) : o \in Operators}

VARIABLES
  spool,      \* entries in the spool file
  rekor,      \* entries in the transparency log
  db,         \* committed rows; None: no such row
  tx,         \* per worker, the rows its transaction has written
  wk,         \* per worker, where it is: pc, lines and rows to do, the current item
  killed,     \* sessions the enforcer was told to delete and did
  fails       \* failed cycles so far

vars == <<spool, rekor, db, tx, wk, killed, fails>>

Log == INSTANCE AttestationLog WITH Entries <- Breaches, recorded <- spool, attested <- rekor

Empty == [r \in {} |-> None]
AtRest == [pc |-> "rest", lines |-> <<>>, rows |-> {}, item |-> None]
Logged == {rekor[i] : i \in 1..Len(rekor)}
Spooled == {spool[i] : i \in 1..Len(spool)}

ClearingTypeOK ==
  /\ spool \in Seq(Breaches) /\ rekor \in Seq(Breaches)
  /\ \A k \in KeyIds : db[Key(k)] \in {None} \cup {keyOf[b].x : b \in Breaches}
  /\ \A b \in Breaches :
       /\ db[Out(b)] \in {None, "unsubmitted", "submitted"}
       /\ db[Slash(b)] \in {None} \cup SlashRow
  /\ \A s \in Sessions : db[Sess(s)] \in IF operatorOf[s] = None THEN {None} ELSE {"running", "terminated"}
  /\ \A a \in Agents : db[Agent(a)] \in IF a \in Registered THEN 0..startScore ELSE {None}
  /\ \A o \in Operators : db[Bond(o)] \in IF o \in Bonded THEN BondRow ELSE {None}
  /\ DOMAIN db = Rows
  /\ \A w \in Workers :
       /\ DOMAIN tx[w] \subseteq Rows
       /\ wk[w].pc \in {"rest", "ingest", "kill", "confirm", "slash", "guard",
                        "disputes", "unsubmitted", "release"}
       /\ wk[w].lines \in Seq(Breaches \cup {Torn})
       /\ wk[w].rows \subseteq Breaches \cup Operators
       /\ wk[w].item \in Breaches \cup Operators \cup {None}
  /\ killed \subseteq Sessions
  /\ fails \in 0..MaxFails

Init ==
  /\ Log!Init
  /\ db = [r \in Rows |->
             CASE r[1] = "session" /\ operatorOf[r[2]] # None -> "running"
               [] r[1] = "agent_identity" /\ r[2] \in Registered -> startScore
               [] r[1] = "operator_bond" /\ r[2] \in Bonded ->
                    [amount |-> startBond, status |-> "active", request |-> "none"]
               [] OTHER -> None]
  /\ tx = [w \in Workers |-> Empty]
  /\ wk = [w \in Workers |-> AtRest]
  /\ killed = {}
  /\ fails = 0
-----------------------------------------------------------------------------
(* The database as worker w sees it, and its writes. *)

Overlay(f, g) == [r \in DOMAIN f \cup DOMAIN g |-> IF r \in DOMAIN f THEN f[r] ELSE g[r]]

View(w) == Overlay(tx[w], db)

Unlocked(R, w) == \A v \in Workers \ {w} : DOMAIN tx[v] \cap R = {}

Write(w, f) ==
  /\ Unlocked(DOMAIN f, w)
  /\ tx' = [tx EXCEPT ![w] = Overlay(f, @)]

Outside == <<spool, rekor, db, killed, fails>>
-----------------------------------------------------------------------------
(* ingest_and_kill *)

\* The whole file is read; its last line may still be in the making.
OpenSpool(w) ==
  /\ wk[w].pc = "rest"
  /\ \E lines \in {spool} \cup {Append(SubSeq(spool, 1, n - 1), Torn) : n \in {Len(spool)} \ {0}} :
       wk' = [wk EXCEPT ![w].pc = "ingest", ![w].lines = lines]
  /\ UNCHANGED <<Outside, tx>>

AtLine(w) == wk[w].pc = "ingest" /\ wk[w].lines # <<>>
Line(w) == Head(wk[w].lines)
Verified(l) == l \in Breaches \ Forged
NextLine(w) == wk' = [wk EXCEPT ![w].lines = Tail(@)]

\* Mutant of SkipLine: a line that does not parse ends the loop.
SkipLineStops(w) ==
  /\ AtLine(w)
  /\ ~Verified(Line(w))
  /\ wk' = [wk EXCEPT ![w].lines = <<>>]
  /\ UNCHANGED <<Outside, tx>>

\* Not JSON, or a signature that does not verify.
SkipLine(w) ==
  /\ AtLine(w)
  /\ ~Verified(Line(w))
  /\ NextLine(w)
  /\ UNCHANGED <<Outside, tx>>

\* The signing key is stored under its id if the id is new: an insert that finds the row
\* does nothing and locks nothing.
StoredKey(w, b) ==
  IF View(w)[Key(keyOf[b].id)] = None THEN keyOf[b].x ELSE View(w)[Key(keyOf[b].id)]
KeyRow(w, b) ==
  [r \in {k \in {Key(keyOf[b].id)} : View(w)[k] = None} |-> keyOf[b].x]

\* "possible tampering": the id is known with another key.
SkipKeyMismatch(w) ==
  /\ AtLine(w)
  /\ Verified(Line(w))
  /\ StoredKey(w, Line(w)) # keyOf[Line(w)].x
  /\ NextLine(w)
  /\ UNCHANGED <<Outside, tx>>

\* A breach whose key is right and which is not in the outbox table yet.
Fresh(w, b) ==
  /\ Verified(b)
  /\ StoredKey(w, b) = keyOf[b].x
  /\ Unlocked({Key(keyOf[b].id), Out(b)}, w)
  /\ View(w)[Out(b)] = None

SkipDuplicate(w) ==
  /\ AtLine(w)
  /\ Verified(Line(w))
  /\ StoredKey(w, Line(w)) = keyOf[Line(w)].x
  /\ Unlocked({Out(Line(w))}, w)
  /\ View(w)[Out(Line(w))] # None
  /\ NextLine(w)
  /\ UNCHANGED <<Outside, tx>>

\* operator_id of the session's row, if there is one.
OperatorOf(b) == operatorOf[sessionOf[b]]

\* Mutant of Ingested: the session's row is left alone.
IngestedStillRunning(w, b) ==
  Overlay(KeyRow(w, b),
    [r \in {Out(b), Slash(b)} |->
       IF r = Out(b) THEN "unsubmitted"
       ELSE [status |-> "pending", entry |-> FALSE, operator |-> OperatorOf(b)]])

\* Outbox row, pending slash and end of the session.
Ingested(w, b) ==
  LET s == sessionOf[b] IN
  Overlay(KeyRow(w, b),
    [r \in {Out(b), Slash(b)} \cup (IF View(w)[Sess(s)] = "running" THEN {Sess(s)} ELSE {}) |->
       CASE r = Out(b) -> "unsubmitted"
         [] r = Slash(b) -> [status |-> "pending", entry |-> FALSE, operator |-> OperatorOf(b)]
         [] r = Sess(s) -> "terminated"])

Ingest(w) ==
  /\ AtLine(w)
  /\ Line(w) \in Breaches
  /\ Fresh(w, Line(w))
  /\ OperatorOf(Line(w)) \in Bonded \cup {None}
  /\ Write(w, Ingested(w, Line(w)))
  /\ wk' = [wk EXCEPT ![w].pc = "kill", ![w].item = Line(w)]
  /\ UNCHANGED Outside

\* An exception ends the cycle: the transaction is rolled back.
Rollback(w) ==
  /\ tx' = [tx EXCEPT ![w] = Empty]
  /\ wk' = [wk EXCEPT ![w] = AtRest]

\* slash_event.operator_id references operator_bond: no bond row, no insert.
IngestRejected(w) ==
  /\ AtLine(w)
  /\ Line(w) \in Breaches
  /\ Fresh(w, Line(w))
  /\ OperatorOf(Line(w)) \in Operators \ Bonded
  /\ Rollback(w)
  /\ UNCHANGED Outside

\* enforcer_delete; its status is not looked at.
Kill(w) ==
  /\ wk[w].pc = "kill"
  /\ \/ killed' = killed \cup {sessionOf[wk[w].item]}
     \/ "killFails" \in ClearingFaults /\ UNCHANGED killed
  /\ wk' = [wk EXCEPT ![w].pc = "ingest", ![w].lines = Tail(@), ![w].item = None]
  /\ UNCHANGED <<spool, rekor, db, tx, fails>>
-----------------------------------------------------------------------------
(* confirm and slash *)

\* SELECT: the rows the phase will work through.
Select(w, phase, R) ==
  /\ wk' = [wk EXCEPT ![w].pc = phase, ![w].rows = R]
  /\ UNCHANGED <<Outside, tx>>

Done(w, x) == wk' = [wk EXCEPT ![w].rows = @ \ {x}]

SelectUnsubmitted(w) ==
  /\ wk[w].pc = "ingest" /\ wk[w].lines = <<>>
  /\ Select(w, "confirm", {b \in Breaches : View(w)[Out(b)] = "unsubmitted"})

\* submitted_at, and breach_log_entry_id where it IS NULL.
Confirmed(w, b) ==
  [r \in {Out(b)} \cup (IF View(w)[Slash(b)].entry THEN {} ELSE {Slash(b)}) |->
     IF r = Out(b) THEN "submitted" ELSE [View(w)[r] EXCEPT !.entry = TRUE]]

\* No answer, an error, or not in the index.
ConfirmMisses(w, b) ==
  /\ wk[w].pc = "confirm" /\ b \in wk[w].rows
  /\ Done(w, b)
  /\ UNCHANGED <<Outside, tx>>

\* Mutant of Confirm: the breach is taken as logged without an answer.
ConfirmAnyway(w, b) ==
  /\ wk[w].pc = "confirm" /\ b \in wk[w].rows
  /\ Write(w, Confirmed(w, b))
  /\ Done(w, b)
  /\ UNCHANGED Outside

Confirm(w, b) ==
  /\ wk[w].pc = "confirm" /\ b \in wk[w].rows
  /\ b \in Logged
  /\ Write(w, Confirmed(w, b))
  /\ Done(w, b)
  /\ UNCHANGED Outside

Slashable(w) ==
  {b \in Breaches : LET sl == View(w)[Slash(b)] IN
     sl # None /\ sl.status = "pending" /\ sl.entry}

\* Mutant of SelectSlashable: a commit of its own after confirm.
SelectSlashableAfterCommit(w) ==
  /\ wk[w].pc = "confirm" /\ wk[w].rows = {}
  /\ db' = View(w)
  /\ tx' = [tx EXCEPT ![w] = Empty]
  /\ wk' = [wk EXCEPT ![w].pc = "slash", ![w].rows = Slashable(w)]
  /\ UNCHANGED <<spool, rekor, killed, fails>>

SelectSlashable(w) ==
  /\ wk[w].pc = "confirm" /\ wk[w].rows = {}
  /\ Select(w, "slash", Slashable(w))

\* Mutant of Penalised: no floor.
PenalisedUnfloored(score) == score - REPUTATION_PENALTY

\* GREATEST(reputation_score - penalty, 0)
Penalised(score) == IF score > REPUTATION_PENALTY THEN score - REPUTATION_PENALTY ELSE 0

\* Mutant of Decremented: a bond that is not depleted is active.
DecrementedActive(bond) ==
  LET balance == bond.amount - SLASH_AMOUNT IN
  [bond EXCEPT !.amount = balance, !.status = IF balance <= 0 THEN "depleted" ELSE "active"]

\* "a late slash must not resurrect a withdrawn bond"
Decremented(bond) ==
  LET balance == bond.amount - SLASH_AMOUNT IN
  [bond EXCEPT !.amount = balance, !.status = IF balance <= 0 THEN "depleted" ELSE @]

\* Mutant of Settled: the status is not updated.
StillPending(sl) == sl

Settled(sl) == [sl EXCEPT !.status = "executed"]

\* Reputation, bond and status of one slash that was selected.
ExecuteSlash(w, b) ==
  /\ wk[w].pc = "slash" /\ b \in wk[w].rows
  /\ LET now == View(w)
         a == agentOf[b]
         o == now[Slash(b)].operator
     IN Write(w, [r \in {Slash(b)} \cup ({Agent(a), Bond(o)} \cap {x \in Rows : now[x] # None}) |->
                    CASE r = Slash(b) -> Settled(now[r])
                      [] r = Agent(a) -> Penalised(now[r])
                      [] r = Bond(o) -> Decremented(now[r])])
  /\ Done(w, b)
  /\ UNCHANGED Outside
-----------------------------------------------------------------------------
(* withdrawal_guard *)

SelectCandidates(w) ==
  /\ wk[w].pc = "slash" /\ wk[w].rows = {}
  /\ Select(w, "guard", {o \in Operators : LET bond == View(w)[Bond(o)] IN
                           bond # None /\ bond.status = "active" /\ bond.request = "expired"})

HasSlash(table, o, status) ==
  \E b \in Breaches : LET sl == table[Slash(b)] IN
    sl # None /\ sl.operator = o /\ sl.status = status

HasUnsubmitted(table, o) ==
  \E b \in Breaches : OperatorOf(b) = o /\ table[Out(b)] = "unsubmitted"

\* Mutant of Check: no continue after a hit.
CheckFallsThrough(w, o, hit, next) ==
  /\ wk' = [wk EXCEPT ![w].pc = next, ![w].item = o]
  /\ UNCHANGED <<Outside, tx>>

\* One SELECT of the guard: a hit ends with this operator, else the next check.
Check(w, o, hit, next) ==
  /\ wk' = IF hit THEN [wk EXCEPT ![w].pc = "guard", ![w].rows = @ \ {o}, ![w].item = None]
           ELSE [wk EXCEPT ![w].pc = next, ![w].item = o]
  /\ UNCHANGED <<Outside, tx>>

CheckPending(w, o) ==
  /\ wk[w].pc = "guard" /\ o \in wk[w].rows
  /\ Check(w, o, HasSlash(View(w), o, "pending"), "disputes")

CheckDisputed(w) ==
  /\ wk[w].pc = "disputes"
  /\ Check(w, wk[w].item, HasSlash(View(w), wk[w].item, "disputed"), "unsubmitted")

CheckUnsubmitted(w) ==
  /\ wk[w].pc = "unsubmitted"
  /\ Check(w, wk[w].item, HasUnsubmitted(View(w), wk[w].item), "release")

Release(w) ==
  /\ wk[w].pc = "release"
  /\ LET o == wk[w].item IN
     /\ Write(w, [r \in {Bond(o)} |-> [View(w)[r] EXCEPT !.status = "withdrawn"]])
     /\ wk' = [wk EXCEPT ![w].pc = "guard", ![w].rows = @ \ {o}, ![w].item = None]
  /\ UNCHANGED Outside
-----------------------------------------------------------------------------
(* run_once, run_daemon *)

Commit(w) ==
  /\ wk[w].pc = "guard" /\ wk[w].rows = {}
  /\ db' = View(w)
  /\ tx' = [tx EXCEPT ![w] = Empty]
  /\ wk' = [wk EXCEPT ![w] = AtRest]
  /\ UNCHANGED <<spool, rekor, killed, fails>>

\* A database error, a deadlock or the end of the process, anywhere in a cycle.
Fail(w) ==
  /\ wk[w].pc # "rest" /\ fails < MaxFails
  /\ fails' = fails + 1
  /\ Rollback(w)
  /\ UNCHANGED <<spool, rekor, db, killed>>
-----------------------------------------------------------------------------
(* The surroundings (external). *)

AppendEntry(b) == Log!Record(b) /\ UNCHANGED <<db, tx, wk, killed, fails>>
Attest == Log!Attest /\ UNCHANGED <<db, tx, wk, killed, fails>>

\* A statement of somebody else, committed at once.
Elsewhere(row, value) ==
  /\ \A w \in Workers : row \notin DOMAIN tx[w]
  /\ db' = [db EXCEPT ![row] = value]
  /\ UNCHANGED <<spool, rekor, tx, wk, killed, fails>>

RequestWithdrawal(o) ==
  /\ db[Bond(o)] # None /\ db[Bond(o)].request = "none"
  /\ Elsewhere(Bond(o), [db[Bond(o)] EXCEPT !.request = "held"])

HoldExpires(o) ==
  /\ db[Bond(o)] # None /\ db[Bond(o)].request = "held"
  /\ Elsewhere(Bond(o), [db[Bond(o)] EXCEPT !.request = "expired"])

Dispute(b) ==
  /\ "dispute" \in ClearingFaults
  /\ db[Slash(b)] # None /\ db[Slash(b)].status # "disputed"
  /\ Elsewhere(Slash(b), [db[Slash(b)] EXCEPT !.status = "disputed"])
-----------------------------------------------------------------------------
Cycle(w) ==
  \/ OpenSpool(w) \/ SkipLine(w) \/ SkipKeyMismatch(w) \/ SkipDuplicate(w)
  \/ Ingest(w) \/ IngestRejected(w) \/ Kill(w)
  \/ SelectUnsubmitted(w) \/ (\E b \in Breaches : Confirm(w, b) \/ ConfirmMisses(w, b))
  \/ SelectSlashable(w) \/ (\E b \in Breaches : ExecuteSlash(w, b))
  \/ SelectCandidates(w) \/ (\E o \in Operators : CheckPending(w, o))
  \/ CheckDisputed(w) \/ CheckUnsubmitted(w) \/ Release(w) \/ Commit(w)

Next ==
  \/ \E w \in Workers : Cycle(w) \/ Fail(w)
  \/ \E b \in Breaches : AppendEntry(b) \/ Dispute(b)
  \/ Attest
  \/ \E o \in Operators : RequestWithdrawal(o) \/ HoldExpires(o)

Spec == Init /\ [][Next]_vars

\* The daemon polls for ever; Rekor logs what is spooled (AttestationLog) and its
\* index answers at last; a spool that is not being written to is read whole.
Fairness ==
  /\ WF_vars(Attest)
  /\ \A w \in Workers :
       /\ WF_vars(Cycle(w))
       /\ SF_vars(OpenSpool(w) /\ wk'[w].lines = spool)
       /\ \A b \in Breaches : SF_vars(Confirm(w, b))

FairSpec == Spec /\ Fairness
-----------------------------------------------------------------------------
(* Properties. *)

Executed(b) == db[Slash(b)] # None /\ db[Slash(b)].status = "executed"

\* "The clearing service does not execute a slash until breach_log_entry_id is
\* populated" (docs/slashing-policy.md:33): what is committed as executed is in
\* Rekor, recorded as submitted, and signed by the key stored under its id,
\* wherever cycles failed before.
SlashedOnlyWhenLogged ==
  \A b \in Breaches : Executed(b) =>
    /\ b \in Logged \ Forged
    /\ db[Out(b)] = "submitted"
    /\ db[Key(keyOf[b].id)] = keyOf[b].x

\* Slashes of X that were executed.
Strikes(X) == Cardinality({b \in X : Executed(b)})

\* "one reputation strike and one bond-ledger decrement per confirmed event"
\* (docs/slashing-policy.md:48): the committed score and balance are those that the
\* executed slashes account for (an executed slash in dispute is not counted here).
LedgerBalanced ==
  /\ \A a \in Registered :
       LET mine == {b \in Breaches : agentOf[b] = a}
           rest == startScore - REPUTATION_PENALTY * Strikes(mine)
       IN (\A b \in mine : db[Slash(b)] # None => db[Slash(b)].status # "disputed")
            => db[Agent(a)] = IF rest > 0 THEN rest ELSE 0
  /\ \A o \in Bonded :
       LET mine == {b \in Breaches : OperatorOf(b) = o}
       IN (\A b \in mine : db[Slash(b)] # None => db[Slash(b)].status # "disputed")
            => db[Bond(o)].amount = startBond - SLASH_AMOUNT * Strikes(mine)

\* A committed outbox row and a committed slash come together, and both end the
\* session: no crash leaves a breach that is recorded and will never be slashed.  No
\* session's row is ended but by a breach of its own that is recorded.
RecordedTogether ==
  /\ \A b \in Breaches :
       /\ (db[Out(b)] = None) <=> (db[Slash(b)] = None)
       /\ db[Out(b)] # None => db[Sess(sessionOf[b])] # "running"
  /\ \A s \in Sessions : db[Sess(s)] = "terminated" =>
       \E b \in Breaches : sessionOf[b] = s /\ db[Out(b)] # None

Status(o) == db[Bond(o)].status

\* "Release operator bonds whose hold period has expired and have no open
\* liabilities" (withdrawal_guard): in the state that commits a release the
\* operator has no pending slash and no unsubmitted breach.
ReleasedWithoutLiability ==
  [][\A o \in Bonded : Status(o) # "withdrawn" /\ Status(o)' = "withdrawn" =>
       /\ db[Bond(o)].request = "expired"
       /\ ~HasSlash(db', o, "pending")
       /\ ~HasUnsubmitted(db', o)]_vars

\* "a late slash must not resurrect a withdrawn bond to 'active'" (slash).
NeverActiveAgain ==
  [][\A o \in Bonded : Status(o) # "active" => Status(o)' # "active"]_vars

\* The insert for b is rejected: its operator has no bond row, and b is next to be recorded
\* as soon as the lines before it are.
Rejected(b) ==
  /\ Verified(b) /\ OperatorOf(b) \in Operators \ Bonded
  /\ db[Key(keyOf[b].id)] \in {None, keyOf[b].x}

\* Every breach that is spooled and verifies is slashed at last, whatever lines precede
\* it, whatever kills fail and however often the cycle does, unless its key id is stored
\* with another key or its slash is disputed: only a line whose insert is rejected, which
\* fails every cycle (service.py:217), can hold it up.
EveryBreachSlashed ==
  \A b \in Breaches \ Forged :
    b \in Spooled ~>
      \/ Executed(b)
      \/ db[Key(keyOf[b].id)] \notin {None, keyOf[b].x}
      \/ db[Slash(b)] # None /\ db[Slash(b)].status = "disputed"
      \/ \E c \in Spooled : Rejected(c)

\* "session.terminated_at set  (clearing killed the session)" (README.md:80).
TerminatedIsKilled ==
  \A s \in Sessions : db[Sess(s)] = "terminated" => s \in killed

\* A breach is confirmed when its slash is "not 'disputed' pending adjudication"
\* (docs/slashing-policy.md:31): a dispute is not overwritten by a slash that was
\* selected before it was filed.
DisputeIsKept ==
  [][\A b \in Breaches : db[Slash(b)] # None /\ db[Slash(b)].status = "disputed"
       => db'[Slash(b)].status = "disputed"]_vars
=============================================================================
