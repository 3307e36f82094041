------------------------------ MODULE Enforcer ------------------------------
(***************************************************************************)
(* The enforcer's API and its drop pipeline on top of Sandbox: the session *)
(* handlers of api.go, the nflog hook of nflog_linux.go, the bounded drops *)
(* channel of main.go and the consumer of drops.go with its token buckets, *)
(* event rings and loss counters.                                          *)
(*                                                                         *)
(* The AppState lock is held from the start of a handler to its end, so it *)
(* is free exactly when call = Idle; recordDrop and the counting of a      *)
(* failed append take it too.  The hook takes no lock.                     *)
(***************************************************************************)
EXTENDS Sandbox, Sequences

CONSTANTS
  Agents,        \* agent ids
  dropsCap,      \* capacity of the drops channel
  eventsCap,     \* length of a session's event ring
  bucketBurst,   \* capacity of a token bucket
  stopWaits,     \* whether closing an nflog socket waits for a running hook (external)
  MaxPackets,    \* bound on dropped packets the listeners hear
  MaxCreates     \* bound on sessions created

ASSUME CapAssumption == {dropsCap, eventsCap, bucketBurst} \subseteq Nat \ {0}
ASSUME BoundAssumption == {MaxPackets, MaxCreates} \subseteq Nat
ASSUME StopAssumption == stopWaits \in BOOLEAN
ASSUME AgentAssumption == None \notin Agents

VARIABLES
  cred,          \* AppState.Sessions: the agent of each session's credential
  owner,         \* the agent a session's namespace is made for
  hook,          \* the sender of the packet a listener's hook is handling
  strays,        \* drops in hooks that outlived their listener
  drops,         \* the drops channel
  lostDrops,     \* LinuxSandbox.lost: drops discarded on a full channel
  events,        \* AppState.Events
  losses,        \* AppState.EventLosses
  tokens,        \* AppState.buckets; None when the session has no bucket
  worker,        \* where ConsumeDrops is, and with which drop
  spooled,       \* events whose Outbox.Append succeeded
  heard,         \* packets heard for the session since it was created
  creates        \* sessions created so far

accounting == <<lostDrops, events, losses, tokens>>
pipeline == <<hook, strays, drops, worker, spooled, heard>>
apiVars == <<cred, owner, creates>>
vars == <<sandboxVars, accounting, pipeline, apiVars>>

Drop == [session : Sessions, from : Agents]
Event == [session : Sessions, agent : Agents, from : Agents]
NoDrop == [pc |-> "idle", drop |-> None]

EnforcerTypeOK ==
  /\ cred \in [Sessions -> Agents \cup {None}]
  /\ owner \in [Sessions -> Agents \cup {None}]
  /\ hook \in [Sessions -> Agents \cup {None}]
  /\ strays \subseteq Drop
  /\ drops \in Seq(Drop) /\ Len(drops) <= dropsCap
  /\ lostDrops \in [Sessions -> Nat]
  /\ \A s \in Sessions : events[s] \in Seq(Event) /\ Len(events[s]) <= eventsCap
  /\ losses \in [Sessions -> Nat]
  /\ tokens \in [Sessions -> 0..bucketBurst \cup {None}]
  /\ worker \in [pc : {"idle", "record", "append", "loss"}, drop : Drop \cup Event \cup {None}]
  /\ spooled \in Seq(Event)
  /\ heard \in [Sessions -> 0..MaxPackets]
  /\ creates \in 0..MaxCreates

Init ==
  /\ SandboxInit
  /\ cred = [s \in Sessions |-> None] /\ owner = cred /\ hook = cred
  /\ strays = {} /\ drops = <<>>
  /\ lostDrops = [s \in Sessions |-> 0] /\ losses = lostDrops /\ heard = lostDrops
  /\ events = [s \in Sessions |-> <<>>]
  /\ tokens = [s \in Sessions |-> None]
  /\ worker = NoDrop
  /\ spooled = <<>>
  /\ creates = 0
-----------------------------------------------------------------------------
(* The handlers. *)

\* POST /sessions with a well-formed credential of agent a.  A session that exists
\* is answered 409, a malformed request 422, both before anything changes.
createSession(s, a) ==
  /\ cred[s] = None
  /\ creates < MaxCreates
  /\ creates' = creates + 1
  /\ CreateSandbox(s)
  /\ owner' = [owner EXCEPT ![s] = a]
  /\ heard' = [heard EXCEPT ![s] = 0]
  /\ UNCHANGED <<cred, accounting, hook, strays, drops, worker, spooled>>

\* DELETE /sessions/{id}; an unknown session is answered 404.
deleteSession(s) ==
  /\ cred[s] # None
  /\ DestroySandbox(s)
  /\ UNCHANGED <<accounting, pipeline, apiVars>>

\* A shell-out of Create or Destroy.
BackendStep ==
  /\ ProvisionStep
  /\ UNCHANGED <<accounting, pipeline, apiVars>>

\* A new listener starts with a counter of zero.
ListenFromZero ==
  /\ StartListener
  /\ lostDrops' = [lostDrops EXCEPT ![call.session] = 0]
  /\ UNCHANGED <<events, losses, tokens, pipeline, apiVars>>

\* The counter is dropped with the listener.  A hook under way delays stop() or
\* outlives the listener with its drop.
StopAndForget ==
  /\ StopListener
  /\ LET s == call.session IN
     /\ stopWaits => hook[s] = None
     /\ lostDrops' = [lostDrops EXCEPT ![s] = 0]
     /\ strays' = IF hook[s] = None THEN strays
                  ELSE strays \cup {[session |-> s, from |-> hook[s]]}
     /\ hook' = [hook EXCEPT ![s] = None]
  /\ UNCHANGED <<events, losses, tokens, drops, worker, spooled, heard, apiVars>>

\* createSession stores the session: 201, or 409 or 500 with nothing stored.
AnswerCreate ==
  /\ call.kind = "create"
  /\ Return
  /\ IF call.step = "ok"
     THEN /\ cred' = [cred EXCEPT ![call.session] = owner[call.session]]
          /\ events' = [events EXCEPT ![call.session] = <<>>]
     ELSE UNCHANGED <<cred, events>>
  /\ UNCHANGED <<owner, creates, lostDrops, losses, tokens, pipeline>>

\* Mutant of AnswerDelete: the record goes even when the teardown failed.
AnswerDeleteAlways ==
  /\ call.kind = "destroy"
  /\ Return
  /\ cred' = [cred EXCEPT ![call.session] = None]
  /\ events' = [events EXCEPT ![call.session] = <<>>]
  /\ losses' = [losses EXCEPT ![call.session] = 0]
  /\ tokens' = [tokens EXCEPT ![call.session] = None]
  /\ UNCHANGED <<owner, creates, lostDrops, pipeline>>

\* deleteSession forgets the session: 204, or 500 with the record kept.
AnswerDelete ==
  /\ call.kind = "destroy"
  /\ Return
  /\ IF call.step \in {"ok", "missing"}
     THEN /\ cred' = [cred EXCEPT ![call.session] = None]
          /\ events' = [events EXCEPT ![call.session] = <<>>]
          /\ losses' = [losses EXCEPT ![call.session] = 0]
          /\ tokens' = [tokens EXCEPT ![call.session] = None]
     ELSE UNCHANGED <<cred, events, losses, tokens>>
  /\ UNCHANGED <<owner, creates, lostDrops, pipeline>>
-----------------------------------------------------------------------------
(* The listener's hook. *)

\* The namespace drops a packet of its agent and the kernel hands it to the hook.
PacketDropped(s) ==
  /\ s \in listeners /\ netnsName[s] \in routable
  /\ hook[s] = None
  /\ heard[s] < MaxPackets
  /\ heard' = [heard EXCEPT ![s] = @ + 1]
  /\ hook' = [hook EXCEPT ![s] = owner[s]]
  /\ UNCHANGED <<sandboxVars, accounting, strays, drops, worker, spooled, apiVars>>

\* Mutant of SendDrop: a send that blocks on a full channel.
SendDropBlocking(s) ==
  /\ hook[s] # None
  /\ Len(drops) < dropsCap
  /\ drops' = Append(drops, [session |-> s, from |-> hook[s]])
  /\ hook' = [hook EXCEPT ![s] = None]
  /\ UNCHANGED <<sandboxVars, accounting, strays, worker, spooled, heard, apiVars>>

\* Mutant of SendDrop: a full channel discards without counting.
SendDropUncounted(s) ==
  /\ hook[s] # None
  /\ drops' = IF Len(drops) < dropsCap
              THEN Append(drops, [session |-> s, from |-> hook[s]])
              ELSE drops
  /\ hook' = [hook EXCEPT ![s] = None]
  /\ UNCHANGED <<sandboxVars, accounting, strays, worker, spooled, heard, apiVars>>

\* The hook's non-blocking send: a full channel adds to the session's counter.
SendDrop(s) ==
  /\ hook[s] # None
  /\ IF Len(drops) < dropsCap
     THEN /\ drops' = Append(drops, [session |-> s, from |-> hook[s]])
          /\ UNCHANGED lostDrops
     ELSE /\ lostDrops' = [lostDrops EXCEPT ![s] = @ + 1]
          /\ UNCHANGED drops
  /\ hook' = [hook EXCEPT ![s] = None]
  /\ UNCHANGED <<sandboxVars, events, losses, tokens, strays, worker, spooled, heard, apiVars>>

\* A hook that outlived its listener sends too; its counter is no longer read.
SendStray(d) ==
  /\ strays' = strays \ {d}
  /\ drops' = IF Len(drops) < dropsCap THEN Append(drops, d) ELSE drops
  /\ UNCHANGED <<sandboxVars, accounting, hook, worker, spooled, heard, apiVars>>
-----------------------------------------------------------------------------
(* The consumer: ConsumeDrops and recordDrop. *)

ReceiveDrop ==
  /\ worker.pc = "idle" /\ drops # <<>>
  /\ worker' = [pc |-> "record", drop |-> Head(drops)]
  /\ drops' = Tail(drops)
  /\ UNCHANGED <<sandboxVars, accounting, hook, strays, spooled, heard, apiVars>>

\* recordDrop takes the lock that the handlers hold.
Recording == worker.pc = "record" /\ call = Idle

\* "session destroyed between the kernel log and here"
RecordUnknown ==
  /\ Recording
  /\ cred[worker.drop.session] = None
  /\ worker' = NoDrop
  /\ UNCHANGED <<sandboxVars, accounting, hook, strays, drops, spooled, heard, apiVars>>

\* admitLocked: the bucket's content after a refill of r tokens; a new one is full.
Refilled(s, r) ==
  IF tokens[s] = None THEN bucketBurst
  ELSE IF tokens[s] + r < bucketBurst THEN tokens[s] + r ELSE bucketBurst

\* No token: the drop is counted as lost.
RecordRefused ==
  /\ Recording
  /\ LET s == worker.drop.session IN
     /\ cred[s] # None
     /\ Refilled(s, 0) = 0
     /\ tokens' = [tokens EXCEPT ![s] = 0]
     /\ losses' = [losses EXCEPT ![s] = @ + 1]
  /\ worker' = NoDrop
  /\ UNCHANGED <<sandboxVars, lostDrops, events, hook, strays, drops, spooled, heard, apiVars>>

\* Mutant of Pushed: no eviction.
PushedUnbounded(ring, ev) == Append(ring, ev)

\* The ring with ev added: at capacity the oldest event goes and is counted.
Pushed(ring, ev) == Append(IF Len(ring) >= eventsCap THEN Tail(ring) ELSE ring, ev)

\* A token is spent, the event signed for the session's current agent and put in
\* the ring.  Any amount of time has passed since the last refill.
RecordAdmitted ==
  /\ Recording
  /\ LET s == worker.drop.session
         ev == [session |-> s, agent |-> cred[s], from |-> worker.drop.from]
     IN
     /\ cred[s] # None
     /\ \E r \in 0..bucketBurst :
          /\ Refilled(s, r) >= 1
          /\ tokens' = [tokens EXCEPT ![s] = Refilled(s, r) - 1]
     /\ events' = [events EXCEPT ![s] = Pushed(@, ev)]
     /\ losses' = [losses EXCEPT ![s] = IF Len(events[s]) >= eventsCap THEN @ + 1 ELSE @]
     /\ worker' = [pc |-> "append", drop |-> ev]
  /\ UNCHANGED <<sandboxVars, lostDrops, hook, strays, drops, spooled, heard, apiVars>>

\* Outbox.Append (module Outbox), outside the lock.
AppendEvent ==
  /\ worker.pc = "append"
  /\ spooled' = Append(spooled, worker.drop)
  /\ worker' = NoDrop
  /\ UNCHANGED <<sandboxVars, accounting, hook, strays, drops, heard, apiVars>>

\* Mutant of AppendEventFails: the consumer returns instead of counting.
AppendEventFailsExits ==
  /\ worker.pc = "append"
  /\ worker' = [worker EXCEPT !.pc = "exited"]
  /\ UNCHANGED <<sandboxVars, accounting, hook, strays, drops, spooled, heard, apiVars>>

AppendEventFails ==
  /\ worker.pc = "append"
  /\ worker' = [worker EXCEPT !.pc = "loss"]
  /\ UNCHANGED <<sandboxVars, accounting, hook, strays, drops, spooled, heard, apiVars>>

\* The lock is taken again for the counter, whatever became of the session.
CountFailedAppend ==
  /\ worker.pc = "loss" /\ call = Idle
  /\ losses' = [losses EXCEPT ![worker.drop.session] = @ + 1]
  /\ worker' = NoDrop
  /\ UNCHANGED <<sandboxVars, lostDrops, events, tokens, hook, strays, drops, spooled, heard, apiVars>>
-----------------------------------------------------------------------------
\* The process dies and starts again: its maps and its channel are empty.
RestartEnforcer ==
  /\ Restart
  /\ cred' = [s \in Sessions |-> None] /\ hook' = cred'
  /\ strays' = {} /\ drops' = <<>> /\ worker' = NoDrop
  /\ lostDrops' = [s \in Sessions |-> 0] /\ losses' = lostDrops'
  /\ events' = [s \in Sessions |-> <<>>]
  /\ tokens' = [s \in Sessions |-> None]
  /\ UNCHANGED <<owner, creates, spooled, heard>>

Handlers ==
  \/ \E s \in Sessions : deleteSession(s) \/ \E a \in Agents : createSession(s, a)
  \/ BackendStep \/ ListenFromZero \/ StopAndForget \/ AnswerCreate \/ AnswerDelete

Consumer ==
  \/ ReceiveDrop \/ RecordUnknown \/ RecordRefused \/ RecordAdmitted
  \/ AppendEvent \/ AppendEventFails \/ CountFailedAppend

Next ==
  \/ Handlers \/ Consumer \/ RestartEnforcer
  \/ \E s \in Sessions : PacketDropped(s) \/ SendDrop(s)
  \/ \E d \in strays : SendStray(d)

Spec == Init /\ [][Next]_vars

\* A handler that holds the lock runs on and its commands return; the hook and the
\* consumer are scheduled; Go's mutex lets a waiting goroutine in at last.
Fairness ==
  /\ WF_vars(BackendStep) /\ WF_vars(ListenFromZero) /\ WF_vars(StopAndForget)
  /\ WF_vars(AnswerCreate) /\ WF_vars(AnswerDelete)
  /\ \A s \in Sessions : WF_vars(SendDrop(s))
  /\ WF_vars(ReceiveDrop) /\ WF_vars(AppendEvent \/ AppendEventFails)
  /\ SF_vars(RecordUnknown \/ RecordRefused \/ RecordAdmitted) /\ SF_vars(CountFailedAppend)

FairSpec == Spec /\ Fairness
-----------------------------------------------------------------------------
(* Properties. *)

\* Drops of session s between the hook and recordDrop.
InPipe(s) ==
  Cardinality({i \in 1..Len(drops) : drops[i].session = s})
  + (IF hook[s] # None THEN 1 ELSE 0)
  + (IF worker.pc = "record" /\ worker.drop.session = s THEN 1 ELSE 0)

\* X-Warden-Lost-Events (getSessionEvents).
LostEvents(s) == losses[s] + lostDrops[s]

\* "Losses at any stage (channel drop, ring eviction, per-session token-bucket rate
\* limit) are counted and surfaced in the events API" (docs/enforcer-wiki.md:876):
\* a packet the listener heard is in the ring, under way or counted as lost. It
\* does not hold when "ip netns del" may fail ("delFails"): Destroy has dropped the
\* session's counter by then (backend_linux.go:116) and the session stays.
EveryPacketAccounted ==
  call = Idle => \A s \in Sessions : cred[s] # None =>
    heard[s] <= Len(events[s]) + LostEvents(s) + InPipe(s)

\* Between calls the API's sessions are the Controller's active ones, whatever
\* failed: a sandbox without a record could not be deleted, a record without a
\* sandbox would hide that nothing is enforced.
RecordsMatchSandboxes ==
  call = Idle => {s \in Sessions : cred[s] # None} = active

\* Every request is answered: a handler that holds the lock while stop() waits for
\* the listener is not waiting for the consumer, which waits for the lock.
HandlersFinish == call # Idle ~> call = Idle

\* Every drop in the channel is taken out and dealt with (ConsumeDrops keeps up
\* with handlers that come and go, failing deletes included).
DropsConsumed == (drops # <<>> \/ worker.pc # "idle") ~> (drops = <<>> /\ worker.pc = "idle")

\* agent_id: "The agent that triggered the breach." (docs/enforcer-wiki.md:258).
BlamesTheSender ==
  \A i \in 1..Len(spooled) : spooled[i].agent = spooled[i].from
=============================================================================
