# A TLA+ development of warden-enforcer

Warden puts each agent session into a network namespace, drops and logs whatever
its credential does not allow, attests every breach in a transparency log and
slashes the bond behind the session. This directory models those parts in TLA+,
checks them with TLC on small instances and proves theorems about all of them with
TLAPS. Paths below are relative to the repository; line numbers are in
`PROJECT.json` ("map").

## The system and its parts

| part | code | module |
|---|---|---|
| start of the process, configuration, unix socket | `enforcer/cmd/warden-enforcer/main.go`, `config.go` | `Startup` |
| session handlers, one lock over `AppState` | `enforcer/internal/api/api.go` | `Enforcer` |
| drop consumer: token bucket, event ring, loss counters | `enforcer/internal/api/drops.go` | `Enforcer`, `Outbox` |
| sandbox controller, Linux backend, uplink allocator | `enforcer/internal/sandbox/{sandbox,backend_linux,uplink}.go` | `Sandbox` |
| targets, rulesets, packet parser | `cidr.go`, `ruleset.go`, `drop.go` | `Containment` |
| nflog listener | `enforcer/internal/sandbox/nflog_linux.go` | `Sandbox`, `Enforcer`, `Containment` |
| breach events, canonical form, keys | `breachevent.go`, `canonical.go`, `signingkey.go` | `Attestation` |
| durable spool and Rekor submitter | `enforcer/internal/outbox/outbox.go` | `Outbox` |
| Rekor client | `enforcer/internal/rekor/rekor.go` | `Outbox`, `Attestation` |
| clearing service and its tables | `clearing/service.py`, `infra/migrations` | `Clearing`, `Attestation` |
| seccomp, demo, most of the scripts | | not modelled |

A guest's packet is run through the chains of its namespace. One that is refused is
heard by the namespace's listener, whose hook sends it on a bounded channel. The
single consumer takes it off, admits it under the lock, signs an event, appends it
to the spool and kicks the submitter. The submitter reads the file from its
checkpoint on and posts each line to Rekor. The clearing service reads the same
file, kills the session through the enforcer's API, waits until Rekor has the entry,
slashes, and releases bonds on request.

## The modules

* `AttestationLog` is the abstract promise of the outbox: events are recorded in
  an order and attested in that order, once each.
* `Outbox` models `Append` (write and fsync apart), the kick channel, `Run`,
  `drainOnce`, the checkpoint, `Open`'s truncation of a torn tail, crashes and
  losses of power. `spool` is the file's lines, `Frag` a damaged one; `synced` is
  how much of it an fsync covered; `ckpt` is the checkpoint file; `cpc` and `spc`
  are the program counters of consumer and submitter; `began` says whether `Run` began
  at the checkpoint or, because it could not be read, at 0. Opening, seeking and reading
  the spool can fail too. Byte offsets are line numbers. A request stays in `inflight`
  after its timeout and may be accepted late.
* `OutboxRefinement` maps `Outbox` to `AttestationLog`: recorded is the part of
  the spool before the first damaged line, attested is the log.
* `Sandbox` models `Create` and `Destroy`, one step per command that can fail.
  `active`, `listeners`, `bySession` and `used` are the program's maps; `netns`,
  `rules`, `routable` and `veth` are the kernel's state, which outlives a restart.
* `Containment` extends `Sandbox` with what the namespaces let through: the targets
  of a credential as `Parse` reads them, the chain `Render` writes, the kernel's
  evaluation of it (external), tracked connections (`flows`) and the states of packets
  to and from their ends (`established`, or `related` for an ICMP error), and the parser and hook
  that turn a logged packet into a `Drop`. `scope` says whose ruleset a namespace
  holds; a namespace that is pinned when its name goes keeps it under its interface.
  Consecutive rules with one statement are one rule over a set of blocks.
* `Enforcer` extends `Sandbox` with the handlers, which hold the lock from their
  first to their last step (`call`), the hooks, the channel and the consumer.
  `stopWaits` says whether closing an nflog socket waits for a running hook: the
  library decides that, so it is a constant and both values are checked.
* `Startup` models `main` up to `http.Serve`, one step per call that can fail: the
  environment is read once, the spool opened, the socket's directory made and locked,
  a stale socket removed, the new one bound and its mode set. A death leaves files
  as they are. The operator edits the environment and the installer resets the
  directory's mode at any time.
* `Attestation` extends `Startup` with what a process signs, serves, spools and
  submits, and with the clearing service's verification and lookup of it. Canonical
  JSON is a function from field names to values; signatures and hashes name what
  they cover, so that two payloads are told apart exactly where their fields differ.
  The key a line was signed with and the key of the running process are different
  things here: processes change while lines stay. The submitter has its watermark in
  memory (`off`) apart from the checkpoint file, moves on when the file cannot be written,
  and begins at the file or at 0. Breach ids are UUIDs in the code and a counter here:
  both are never used twice.
* `Clearing` models a cycle of the service as one transaction of many steps, for
  any number of processes. The database is a function from rows to values; a
  transaction sees what is committed and its own writes (READ COMMITTED) and locks
  the rows it wrote. Its spool and log are those of `AttestationLog`, so that what
  `Outbox` is shown to implement is what `Clearing` relies on.
* `*Proofs` hold the theorems; `MC*` give the constants their values.

Operators named as "Mutant of ..." are plausible bugs in the definition that
follows them. Each checked property is violated by one of them.

## What is checked

| run | shows |
|---|---|
| `outbox_safety` | three entries, two crashes, failing writes, syncs, checkpoints and reads: the log is a prefix of the spool, the checkpoint covers only what is logged and retreats only where `Run` replays from 0, and `Outbox` implements `AttestationLog` |
| `outbox_durable` | every fault and losses of power: what `Append` acknowledged stays |
| `outbox_live` | failing syncs, checkpoints and reads, a crash: no wake-up is lost, and what was acknowledged is logged in the end |
| `sandbox_scope` | every fault, two restarts, four sessions of which two pairs share a name, a pool of two, guests that send: routable namespaces have rules, sessions stay contained, uplinks are accounted for and out of reach; what leaves is in scope, what is refused is reported once with its facts, replies and ICMP errors return; the kernel's match is `Contains` |
| `enforcer_account` | two sessions, failing commands and appends, stray hooks: every heard packet is in the ring, under way or counted; failed creates leave nothing behind; sessions are heard from their uplink on until Destroy stops the listener |
| `enforcer_live` | every fault and a restart: handlers finish, drops are consumed, records and sandboxes agree |
| `clearing_one` | one process, forged, torn and mismatched lines, an operator without a bond, failing kills, disputes, two failed cycles: rows keep their types, slashes are logged, ledgers balance, bonds go only without liabilities, and genuine breaches are slashed in the end |
| `clearing_two` | a `--once` beside the daemon, a failed cycle: a breach is recorded as a whole, no session ends without one, nothing is slashed twice, no dispute is overwritten, no bond returns |
| `attestation` | five environments, two edits, a failing call, two deaths, two breaches: others never reach the socket, the enforcer comes up again, served events verify, spooled lines verify for Rekor and clearing and are found there in the end, each entered once, however many are submitted again |
| `outbox_short`, `enforcer_blame`, `clearing_kill` | violated on purpose: see Disagreements |

**Where a property is checked under less than every fault.** These are limits of
the result. Unless the item says otherwise, the property fails beyond them:

* `LoggedInOrder`, `CheckpointCovered`, `RetreatsOnlyInReplay` and `ImplementsLog`
  without losses of power; `NoLostWakeup` without losses of power and without reads
  that are cut short; `AckedIsLogged` without these and short writes.
  (`NoLostWakeup` holds with short writes, as its theorem shows.)
* `NothingLeftBehind` where `ip netns del` succeeds, no process pins a namespace
  and nothing restarts: a restart leaves the dead process's namespaces behind.
* `EveryPacketAccounted` and `HeardUntilDestroyed` in the same instance. They fail
  only with failing deletions, after which a session lives on without listener and
  counter; pinned namespaces or a restart alone do not break them, as their theorems
  show.
* `ReleasedWithoutLiability` for one clearing process.
* `EveryBreachSlashed` excuses disputed slashes and mismatched keys, which the
  service puts off by design, and spools with a line whose insert is rejected.
* `EveryEntryAttested` asks that a process with a Rekor URL stays up, and
  `ServesAgain` that the environment is good from some point on.

**Bounds.** Three entries show one before, at and behind a fault; two crashes show
a replay of a replay. Two lines of one drop, alike but for their breach ids, can both be
beyond the checkpoint and submitted again in `attestation`. Channel and ring have one slot and the bucket two tokens, so
that three packets fill the hook, the channel and the consumer at once and every
overflow happens. `enforcer_live` has one uplink: its two sessions are active one
after the other, and both at once only in `enforcer_account`. Two creates reuse a
session id. In `sandbox_scope` a byte has two bits, an IPv4 address two bytes and an
IPv6 address three: prefixes end inside, at and between bytes, and the second uplink
carries into the third octet; the packets have options, short payloads, protocols
without ports and an extension header. In `clearing_two` a bond of 150 at 100 a slash and a score of 15 at 10
a slash go below zero and to the floor with the second breach; in `clearing_one` the
score of 5 does so with the first. `MaxCrashes`, `MaxRestarts`, `MaxPackets`,
`MaxCreates`, `MaxFails`, `MaxEdits`, `MaxFaults`, `MaxDeaths` and `MaxBreaches` cap
the counters. Deadlock is checked for `Clearing`, `sandbox_scope` and `attestation`;
the outbox and enforcer instances stop when their entries, packets and creates are
used up, and say `CHECK_DEADLOCK FALSE`.

**Fairness.** Weak fairness of each goroutine's own steps is the Go scheduler's;
strong fairness of taking the lock is the mutex's starvation mode. `Open`, and the
steps of `Boot`, are fair because systemd restarts on failure
(`scripts/install-enforcer.sh:51-52`). Strong fairness of `RekorAccepts` and
`SubmitSucceeds` says that Rekor is reachable again and again, which `Run`'s endless
retry relies on; that of `ReadPending`, that the spool can be read again and again.
`Attestation`, whose submitter takes an entry in one step, needs weak fairness of
`Resume` and of a `Submit` that advances. For the clearing service, the daemon polls
for ever, some of its reads meet the spool between two appends, and some lookups in
Rekor succeed. Arrivals (packets, requests, disputes, edits) are not fair.

## Disagreements between code and text

Three have a run whose counterexample shows them, and an entry under "findings":

* `outbox_short`: after a write that failed half-way the next entry is joined to
  the fragment; the line never parses and blocks all behind it (`outbox.go:81`).
* `enforcer_blame`: a drop queued before a session id is deleted and used again is
  signed as a breach of the new agent (`drops.go:90`).
* `clearing_kill`: a failed DELETE is never tried again (`service.py:234`).

Eleven more were seen with TLC on these models and have no run of their own. Each
says how to see it again:

* A line can be submitted between its write and its fsync, against "written (and
  fsync'd) BEFORE any Rekor attempt" (`outbox.go:2`). State that every entry of
  `inflight` is among the first `synced` lines; no fault is needed.
* Hence, after a loss of power, the spool can be shorter than the checkpoint and
  the next entry is never read (`outbox.go:256`). Check `CheckpointCovered` with
  `powerLoss`.
* A read that fails is taken for the end of the file (`outbox.go:113-116`): `ReadFrom`
  returns what it has without an error, `drainOnce` reports success and the submitter
  sleeps on acknowledged entries until the next kick, against "submits every pending
  entry" (`outbox.go:232`). Check `NoLostWakeup` or `AckedIsLogged` with `shortRead`.
* A process that cannot read the checkpoint replays from 0 and takes the checkpoint file
  back with it, so that one that dies then leaves less than was there, against "a restart
  resumes exactly where acceptance stopped" (`outbox.go:197-198`). State that `ckpt`
  never decreases, with `readError`.
* Destroy stops the listener while the namespace is routable, against "no dropped
  packet may go unheard" (`backend_linux.go:79-80`, `:112`); so does the clean-up of a Create whose last command
  failed (`:95`). State that every routable name has a listener.
* Destroy frees the index of a pinned namespace whose veth pair lives on, against
  the comment at `backend_linux.go:129`. State that a free index has no link, with
  `pinned`.
* Destroy drops the overflow counter before the deletion that may fail
  (`backend_linux.go:116`), against `docs/enforcer-wiki.md:876`. Check
  `EveryPacketAccounted` with `delFails`.
* With two clearing processes a bond can be released while the other commits a
  pending slash (`service.py:385`, `docs/slashing-policy.md:109-111`). Check
  `ReleasedWithoutLiability` in the instance of `clearing_two`.
* The withdrawal guard blocks on disputed slashes (`service.py:366`), which
  `docs/slashing-policy.md:103` denies and `:113` confirms. State, with fairness and
  one process, that an expired request with no pending slash and no unsubmitted row
  from some point on is granted.
* A breach of an operator without a bond row fails every cycle and holds up all
  others (`service.py:217`), though `service.py:311` expects "operator bond if
  present". Check `clearing_one` without the last disjunct of `EveryBreachSlashed`.
* After a rotation and the restart it takes, `GET /enforcer/keys/{key_id}` answers
  404 for the old key, because nothing fills `ArchivedKeys` (`api.go:244`), against
  "breach events signed under it remain verifiable indefinitely via `GET
  /enforcer/keys/{key_id}`" (`enforcer/README.md:55`). The entry itself carries its
  key, which is what `EntriesStayVerifiable` rests on. State in `attestation` that
  while `pc` is "serving" `getKeyByID` knows the key id of every spooled line.

Two were met while reading and concern no state of the models beyond a mode or a
command line: the directory's 0700 keeps out the group that `main.go:96-98` lets
connect, until the installer's 0750 is put back; and the systemd unit passes `--port`
and `--socket`, which `main` does not read, and sets none of the variables it does.

## What is proved

Every invariant and action property of the passing runs has a theorem, and so have some
that no run checks. Each holds for every value of the constants that satisfies the named
assumptions, and so for any number of sessions, entries, crashes and processes. Two of
the three properties that a run violates have a theorem as well, which says under which
proviso they do hold: `EventsBlameTheSender` and `TerminatedIsKilledIfHeard`.

* `OutboxProofs`. `TypeCorrect` and `AcknowledgedIsDurable` hold under every fault.
  `BaseInv` adds where the consumer's entry is at each program counter and that a
  batch lies within the spool: without it `SyncLine` could acknowledge an entry that
  was never written. `LogIsSpoolPrefix`, `CheckpointIsCovered` and
  `CheckpointRetreatsOnlyInReplay` assume `NoPowerLoss`; `LogInv` adds that both watermarks lie
  within the log, that a request in flight carries a logged entry or the next line,
  and that no entry is written twice. A late answer is harmless because of the second
  of these. `WatermarkInv` says that the file is not ahead of the watermark in memory
  unless `Run` is replaying. `WakeupIsNeverLost`, with `NoPowerLoss` and `NoShortRead`:
  `WakeInv` says, for each acknowledged entry, who is about to see it. `OutboxImplementsLog`, with `NoPowerLoss`:
  the mapping takes the whole lines before the first fragment; that there is a last such
  line for every spool is itself carried through the steps (`EndInv`).
* `SandboxProofs`: containment and the allocator under every fault. `CallInv` says
  what the step under way may rely on, `HolderInv` that an index has one holder.
  `LinkedSessionsAreHeard` assumes that deletions succeed; `NothingIsLeftBehind` that
  only commands of Create fail and nothing restarts. `ExhaustedPoolIsFull`: alloc's error
  is true when it is given, because the indices in use are then those of the active
  sessions and a set of natural numbers without a least element is empty (`NatLeast`).
* `ContainmentProofs`: lemmas say what a rendered chain accepts and logs, for any
  blocks; `ContainmentInv` adds whose ruleset each namespace holds (`LoadedInv`,
  `OwnerInv`) and that a tracked connection leads into its scope (`FlowInv`). The last
  is why the rule for tracked connections, which asks for no target, does not
  widen `OnlyScopeLeaves`. `ContainmentImplementsSandbox` carries `SandboxProofs` over.
  `ScopeIsWhatContainsSays` holds for bytes and addresses of any width: an address below
  2^n is given by its bytes, by induction on their number, so that equal leading bytes
  and a shifted compare of the next one are equal leading bits; `ParsedInv` adds that no
  active session has a target that `Parse` refused. `UplinksAreUnreachable` holds for any
  aligned pool with four addresses per index: a subnet does not leave its /30, /30s of
  different indices do not meet, and `HolderInv` keeps the indices apart.
* `EnforcerProofs`: `EnforcerImplementsSandbox` likewise; `RecordInv` says when record
  and sandbox part, `StageInv` what each stage holds, and `AccountInv` that what a new
  session hears waits until its answer is given, since the consumer needs the lock the
  handler holds. `PacketsAreAccounted` assumes that deletions succeed.
  `RingsHoldTheirOwn`: what the events endpoint reads was recorded for this session and
  the agent of its present credential. `EventsBlameTheSender` assumes that no session id
  is created for two agents; `BlameInv` follows a drop's sender through hook, stray,
  channel and consumer (`Whose`, `Carried`).
* `AttestationProofs`: `GuardInv` for the socket; `RingInv` (a ring holds what its own
  process signed) and `LogInv` (breach ids grow along the spool, Rekor's entries are those
  of its first lines, as many as there are entries, and both watermarks lie among them)
  for the entries. A submission is of a line that Rekor has, wherever the submitter began,
  or of the first it has not (`SubmitEffect`). `CountInv` (a breach id for
  every line) makes `AttestationTypeOK` inductive, the port's range included, which rests
  on `parsePort`. `AttestationImplementsLog` maps the spool to recorded and its first
  `Cardinality(rekor)` lines to attested: a second submission of a line is a stuttering step, so that
  the promise `Outbox` keeps is also kept with real keys, entries and rotations.
* `ClearingProofs`: `ClearingInv` says of each row that its value fits and that a
  transaction's version is ahead of the committed one (`RowInv`), and of each breach
  how its rows go together, as committed and as each worker sees them, which of them a
  transaction holds together, and what a selection is still worth when its rows are
  worked on (`BreachInv`). That a slash about to be executed is always held by its
  transaction is why two processes do not slash twice and no dispute is overwritten.
* `ClearingEndProofs`: any number of processes is allowed here as well, except for
  `ReleasesCarryNoLiability`, which assumes `Alone` and rests on `GuardInv`: what the
  guard has found out still holds. For the others `EndInv` follows the end of a session
  from the line that is its cause to the row: what a worker has read is spooled or torn,
  what it is about to kill for verified, and a transaction that has ended a session's row
  also holds the outbox row of one of its breaches and has sent the DELETE, or is about
  to. Hence `KillsHaveACause`, the second half of `BreachesAreRecordedTogether` and, with
  `killFails` excluded, `TerminatedIsKilledIfHeard`.
* `LedgerProofs`: `LedgerIsBalanced`, for finitely many breaches. `LedgerInv` says that
  score and balance show the executed slashes in the committed rows and in each
  worker's picture, and that a worker holds the accounts of what it has executed and
  not committed, so that no other one counts on them.

The assumptions of the modules are evaluated by TLC in the runs: shapes of the
constants; None apart from every value a column or a field holds (SQL's NULL), and a torn
line apart from every entry; packets as the kernel forwards them; a guest whose address
is in no denied block; targets whose parts are addresses and numbers, a port variable
that holds a number or no number; bytes of at least one bit; and an uplink pool that is
denied, aligned and large enough for its indices, as 10.200.0.0/16 is for 16384 of them.

Induction over data is needed for powers of two, for the bytes of an address and for the
least free index. All use that a set of natural numbers that is not empty has a least member
(`NatLeast`, `Induct`), stated with sets and so within reach of the provers. What a
function of sequences computes for every input is not proved anywhere.

Only model-checked: liveness (`AckedIsLogged`, `HandlersFinish`, `DropsConsumed`,
`EveryBreachSlashed`, `ServesAgain`, `EveryEntryAttested`), since fairness and ENABLED
are out of the prover's reach. Conversely, the proofs about `Clearing` cover breaches of
sessions without a row, which no instance has.

## What is left out

* Ed25519, SHA-256, RFC 8785, base64 and PEM, HTTP, nftables, conntrack, PostgreSQL and
  Rekor are external: modelled from how the code uses them. Parsing of address texts
  is netip's.
* Of the packet path: packets that come in unasked, and packets for the namespace's own
  addresses, which go to the input hook, where the ruleset has no chain. IPv6 has no
  uplink, so no IPv6 connection is ever tracked. Only ICMP errors are related to a tracked
  connection, and they go to one of its ends: no conntrack helper is assigned. Behind an IPv6
  extension header the parser does not look (`drop.go:41-48`): what is reported as the
  protocol is the header's number, and there is no port. What becomes of a reported packet is
  `Enforcer`'s: the two are not composed, as their product is out of TLC's reach.
* `Attestation` takes every line of the spool as whole, written and read: what failing
  writes, syncs and reads do to the file is `Outbox`'s, and a fragment blocks the
  submitter there (`outbox_short`).
* One socket path and one spool path: a change of either in the environment is not
  modelled.
* `signingkey.Generate` and `Retire`, and the seccomp profile, which nothing in the
  program calls; the demo; the scripts, but for the socket's directory and the unit.
