------------------------------ MODULE Sandbox -------------------------------
(***************************************************************************)
(* The life of a session's sandbox: the Controller (sandbox.go), the Linux *)
(* backend's Create and Destroy (backend_linux.go), the uplink allocator   *)
(* (uplink.go) and the part of the kernel they drive by shell-outs         *)
(* (external): named network namespaces, their rules, veth pairs.          *)
(*                                                                         *)
(* One handler runs at a time: every call comes in under the AppState      *)
(* lock.  Its shell-outs are separate steps, because agents' packets and   *)
(* crashes of the process fall between them.                               *)
(***************************************************************************)
EXTENDS Naturals, FiniteSets

CONSTANTS
  Sessions,      \* session ids
  Names,         \* namespace names
  netnsName,     \* the name of a session's namespace; ids may collide
  maxUplinks,    \* size of the uplink pool
  SandboxFaults, \* what may go wrong
  MaxRestarts,   \* bound on crashes of the process
  None           \* no session, no name, no index

AllSandboxFaults ==
  {"cmdFails",   \* a provisioning command fails
   "delFails",   \* "ip netns del" fails
   "pinned"}     \* a process still holds the namespace when its name is deleted

ASSUME NameAssumption == netnsName \in [Sessions -> Names]
ASSUME PoolAssumption == maxUplinks \in Nat
ASSUME SandboxFaultsAssumption == SandboxFaults \subseteq AllSandboxFaults
ASSUME RestartsAssumption == MaxRestarts \in Nat
ASSUME NoneAssumption == None \notin Sessions \cup Names \cup Nat

Index == 0..maxUplinks - 1

VARIABLES
  \* in the process
  active,        \* Controller.active
  listeners,     \* sessions with a running nflog listener
  bySession,     \* uplinkAllocator.bySession
  used,          \* uplinkAllocator.used
  call,          \* the call under way: its kind, session and next step
  \* in the kernel
  netns,         \* named namespaces
  rules,         \* namespaces whose ruleset is loaded
  routable,      \* namespaces whose uplink is configured
  veth,          \* the namespace behind each host interface wdn<idx>
  restarts       \* crashes so far

controller == <<active, listeners, bySession, used>>
kernel == <<netns, rules, routable, veth>>
sandboxVars == <<controller, call, kernel, restarts>>

Idle == [kind |-> "none", session |-> None, step |-> "done"]
At(kind, s, step) == [kind |-> kind, session |-> s, step |-> step]
Doing(kind, step) == call.kind = kind /\ call.step = step

SandboxTypeOK ==
  /\ active \subseteq Sessions
  /\ listeners \subseteq Sessions
  /\ bySession \in [Sessions -> Index \cup {None}]
  /\ used \subseteq Index
  /\ call \in {Idle} \cup
       [kind : {"create", "destroy"}, session : Sessions,
        step : {"netns", "rules", "listener", "link", "route", "forward", "stop",
                "del", "ok", "missing", "failed"}]
  /\ netns \subseteq Names
  /\ rules \subseteq Names
  /\ routable \subseteq Names
  /\ veth \in [Index -> Names \cup {None, "pinned"}]
  /\ restarts \in 0..MaxRestarts

SandboxInit ==
  /\ active = {} /\ listeners = {} /\ used = {}
  /\ bySession = [s \in Sessions |-> None]
  /\ call = Idle
  /\ netns = {} /\ rules = {} /\ routable = {}
  /\ veth = [i \in Index |-> None]
  /\ restarts = 0
-----------------------------------------------------------------------------
Target == netnsName[call.session]
Goto(step) == call' = [call EXCEPT !.step = step]
MayFail == "cmdFails" \in SandboxFaults

\* CreateSandbox: AlreadyExistsError for an active session, else backend.Create.
CreateSandbox(s) ==
  /\ call = Idle
  /\ call' = At("create", s, IF s \in active THEN "failed" ELSE "netns")
  /\ UNCHANGED <<controller, kernel, restarts>>

\* "ip netns add"; a name that exists is an error, and nothing is cleaned up.
AddNetns ==
  /\ Doing("create", "netns")
  /\ Target \notin netns
  /\ netns' = netns \cup {Target}
  /\ Goto("rules")
  /\ UNCHANGED <<controller, rules, routable, veth, restarts>>

\* Mutant of AddNetnsFails: clean up as after the later steps.
AddNetnsFailsCleansUp ==
  /\ Doing("create", "netns")
  /\ Target \in netns \/ MayFail
  /\ Goto("del")
  /\ UNCHANGED <<controller, kernel, restarts>>

AddNetnsFails ==
  /\ Doing("create", "netns")
  /\ Target \in netns \/ MayFail
  /\ Goto("failed")
  /\ UNCHANGED <<controller, kernel, restarts>>

ApplyRuleset ==
  /\ Doing("create", "rules")
  /\ rules' = rules \cup {Target}
  /\ Goto("listener")
  /\ UNCHANGED <<controller, netns, routable, veth, restarts>>

\* Mutant of ApplyRulesetFails: the failure of nft is ignored.
ApplyRulesetFailureIgnored ==
  /\ Doing("create", "rules") /\ MayFail
  /\ Goto("listener")
  /\ UNCHANGED <<controller, kernel, restarts>>

ApplyRulesetFails ==
  /\ Doing("create", "rules") /\ MayFail
  /\ Goto("del")
  /\ UNCHANGED <<controller, kernel, restarts>>

\* Mutant of StartListener: the listener comes up after the uplink.
StartListenerLast ==
  \/ /\ Doing("create", "listener")
     /\ Goto("link")
     /\ UNCHANGED <<controller, kernel, restarts>>
  \/ /\ Doing("create", "forward")
     /\ listeners' = listeners \cup {call.session}
     /\ UNCHANGED <<active, bySession, used, call, kernel, restarts>>

StartListener ==
  /\ Doing("create", "listener")
  /\ listeners' = listeners \cup {call.session}
  /\ Goto("link")
  /\ UNCHANGED <<active, bySession, used, kernel, restarts>>

StartListenerFails ==
  /\ Doing("create", "listener") /\ MayFail
  /\ Goto("del")
  /\ UNCHANGED <<controller, kernel, restarts>>

\* uplinkAllocator.alloc: the lowest free index.
Lowest(i) == i \in Index \ used /\ \A j \in Index \ used : i <= j

\* provisionUplink: allocate an index and create the veth pair wdn<idx>.
AddLink ==
  /\ Doing("create", "link")
  /\ \E i \in Index :
       /\ Lowest(i)
       /\ veth[i] = None
       /\ used' = used \cup {i}
       /\ bySession' = [bySession EXCEPT ![call.session] = i]
       /\ veth' = [veth EXCEPT ![i] = Target]
  /\ Goto("route")
  /\ UNCHANGED <<active, listeners, netns, rules, routable, restarts>>

\* The pool is exhausted, or the interface exists, or the command fails: an index
\* that was allocated is freed again.
AddLinkFails ==
  /\ Doing("create", "link")
  /\ (\E i \in Index : Lowest(i) /\ veth[i] = None) => MayFail
  /\ Goto("stop")
  /\ UNCHANGED <<controller, kernel, restarts>>

\* Addresses, links up and the default route: the namespace has a way out.
AddRoute ==
  /\ Doing("create", "route")
  /\ routable' = routable \cup {Target}
  /\ Goto("forward")
  /\ UNCHANGED <<controller, netns, rules, veth, restarts>>

\* The last command; Create returns and the Controller marks the session active.
EnableForwarding ==
  /\ Doing("create", "forward")
  /\ active' = active \cup {call.session}
  /\ Goto("ok")
  /\ UNCHANGED <<listeners, bySession, used, kernel, restarts>>

freeUplink(s) ==
  /\ used' = used \ {bySession[s]}
  /\ bySession' = [bySession EXCEPT ![s] = None]

\* Mutant of UplinkFails: the listener is not stopped.
UplinkFailsKeepsListener ==
  /\ Doing("create", "route") \/ Doing("create", "forward")
  /\ MayFail
  /\ freeUplink(call.session)
  /\ Goto("del")
  /\ UNCHANGED <<active, listeners, kernel, restarts>>

UplinkFails ==
  /\ Doing("create", "route") \/ Doing("create", "forward")
  /\ MayFail
  /\ freeUplink(call.session)
  /\ Goto("stop")
  /\ UNCHANGED <<active, listeners, kernel, restarts>>

\* DestroySandbox: NotFoundError for a session that is not active.
DestroySandbox(s) ==
  /\ call = Idle
  /\ call' = At("destroy", s, IF s \in active THEN "stop" ELSE "missing")
  /\ UNCHANGED <<controller, kernel, restarts>>

\* stop() cancels the listener and waits for it to leave the namespace.
StopListener ==
  /\ call.step = "stop"
  /\ listeners' = listeners \ {call.session}
  /\ Goto("del")
  /\ UNCHANGED <<active, bySession, used, kernel, restarts>>

\* "ip netns del" (external): the namespace, its rules and its veth pair go, unless
\* a process in it keeps all but the name alive.
DeleteName(left) ==
  /\ Target \in netns
  /\ netns' = netns \ {Target}
  /\ rules' = rules \ {Target}
  /\ routable' = routable \ {Target}
  /\ veth' = [i \in Index |-> IF veth[i] = Target THEN left ELSE veth[i]]

\* The clean-up of a failed Create.
UndoCreate ==
  /\ Doing("create", "del")
  /\ DeleteName(None)
  /\ Goto("failed")
  /\ UNCHANGED <<controller, restarts>>

\* The end of Destroy: the index is freed and the session no longer active.
FinishDestroy ==
  /\ Doing("destroy", "del")
  /\ \E left \in {None} \cup (SandboxFaults \cap {"pinned"}) : DeleteName(left)
  /\ freeUplink(call.session)
  /\ active' = active \ {call.session}
  /\ Goto("ok")
  /\ UNCHANGED <<listeners, restarts>>

\* Mutant of DelFails: a failed teardown is forgotten.
DelFailsForgotten ==
  /\ call.step = "del"
  /\ "delFails" \in SandboxFaults
  /\ active' = active \ {call.session}
  /\ Goto("failed")
  /\ UNCHANGED <<listeners, bySession, used, kernel, restarts>>

\* The error is ignored by Create and reported by Destroy, whose session stays active.
DelFails ==
  /\ call.step = "del"
  /\ "delFails" \in SandboxFaults
  /\ Goto("failed")
  /\ UNCHANGED <<controller, kernel, restarts>>

\* Mutant of Return: the lock is not released.
ReturnLocked ==
  /\ call.step \in {"ok", "missing", "failed"}
  /\ Goto("done")
  /\ UNCHANGED <<controller, kernel, restarts>>

Return ==
  /\ call.step \in {"ok", "missing", "failed"}
  /\ call' = Idle
  /\ UNCHANGED <<controller, kernel, restarts>>

\* The process dies and starts again with empty maps; the kernel keeps everything
\* but the listeners' sockets.
Restart ==
  /\ restarts < MaxRestarts
  /\ restarts' = restarts + 1
  /\ active' = {} /\ listeners' = {} /\ used' = {}
  /\ bySession' = [s \in Sessions |-> None]
  /\ call' = Idle
  /\ UNCHANGED kernel
-----------------------------------------------------------------------------
ProvisionStep ==
  \/ AddNetns \/ AddNetnsFails \/ ApplyRuleset \/ ApplyRulesetFails
  \/ StartListenerFails \/ AddLink \/ AddLinkFails
  \/ AddRoute \/ EnableForwarding \/ UplinkFails
  \/ UndoCreate \/ FinishDestroy \/ DelFails

SandboxNext ==
  \/ \E s \in Sessions : CreateSandbox(s) \/ DestroySandbox(s)
  \/ ProvisionStep \/ StartListener \/ StopListener \/ Return \/ Restart

SandboxSpec == SandboxInit /\ [][SandboxNext]_sandboxVars
-----------------------------------------------------------------------------
(* Properties. *)

\* "the namespace must never be routable before its enforcement exists"
\* (backend_linux.go:92-93), whatever fails and wherever the process dies.
RoutableIsEnforced == routable \subseteq netns \cap rules

\* An active session has its own namespace, loaded with rules and reachable over
\* the interface its uplink index names: no failed, retried or colliding call of
\* another session takes any of them away.
ActiveIsContained ==
  \A s \in active :
    /\ netnsName[s] \in routable
    /\ bySession[s] \in Index
    /\ veth[bySession[s]] = netnsName[s]
    /\ \A t \in active : t # s => bySession[t] # bySession[s] /\ netnsName[t] # netnsName[s]

\* Between calls the reserved indices are those of the active sessions: alloc and
\* free (uplink.go:38-55) leak none and hand out none twice.
UplinksAccounted ==
  call = Idle => used = {bySession[s] : s \in active}

\* Between calls, as long as "ip netns del" succeeds, nothing is left of a failed
\* Create or a finished Destroy: every namespace and interface belongs to an active
\* session, which has a listener.
NothingLeftBehind ==
  call = Idle =>
    /\ netns = {netnsName[s] : s \in active}
    /\ listeners = active
    /\ \A i \in Index : veth[i] # None => i \in used

\* "once the namespace is routable, no dropped packet may go unheard"
\* (backend_linux.go:79-81): a session that holds an uplink, even one still being set up,
\* has a listener.  The clean-up of a failed Create gives the uplink back before it stops
\* the listener; Destroy stops the listener first, and is excepted from there on.
HeardUntilDestroyed ==
  \A s \in Sessions :
    bySession[s] \in Index => s \in listeners \/ (Doing("destroy", "del") /\ call.session = s)
=============================================================================
