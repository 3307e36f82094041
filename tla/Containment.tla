---------------------------- MODULE Containment -----------------------------
(***************************************************************************)
(* What a sandbox lets through.  The credential's targets are parsed       *)
(* (cidr.go), rendered into the forward chains of the session's namespace  *)
(* (ruleset.go) and loaded by the sandbox's Create; the kernel (external)  *)
(* runs every packet of the guest through them, tracks the connections it  *)
(* let out and hands each logged packet to the namespace's listener, which *)
(* parses it (drop.go, nflog_linux.go).                                    *)
(*                                                                         *)
(* An address is its IP version and its value.  A namespace is known by    *)
(* its name; one that outlives its name, by the index of its interface.    *)
(* Consecutive rules with the same statement are one rule over a set.      *)
(***************************************************************************)
EXTENDS Sandbox

CONSTANTS
  byteBits,           \* bits of a byte
  bytes,              \* bytes of an address, per IP version
  Packets,            \* what a guest may send: dst, proto, port, ihl and l4 (bytes after the header)
  targets,            \* the texts of a credential's targets claim, per session
  unconditionalDeny,  \* the blocks denied to everyone, per IP version
  uplinkPool,         \* the block the uplinks are taken from
  guest               \* the guest's own address

Version == {4, 6}

ASSUME NamespaceAssumption == Names \cap (Nat \cup {"pinned"}) = {} /\ None # "pinned"
\* The kernel forwards well-formed packets only (external); a port of 0 is no port.  proto
\* is the protocol field of IPv4 or the next-header field of IPv6, which names the first
\* extension header where there is one: the transport behind it is out of sight.
ASSUME PacketAssumption ==
  \A p \in Packets :
    /\ p.dst.v \in Version /\ p.ihl \in Nat /\ p.ihl >= 5 /\ p.l4 \in Nat
    /\ p.proto \notin {6, 17} \/ p.l4 < 4 => p.port = 0

\* 2^n, as a function: shifts and masks are by powers of two.
pow2[n \in Nat] == IF n = 0 THEN 1 ELSE 2 * pow2[n - 1]

width(v) == byteBits * bytes[v]
Addresses == UNION {[v : {v}, n : 0..pow2[width(v)] - 1] : v \in Version}
Blocks == [addr : Addresses, prefixLen : Nat]

ASSUME WidthAssumption == byteBits \in Nat \ {0} /\ bytes \in [Version -> Nat \ {0}]
\* netip's addresses, and numbers of eight bits (cidr.go:28-52).
ASSUME TargetAssumption ==
  \A s \in Sessions : \A t \in targets[s] :
    t.addr \in Addresses \cup {None} /\ t.plus \in Nat /\ t.prefix \in Nat \cup {None}
\* 10.200.0.0/16 is denied to everyone and has a /30 for each of the maxUplinks indices
\* (ruleset.go:24, uplink.go:10-12).
ASSUME UplinkAssumption ==
  /\ uplinkPool \in unconditionalDeny[4] \cap Blocks /\ uplinkPool.addr.v = 4
  /\ uplinkPool.prefixLen + 2 <= width(4)
  /\ uplinkPool.addr.n % pow2[width(4) - uplinkPool.prefixLen] = 0
  /\ 4 * maxUplinks <= pow2[width(4) - uplinkPool.prefixLen]

VARIABLES
  scope,   \* the session whose ruleset is loaded, per namespace
  flows    \* connections the kernel tracks: namespace and remote end

vars == <<sandboxVars, scope, flows>>
Namespaces == Names \cup Index
Destinations == {p.dst : p \in Packets}
-----------------------------------------------------------------------------
(* cidr.go *)

\* A text is cut at '/'.  t.addr is None when there is no '/', nothing before it, a
\* zone or no address; t.plus counts the '+' after it, of which one is dropped;
\* t.prefix is None when no number of eight bits follows.
Parse(t) ==
  IF t.addr = None \/ t.plus > 1 \/ t.prefix = None \/ t.prefix > width(t.addr.v)
  THEN None
  ELSE [addr |-> t.addr, prefixLen |-> t.prefix]

cidrs(s) == {Parse(t) : t \in targets[s]}

\* As4, As16: the address as bytes, most significant first.
As(a) == [i \in 0..bytes[a.v] - 1 |-> (a.n \div pow2[byteBits * (bytes[a.v] - 1 - i)]) % pow2[byteBits]]

maskedEqual(a, b, prefixLen) ==
  LET full == prefixLen \div byteBits
      rem == prefixLen % byteBits
      shift == byteBits - rem
  IN /\ \A i \in 0..full - 1 : a[i] = b[i]
     /\ rem = 0 \/ a[full] \div pow2[shift] = b[full] \div pow2[shift]

\* Mutant of Contains: the family is not compared.
ContainsAnyFamily(c, ip) == maskedEqual(As(c.addr), As(ip), c.prefixLen)

Contains(c, ip) == c.addr.v = ip.v /\ maskedEqual(As(c.addr), As(ip), c.prefixLen)
-----------------------------------------------------------------------------
(* ruleset.go: the forward chain of one table *)

Rule(on, of, log, verdict) == [on |-> on, of |-> of, log |-> log, verdict |-> verdict]
ofFamily(v, cs) == {c \in cs : c.addr.v = v}

\* Mutant of Render: the targets come before the denied blocks.
RenderTargetsFirst(v, cs) ==
  <<Rule("daddr", ofFamily(v, cs), 0, "accept"),
    Rule("daddr", unconditionalDeny[v], 1, "drop"),
    Rule("ct", {"established", "related"}, 0, "accept"),
    Rule("any", {}, 1, "continue")>>

\* Mutant of Render: off-scope packets fall through to the policy unlogged.
RenderUnlogged(v, cs) ==
  <<Rule("daddr", unconditionalDeny[v], 1, "drop"),
    Rule("ct", {"established", "related"}, 0, "accept"),
    Rule("daddr", ofFamily(v, cs), 0, "accept")>>

\* Mutant of Render: replies pass, the errors about a connection do not.
RenderUnrelated(v, cs) ==
  <<Rule("daddr", unconditionalDeny[v], 1, "drop"),
    Rule("ct", {"established"}, 0, "accept"),
    Rule("daddr", ofFamily(v, cs), 0, "accept"),
    Rule("any", {}, 1, "continue")>>

Render(v, cs) ==
  <<Rule("daddr", unconditionalDeny[v], 1, "drop"),
    Rule("ct", {"established", "related"}, 0, "accept"),
    Rule("daddr", ofFamily(v, cs), 0, "accept"),
    Rule("any", {}, 1, "continue")>>

\* The kernel's "daddr" match (external): the leading bits agree.
daddr(c, ip) ==
  /\ c.addr.v = ip.v
  /\ c.addr.n \div pow2[width(ip.v) - c.prefixLen] = ip.n \div pow2[width(ip.v) - c.prefixLen]

\* A rule matches on the destination, or on the connection state the packet is in.
Matches(r, ip, ct) ==
  \/ r.on = "daddr" /\ \E c \in r.of : daddr(c, ip)
  \/ r.on = "ct" /\ ct \in r.of
  \/ r.on = "any"

\* The first verdict of a chain decides; the policy is drop.
Decides(chain, i, ip, ct) ==
  Matches(chain[i], ip, ct) /\ chain[i].verdict # "continue"
Accepts(chain, ip, ct) ==
  \E i \in DOMAIN chain :
    /\ Decides(chain, i, ip, ct)
    /\ chain[i].verdict = "accept"
    /\ \A j \in DOMAIN chain : j < i => ~Decides(chain, j, ip, ct)

\* The rules that log a packet before its fate is decided.
Logs(chain, ip, ct) ==
  {i \in DOMAIN chain :
     /\ Matches(chain[i], ip, ct) /\ chain[i].log = 1
     /\ \A j \in DOMAIN chain : j < i => ~Decides(chain, j, ip, ct)}

Chain(x, v) == Render(v, cidrs(scope[x]))
Forwarded(x, ip, ct) == Accepts(Chain(x, ip.v), ip, ct)

\* The states of packets between the guest and a peer (external).  Related are the ICMP
\* errors about a tracked connection, which go to one of its ends; no conntrack helper is
\* assigned that would relate another connection to it.
States(x, peer) == IF <<x, peer>> \in flows THEN {"established", "related"} ELSE {"new"}
-----------------------------------------------------------------------------
(* drop.go and the listener's hook *)

headerLen(p) == IF p.dst.v = 4 THEN p.ihl * 4 ELSE 40

\* The bytes of a packet from an offset on; elsewhere than where the header begins,
\* other bytes are read as the port.
From(p, offset) ==
  [len |-> headerLen(p) + p.l4 - offset,
   port |-> IF offset = headerLen(p) THEN p.port ELSE p.port + 1]

l4Facts(proto, l4) ==
  [proto |-> proto, port |-> IF proto \in {6, 17} /\ l4.len >= 4 THEN l4.port ELSE 0]

\* Mutant of parseDropPayload: the IPv4 header is taken to have no options.
parseFixedHeader(p) ==
  LET offset == IF p.dst.v = 4 THEN 20 ELSE 40
  IN IF headerLen(p) + p.l4 < offset THEN None
     ELSE [dst |-> p.dst, l4 |-> l4Facts(p.proto, From(p, offset))]

parseDropPayload(p) ==
  LET offset == IF p.dst.v = 4 THEN p.ihl * 4 ELSE 40
  IN IF offset < 20 \/ headerLen(p) + p.l4 < offset THEN None
     ELSE [dst |-> p.dst, l4 |-> l4Facts(p.proto, From(p, offset))]

\* The Drops a packet gives rise to, with the session of the listener that hears it.
hook(x, p) ==
  {[session |-> s, facts |-> parseDropPayload(p)] :
     s \in {s \in listeners : netnsName[s] = x /\ parseDropPayload(p) # None}}
-----------------------------------------------------------------------------
(* uplink.go *)

\* Mutant of uplinkSubnet: a /31 per index.
uplinkSubnetHalved(idx) ==
  [gateway |-> [v |-> 4, n |-> uplinkPool.addr.n + 2 * idx + 1],
   ns |-> [v |-> 4, n |-> uplinkPool.addr.n + 2 * idx + 2]]

\* The host and the namespace end of the idx-th /30, from its third and fourth octet.
uplinkSubnet(idx) ==
  LET base == idx * 4
      oct3 == base \div pow2[byteBits]
      oct4 == base % pow2[byteBits]
      at(k) == [v |-> 4, n |-> uplinkPool.addr.n + oct3 * pow2[byteBits] + oct4 + k]
  IN [gateway |-> at(1), ns |-> at(2)]
uplinkAddresses(idx) == {uplinkSubnet(idx).gateway, uplinkSubnet(idx).ns}

\* The guest's address is in no denied block: it is the operator's to choose.
ASSUME GuestAssumption == guest.v = 4 /\ \A c \in unconditionalDeny[4] : ~daddr(c, guest)
-----------------------------------------------------------------------------
(* The sandbox's steps with what they do to the packet path. *)

ContainmentTypeOK ==
  /\ SandboxTypeOK
  /\ scope \in [Namespaces -> Sessions \cup {None}]
  /\ flows \subseteq Namespaces \X Destinations

ContainmentInit ==
  /\ SandboxInit
  /\ scope = [x \in Namespaces |-> None]
  /\ flows = {}

\* createSession: 422 for a malformed target, before the sandbox is touched.
CreateSession(s) ==
  /\ None \notin cidrs(s)
  /\ CreateSandbox(s)
  /\ UNCHANGED <<scope, flows>>

LoadRuleset ==
  /\ ApplyRuleset
  /\ scope' = [scope EXCEPT ![Target] = call.session]
  /\ UNCHANGED flows

\* A namespace that goes takes its ruleset and its connections with it; a pinned one
\* keeps both under its interface.
Pinned(i) == veth[i] = Target /\ veth'[i] = "pinned"
Teardown ==
  /\ UndoCreate \/ FinishDestroy
  /\ scope' = [x \in Namespaces |->
       IF x = Target THEN None
       ELSE IF x \in Index /\ Pinned(x) THEN scope[Target] ELSE scope[x]]
  /\ flows' = {f \in flows : f[1] # Target}
       \cup {<<i, f[2]>> : i \in {i \in Index : Pinned(i)}, f \in {f \in flows : f[1] = Target}}

OtherStep ==
  /\ \/ \E s \in Sessions : DestroySandbox(s)
     \/ AddNetns \/ AddNetnsFails \/ ApplyRulesetFails \/ StartListener \/ StartListenerFails
     \/ AddLink \/ AddLinkFails \/ AddRoute \/ EnableForwarding \/ UplinkFails
     \/ StopListener \/ DelFails \/ Return \/ Restart
  /\ UNCHANGED <<scope, flows>>

\* The namespaces from which packets get out; only IPv4 has an uplink.
Routed == routable \cup {i \in Index : veth[i] = "pinned"}

\* A packet of the guest is forwarded, and its connection tracked (external).
GuestSends(x, ip) ==
  /\ x \in Routed /\ ip.v = 4
  /\ <<x, ip>> \notin flows /\ Forwarded(x, ip, "new")
  /\ flows' = flows \cup {<<x, ip>>}
  /\ UNCHANGED <<sandboxVars, scope>>

\* The kernel forgets an idle connection.
FlowExpires(f) ==
  /\ f \in flows
  /\ flows' = flows \ {f}
  /\ UNCHANGED <<sandboxVars, scope>>

ContainmentNext ==
  \/ \E s \in Sessions : CreateSession(s)
  \/ LoadRuleset \/ Teardown \/ OtherStep
  \/ \E x \in Namespaces, ip \in Destinations : GuestSends(x, ip)
  \/ \E f \in flows : FlowExpires(f)

ContainmentSpec == ContainmentInit /\ [][ContainmentNext]_vars
-----------------------------------------------------------------------------
(* Properties. *)

Denied(ip) == \E c \in unconditionalDeny[ip.v] : daddr(c, ip)
InTargets(s, ip) == \E c \in cidrs(s) : daddr(c, ip)

\* From any namespace with a way out, a guest's packet is forwarded exactly when the
\* credential of the session the namespace was made for has a target containing it
\* and no unconditionally denied block does ("a `targets` claim can never unblock
\* metadata/loopback", ruleset.go:55-56): on an open connection or not, whatever
\* fails, after a crash, and when the namespace outlives its name.
OnlyScopeLeaves ==
  \A x \in Routed :
    /\ scope[x] \in Sessions
    /\ \A ip \in Destinations : \A ct \in States(x, ip) :
         Forwarded(x, ip, ct) <=> InTargets(scope[x], ip) /\ ~Denied(ip)

\* A session that is active, or whose listener runs, has its own ruleset loaded; each
\* packet the chain refuses is logged once, and its listener, and no other, reports it
\* with the destination, protocol (or next header) and port it was sent to; what is let through is
\* never reported (ruleset.go:82-98, drop.go, the hook of nflog_linux.go).  A session
\* whose teardown failed has no listener left: what it is refused is logged unheard.
RefusedIsReported ==
  \A s \in active \cup listeners :
    LET x == netnsName[s]
        logs(p, ct) == Logs(Chain(x, p.dst.v), p.dst, ct)
        drop(p) == [session |-> s,
                    facts |-> [dst |-> p.dst, l4 |-> [proto |-> p.proto, port |-> p.port]]]
    IN /\ scope[x] = s
       /\ \A p \in Packets : \A ct \in States(x, p.dst) :
            IF Forwarded(x, p.dst, ct) THEN logs(p, ct) = {}
            ELSE /\ Cardinality(logs(p, ct)) = 1
                 /\ hook(x, p) = IF s \in listeners THEN {drop(p)} ELSE {}

\* "Return traffic for connections that were already permitted" (ruleset.go:85-87): a
\* reply from where a tracked connection leads passes, as does an ICMP error about it, and
\* neither is taken for a breach.
RepliesReturn ==
  \A f \in flows : \A ct \in States(f[1], f[2]) :
    /\ Forwarded(f[1], guest, ct)
    /\ Logs(Chain(f[1], guest.v), guest, ct) = {}

\* "a targets claim must not reach another session's uplink" (ruleset.go:24), and no
\* two sessions share one: both ends of an active session's uplink are in one /30 of the
\* pool, which holds no end of another's, and no guest gets a packet to any of them.
UplinksUnreachable ==
  \A s \in active :
    LET net == [addr |-> uplinkSubnet(bySession[s]).gateway, prefixLen |-> width(4) - 2]
    IN /\ \A t \in active : \A a \in uplinkAddresses(bySession[t]) : daddr(net, a) <=> t = s
       /\ \A a \in uplinkAddresses(bySession[s]) :
            daddr(uplinkPool, a) /\ \A x \in Routed : \A ct \in States(x, a) : ~Forwarded(x, a, ct)

\* What the kernel matches for an active session's targets is what Contains
\* (cidr.go:62-89) says they contain, in either family and for every prefix length.
ScopeIsContains ==
  \A s \in active : \A c \in cidrs(s), ip \in Addresses : Contains(c, ip) <=> daddr(c, ip)
=============================================================================
