--------------------------- MODULE SandboxProofs ----------------------------
(***************************************************************************)
(* Proofs about Sandbox for any sessions and names, any pool, any set of   *)
(* faults and any number of crashes.                                       *)
(***************************************************************************)
EXTENDS Sandbox, FiniteSetTheorems, TLAPS

(* Natural numbers. *)

\* A set of natural numbers has a least element.
LEMMA NatLeast ==
  ASSUME NEW T \in SUBSET Nat, T # {}
  PROVE  \E x \in T : \A y \in T : x <= y
<1>1. PICK R : R = OpToRel(<, Nat)
  OBVIOUS
<1>2. IsWellFoundedOn(R, Nat)
  BY <1>1, NatLessThanWellFounded, Zenon
<1>3. \A x, y \in Nat : <<y, x>> \in R <=> y < x
  BY <1>1 DEF OpToRel
<1>4. PICK x \in T : \A y \in T : ~ (<<y, x>> \in R)
  BY <1>2, WFMin, Zenon
<1>5. \A y \in T : x <= y
  <2> TAKE y \in T
  <2>1. ~(y < x)
    BY <1>3, <1>4
  <2> QED
    BY <2>1
<1> QED
  BY <1>5

\* Induction, for a property given as the set of the numbers that have it.
LEMMA Induct ==
  ASSUME NEW S, 0 \in S, \A n \in Nat : n \in S => n + 1 \in S
  PROVE  Nat \subseteq S
<1> SUFFICES ASSUME Nat \ S # {} PROVE FALSE
  OBVIOUS
<1>1. PICK x \in Nat \ S : \A y \in Nat \ S : x <= y
  BY NatLeast, Zenon
<1>2. x # 0 /\ x - 1 \in Nat
  BY <1>1
<1>3. x - 1 \in S
  BY <1>1, <1>2
<1> QED
  BY <1>1, <1>2, <1>3
-----------------------------------------------------------------------------
(* The sandbox. *)

\* What the call under way may rely on: Create works in a namespace it made itself,
\* no active session's, and Destroy on an active session.
CallInv ==
  /\ Doing("create", "netns") => call.session \notin active
  /\ call.kind = "create" /\ call.step \in {"rules", "listener", "link", "route", "forward", "stop", "del"} =>
       Target \in netns /\ \A s \in active : netnsName[s] # Target
  /\ call.kind = "create" /\ call.step \in {"listener", "link", "route", "forward"} => Target \in rules
  /\ call.kind = "create" /\ call.step \in {"route", "forward"} =>
       bySession[call.session] \in Index /\ veth[bySession[call.session]] = Target
  /\ Doing("create", "forward") => Target \in routable
  /\ call.kind = "destroy" /\ call.step \in {"stop", "del"} => call.session \in active

\* The allocator's two maps agree, and an index has one holder: an active session, or
\* the one whose uplink is being set up.
Linking(s) == call.kind = "create" /\ call.step \in {"route", "forward"} /\ call.session = s
HolderInv ==
  /\ \A s \in Sessions : bySession[s] # None <=> s \in active \/ Linking(s)
  /\ \A s, t \in Sessions : bySession[s] # None /\ bySession[s] = bySession[t] => s = t
  /\ \A i \in Index : i \in used <=> \E s \in Sessions : bySession[s] = i

SandboxInv ==
  SandboxTypeOK /\ RoutableIsEnforced /\ CallInv /\ HolderInv /\ ActiveIsContained

LEMMA SandboxInitInv == SandboxInit => SandboxInv
BY NoneAssumption, RestartsAssumption, PoolAssumption, NameAssumption
   DEF SandboxInit, SandboxInv, SandboxTypeOK, RoutableIsEnforced, CallInv, HolderInv,
       ActiveIsContained, Idle, Doing, Linking, Index

LEMMA SandboxNextInv == SandboxInv /\ [SandboxNext]_sandboxVars => SandboxInv'
<1> SUFFICES ASSUME SandboxInv, [SandboxNext]_sandboxVars PROVE SandboxInv'
  OBVIOUS
<1> USE NoneAssumption, RestartsAssumption, PoolAssumption, NameAssumption
        DEF sandboxVars, controller, kernel, SandboxInv, SandboxTypeOK, RoutableIsEnforced,
            CallInv, HolderInv, ActiveIsContained, Idle, Doing, Linking, Target, Goto, Index
<1>1. ASSUME NEW s \in Sessions, CreateSandbox(s) PROVE SandboxInv'
  BY <1>1 DEF CreateSandbox, At
<1>2. ASSUME NEW s \in Sessions, DestroySandbox(s) PROVE SandboxInv'
  BY <1>2 DEF DestroySandbox, At
<1>3. CASE AddNetns
  BY <1>3 DEF AddNetns
<1>4. CASE AddNetnsFails
  BY <1>4 DEF AddNetnsFails
<1>5. CASE ApplyRuleset
  BY <1>5 DEF ApplyRuleset
<1>6. CASE ApplyRulesetFails
  BY <1>6 DEF ApplyRulesetFails
<1>7. CASE StartListener
  BY <1>7 DEF StartListener
<1>8. CASE StartListenerFails
  BY <1>8 DEF StartListenerFails
<1>9. CASE AddLink
  <2>1. PICK i \in Index :
          /\ i \notin used /\ veth[i] = None
          /\ used' = used \cup {i}
          /\ bySession' = [bySession EXCEPT ![call.session] = i]
          /\ veth' = [veth EXCEPT ![i] = Target]
    BY <1>9 DEF AddLink, Lowest
  <2>2. /\ call.kind = "create" /\ call.step = "link" /\ call.session \in Sessions
        /\ call' = [call EXCEPT !.step = "route"]
        /\ UNCHANGED <<active, listeners, netns, rules, routable, restarts>>
    BY <1>9 DEF AddLink
  <2>3. call.session \notin active /\ \A s \in Sessions : bySession[s] # i
    BY <2>1, <2>2
  <2>4. SandboxTypeOK' /\ RoutableIsEnforced' /\ CallInv'
    BY <2>1, <2>2
  <2>5. HolderInv'
    BY <2>1, <2>2, <2>3
  <2>6. ActiveIsContained'
    BY <2>1, <2>2, <2>3
  <2>7. QED
    BY <2>4, <2>5, <2>6
<1>10. CASE AddLinkFails
  BY <1>10 DEF AddLinkFails
<1>11. CASE AddRoute
  BY <1>11 DEF AddRoute
<1>12. CASE EnableForwarding
  BY <1>12 DEF EnableForwarding
<1>13. CASE UplinkFails
  BY <1>13 DEF UplinkFails, freeUplink
<1>14. CASE StopListener
  BY <1>14 DEF StopListener
<1>15. CASE UndoCreate
  BY <1>15 DEF UndoCreate, DeleteName
<1>16. CASE FinishDestroy
  BY <1>16 DEF FinishDestroy, DeleteName, freeUplink
<1>17. CASE DelFails
  BY <1>17 DEF DelFails
<1>18. CASE Return
  BY <1>18 DEF Return
<1>19. CASE Restart
  BY <1>19 DEF Restart
<1>20. CASE UNCHANGED sandboxVars
  BY <1>20
<1>21. QED
  BY <1>1, <1>2, <1>3, <1>4, <1>5, <1>6, <1>7, <1>8, <1>9, <1>10, <1>11, <1>12, <1>13, <1>14, <1>15, <1>16, <1>17, <1>18, <1>19, <1>20
     DEF SandboxNext, ProvisionStep

LEMMA SandboxInvariant == SandboxSpec => []SandboxInv
BY SandboxInitInv, SandboxNextInv, PTL DEF SandboxSpec

\* A namespace is never routable before its rules are loaded, or after they are gone
\* (the order of Create and of its clean-ups).
THEOREM RoutableNamespacesAreEnforced == SandboxSpec => []RoutableIsEnforced
<1>1. SandboxInv => RoutableIsEnforced
  BY DEF SandboxInv
<1>2. QED
  BY <1>1, SandboxInvariant, PTL

\* No call of another session, failed or retried, takes an active session's namespace,
\* rules, uplink index or interface away.
THEOREM ActiveSessionsAreContained == SandboxSpec => []ActiveIsContained
<1>1. SandboxInv => ActiveIsContained
  BY DEF SandboxInv
<1>2. QED
  BY <1>1, SandboxInvariant, PTL

\* Between calls, alloc and free have leaked no index and handed none out twice.
THEOREM UplinkIndicesAreAccounted == SandboxSpec => []UplinksAccounted
<1>1. SandboxInv => UplinksAccounted
  <2> SUFFICES ASSUME SandboxInv, call = Idle PROVE used = {bySession[s] : s \in active}
    BY DEF UplinksAccounted
  <2>1. \A i \in used : \E s \in active : bySession[s] = i
    BY NoneAssumption DEF SandboxInv, SandboxTypeOK, HolderInv, Linking, Idle, Index
  <2>2. \A s \in active : bySession[s] \in used
    BY NoneAssumption DEF SandboxInv, SandboxTypeOK, HolderInv, Linking, Idle, Index
  <2>3. QED
    BY <2>1, <2>2
<1>2. QED
  BY <1>1, SandboxInvariant, PTL

\* "uplink pool exhausted (16384 active sessions)" (uplink.go:46) is true when it is said: alloc
\* finds no index only when every one of the pool belongs to an active session.
ExhaustedIsFull ==
  Doing("create", "link") /\ (\A i \in Index : ~Lowest(i)) => Cardinality(active) = maxUplinks

\* alloc fails for want of an index only when maxUplinks sessions are active, whatever
\* failed or was destroyed before: no index is lost.
THEOREM ExhaustedPoolIsFull == SandboxSpec => []ExhaustedIsFull
<1>1. SandboxInv => ExhaustedIsFull
  <2> SUFFICES ASSUME SandboxInv, Doing("create", "link"), \A i \in Index : ~Lowest(i)
               PROVE  Cardinality(active) = maxUplinks
    BY DEF ExhaustedIsFull
  <2>1. Index \ used = {}
    <3> SUFFICES ASSUME Index \ used # {} PROVE FALSE
      OBVIOUS
    <3>1. Index \ used \in SUBSET Nat
      BY PoolAssumption DEF Index
    <3>2. PICK i \in Index \ used : \A j \in Index \ used : i <= j
      BY <3>1, NatLeast, Zenon
    <3>3. QED
      BY <3>2 DEF Lowest
  <2>2. \A i \in Index : \E s \in active : bySession[s] = i
    BY <2>1, NoneAssumption DEF SandboxInv, SandboxTypeOK, HolderInv, Linking, Doing, Index
  <2>3. \A s \in active : bySession[s] \in Index
    BY DEF SandboxInv, ActiveIsContained
  <2>4. \A s, t \in active : bySession[s] = bySession[t] => s = t
    BY DEF SandboxInv, ActiveIsContained
  <2> DEFINE holder == [i \in Index |-> CHOOSE s \in active : bySession[s] = i]
  <2>5. \A i \in Index : holder[i] \in active /\ bySession[holder[i]] = i
    BY <2>2
  <2>6. holder \in [Index -> active]
    BY <2>5
  <2> HIDE DEF holder
  <2>7. holder \in Injection(Index, active)
    BY <2>5, <2>6 DEF Injection, IsInjective
  <2>8. holder \in Surjection(Index, active)
    BY <2>3, <2>4, <2>5, <2>6 DEF Surjection
  <2>9. ExistsBijection(Index, active)
    BY <2>7, <2>8 DEF ExistsBijection, Bijection
  <2>10. IsFiniteSet(Index) /\ Cardinality(Index) = maxUplinks
    <3>1. maxUplinks - 1 \in Int /\ 0 \in Int
      BY PoolAssumption
    <3>2. IsFiniteSet(0..maxUplinks - 1) /\
          Cardinality(0..maxUplinks - 1) = IF 0 > maxUplinks - 1 THEN 0 ELSE (maxUplinks - 1) - 0 + 1
      BY <3>1, FS_Interval, Zenon
    <3>3. QED
      BY <3>2, PoolAssumption DEF Index
  <2>11. QED
    BY <2>9, <2>10, FS_Bijection, Zenon
<1>2. QED
  BY <1>1, SandboxInvariant, PTL
-----------------------------------------------------------------------------
(* What holds as long as "ip netns del" succeeds. *)

HeardInv ==
  /\ \A s \in Sessions :
       bySession[s] # None => s \in listeners \/ (Doing("destroy", "del") /\ call.session = s)
  /\ Doing("create", "link") => call.session \in listeners

LEMMA HeardNext ==
  ASSUME "delFails" \notin SandboxFaults
  PROVE  SandboxInv /\ HeardInv /\ [SandboxNext]_sandboxVars => HeardInv'
<1> SUFFICES ASSUME SandboxInv, HeardInv, [SandboxNext]_sandboxVars PROVE HeardInv'
  OBVIOUS
<1> USE NoneAssumption
        DEF sandboxVars, controller, kernel, SandboxInv, SandboxTypeOK, CallInv, HolderInv, Linking, HeardInv,
            Idle, Doing, Target, Goto
<1>1. ASSUME NEW s \in Sessions, CreateSandbox(s) \/ DestroySandbox(s) PROVE HeardInv'
  BY <1>1 DEF CreateSandbox, DestroySandbox, At
<1>2. CASE AddNetns
  BY <1>2 DEF AddNetns
<1>3. CASE AddNetnsFails
  BY <1>3 DEF AddNetnsFails, MayFail
<1>4. CASE ApplyRuleset
  BY <1>4 DEF ApplyRuleset
<1>5. CASE ApplyRulesetFails
  BY <1>5 DEF ApplyRulesetFails, MayFail
<1>6. CASE StartListener
  BY <1>6 DEF StartListener
<1>7. CASE StartListenerFails
  BY <1>7 DEF StartListenerFails
<1>8. CASE AddLink
  BY <1>8 DEF AddLink, Lowest
<1>9. CASE AddLinkFails
  BY <1>9 DEF AddLinkFails
<1>10. CASE AddRoute
  BY <1>10 DEF AddRoute
<1>11. CASE EnableForwarding
  BY <1>11 DEF EnableForwarding
<1>12. CASE UplinkFails
  BY <1>12 DEF UplinkFails, freeUplink
<1>13. CASE StopListener
  BY <1>13 DEF StopListener
<1>14. CASE UndoCreate
  BY <1>14 DEF UndoCreate, DeleteName
<1>15. CASE FinishDestroy
  BY <1>15 DEF FinishDestroy, DeleteName, freeUplink
<1>16. CASE DelFails
  BY <1>16 DEF DelFails
<1>17. CASE Return
  BY <1>17 DEF Return
<1>18. CASE Restart
  BY <1>18 DEF Restart
<1>19. CASE UNCHANGED sandboxVars
  BY <1>19
<1>20. QED
  BY <1>1, <1>2, <1>3, <1>4, <1>5, <1>6, <1>7, <1>8, <1>9, <1>10, <1>11, <1>12, <1>13, <1>14, <1>15, <1>16, <1>17, <1>18, <1>19
     DEF SandboxNext, ProvisionStep

\* A session that holds an uplink, active or still being created, has a listener until its
\* Destroy stops it, through crashes and pinned namespaces, as long as "ip netns del"
\* succeeds.
THEOREM LinkedSessionsAreHeard ==
  ASSUME "delFails" \notin SandboxFaults
  PROVE  SandboxSpec => []HeardUntilDestroyed
<1>1. SandboxInit => HeardInv
  BY DEF SandboxInit, HeardInv, Idle, Doing
<1>2. SandboxInv /\ HeardInv /\ [SandboxNext]_sandboxVars => HeardInv'
  BY HeardNext
<1>3. HeardInv => HeardUntilDestroyed
  BY NoneAssumption DEF HeardInv, HeardUntilDestroyed, Index
<1>4. QED
  BY <1>1, <1>2, <1>3, SandboxInvariant, PTL DEF SandboxSpec

\* Every namespace, listener and interface is an active session's or belongs to the
\* call under way.
Creating == call.kind = "create" /\ call.step \in {"rules", "listener", "link", "route", "forward", "stop", "del"}
CleanInv ==
  /\ \A n \in Names : n \in netns <=> (\E s \in active : n = netnsName[s]) \/ (Creating /\ n = Target)
  /\ \A s \in Sessions :
       s \in listeners <=>
         \/ s \in active /\ ~(Doing("destroy", "del") /\ call.session = s)
         \/ call.kind = "create" /\ call.step \in {"link", "route", "forward", "stop"} /\ call.session = s
  /\ \A i \in Index :
       veth[i] # None =>
         \/ \E s \in active : bySession[s] = i
         \/ Linking(call.session) /\ bySession[call.session] = i
         \/ call.kind = "create" /\ call.step \in {"stop", "del"} /\ veth[i] = Target

LEMMA CleanNext ==
  ASSUME SandboxFaults \subseteq {"cmdFails"}, MaxRestarts = 0
  PROVE  SandboxInv /\ CleanInv /\ [SandboxNext]_sandboxVars => CleanInv'
<1> SUFFICES ASSUME SandboxInv, CleanInv, [SandboxNext]_sandboxVars PROVE CleanInv'
  OBVIOUS
<1> USE NoneAssumption, NameAssumption, PoolAssumption
        DEF sandboxVars, controller, kernel, SandboxInv, SandboxTypeOK, CallInv, HolderInv, Linking,
            ActiveIsContained, CleanInv, Creating, Idle, Doing, Target, Goto, Index
<1>1. ASSUME NEW s \in Sessions, CreateSandbox(s) \/ DestroySandbox(s) PROVE CleanInv'
  BY <1>1 DEF CreateSandbox, DestroySandbox, At
<1>2. CASE AddNetns
  BY <1>2 DEF AddNetns
<1>3. CASE AddNetnsFails
  BY <1>3 DEF AddNetnsFails, MayFail
<1>4. CASE ApplyRuleset
  BY <1>4 DEF ApplyRuleset
<1>5. CASE ApplyRulesetFails
  BY <1>5 DEF ApplyRulesetFails, MayFail
<1>6. CASE StartListener
  BY <1>6 DEF StartListener
<1>7. CASE StartListenerFails
  BY <1>7 DEF StartListenerFails
<1>8. CASE AddLink
  BY <1>8 DEF AddLink, Lowest
<1>9. CASE AddLinkFails
  BY <1>9 DEF AddLinkFails
<1>10. CASE AddRoute
  BY <1>10 DEF AddRoute
<1>11. CASE EnableForwarding
  BY <1>11 DEF EnableForwarding
<1>12. CASE UplinkFails
  BY <1>12 DEF UplinkFails, freeUplink
<1>13. CASE StopListener
  BY <1>13 DEF StopListener
<1>14. CASE UndoCreate
  BY <1>14 DEF UndoCreate, DeleteName
<1>15. CASE FinishDestroy
  BY <1>15 DEF FinishDestroy, DeleteName, freeUplink
<1>16. CASE DelFails
  BY <1>16 DEF DelFails
<1>17. CASE Return
  BY <1>17 DEF Return
<1>18. CASE Restart
  BY <1>18 DEF Restart
<1>19. CASE UNCHANGED sandboxVars
  BY <1>19
<1>20. QED
  BY <1>1, <1>2, <1>3, <1>4, <1>5, <1>6, <1>7, <1>8, <1>9, <1>10, <1>11, <1>12, <1>13, <1>14, <1>15, <1>16, <1>17, <1>18, <1>19
     DEF SandboxNext, ProvisionStep

\* Between calls nothing is left of a failed Create or a finished Destroy, as long as
\* "ip netns del" succeeds at once and the process does not die.
THEOREM NothingIsLeftBehind ==
  ASSUME SandboxFaults \subseteq {"cmdFails"}, MaxRestarts = 0
  PROVE  SandboxSpec => []NothingLeftBehind
<1>1. SandboxInit => CleanInv
  BY NoneAssumption DEF SandboxInit, CleanInv, Creating, Linking, Idle, Doing
<1>2. SandboxInv /\ CleanInv /\ [SandboxNext]_sandboxVars => CleanInv'
  BY CleanNext
<1>3. SandboxInv /\ CleanInv => NothingLeftBehind
  <2> SUFFICES ASSUME SandboxInv, CleanInv, call = Idle
               PROVE  /\ netns = {netnsName[s] : s \in active}
                      /\ listeners = active
                      /\ \A i \in Index : veth[i] # None => i \in used
    BY DEF NothingLeftBehind
  <2>1. \A n \in netns : \E s \in active : n = netnsName[s]
    BY DEF SandboxInv, SandboxTypeOK, CleanInv, Creating, Idle
  <2>2. \A s \in active : netnsName[s] \in netns
    BY NameAssumption DEF SandboxInv, SandboxTypeOK, CleanInv
  <2>3. netns = {netnsName[s] : s \in active}
    BY <2>1, <2>2
  <2>4. listeners = active
    BY DEF SandboxInv, SandboxTypeOK, CleanInv, Doing, Idle
  <2>5. \A i \in Index : veth[i] # None => i \in used
    BY DEF SandboxInv, SandboxTypeOK, HolderInv, CleanInv, Linking, Idle
  <2>6. QED
    BY <2>3, <2>4, <2>5
<1>4. QED
  BY <1>1, <1>2, <1>3, SandboxInvariant, PTL DEF SandboxSpec
=============================================================================
