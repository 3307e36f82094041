------------------------------- MODULE Startup -------------------------------
(***************************************************************************)
(* The start of the enforcer (main.go, config.go): the environment is read *)
(* and checked, the spool opened, and the unix socket put up step by step, *)
(* each of which may fail and end the process.  The process may die at any *)
(* point, and leaves its socket file behind; systemd starts it again       *)
(* (scripts/install-enforcer.sh).  Operators change the environment while  *)
(* it runs or not; only a start reads it.                                  *)
(***************************************************************************)
EXTENDS Integers

CONSTANTS
  Environments,   \* values of the ENFORCER_ variables; None: not set
  Umasks,         \* modes a socket may be created with
  MaxEdits,       \* bound on changes of the environment
  MaxFaults,      \* bound on failing system calls
  MaxDeaths,      \* bound on deaths of the process
  None

ASSUME BoundAssumption == {MaxEdits, MaxFaults, MaxDeaths} \subseteq Nat
ASSUME ModeAssumption == Umasks \subseteq {"0755", "0777"}
\* Digits make a number (config.go:112-119).
ASSUME PortAssumption ==
  \A e \in Environments : e.PORT # None => e.PORT.n \in Nat \cup {None}

VARIABLES
  env,      \* the environment the next start will see
  cfg,      \* the configuration of the running process; None: no process
  pc,       \* where main is
  dir,      \* mode of the socket's directory; None: no directory
  sock,     \* mode of the socket file; None: no file
  edits, faults, deaths

startupVars == <<env, cfg, pc, dir, sock, edits, faults, deaths>>

Steps == {"down", "outbox", "mkdir", "lock", "remove", "bind", "open", "serving"}

\* The spool is open, its consumer and submitter run.
Running == pc \in Steps \ {"down", "outbox"}
\* The socket is bound: whoever reaches its file may connect.
Bound == pc \in {"open", "serving"}
-----------------------------------------------------------------------------
(* config.go, signingkey.go *)

\* The key pair is that of the seed.
Load(keyID, seed) == [keyID |-> keyID, priv |-> seed]

\* Mutant of parsePort: no upper limit.
parsePortUnchecked(s) == IF s.plus > 1 \/ s.n = None THEN None ELSE s.n

\* s.plus counts the leading '+', of which one is dropped; s.n is None if no number follows.
parsePort(s) == IF s.plus > 1 \/ s.n = None THEN None ELSE IF s.n > 65535 THEN None ELSE s.n

\* The configuration, or None where MissingError or InvalidError is returned.  A signing key
\* that is not base64url of 32 bytes is "malformed".
FromLookup(e) ==
  LET port == IF e.PORT = None THEN 9090 ELSE parsePort(e.PORT)
  IN IF e.KEY_ID = None \/ e.SIGNING_KEY \in {None, "malformed"} \/ port = None \/ e.OUTBOX = "empty"
     THEN None
     ELSE [SigningKey |-> Load(e.KEY_ID, e.SIGNING_KEY), Port |-> port,
           RekorURL |-> IF e.REKOR_URL = None THEN "empty" ELSE e.REKOR_URL]
-----------------------------------------------------------------------------
StartupTypeOK ==
  /\ env \in Environments
  /\ pc \in Steps
  /\ (cfg = None) <=> (pc = "down")
  /\ cfg # None => cfg.Port \in Nat /\ cfg.Port <= 65535
  /\ dir \in {None, "0700", "0750", "0755"}
  /\ sock \in {None, "0660"} \cup Umasks
  /\ edits \in 0..MaxEdits /\ faults \in 0..MaxFaults /\ deaths \in 0..MaxDeaths

StartupInit ==
  /\ env \in Environments
  /\ cfg = None /\ pc = "down"
  /\ dir \in {None, "0750", "0755"}
  /\ sock = None
  /\ edits = 0 /\ faults = 0 /\ deaths = 0

Files == <<dir, sock>>
Bounds == <<edits, faults, deaths>>

\* A start with an environment that FromLookup refuses ends at once: no step.
Start ==
  /\ pc = "down"
  /\ FromLookup(env) # None
  /\ pc' = "outbox" /\ cfg' = FromLookup(env)
  /\ UNCHANGED <<env, Files, Bounds>>

\* One call of main or listen that succeeds.
Call(at, next, dirAfter, sockAfter) ==
  /\ pc = at /\ pc' = next
  /\ dir' = dirAfter /\ sock' = sockAfter
  /\ UNCHANGED <<env, cfg, Bounds>>

OpenOutbox == Call("outbox", "mkdir", dir, sock)
MkdirAll == Call("mkdir", "lock", IF dir = None THEN "0700" ELSE dir, sock)

\* Mutant of ChmodDir: the directory's mode is left to MkdirAll.
ChmodDirSkipped == Call("lock", "remove", dir, sock)

ChmodDir == Call("lock", "remove", "0700", sock)

\* Mutant of Remove: a stale socket is left where it is.
RemoveSkipped == Call("remove", "bind", dir, sock)

Remove == Call("remove", "bind", dir, None)
Listen == sock = None /\ \E mode \in Umasks : Call("bind", "open", dir, mode)
ChmodSocket == Call("open", "serving", dir, "0660")

Exit == pc' = "down" /\ cfg' = None

\* A path that is taken cannot be bound.
BindFails ==
  /\ pc = "bind" /\ sock # None
  /\ Exit
  /\ UNCHANGED <<env, Files, Bounds>>

\* A call fails: Remove's error is ignored, a failed ChmodSocket closes the listener,
\* which unlinks the file, and every other one is fatal.
CallFails ==
  /\ pc \in Steps \ {"down", "serving"} /\ faults < MaxFaults
  /\ faults' = faults + 1
  /\ IF pc = "remove" THEN pc' = "bind" /\ UNCHANGED cfg ELSE Exit
  /\ sock' = IF pc = "open" THEN None ELSE sock
  /\ UNCHANGED <<env, dir, edits, deaths>>

\* The process is killed, stopped, or http.Serve returns: nothing is cleaned up.
Dies ==
  /\ pc # "down" /\ deaths < MaxDeaths
  /\ deaths' = deaths + 1
  /\ Exit
  /\ UNCHANGED <<env, Files, edits, faults>>

Edit(e) ==
  /\ e # env /\ edits < MaxEdits
  /\ env' = e /\ edits' = edits + 1
  /\ UNCHANGED <<cfg, pc, Files, faults, deaths>>

\* install-enforcer.sh, run to install or to upgrade.
Install ==
  /\ dir' = "0750"
  /\ UNCHANGED <<env, cfg, pc, sock, Bounds>>

Listening == MkdirAll \/ ChmodDir \/ Remove \/ Listen \/ ChmodSocket \/ BindFails
Boot == Start \/ OpenOutbox \/ Listening

StartupNext ==
  \/ Boot \/ CallFails \/ Dies \/ Install
  \/ \E e \in Environments : Edit(e)
-----------------------------------------------------------------------------
(* Properties. *)

\* "Lock the directory to the owner so only the warden user/group can even reach the
\* socket" (main.go:80-82): at no moment between bind and the end of the process can
\* others connect, whatever mode the directory had and the socket is created with, and
\* while the installer runs.
SocketGuarded == Bound => ~(dir = "0755" /\ sock = "0777")

\* "Remove a stale socket left by a previous crash" (main.go:88): whatever a death or a
\* failed start leaves behind, the enforcer serves again once its environment is good.
ServesAgain == <>[](FromLookup(env) # None) => []<>(pc = "serving")
=============================================================================
