--------------------------- MODULE SessionLifecycle ---------------------------
(***************************************************************************)
(* Several `apg` processes on one worktree: session start, query, scan,    *)
(* and an end/save/abort client that got no answer.  They meet in four     *)
(* places - the socket path, the specs.lock flock, the database file and   *)
(* the handles on it - and every command but a scan first classifies what  *)
(* an earlier process left there (reclaim_stale_socket).  One action per   *)
(* step that another process can come between.  What a session admits and  *)
(* saves is SessionStore; here a database only carries unsaved work or not.*)
(***************************************************************************)
EXTENDS Integers, FiniteSets

CONSTANTS
    Proc,      \* processes; each runs one command
    Nobody,    \* no process
    Db,        \* identities of database files, the inode and not the path
    Absent,    \* no file at the path, no handle
    Stalls,    \* a serving coordinator may be too busy to answer a ping
    Overlap,   \* a command may begin while another is between two of its steps
    Killed     \* the stages a process may be killed in

ASSUME ProcAssumption == Nobody \notin Proc
ASSUME DbAssumption   == Absent \notin Db
                         /\ IsFiniteSet(Proc) /\ IsFiniteSet(Db)
                         /\ Cardinality(Db) > Cardinality(Proc)
ASSUME FlagAssumption == Stalls \in BOOLEAN /\ Overlap \in BOOLEAN

Command == {"start", "query", "scan", "signal"}
Stage == {"idle", "classify", "unlinkStale", "probe", "discard", "scanGuard",
          "scanLock", "build", "copy", "wait", "open", "bind", "serve",
          "release", "unlink", "close", "read", "done"}

ASSUME KilledAssumption == Killed \subseteq Stage

VARIABLES
    pc, cmd,   \* the stage and the command of each process
    socket,    \* who bound the file at session.sock, alive or not
    lock,      \* who holds the flock on specs.lock
    file,      \* the database at db.lbug
    handle,    \* the database each process holds open
    unsaved,   \* the sessions whose admitted, unsaved work a database carries
    torn,      \* the databases a killed full load left half copied
    owes       \* the aborted sessions that owe a discard and a rebuild

vars == <<pc, cmd, socket, lock, file, handle, unsaved, torn, owes>>
data == <<unsaved, torn, owes>>

TypeOK ==
    /\ pc \in [Proc -> Stage] /\ cmd \in [Proc -> Command]
    /\ socket \in Proc \cup {Nobody} /\ lock \in Proc \cup {Nobody}
    /\ file \in Db \cup {Absent} /\ handle \in [Proc -> Db \cup {Absent}]
    /\ unsaved \in [Db -> SUBSET Proc]
    /\ torn \subseteq Db /\ owes \subseteq Proc

\* A scanned worktree, no session.
Init ==
    /\ pc = [p \in Proc |-> "idle"] /\ cmd \in [Proc -> Command]
    /\ socket = Nobody /\ lock = Nobody
    /\ file \in Db /\ handle = [p \in Proc |-> Absent]
    /\ unsaved = [d \in Db |-> {}] /\ torn = {} /\ owes = {}

Serving(p) == pc[p] = "serve"
HeldByOther(p, d) == \E q \in Proc \ {p} : handle[q] = d

Goto(p, stage) == pc' = [pc EXCEPT ![p] = stage]

\* Where a command goes once the database is classified clean, or rebuilt; an
\* abort is over with its rebuild.
Continue(p) ==
    IF p \in owes THEN "done"
    ELSE IF cmd[p] = "start" THEN "wait" ELSE IF cmd[p] = "query" THEN "read" ELSE "done"

-----------------------------------------------------------------------------
(* live_session_at: connect and Ping, two seconds to answer *)

MayAnswer    == socket # Nobody /\ Serving(socket)
\* Mutant: a socket whose ping was answered taken for a dead one.
MayNotAnswerEver == socket # Nobody
MayNotAnswer == socket # Nobody /\ (Stalls \/ ~Serving(socket))

-----------------------------------------------------------------------------
(* reclaim_stale_socket *)

\* Without Overlap a command begins, or a session stops, only between commands.
Between(p) == pc[p] \notin {"idle", "serve", "done"}
Alone(p)   == Overlap \/ \A q \in Proc \ {p} : ~Between(q)

Begin(p) ==
    /\ pc[p] = "idle"
    /\ Alone(p)
    /\ Goto(p, IF cmd[p] = "scan" THEN "scanGuard" ELSE "classify")
    /\ UNCHANGED <<cmd, socket, lock, file, handle, data>>

\* A session that answers refuses a start, and serves a query or a signal.
Answered(p) ==
    /\ pc[p] = "classify" /\ MayAnswer
    /\ Goto(p, "done")
    /\ UNCHANGED <<cmd, socket, lock, file, handle, data>>

Unanswered(p) ==
    /\ pc[p] = "classify" /\ MayNotAnswer
    /\ Goto(p, "unlinkStale")
    /\ UNCHANGED <<cmd, socket, lock, file, handle, data>>

\* An end, save or abort without a socket has nothing to do.
NoSocket(p) ==
    /\ pc[p] = "classify" /\ socket = Nobody
    /\ Goto(p, IF cmd[p] = "signal" THEN "done" ELSE "probe")
    /\ UNCHANGED <<cmd, socket, lock, file, handle, data>>

\* Mutant: a dead socket reclaimed, the database behind it not.
UnlinkStaleOnly(p) ==
    /\ pc[p] = "unlinkStale"
    /\ Goto(p, Continue(p))
    /\ socket' = Nobody
    /\ UNCHANGED <<cmd, lock, file, handle, data>>

\* The unlink of a socket another process already reclaimed is an error.
UnlinkStale(p) ==
    /\ pc[p] = "unlinkStale"
    /\ Goto(p, IF socket = Nobody THEN "done" ELSE "discard")
    /\ socket' = Nobody
    /\ UNCHANGED <<cmd, lock, file, handle, data>>

\* Mutant: the pending-state probe takes a database for clean when nobody holds it.
UncleanIfHeld(p) == file # Absent /\ HeldByOther(p, file)

\* db_has_pending_state, then validate_compatible.  A database that cannot be
\* opened is unclean.
Unclean(p) == file # Absent /\ (HeldByOther(p, file) \/ unsaved[file] # {})

ProbeClean(p) ==
    /\ pc[p] = "probe" /\ ~Unclean(p)
    /\ Goto(p, Continue(p))
    /\ UNCHANGED <<cmd, socket, lock, file, handle, data>>

\* A half-copied database has the whole schema and no mark; whether the engine
\* opens it read-only depends on where the kill struck, so either verdict.
ProbeUnclean(p) ==
    /\ pc[p] = "probe" /\ (Unclean(p) \/ file \in torn)
    /\ Goto(p, "discard")
    /\ UNCHANGED <<cmd, socket, lock, file, handle, data>>

\* force_full_scan: discard_derived_index runs before the scan takes the flock.
Discard(p) ==
    /\ pc[p] = "discard"
    /\ file' = Absent
    /\ Goto(p, "scanGuard")
    /\ UNCHANGED <<cmd, socket, lock, handle, data>>

-----------------------------------------------------------------------------
(* cmd_scan and run_pipeline *)

ScanRefused(p) ==
    /\ pc[p] = "scanGuard" /\ MayAnswer
    /\ Goto(p, "done")
    /\ UNCHANGED <<cmd, socket, lock, file, handle, data>>

\* Mutant: a scan that does not ask whether a session is live.
ScanAdmittedAlways(p) ==
    /\ pc[p] = "scanGuard"
    /\ Goto(p, "discard")
    /\ UNCHANGED <<cmd, socket, lock, file, handle, data>>

ScanAdmitted(p) ==
    /\ pc[p] = "scanGuard" /\ (socket = Nobody \/ MayNotAnswer)
    /\ Goto(p, "scanLock")
    /\ UNCHANGED <<cmd, socket, lock, file, handle, data>>

ScanLock(p) ==
    /\ pc[p] = "scanLock" /\ lock = Nobody
    /\ lock' = p
    /\ Goto(p, "build")
    /\ UNCHANGED <<cmd, socket, file, handle, data>>

\* is_fresh: no dead socket, no pending state, no authored row missing.  The
\* sources may have changed all the same, and then a clean database seeds the
\* next one instead.
Reusable(p) == /\ socket = Nobody /\ file # Absent
               /\ ~Unclean(p) /\ file \notin torn

Unused(d) == d # file /\ \A q \in Proc : handle[q] # d
NewDb == CHOOSE d \in Db : Unused(d)

BuildReuses(p) ==
    /\ pc[p] = "build" /\ Reusable(p)
    /\ lock' = Nobody
    /\ Goto(p, Continue(p))
    /\ UNCHANGED <<cmd, socket, file, handle, data>>

\* The full load: the discard, the schema, and the rows, table after table.  The
\* panic of run_pipeline over a session that answers by now has no action: the
\* lock this process holds is that session's (OneOwner).
BuildLoads(p) ==
    /\ pc[p] = "build"
    /\ socket = Nobody \/ MayNotAnswer
    /\ file' = NewDb /\ handle' = [handle EXCEPT ![p] = NewDb]
    /\ unsaved' = [unsaved EXCEPT ![NewDb] = {}]
    /\ torn' = torn \cup {NewDb}
    /\ socket' = Nobody
    /\ Goto(p, "copy")
    /\ UNCHANGED <<cmd, lock, owes>>

\* The splice: a seeded copy, published by one rename.
BuildPublishes(p) ==
    /\ pc[p] = "build" /\ Reusable(p)
    /\ file' = NewDb
    /\ unsaved' = [unsaved EXCEPT ![NewDb] = {}]
    /\ torn' = torn \ {NewDb}
    /\ lock' = Nobody
    /\ Goto(p, Continue(p))
    /\ UNCHANGED <<cmd, socket, handle, owes>>

Copied(p) ==
    /\ pc[p] = "copy"
    /\ torn' = torn \ {handle[p]}
    /\ handle' = [handle EXCEPT ![p] = Absent]
    /\ lock' = Nobody
    /\ Goto(p, Continue(p))
    /\ UNCHANGED <<cmd, socket, file, unsaved, owes>>

-----------------------------------------------------------------------------
(* Coordinator::start, once the worktree is classified *)

\* Mutant: a start that does not wait for the flock.
TakeLockAnyway(p) ==
    /\ pc[p] = "wait"
    /\ lock' = p
    /\ Goto(p, "open")
    /\ UNCHANGED <<cmd, socket, file, handle, data>>

TakeLock(p) ==
    /\ pc[p] = "wait" /\ lock = Nobody
    /\ lock' = p
    /\ Goto(p, "open")
    /\ UNCHANGED <<cmd, socket, file, handle, data>>

\* open_owned_db: an absent database and one another process holds are refused.
Open(p) ==
    /\ pc[p] = "open" /\ file # Absent /\ ~HeldByOther(p, file)
    /\ handle' = [handle EXCEPT ![p] = file]
    /\ Goto(p, "bind")
    /\ UNCHANGED <<cmd, socket, lock, file, data>>

OpenRefused(p) ==
    /\ pc[p] = "open" /\ (file = Absent \/ HeldByOther(p, file))
    /\ lock' = Nobody
    /\ Goto(p, "done")
    /\ UNCHANGED <<cmd, socket, file, handle, data>>

\* UnixListener::bind fails over an existing socket file.
Bind(p) ==
    /\ pc[p] = "bind" /\ socket = Nobody
    /\ socket' = p
    /\ Goto(p, "serve")
    /\ UNCHANGED <<cmd, lock, file, handle, data>>

BindRefused(p) ==
    /\ pc[p] = "bind" /\ socket # Nobody
    /\ lock' = Nobody
    /\ handle' = [handle EXCEPT ![p] = Absent]
    /\ Goto(p, "done")
    /\ UNCHANGED <<cmd, socket, file, data>>

-----------------------------------------------------------------------------
(* The serve loop, and what follows it *)

\* A request reaches a coordinator only through the socket it bound.
Reachable(p) == Serving(p) /\ socket = p

Mutate(p) ==
    /\ Reachable(p)
    /\ unsaved' = [unsaved EXCEPT ![handle[p]] = @ \cup {p}]
    /\ UNCHANGED <<pc, cmd, socket, lock, file, handle, torn, owes>>

Save(p) ==
    /\ Reachable(p)
    /\ unsaved' = [unsaved EXCEPT ![handle[p]] = {}]
    /\ UNCHANGED <<pc, cmd, socket, lock, file, handle, torn, owes>>

End(p) ==
    /\ Reachable(p) /\ Alone(p) /\ unsaved[handle[p]] = {}
    /\ Goto(p, "release")
    /\ UNCHANGED <<cmd, socket, lock, file, handle, data>>

\* Mutant: the abort rebuilds before it lets go of the lock and the socket.
AbortHolding(p) ==
    /\ Reachable(p) /\ Alone(p)
    /\ owes' = owes \cup {p}
    /\ handle' = [handle EXCEPT ![p] = Absent]
    /\ Goto(p, "scanLock")
    /\ UNCHANGED <<cmd, socket, lock, file, unsaved, torn>>

\* The abort drops the database first, before the lock and the socket.
Abort(p) ==
    /\ Reachable(p) /\ Alone(p)
    /\ owes' = IF unsaved[handle[p]] # {} THEN owes \cup {p} ELSE owes
    /\ handle' = [handle EXCEPT ![p] = Absent]
    /\ Goto(p, "release")
    /\ UNCHANGED <<cmd, socket, lock, file, unsaved, torn>>

Release(p) ==
    /\ pc[p] = "release"
    /\ lock' = Nobody
    /\ Goto(p, "unlink")
    /\ UNCHANGED <<cmd, socket, file, handle, data>>

\* The path is unlinked, whoever bound it by now.
Unlink(p) ==
    /\ pc[p] = "unlink"
    /\ socket' = Nobody
    /\ Goto(p, IF p \in owes THEN "discard" ELSE "close")
    /\ UNCHANGED <<cmd, lock, file, handle, data>>

Close(p) ==
    /\ pc[p] = "close"
    /\ handle' = [handle EXCEPT ![p] = Absent]
    /\ Goto(p, "done")
    /\ UNCHANGED <<cmd, socket, lock, file, data>>
-----------------------------------------------------------------------------

\* apg query without a session: a read-only open; an absent database, or one
\* another process holds, is refused.
Read(p) ==
    /\ pc[p] = "read"
    /\ Goto(p, "done")
    /\ UNCHANGED <<cmd, socket, lock, file, handle, data>>

\* The kernel drops the flock and the handle; files stay where they are.
Kill(p) ==
    /\ pc[p] \in Killed \ {"idle", "done"}
    /\ Goto(p, "done")
    /\ lock' = IF lock = p THEN Nobody ELSE lock
    /\ handle' = [handle EXCEPT ![p] = Absent]
    /\ UNCHANGED <<cmd, socket, file, data>>

\* The steps a process takes of its own accord once its command has begun.
Step(p) ==
    \/ Answered(p) \/ Unanswered(p) \/ NoSocket(p) \/ UnlinkStale(p)
    \/ ProbeClean(p) \/ ProbeUnclean(p) \/ Discard(p)
    \/ ScanRefused(p) \/ ScanAdmitted(p) \/ ScanLock(p)
    \/ BuildReuses(p) \/ BuildLoads(p) \/ BuildPublishes(p)
    \/ Copied(p)
    \/ TakeLock(p) \/ Open(p) \/ OpenRefused(p) \/ Bind(p) \/ BindRefused(p)
    \/ Release(p) \/ Unlink(p) \/ Close(p) \/ Read(p)

\* What a user, a client or the kernel may do, and may never do.
Request(p) == Begin(p) \/ Mutate(p) \/ Save(p) \/ End(p) \/ Abort(p) \/ Kill(p)

Next == \E p \in Proc : Step(p) \/ Request(p)

Spec == Init /\ [][Next]_vars

\* Every process that can run does; no user is obliged to type anything.
LiveSpec == Spec /\ \A p \in Proc : WF_vars(Step(p))

-----------------------------------------------------------------------------
(* Properties *)

\* One process at a time rebuilds the database, opens it to serve it, or serves
\* it, whoever stalls, dies or unlinks whose socket: the flock is what decides.
Owning(p) == pc[p] \in {"build", "copy", "open", "bind", "serve", "release"}
OneOwner == \A p, q \in Proc : Owning(p) /\ Owning(q) => p = q

\* A serving session is reached at its socket: no probe, scan or failed client
\* orphans a healthy session (Coordinator::serve).
NoOrphan == \A p \in Proc : Serving(p) => socket = p

\* The database a session serves is the one at db.lbug: no scan or recovery
\* deletes an index a live session holds open (forced-discard-follows-guards).
ServedIsNamed == \A p \in Proc : Serving(p) => file = handle[p]

\* A session serves, and so saves, nobody's unsaved work but its own: what was
\* aborted or killed is gone (Coordinator::abort).
ServesOwnWork == \A p \in Proc : Serving(p) => unsaved[handle[p]] \subseteq {p}

\* A query with no session returns the last saved state, the whole of it
\* (cli-session-read-your-writes).
ReadsLastSaved ==
    \A p \in Proc : pc[p] = "read" /\ file # Absent /\ ~HeldByOther(p, file)
                     => unsaved[file] = {} /\ file \notin torn

\* A command that has begun waits for nothing but a serving session: no recovery,
\* rebuild or refused start leaves a lock behind, or waits for its own.
Settles == \A p \in Proc :
    Between(p) ~> ~Between(p) \/ \E q \in Proc : Serving(q)
=============================================================================
