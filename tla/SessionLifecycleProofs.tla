------------------------ MODULE SessionLifecycleProofs ------------------------
(***************************************************************************)
(* For any number of processes, whoever stalls, overlaps or is killed: at  *)
(* most one process at a time rebuilds, opens or serves the database.  For *)
(* commands that take turns and sessions that answer, whoever is killed: a *)
(* session keeps its socket and its database, and nobody sees work that    *)
(* was never saved.                                                        *)
(***************************************************************************)
EXTENDS SessionLifecycle, FiniteSetTheorems, TLAPS

(* The strengthening.  The owner is the holder of the flock; and, for a     *)
(* load to find an unused database identity, a process that is about to     *)
(* create one holds none open.                                              *)
OwnerHoldsLock == \A p \in Proc : Owning(p) => lock = p

\* A handle lives from the copy's open to its close, or from the session's open
\* to the drop after the serve loop - which an abort brings forward.
Opened(p) == \/ pc[p] = "copy"
             \/ pc[p] \in {"bind", "serve", "release", "unlink", "close"} /\ p \notin owes
HandleIsOpened == \A p \in Proc : handle[p] # Absent => Opened(p)

\* An aborted session that owes a rebuild never serves again.
AbortedIsDone == \A p \in owes : pc[p] \notin {"wait", "open", "bind", "serve"}

IInv == TypeOK /\ OwnerHoldsLock /\ HandleIsOpened /\ AbortedIsDone

-----------------------------------------------------------------------------
(* There is always an inode no path names and nobody holds.  *)

\* The handles of the other processes and the file at the path are fewer than
\* the identities.
LEMMA UnusedExists ==
    ASSUME TypeOK, NEW p \in Proc, handle[p] = Absent
    PROVE  NewDb \in Db /\ NewDb # file /\ \A q \in Proc : handle[q] # NewDb
<1> DEFINE Others == Proc \ {p}
           Held   == {handle[q] : q \in Others}
           f      == [q \in Others |-> handle[q]]
           Used   == Held \cup {file}
<1>1. IsFiniteSet(Others) /\ Cardinality(Others) = Cardinality(Proc) - 1
  BY FS_RemoveElement, DbAssumption
<1>2. f \in Surjection(Others, Held)
  BY DEF Surjection
<1>3. IsFiniteSet(Held) /\ Cardinality(Held) <= Cardinality(Others)
  BY <1>1, <1>2, FS_Surjection
<1>4. IsFiniteSet(Used) /\ Cardinality(Used) <= Cardinality(Held) + 1
  <2> HIDE DEF Held
  <2>1. Cardinality(Held) \in Nat
    BY <1>3, FS_CardinalityType
  <2>2. /\ IsFiniteSet(Held \cup {file})
        /\ Cardinality(Held \cup {file}) = Cardinality(Held)
           \/ Cardinality(Held \cup {file}) = Cardinality(Held) + 1
    BY <1>3, FS_AddElement
  <2> QED BY <2>1, <2>2
<1>5. Cardinality(Used) < Cardinality(Db)
  <2> HIDE DEF Used, Held, Others
  <2>1. /\ Cardinality(Used) \in Nat /\ Cardinality(Held) \in Nat
        /\ Cardinality(Others) \in Nat /\ Cardinality(Proc) \in Nat
        /\ Cardinality(Db) \in Nat
    BY <1>1, <1>3, <1>4, FS_CardinalityType, DbAssumption
  <2> QED BY <2>1, <1>1, <1>3, <1>4, DbAssumption
<1>6. PICK d \in Db : d \notin Used
  <2>1. CASE Db \subseteq Used
    <3> HIDE DEF Used
    <3>1. Cardinality(Db) <= Cardinality(Used)
      BY <2>1, <1>4, FS_Subset
    <3>2. Cardinality(Db) \in Nat /\ Cardinality(Used) \in Nat
      BY <1>4, FS_CardinalityType, DbAssumption
    <3> QED BY <3>1, <3>2, <1>5
  <2> QED BY <2>1
<1>7. Unused(d)
  <2>1. \A q \in Proc : handle[q] # d
    BY <1>6, DbAssumption
  <2> QED BY <2>1, <1>6 DEF Unused
<1>8. NewDb \in Db /\ Unused(NewDb)
  BY <1>7 DEF NewDb
<1> QED BY <1>8 DEF Unused

-----------------------------------------------------------------------------
LEMMA InitInv == Init => IInv
BY ProcAssumption DEF Init, IInv, TypeOK, OwnerHoldsLock, HandleIsOpened,
   AbortedIsDone, Owning, Opened, Stage

\* A step that touches neither the lock nor a handle, and moves one process to
\* a stage that owns nothing, keeps the strengthening.
LEMMA GotoInv ==
    ASSUME IInv, NEW p \in Proc, NEW s \in Stage, Goto(p, s),
           UNCHANGED <<lock, handle, owes, cmd>>,
           socket' \in Proc \cup {Nobody}, file' \in Db \cup {Absent},
           unsaved' \in [Db -> SUBSET Proc], torn' \subseteq Db,
           s \in {"build", "copy", "open", "bind", "serve", "release"} => lock = p,
           handle[p] # Absent => \/ s = "copy"
                                 \/ s \in {"bind", "serve", "release", "unlink", "close"}
                                    /\ p \notin owes,
           p \in owes => s \notin {"wait", "open", "bind", "serve"}
    PROVE  IInv'
<1> USE DEF IInv, Goto
<1>1. TypeOK'
  BY DEF TypeOK
<1>2. OwnerHoldsLock'
  BY DEF TypeOK, OwnerHoldsLock, Owning
<1>3. HandleIsOpened'
  BY DEF TypeOK, HandleIsOpened, Opened
<1>4. AbortedIsDone'
  BY DEF TypeOK, AbortedIsDone
<1> QED BY <1>1, <1>2, <1>3, <1>4

\* The same for a step that gives up, takes or keeps the lock and a handle.
LEMMA HolderInv ==
    ASSUME IInv, NEW p \in Proc, NEW s \in Stage, Goto(p, s), cmd' = cmd,
           NEW d \in Db \cup {Absent}, handle' = [handle EXCEPT ![p] = d],
           socket' \in Proc \cup {Nobody}, file' \in Db \cup {Absent},
           unsaved' \in [Db -> SUBSET Proc], torn' \subseteq Db,
           lock' \in {p, Nobody} \/ lock' = lock,
           owes' = owes \/ (owes' = owes \cup {p} /\ d = Absent),
           lock' # lock => lock \in {p, Nobody},
           s \in {"build", "copy", "open", "bind", "serve", "release"} => lock' = p,
           d # Absent => \/ s = "copy"
                         \/ s \in {"bind", "serve", "release", "unlink", "close"}
                            /\ p \notin owes,
           p \in owes' => s \notin {"wait", "open", "bind", "serve"}
    PROVE  IInv'
<1> USE DEF IInv, Goto
<1>1. TypeOK'
  BY DEF TypeOK
<1>2. OwnerHoldsLock'
  BY ProcAssumption DEF TypeOK, OwnerHoldsLock, Owning
<1>3. HandleIsOpened'
  BY DEF TypeOK, HandleIsOpened, Opened
<1>4. AbortedIsDone'
  BY DEF TypeOK, AbortedIsDone
<1> QED BY <1>1, <1>2, <1>3, <1>4
-----------------------------------------------------------------------------
LEMMA StepInv ==
    ASSUME IInv, NEW p \in Proc, Step(p)
    PROVE  IInv'
<1> USE DEF data, IInv, TypeOK, Stage, Opened
<1>0. /\ pc[p] \in Stage
      /\ Owning(p) => lock = p
      /\ handle[p] # Absent => Opened(p)
      /\ p \in owes => pc[p] \notin {"wait", "open", "bind", "serve"}
  BY DEF OwnerHoldsLock, HandleIsOpened, AbortedIsDone
<1>1. /\ Continue(p) \in {"done", "wait", "read"} /\ Continue(p) \in Stage
      /\ p \in owes => Continue(p) \notin {"wait", "open", "bind", "serve"}
      /\ Continue(p) \notin {"build", "copy", "open", "bind", "serve", "release"}
  BY DEF Continue
<1>2. CASE Answered(p)
  BY <1>0, <1>2, GotoInv DEF Answered
<1>3. CASE Unanswered(p)
  BY <1>0, <1>3, GotoInv DEF Unanswered
<1>4. CASE NoSocket(p)
  BY <1>0, <1>4, GotoInv DEF NoSocket
<1>5. CASE UnlinkStale(p)
  BY <1>0, <1>5, GotoInv DEF UnlinkStale
<1>6. CASE ProbeClean(p)
  BY <1>0, <1>1, <1>6, GotoInv DEF ProbeClean
<1>7. CASE ProbeUnclean(p)
  BY <1>0, <1>7, GotoInv DEF ProbeUnclean
<1>8. CASE Discard(p)
  BY <1>0, <1>8, GotoInv DEF Discard
<1>9. CASE ScanRefused(p)
  BY <1>0, <1>9, GotoInv DEF ScanRefused
<1>10. CASE ScanAdmitted(p)
  BY <1>0, <1>10, GotoInv DEF ScanAdmitted
<1>11. CASE ScanLock(p)
  <2>1. handle[p] = Absent /\ handle' = [handle EXCEPT ![p] = Absent]
    BY <1>0, <1>11 DEF ScanLock
  <2>2. /\ Goto(p, "build") /\ "build" \in Stage /\ Absent \in Db \cup {Absent}
        /\ lock = Nobody /\ lock' = p /\ UNCHANGED <<cmd, owes>>
        /\ socket' \in Proc \cup {Nobody} /\ file' \in Db \cup {Absent}
        /\ unsaved' \in [Db -> SUBSET Proc] /\ torn' \subseteq Db
    BY <1>11 DEF ScanLock
  <2> HIDE DEF IInv, TypeOK, Stage, Opened
  <2> QED BY <2>1, <2>2, HolderInv
<1>12. CASE BuildReuses(p)
  <2>1. handle[p] = Absent /\ handle' = [handle EXCEPT ![p] = Absent] /\ lock = p
    BY <1>0, <1>12 DEF BuildReuses, Owning
  <2>2. Goto(p, Continue(p)) /\ lock' = Nobody
        /\ UNCHANGED <<cmd, socket, file, unsaved, torn, owes>>
    BY <1>12 DEF BuildReuses
  <2>3. /\ Absent \in Db \cup {Absent} /\ lock' \in {p, Nobody} /\ lock \in {p, Nobody}
        /\ socket' \in Proc \cup {Nobody} /\ file' \in Db \cup {Absent}
        /\ unsaved' \in [Db -> SUBSET Proc] /\ torn' \subseteq Db
    BY <2>1, <2>2
  <2> HIDE DEF IInv, TypeOK, Stage, Opened
  <2> QED BY <1>1, <2>1, <2>2, <2>3, HolderInv
<1>13. CASE BuildLoads(p)
  <2>1. handle[p] = Absent /\ lock = p
    BY <1>0, <1>13 DEF BuildLoads, Owning
  <2>2. NewDb \in Db
    BY <2>1, UnusedExists
  <2>3. /\ Goto(p, "copy") /\ "copy" \in Stage /\ NewDb \in Db \cup {Absent}
        /\ handle' = [handle EXCEPT ![p] = NewDb] /\ UNCHANGED <<cmd, lock, owes>>
        /\ socket' \in Proc \cup {Nobody} /\ file' \in Db \cup {Absent}
        /\ unsaved' \in [Db -> SUBSET Proc] /\ torn' \subseteq Db
    BY <1>13, <2>2 DEF BuildLoads
  <2> HIDE DEF IInv, TypeOK, Stage, Opened
  <2> QED BY <2>1, <2>2, <2>3, HolderInv
<1>14. CASE BuildPublishes(p)
  <2>1. handle[p] = Absent /\ handle' = [handle EXCEPT ![p] = Absent] /\ lock = p
    BY <1>0, <1>14 DEF BuildPublishes, Owning
  <2>2. NewDb \in Db
    BY <2>1, UnusedExists
  <2>3. /\ Goto(p, Continue(p)) /\ lock' = Nobody /\ file' \in Db
        /\ unsaved' \in [Db -> SUBSET Proc] /\ torn' \subseteq Db
        /\ UNCHANGED <<cmd, socket, owes>>
    BY <1>14, <2>2 DEF BuildPublishes
  <2>4. /\ Absent \in Db \cup {Absent} /\ lock' \in {p, Nobody} /\ lock \in {p, Nobody}
        /\ socket' \in Proc \cup {Nobody} /\ file' \in Db \cup {Absent}
    BY <2>1, <2>3
  <2> HIDE DEF IInv, TypeOK, Stage, Opened
  <2> QED BY <1>1, <2>1, <2>3, <2>4, HolderInv
<1>15. CASE Copied(p)
  <2>1. lock = p
    BY <1>0, <1>15 DEF Copied, Owning
  <2>2. /\ Goto(p, Continue(p)) /\ handle' = [handle EXCEPT ![p] = Absent]
        /\ lock' = Nobody /\ UNCHANGED <<cmd, owes>>
    BY <1>15 DEF Copied
  <2>3. /\ Absent \in Db \cup {Absent} /\ lock' \in {p, Nobody} /\ lock \in {p, Nobody}
        /\ socket' \in Proc \cup {Nobody} /\ file' \in Db \cup {Absent}
        /\ unsaved' \in [Db -> SUBSET Proc] /\ torn' \subseteq Db
    BY <1>15, <2>1 DEF Copied
  <2> HIDE DEF IInv, TypeOK, Stage, Opened
  <2> QED BY <1>1, <2>1, <2>2, <2>3, HolderInv
<1>16. CASE TakeLock(p)
  <2>1. handle[p] = Absent /\ handle' = [handle EXCEPT ![p] = Absent]
    BY <1>0, <1>16 DEF TakeLock
  <2>2. /\ Goto(p, "open") /\ "open" \in Stage /\ Absent \in Db \cup {Absent}
        /\ lock = Nobody /\ lock' = p /\ p \notin owes /\ UNCHANGED <<cmd, owes>>
        /\ socket' \in Proc \cup {Nobody} /\ file' \in Db \cup {Absent}
        /\ unsaved' \in [Db -> SUBSET Proc] /\ torn' \subseteq Db
    BY <1>0, <1>16 DEF TakeLock
  <2> HIDE DEF IInv, TypeOK, Stage, Opened
  <2> QED BY <2>1, <2>2, HolderInv
<1>17. CASE Open(p)
  <2>1. lock = p
    BY <1>0, <1>17 DEF Open, Owning
  <2>2. /\ Goto(p, "bind") /\ "bind" \in Stage /\ file \in Db \cup {Absent}
        /\ handle' = [handle EXCEPT ![p] = file] /\ p \notin owes
        /\ UNCHANGED <<cmd, lock, owes>>
        /\ socket' \in Proc \cup {Nobody} /\ file' \in Db \cup {Absent}
        /\ unsaved' \in [Db -> SUBSET Proc] /\ torn' \subseteq Db
    BY <1>0, <1>17 DEF Open
  <2> HIDE DEF IInv, TypeOK, Stage, Opened
  <2> QED BY <2>1, <2>2, HolderInv
<1>18. CASE OpenRefused(p)
  <2>1. handle[p] = Absent /\ handle' = [handle EXCEPT ![p] = Absent] /\ lock = p
    BY <1>0, <1>18 DEF OpenRefused, Owning
  <2>2. /\ Goto(p, "done") /\ "done" \in Stage /\ Absent \in Db \cup {Absent}
        /\ lock' = Nobody /\ UNCHANGED <<cmd, owes>>
        /\ socket' \in Proc \cup {Nobody} /\ file' \in Db \cup {Absent}
        /\ unsaved' \in [Db -> SUBSET Proc] /\ torn' \subseteq Db
    BY <1>18 DEF OpenRefused
  <2> HIDE DEF IInv, TypeOK, Stage, Opened
  <2> QED BY <2>1, <2>2, HolderInv
<1>19. CASE Bind(p)
  <2>1. lock = p
    BY <1>0, <1>19 DEF Bind, Owning
  <2> QED BY <1>0, <1>19, <2>1, GotoInv DEF Bind
<1>20. CASE BindRefused(p)
  <2>1. lock = p
    BY <1>0, <1>20 DEF BindRefused, Owning
  <2>2. /\ Goto(p, "done") /\ "done" \in Stage /\ Absent \in Db \cup {Absent}
        /\ handle' = [handle EXCEPT ![p] = Absent]
        /\ lock' = Nobody /\ UNCHANGED <<cmd, owes>>
        /\ socket' \in Proc \cup {Nobody} /\ file' \in Db \cup {Absent}
        /\ unsaved' \in [Db -> SUBSET Proc] /\ torn' \subseteq Db
    BY <1>20 DEF BindRefused
  <2> HIDE DEF IInv, TypeOK, Stage, Opened
  <2> QED BY <2>1, <2>2, HolderInv
<1>21. CASE Release(p)
  <2>1. lock = p /\ handle' = [handle EXCEPT ![p] = handle[p]]
    BY <1>0, <1>21 DEF Release, Owning
  <2>2. /\ Goto(p, "unlink") /\ "unlink" \in Stage /\ handle[p] \in Db \cup {Absent}
        /\ handle[p] # Absent => p \notin owes
        /\ lock' = Nobody /\ UNCHANGED <<cmd, owes>>
        /\ socket' \in Proc \cup {Nobody} /\ file' \in Db \cup {Absent}
        /\ unsaved' \in [Db -> SUBSET Proc] /\ torn' \subseteq Db
    BY <1>0, <1>21 DEF Release
  <2> HIDE DEF IInv, TypeOK, Stage, Opened
  <2> QED BY <2>1, <2>2, HolderInv
<1>22. CASE Unlink(p)
  BY <1>0, <1>22, GotoInv DEF Unlink
<1>23. CASE Close(p)
  <2>1. /\ Goto(p, "done") /\ "done" \in Stage /\ Absent \in Db \cup {Absent}
        /\ handle' = [handle EXCEPT ![p] = Absent] /\ UNCHANGED <<cmd, lock, owes>>
        /\ socket' \in Proc \cup {Nobody} /\ file' \in Db \cup {Absent}
        /\ unsaved' \in [Db -> SUBSET Proc] /\ torn' \subseteq Db
    BY <1>23 DEF Close
  <2> HIDE DEF IInv, TypeOK, Stage, Opened
  <2> QED BY <2>1, HolderInv
<1>24. CASE Read(p)
  BY <1>0, <1>24, GotoInv DEF Read
<1> QED
  BY <1>2, <1>3, <1>4, <1>5, <1>6, <1>7, <1>8, <1>9, <1>10, <1>11, <1>12,
     <1>13, <1>14, <1>15, <1>16, <1>17, <1>18, <1>19, <1>20, <1>21, <1>22,
     <1>23, <1>24 DEF Step

LEMMA RequestInv ==
    ASSUME IInv, NEW p \in Proc, Request(p)
    PROVE  IInv'
<1> USE DEF data, IInv, TypeOK, Stage, Opened
<1>0. /\ pc[p] \in Stage
      /\ Owning(p) => lock = p
      /\ handle[p] # Absent => Opened(p)
      /\ p \in owes => pc[p] \notin {"wait", "open", "bind", "serve"}
  BY DEF OwnerHoldsLock, HandleIsOpened, AbortedIsDone
<1>1. CASE Begin(p)
  BY <1>0, <1>1, GotoInv DEF Begin
<1>2. CASE Mutate(p) \/ Save(p)
  <2>1. pc' = pc /\ cmd' = cmd /\ lock' = lock /\ handle' = handle /\ owes' = owes
    BY <1>2 DEF Mutate, Save
  <2>2. unsaved' \in [Db -> SUBSET Proc] /\ UNCHANGED <<socket, file, torn>>
    BY <1>2 DEF Mutate, Save
  <2> QED BY <2>1, <2>2 DEF OwnerHoldsLock, HandleIsOpened, AbortedIsDone, Owning
<1>3. CASE End(p)
  <2>1. lock = p
    BY <1>0, <1>3 DEF End, Reachable, Serving, Owning
  <2> QED BY <1>0, <1>3, <2>1, GotoInv DEF End, Reachable, Serving
<1>4. CASE Abort(p)
  <2>1. lock = p
    BY <1>0, <1>4 DEF Abort, Reachable, Serving, Owning
  <2>2. owes' = owes \/ owes' = owes \cup {p}
    BY <1>4 DEF Abort
  <2>3. /\ Goto(p, "release") /\ "release" \in Stage /\ Absent \in Db \cup {Absent}
        /\ handle' = [handle EXCEPT ![p] = Absent] /\ UNCHANGED <<cmd, lock>>
        /\ socket' \in Proc \cup {Nobody} /\ file' \in Db \cup {Absent}
        /\ unsaved' \in [Db -> SUBSET Proc] /\ torn' \subseteq Db
    BY <1>4 DEF Abort
  <2> HIDE DEF IInv, TypeOK, Stage, Opened
  <2> QED BY <2>1, <2>2, <2>3, HolderInv
<1>5. CASE Kill(p)
  <2>1. /\ Goto(p, "done") /\ "done" \in Stage /\ Absent \in Db \cup {Absent}
        /\ handle' = [handle EXCEPT ![p] = Absent]
        /\ lock' = lock \/ (lock = p /\ lock' = Nobody)
        /\ UNCHANGED <<cmd, owes>>
        /\ socket' \in Proc \cup {Nobody} /\ file' \in Db \cup {Absent}
        /\ unsaved' \in [Db -> SUBSET Proc] /\ torn' \subseteq Db
    BY <1>5 DEF Kill
  <2> HIDE DEF IInv, TypeOK, Stage, Opened
  <2> QED BY <2>1, HolderInv
<1> QED BY <1>1, <1>2, <1>3, <1>4, <1>5 DEF Request

\* The strengthening is inductive, and holds in every behaviour.
LEMMA Inductive == Spec => []IInv
<1>1. IInv /\ [Next]_vars => IInv'
  <2> SUFFICES ASSUME IInv, [Next]_vars
               PROVE  IInv'
    OBVIOUS
  <2>1. CASE Next
    BY <2>1, StepInv, RequestInv DEF Next
  <2>2. CASE UNCHANGED vars
    BY <2>2 DEF vars, IInv, TypeOK, OwnerHoldsLock, HandleIsOpened,
       AbortedIsDone, Owning, Opened
  <2> QED BY <2>1, <2>2
<1> QED BY InitInv, <1>1, PTL DEF Spec

\* Every variable keeps its type; above all, a rebuild always finds an unused
\* database file, so the scan that rebuilds is never left without one.
THEOREM TypeCorrect == Spec => []TypeOK
<1>1. IInv => TypeOK
  BY DEF IInv
<1> QED BY <1>1, Inductive, PTL

\* At most one process rebuilds, opens or serves the worktree database, for any
\* number of starts, scans, queries and kills in any interleaving: the flock of
\* specs.lock is enough (Coordinator::start, force_full_scan).
THEOREM OneOwnerAlways == Spec => []OneOwner
<1>1. IInv => OneOwner
  BY DEF IInv, OwnerHoldsLock, OneOwner
<1> QED BY <1>1, Inductive, PTL

-----------------------------------------------------------------------------
(* Commands that do not overlap, and sessions that answer.  What is proved  *)
(* of them needs both: a probe that takes a busy session for a dead one     *)
(* unlinks its socket and deletes its database.                             *)

\* One command at a time is between two of its steps, and while a session serves
\* it is only asking whether one does.
OneBetween == \A p, q \in Proc : Between(p) /\ Between(q) => p = q
AsksFirst  == \A p, s \in Proc : Between(p) /\ Serving(s) => pc[p] \in {"classify", "scanGuard"}

\* A session is at its socket and serves the named database, with its own work.
ServesTheFile == \A s \in Proc : Serving(s) =>
    socket = s /\ file \in Db /\ handle[s] = file /\ unsaved[file] \subseteq {s}

\* Past the classification the database carries no work; a load holds the named one.
FoundClean == \A p \in Proc :
    /\ pc[p] \in {"wait", "open", "read"} /\ file # Absent => unsaved[file] = {}
    /\ pc[p] \in {"copy", "bind"} => file \in Db /\ handle[p] = file /\ unsaved[file] = {}

\* Only a load under way is torn, when none is killed.
TornIsLoading == "copy" \notin Killed =>
    \A d \in torn : \E p \in Proc : pc[p] = "copy" /\ handle[p] = d

SerialInv == OneBetween /\ AsksFirst /\ ServesTheFile /\ FoundClean /\ TornIsLoading

\* A step of a command past its question: nobody else is at anything.
LEMMA AloneStep ==
    ASSUME IInv, SerialInv, NEW p \in Proc, NEW s \in Stage, Goto(p, s),
           Between(p), pc[p] \notin {"classify", "scanGuard"},
           s = "serve" => socket' = p /\ file' \in Db /\ handle'[p] = file'
                          /\ unsaved'[file'] \subseteq {p},
           s \in {"wait", "open", "read"} /\ file' # Absent => unsaved'[file'] = {},
           s \in {"copy", "bind"} => file' \in Db /\ handle'[p] = file' /\ unsaved'[file'] = {},
           "copy" \notin Killed => \A d \in torn' : s = "copy" /\ handle'[p] = d
    PROVE  SerialInv'
<1>1. pc'[p] = s /\ \A q \in Proc \ {p} : pc'[q] = pc[q]
  BY DEF Goto, IInv, TypeOK
<1>2. \A q \in Proc \ {p} : pc[q] \in {"idle", "done"}
  BY DEF SerialInv, OneBetween, AsksFirst, Between, Serving
<1>3. OneBetween' /\ AsksFirst'
  BY <1>1, <1>2 DEF OneBetween, AsksFirst, Between, Serving
<1>4. ServesTheFile' /\ FoundClean'
  BY <1>1, <1>2 DEF ServesTheFile, FoundClean, Serving
<1>5. TornIsLoading'
  BY <1>1 DEF TornIsLoading
<1> QED BY <1>3, <1>4, <1>5 DEF SerialInv

\* A command that asks: it goes on when no session serves, and is over otherwise.
LEMMA AskStep ==
    ASSUME IInv, SerialInv, NEW p \in Proc, NEW s \in Stage, Goto(p, s),
           pc[p] \in {"classify", "scanGuard"},
           UNCHANGED <<socket, file, handle, unsaved, torn>>,
           \/ s = "done"
           \/ s \in {"unlinkStale", "probe", "scanLock"} /\ \A q \in Proc : ~Serving(q)
    PROVE  SerialInv'
<1>1. pc'[p] = s /\ \A q \in Proc \ {p} : pc'[q] = pc[q]
  BY DEF Goto, IInv, TypeOK
<1>2. Between(p)
  BY DEF Between
<1>3. OneBetween' /\ AsksFirst'
  BY <1>1, <1>2 DEF SerialInv, OneBetween, AsksFirst, Between, Serving
<1>4. ServesTheFile' /\ FoundClean'
  BY <1>1 DEF SerialInv, ServesTheFile, FoundClean, Serving
<1>5. TornIsLoading'
  BY <1>1 DEF SerialInv, TornIsLoading
<1> QED BY <1>3, <1>4, <1>5 DEF SerialInv

\* No load is under way at any other stage of the command that is.
LEMMA NothingTorn ==
    ASSUME SerialInv, NEW p \in Proc, Between(p), pc[p] # "copy", "copy" \notin Killed
    PROVE  torn = {}
BY DEF SerialInv, TornIsLoading, OneBetween, Between

LEMMA StepSerial ==
    ASSUME ~Stalls, ~Overlap, IInv, SerialInv, NEW p \in Proc, Step(p)
    PROVE  SerialInv'
<1> USE DEF data
<1>0. /\ pc[p] \in Stage /\ handle[p] \in Db \cup {Absent} /\ file \in Db \cup {Absent}
      /\ handle[p] # Absent => Opened(p)
      /\ Continue(p) \in {"done", "wait", "read"} /\ Continue(p) \in Stage
  BY DEF IInv, TypeOK, HandleIsOpened, Continue, Stage
<1>1. \A q \in Proc : Serving(q) => MayAnswer /\ ~MayNotAnswer
  BY ProcAssumption DEF SerialInv, ServesTheFile, MayAnswer, MayNotAnswer
<1>2. CASE Answered(p)
  BY <1>2, AskStep DEF Answered, Stage
<1>3. CASE Unanswered(p)
  BY <1>1, <1>3, AskStep DEF Unanswered, Stage
<1>4. CASE NoSocket(p)
  BY <1>1, <1>4, AskStep DEF NoSocket, MayAnswer, Stage
<1>5. CASE ScanRefused(p)
  BY <1>5, AskStep DEF ScanRefused, Stage
<1>6. CASE ScanAdmitted(p)
  BY <1>1, <1>6, AskStep DEF ScanAdmitted, MayAnswer, Stage
<1>7. CASE UnlinkStale(p)
  BY <1>7, AloneStep, NothingTorn DEF UnlinkStale, Stage, Between
<1>8. CASE ProbeClean(p)
  <2>1. file # Absent => unsaved[file] = {}
    BY <1>8 DEF ProbeClean, Unclean
  <2> QED BY <1>0, <1>8, <2>1, AloneStep, NothingTorn DEF ProbeClean, Between
<1>9. CASE ProbeUnclean(p)
  BY <1>9, AloneStep, NothingTorn DEF ProbeUnclean, Stage, Between
<1>10. CASE Discard(p)
  BY <1>10, AloneStep, NothingTorn DEF Discard, Stage, Between
<1>11. CASE ScanLock(p)
  BY <1>11, AloneStep, NothingTorn DEF ScanLock, Stage, Between
<1>12. CASE BuildReuses(p)
  <2>1. file # Absent /\ unsaved[file] = {}
    BY <1>12 DEF BuildReuses, Reusable, Unclean
  <2> QED BY <1>0, <1>12, <2>1, AloneStep, NothingTorn DEF BuildReuses, Between
<1>13. CASE BuildLoads(p)
  <2>1. NewDb \in Db
    BY <1>0, <1>13, UnusedExists DEF BuildLoads, Opened, IInv
  <2>2. handle'[p] = NewDb /\ unsaved'[NewDb] = {} /\ file' = NewDb /\ Goto(p, "copy")
        /\ torn' = torn \cup {NewDb}
    BY <1>13, <2>1 DEF BuildLoads, IInv, TypeOK
  <2>3. Between(p) /\ pc[p] = "build"
    BY <1>13 DEF BuildLoads, Between
  <2>4. "copy" \notin Killed => torn = {}
    BY <2>3, NothingTorn
  <2>5. "copy" \in Stage
    BY DEF Stage
  <2> QED BY <2>1, <2>2, <2>3, <2>4, <2>5, AloneStep
<1>14. CASE BuildPublishes(p)
  <2>1. NewDb \in Db
    BY <1>0, <1>14, UnusedExists DEF BuildPublishes, Opened, IInv
  <2>2. unsaved'[NewDb] = {} /\ file' = NewDb /\ Goto(p, Continue(p)) /\ torn' \subseteq torn
    BY <1>14, <2>1 DEF BuildPublishes, IInv, TypeOK
  <2>3. Between(p) /\ pc[p] = "build"
    BY <1>14 DEF BuildPublishes, Between
  <2>4. "copy" \notin Killed => torn = {}
    BY <2>3, NothingTorn
  <2> QED BY <1>0, <2>2, <2>3, <2>4, AloneStep
<1>15. CASE Copied(p)
  <2>1. /\ Goto(p, Continue(p)) /\ torn' = torn \ {handle[p]} /\ UNCHANGED <<file, unsaved>>
        /\ pc[p] = "copy" /\ Between(p)
    BY <1>15 DEF Copied, Between
  <2>2. unsaved[file] = {}
    BY <2>1 DEF SerialInv, FoundClean
  <2>3. "copy" \notin Killed => torn' = {}
    <3>1. \A q \in Proc : pc[q] = "copy" => q = p
      BY <2>1 DEF SerialInv, OneBetween, Between
    <3> QED BY <2>1, <3>1 DEF SerialInv, TornIsLoading
  <2> QED BY <1>0, <2>1, <2>2, <2>3, AloneStep
<1>16. CASE TakeLock(p)
  BY <1>16, AloneStep, NothingTorn DEF TakeLock, Stage, Between, SerialInv, FoundClean
<1>17. CASE Open(p)
  <2>1. /\ handle'[p] = file /\ file # Absent /\ Goto(p, "bind") /\ UNCHANGED <<file, unsaved, torn>>
        /\ pc[p] = "open" /\ Between(p) /\ "bind" \in Stage
    BY <1>17 DEF Open, IInv, TypeOK, Stage, Between
  <2>2. unsaved[file] = {}
    BY <2>1 DEF SerialInv, FoundClean
  <2> QED BY <1>0, <2>1, <2>2, AloneStep, NothingTorn
<1>18. CASE OpenRefused(p)
  BY <1>18, AloneStep, NothingTorn DEF OpenRefused, Stage, Between
<1>19. CASE Bind(p)
  <2>1. handle[p] = file /\ file \in Db /\ unsaved[file] = {}
    BY <1>19 DEF Bind, SerialInv, FoundClean
  <2> QED BY <1>19, <2>1, AloneStep, NothingTorn DEF Bind, Stage, Between
<1>20. CASE BindRefused(p)
  BY <1>20, AloneStep, NothingTorn DEF BindRefused, Stage, Between
<1>21. CASE Release(p)
  BY <1>21, AloneStep, NothingTorn DEF Release, Stage, Between
<1>22. CASE Unlink(p)
  BY <1>22, AloneStep, NothingTorn DEF Unlink, Stage, Between
<1>23. CASE Close(p)
  BY <1>23, AloneStep, NothingTorn DEF Close, Stage, Between
<1>24. CASE Read(p)
  BY <1>24, AloneStep, NothingTorn DEF Read, Stage, Between
<1> QED
  BY <1>2, <1>3, <1>4, <1>5, <1>6, <1>7, <1>8, <1>9, <1>10, <1>11, <1>12,
     <1>13, <1>14, <1>15, <1>16, <1>17, <1>18, <1>19, <1>20, <1>21, <1>22,
     <1>23, <1>24 DEF Step

LEMMA RequestSerial ==
    ASSUME ~Overlap, IInv, SerialInv, NEW p \in Proc, Request(p)
    PROVE  SerialInv'
<1> USE DEF data
<1>1. CASE Begin(p)
  <2>1. /\ pc[p] = "idle" /\ \A q \in Proc \ {p} : ~Between(q)
        /\ UNCHANGED <<socket, file, handle, unsaved, torn>>
    BY <1>1 DEF Begin, Alone
  <2>2. pc'[p] \in {"classify", "scanGuard"} /\ \A q \in Proc \ {p} : pc'[q] = pc[q]
    BY <1>1 DEF Begin, Goto, IInv, TypeOK
  <2>3. OneBetween' /\ AsksFirst'
    BY <2>1, <2>2 DEF OneBetween, AsksFirst, Between, Serving
  <2>4. ServesTheFile' /\ FoundClean'
    BY <2>1, <2>2 DEF SerialInv, ServesTheFile, FoundClean, Serving
  <2>5. TornIsLoading'
    BY <2>1, <2>2 DEF SerialInv, TornIsLoading
  <2> QED BY <2>3, <2>4, <2>5 DEF SerialInv
<1>2. CASE Mutate(p) \/ Save(p)
  <2>1. Serving(p) /\ handle[p] = file /\ file \in Db
    BY <1>2 DEF Mutate, Save, Reachable, SerialInv, ServesTheFile
  <2>2. /\ unsaved'[file] \subseteq unsaved[file] \cup {p}
        /\ UNCHANGED <<pc, socket, file, handle, torn>>
    BY <1>2, <2>1 DEF Mutate, Save, IInv, TypeOK
  <2>3. \A q \in Proc : Serving(q) => q = p
    BY <2>1 DEF IInv, OwnerHoldsLock, Owning, Serving
  <2>4. \A q \in Proc : pc[q] \notin {"wait", "open", "read", "copy", "bind"}
    BY <2>1 DEF SerialInv, AsksFirst, Between
  <2>5. ServesTheFile' /\ FoundClean'
    BY <2>2, <2>3, <2>4 DEF SerialInv, ServesTheFile, FoundClean, Serving
  <2>6. OneBetween' /\ AsksFirst' /\ TornIsLoading'
    BY <2>2 DEF SerialInv, OneBetween, AsksFirst, TornIsLoading, Between, Serving
  <2> QED BY <2>5, <2>6 DEF SerialInv
<1>3. CASE End(p) \/ Abort(p)
  <2>1. /\ Serving(p) /\ \A q \in Proc \ {p} : ~Between(q)
        /\ Goto(p, "release") /\ UNCHANGED <<socket, file, unsaved, torn>>
    BY <1>3 DEF End, Abort, Reachable, Alone
  <2>2. \A q \in Proc : Serving(q) => q = p
    BY <2>1 DEF IInv, OwnerHoldsLock, Owning, Serving
  <2>3. pc'[p] = "release" /\ \A q \in Proc \ {p} : pc'[q] = pc[q]
    BY <2>1 DEF Goto, IInv, TypeOK
  <2>4. OneBetween' /\ AsksFirst' /\ ServesTheFile'
    BY <2>1, <2>2, <2>3 DEF OneBetween, AsksFirst, ServesTheFile, Between, Serving
  <2>5. \A q \in Proc : pc'[q] \notin {"wait", "open", "read", "copy", "bind"}
    BY <2>1, <2>3 DEF Between
  <2>6. FoundClean'
    BY <2>5 DEF FoundClean
  <2>7. TornIsLoading'
    <3>1. \A q \in Proc : pc[q] # "copy"
      BY <2>1 DEF Between, Serving
    <3> QED BY <2>1, <3>1 DEF SerialInv, TornIsLoading
  <2> QED BY <2>4, <2>6, <2>7 DEF SerialInv
<1>4. CASE Kill(p)
  <2>1. /\ Goto(p, "done") /\ UNCHANGED <<socket, file, unsaved, torn>>
        /\ handle' = [handle EXCEPT ![p] = Absent] /\ pc[p] \in Killed
    BY <1>4 DEF Kill
  <2>2. pc'[p] = "done" /\ \A q \in Proc \ {p} : pc'[q] = pc[q] /\ handle'[q] = handle[q]
    BY <2>1 DEF Goto, IInv, TypeOK
  <2>3. OneBetween' /\ AsksFirst' /\ ServesTheFile' /\ FoundClean'
    BY <2>1, <2>2 DEF SerialInv, OneBetween, AsksFirst, ServesTheFile, FoundClean, Between, Serving
  <2>4. TornIsLoading'
    BY <2>1, <2>2 DEF SerialInv, TornIsLoading
  <2> QED BY <2>3, <2>4 DEF SerialInv
<1> QED BY <1>1, <1>2, <1>3, <1>4 DEF Request

LEMMA SerialInductive == ASSUME ~Stalls, ~Overlap PROVE Spec => []SerialInv
<1>1. Init => SerialInv
  BY ProcAssumption DEF Init, SerialInv, OneBetween, AsksFirst, ServesTheFile, FoundClean,
     TornIsLoading, Between, Serving
<1>2. IInv /\ SerialInv /\ [Next]_vars => SerialInv'
  <2> SUFFICES ASSUME IInv, SerialInv, [Next]_vars PROVE SerialInv'
    OBVIOUS
  <2>1. CASE Next
    BY <2>1, StepSerial, RequestSerial DEF Next
  <2>2. CASE UNCHANGED vars
    BY <2>2 DEF vars, SerialInv, OneBetween, AsksFirst, ServesTheFile, FoundClean, TornIsLoading,
       Between, Serving
  <2> QED BY <2>1, <2>2
<1> QED BY <1>1, <1>2, Inductive, PTL DEF Spec

\* As long as sessions answer and commands take turns, a session is never cut off
\* from its socket, whoever is killed wherever (Coordinator::serve).
THEOREM SessionsAreReached == ASSUME ~Stalls, ~Overlap PROVE Spec => []NoOrphan
<1>1. SerialInv => NoOrphan
  BY DEF SerialInv, ServesTheFile, NoOrphan
<1> QED BY <1>1, SerialInductive, PTL

\* And no scan or recovery deletes the database it serves: it is the one at db.lbug.
THEOREM ServesTheNamed == ASSUME ~Stalls, ~Overlap PROVE Spec => []ServedIsNamed
<1>1. SerialInv => ServedIsNamed
  BY DEF SerialInv, ServesTheFile, ServedIsNamed
<1> QED BY <1>1, SerialInductive, PTL

\* And it serves nobody's unsaved work but its own: what was aborted or killed is
\* gone before the next session opens the database (Coordinator::abort,
\* reclaim_stale_socket).
THEOREM OwnWorkOnly == ASSUME ~Stalls, ~Overlap PROVE Spec => []ServesOwnWork
<1>1. SerialInv => ServesOwnWork
  BY DEF SerialInv, ServesTheFile, ServesOwnWork
<1> QED BY <1>1, SerialInductive, PTL

\* And a query without a session reads the last saved state, the whole of it, when
\* no load is killed half way through its copy.
THEOREM QueriesReadSaved ==
    ASSUME ~Stalls, ~Overlap, "copy" \notin Killed PROVE Spec => []ReadsLastSaved
<1>1. SerialInv => ReadsLastSaved
  <2> SUFFICES ASSUME SerialInv, NEW p \in Proc, pc[p] = "read", file # Absent
               PROVE  unsaved[file] = {} /\ file \notin torn
    BY DEF ReadsLastSaved
  <2>1. unsaved[file] = {}
    BY DEF SerialInv, FoundClean
  <2>2. torn = {}
    BY NothingTorn DEF Between
  <2> QED BY <2>1, <2>2
<1> QED BY <1>1, SerialInductive, PTL
=============================================================================
