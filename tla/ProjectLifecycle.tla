--------------------------- MODULE ProjectLifecycle ---------------------------
(***************************************************************************)
(* A project is a branch, its worktree and the worktree's database.  apg   *)
(* project start, merge and delete run from the main checkout, one git     *)
(* call or one scan after another and under no lock; people, sessions and  *)
(* a second command work on the same repository between any two of their   *)
(* steps, and a step may fail or be the last before a kill.  A tree is     *)
(* three facts: its code, its specification, which claims the code of its  *)
(* own version, and whether .gitignore covers the layout.                  *)
(***************************************************************************)
EXTENDS Integers, Sequences, FiniteSets

CONSTANTS Project,     \* names of projects: branches, and worktree directories
          Default,     \* the default branch, origin/HEAD
          Main,        \* the main checkout
          None,        \* no database, no branch
          Cmd,         \* the project commands that may run at once
          First,       \* the tree of the first commit
          Version,     \* versions of the code, and of what a specification claims
          MaxCommits,  \* bounds the history
          MaxCommands, \* bounds the commands that are run
          MaxEdits,    \* bounds edits and reviews
          MaxFaults    \* bounds failures, kills and repairs by hand

Checkout == Project \cup {Main}
Branch   == Project \cup {Default}
Tree     == [code : Version, spec : Version, ignores : BOOLEAN]
Commits  == [past : SUBSET Nat, tree : Tree]
Database == [sha : Nat, key : Tree, of : Tree]

ASSUME ProjectAssumption ==
    /\ Default \notin Project /\ Main \notin Project
    /\ None \notin Project \cup {Default} \cup Cmd /\ None \notin Database
    /\ Version \subseteq Nat /\ First \in Tree
    /\ MaxCommits \in Nat /\ MaxCommands \in Nat /\ MaxEdits \in Nat /\ MaxFaults \in Nat

VARIABLES
    history,  \* every commit made, each with its ancestors, itself among them
    ref,      \* the commit of a branch, 0 of one that does not exist
    head,     \* the branch a checkout holds, None of a worktree that is not there
    disk,     \* the worktree directories
    admin,    \* the worktrees git has registered
    work,     \* the files of a checkout
    db,       \* its database: the recorded commit and key, and what it was built of
    live,     \* the worktrees a session is live in
    open,     \* the projects with review feedback that is not resolved
    cmd,      \* the commands that run
    used,     \* commands, edits and faults so far
    masked,   \* history: re-anchored by a save over code that was not scanned
    lost      \* history: what overtaken fast-forwards took from the default branch

git  == <<history, ref, head, disk, admin, lost>>
rest == <<live, open, masked>>
vars == <<history, ref, head, disk, admin, work, db, live, open, cmd, used, masked, lost>>

Step == {"idle", "heal", "add", "copy", "verify", "strength", "read", "look", "set",
         "commit", "sync", "rebuild", "prune", "drop"}
\* their is the commit a merge takes, mine the one it found the default branch at,
\* seen the one it found again when it looked the reference up; touched and healed
\* are history: someone else changed what the command has read, and start committed
\* a .gitignore.
Idle == [op |-> "none", name |-> None, at |-> "idle", their |-> 0, mine |-> 0, seen |-> 0,
         touched |-> FALSE, healed |-> FALSE]

CommandStates ==
    [op : {"none", "start", "merge", "delete"}, name : Project \cup {None}, at : Step,
     their : 0 .. Len(history), mine : 0 .. Len(history), seen : 0 .. Len(history),
     touched : BOOLEAN, healed : BOOLEAN]

TypeOK ==
    /\ history \in Seq(Commits)
    /\ ref \in [Branch -> 0 .. Len(history)]
    /\ head \in [Checkout -> Branch \cup {None}]
    /\ disk \subseteq Project /\ admin \subseteq Project
    /\ \A p \in Project : IF p \in disk THEN head[p] = p /\ ref[p] # 0 ELSE head[p] = None
    /\ work \in [Checkout -> Tree]
    /\ db \in [Checkout -> Database \cup {None}]
    /\ live \subseteq disk /\ open \subseteq Project /\ masked \subseteq Checkout
    /\ lost \subseteq Nat
    /\ cmd \in [Cmd -> CommandStates]
    /\ used \in [commands : 0 .. MaxCommands, edits : 0 .. MaxEdits, faults : 0 .. MaxFaults]

Init ==
    /\ history = <<[past |-> {1}, tree |-> First]>>
    /\ ref = [b \in Branch |-> IF b = Default THEN 1 ELSE 0]
    /\ head = [c \in Checkout |-> IF c = Main THEN Default ELSE None]
    /\ disk = {} /\ admin = {} /\ live = {} /\ open = {} /\ masked = {} /\ lost = {}
    /\ work = [c \in Checkout |-> First]
    /\ db = [c \in Checkout |-> IF c = Main THEN [sha |-> 1, key |-> First, of |-> First]
                                ELSE None]
    /\ cmd = [k \in Cmd |-> Idle]
    /\ used = [commands |-> 0, edits |-> 0, faults |-> 0]

-----------------------------------------------------------------------------
(* what git and the database say of a checkout *)

Past(id)    == history[id].past
TreeOf(id)  == history[id].tree
HeadOf(c)   == ref[head[c]]

\* checkout_clean.  A worktree that .gitignore does not cover is an untracked
\* directory of the main checkout.
Clean(c) ==
    /\ work[c] = TreeOf(HeadOf(c))
    /\ c = Main => work[Main].ignores \/ disk = {}

\* The graph a scan builds of tree t is that of tree u.
Shows(t, u) == t.code = u.code /\ t.spec = u.spec

\* Mutant: the recorded commit alone decides.
FreshBySha(c) == db[c] # None /\ db[c].sha = HeadOf(c)

\* is_fresh: the recorded commit and content key are the checkout's, and the
\* authored rows are those of its files.
Fresh(c) ==
    /\ db[c] # None
    /\ db[c].sha = HeadOf(c) /\ db[c].key = work[c]
    /\ c \notin live => db[c].of.spec = work[c].spec

\* Someone changes checkout c: the commands on it, or copying from it, go on
\* with what they have read.
Touch(c, by) ==
    [k \in Cmd |-> IF /\ k # by /\ cmd[k].at # "idle"
                      /\ \/ cmd[k].name = c
                         \/ c = Main /\ cmd[k].op = "start"
                   THEN [cmd[k] EXCEPT !.touched = TRUE] ELSE cmd[k]]

\* A commit of tree t over the given parents; its number is the next one.
Committed(parents, t) ==
    Append(history, [past |-> {Len(history) + 1} \cup UNION {Past(p) : p \in parents},
                     tree |-> t])

-----------------------------------------------------------------------------
(* what people and sessions do *)

\* An edit by hand: of the code, or of main's .gitignore.  Node files are never
\* edited by hand.
Edit(c) ==
    /\ c = Main \/ c \in disk
    /\ used.edits < MaxEdits
    /\ \/ \E v \in Version \ {work[c].code} : work' = [work EXCEPT ![c].code = v]
       \/ c = Main /\ work' = [work EXCEPT ![Main].ignores = ~@]
    /\ used' = [used EXCEPT !.edits = @ + 1]
    /\ cmd' = Touch(c, None)
    /\ UNCHANGED <<git, rest, db>>

\* git commit of everything that changed.
CommitByHand(c) ==
    /\ c = Main \/ c \in disk
    /\ Len(history) < MaxCommits /\ work[c] # TreeOf(HeadOf(c))
    /\ history' = Committed({HeadOf(c)}, work[c])
    /\ ref' = [ref EXCEPT ![head[c]] = Len(history')]
    /\ cmd' = Touch(c, None)
    /\ UNCHANGED <<head, disk, admin, lost, rest, work, db, used>>

\* git checkout of another branch in the main checkout, not while a project
\* command runs there.
Switch(b) ==
    /\ \A k \in Cmd : cmd[k].at = "idle"
    /\ ref[b] # 0 /\ \A c \in Checkout : head[c] # b
    /\ Clean(Main)
    /\ head' = [head EXCEPT ![Main] = b]
    /\ work' = [work EXCEPT ![Main] = TreeOf(ref[b])]
    /\ UNCHANGED <<history, ref, disk, admin, lost, rest, db, cmd, used>>

\* The main scan has no plan whose placeholders a claim could fall back on.
Scannable(c) == c = Main => work[c].spec <= work[c].code

Scanned(c) == [sha |-> HeadOf(c), key |-> work[c], of |-> work[c]]

\* apg scan.  A fresh database is kept as it is.
Scan(c) ==
    /\ (c = Main \/ c \in disk) /\ c \notin live
    /\ ~Fresh(c) /\ Scannable(c)
    /\ db' = [db EXCEPT ![c] = Scanned(c)]
    /\ masked' = masked \ {c}
    /\ cmd' = Touch(c, None)
    /\ UNCHANGED <<git, work, live, open, used>>

\* apg session start, in a worktree on its own branch.  It does not ask whether
\* the database is fresh.
SessionStart(p) ==
    /\ p \in disk \ live /\ head[p] = p /\ db[p] # None
    /\ live' = live \cup {p}
    /\ cmd' = Touch(p, None)
    /\ UNCHANGED <<git, work, db, open, used, masked>>

\* apg session save of what was admitted: one commit of the node files, then the
\* Scan row is re-anchored to the checkout as it is now.
SessionSave(p) ==
    /\ p \in live /\ Len(history) < MaxCommits
    /\ \E v \in Version \ {work[p].spec} :
        /\ history' = Committed({HeadOf(p)}, [TreeOf(HeadOf(p)) EXCEPT !.spec = v])
        /\ ref' = [ref EXCEPT ![head[p]] = Len(history')]
        /\ work' = [work EXCEPT ![p].spec = v]
        /\ db' = [db EXCEPT ![p] = [sha |-> Len(history'), key |-> work'[p],
                                    of |-> [db[p].of EXCEPT !.spec = v]]]
    /\ masked' = IF Shows(db'[p].of, work'[p]) THEN masked \ {p} ELSE masked \cup {p}
    /\ cmd' = Touch(p, None)
    /\ UNCHANGED <<head, disk, admin, lost, live, open, used>>

SessionEnd(p) ==
    /\ p \in live
    /\ live' = live \ {p}
    /\ cmd' = Touch(p, None)
    /\ UNCHANGED <<git, work, db, open, used, masked>>

\* apg review add and resolve, under the lock a live session holds.
Review(p) ==
    /\ p \in disk \ live /\ used.edits < MaxEdits
    /\ used' = [used EXCEPT !.edits = @ + 1]
    /\ open' = IF p \in open THEN open \ {p} ELSE open \cup {p}
    /\ cmd' = Touch(p, None)
    /\ UNCHANGED <<git, work, db, live, masked>>

\* What the refusals tell a person to do by hand, and rm -rf.
Repair ==
    /\ used.faults < MaxFaults
    /\ used' = [used EXCEPT !.faults = @ + 1]
    /\ \E p \in Project :
        /\ \/ /\ p \in disk \ live                       \* rm -rf
              /\ disk' = disk \ {p} /\ head' = [head EXCEPT ![p] = None]
              /\ work' = [work EXCEPT ![p] = First] /\ db' = [db EXCEPT ![p] = None]
              /\ open' = open \ {p} /\ masked' = masked \ {p}
              /\ UNCHANGED <<ref, admin>>
           \/ /\ p \in admin \ disk /\ admin' = admin \ {p}   \* git worktree prune
              /\ UNCHANGED <<ref, disk, head, work, db, open, masked>>
           \/ /\ ref[p] # 0 /\ \A c \in Checkout : head[c] # p   \* git branch -D
              /\ ref' = [ref EXCEPT ![p] = 0]
              /\ UNCHANGED <<head, disk, admin, work, db, open, masked>>
           \/ /\ ref[p] # 0 /\ p \notin disk \cup admin      \* git worktree add
              /\ \A c \in Checkout : head[c] # p
              /\ disk' = disk \cup {p} /\ admin' = admin \cup {p}
              /\ head' = [head EXCEPT ![p] = p]
              /\ work' = [work EXCEPT ![p] = TreeOf(ref[p])]
              /\ UNCHANGED <<ref, db, open, masked>>
        /\ cmd' = Touch(p, None)
    /\ UNCHANGED <<history, lost, live>>

-----------------------------------------------------------------------------
(* the commands *)

Begin(k, op, p, at, their) ==
    /\ cmd[k].at = "idle" /\ used.commands < MaxCommands
    /\ used' = [used EXCEPT !.commands = @ + 1]
    /\ cmd' = [cmd EXCEPT ![k] = [Idle EXCEPT !.op = op, !.name = p, !.at = at, !.their = their]]
    /\ UNCHANGED <<git, rest, work, db>>

At(k, op, step) == cmd[k].op = op /\ cmd[k].at = step

\* A command that refuses, fails or is done says so and ends.
Ends(k, c) == cmd' = [Touch(c, k) EXCEPT ![k] = Idle]
Goes(k, step, c) == cmd' = [Touch(c, k) EXCEPT ![k].at = step]
\* The default branch is moved: what the merge knew of it before is out of scope.
Moved(k) == cmd' = [Touch(Main, k) EXCEPT ![k].at = "sync", ![k].mine = 0, ![k].seen = 0]
Refuses(k) ==
    /\ cmd' = [cmd EXCEPT ![k] = Idle]
    /\ UNCHANGED <<git, rest, work, db, used>>

\* Mutant: no freshness gate.
StartChecksStale(k, p) ==
    /\ Clean(Main) /\ ref[p] = 0 /\ p \notin admin \cup disk
    /\ Begin(k, "start", p, "heal", 0)

\* project start: a clean main checkout, nothing of the name, a fresh scan.
StartChecks(k, p) ==
    /\ Clean(Main) /\ ref[p] = 0 /\ p \notin admin \cup disk
    /\ Fresh(Main)
    /\ Begin(k, "start", p, "heal", 0)

\* A .gitignore that does not cover the layout is completed and committed.
StartHeal(k) ==
    /\ At(k, "start", "heal")
    /\ IF work[Main].ignores
       THEN /\ Goes(k, "add", None)
            /\ UNCHANGED <<history, ref, work>>
       ELSE /\ Len(history) < MaxCommits
            /\ work' = [work EXCEPT ![Main].ignores = TRUE]
            /\ history' = Committed({HeadOf(Main)}, [TreeOf(HeadOf(Main)) EXCEPT !.ignores = TRUE])
            /\ ref' = [ref EXCEPT ![head[Main]] = Len(history')]
            /\ cmd' = [Touch(Main, k) EXCEPT ![k].at = "add", ![k].healed = TRUE]
    /\ UNCHANGED <<head, disk, admin, lost, rest, db, used>>

\* git worktree add: the branch at the main checkout's commit, and its worktree.
StartAdd(k) ==
    LET p == cmd[k].name IN
    /\ At(k, "start", "add")
    /\ IF ref[p] # 0 \/ p \in admin \cup disk
       THEN Refuses(k)
       ELSE /\ ref' = [ref EXCEPT ![p] = HeadOf(Main)]
            /\ admin' = admin \cup {p} /\ disk' = disk \cup {p}
            /\ head' = [head EXCEPT ![p] = p]
            /\ work' = [work EXCEPT ![p] = TreeOf(HeadOf(Main))]
            /\ Goes(k, "copy", p)
            /\ UNCHANGED <<history, lost, rest, db, used>>

\* copy_trans_artifacts: the main checkout's database as it is now.
StartCopy(k) ==
    LET p == cmd[k].name IN
    /\ At(k, "start", "copy")
    /\ IF p \in disk
       THEN /\ db' = [db EXCEPT ![p] = db[Main]]
            /\ masked' = IF Main \in masked THEN masked \cup {p} ELSE masked \ {p}
            /\ Ends(k, p)
            /\ UNCHANGED <<git, work, live, open, used>>
       ELSE Refuses(k)

\* project merge, as far as it looks before it waits for the worktree's lock.
\* The branch is resolved here and not again.
MergeChecks(k, p) ==
    /\ head[Main] = Default /\ ref[p] # 0 /\ p \in disk /\ head[p] = p
    /\ Clean(Main)
    /\ p \notin live /\ db[p] # None
    /\ Begin(k, "merge", p, "verify", ref[p])

\* Mutant: is_stale not asked.
MergeVerifyStale(k) ==
    LET p == cmd[k].name IN
    /\ At(k, "merge", "verify") /\ p \notin live
    /\ IF p \in disk /\ head[p] = p /\ p \notin open
       THEN Goes(k, "strength", None) /\ UNCHANGED <<git, rest, work, db, used>>
       ELSE Refuses(k)

\* plan_verify_at, under the lock a live session holds: membership, a fresh
\* database, no feedback open.
MergeVerify(k) ==
    LET p == cmd[k].name IN
    /\ At(k, "merge", "verify") /\ p \notin live
    /\ IF p \in disk /\ head[p] = p /\ Fresh(p) /\ p \notin open
       THEN Goes(k, "strength", None) /\ UNCHANGED <<git, rest, work, db, used>>
       ELSE Refuses(k)

\* merge_strength_check: what the specification claims is code that was scanned.
MergeStrength(k) ==
    LET p == cmd[k].name IN
    /\ At(k, "merge", "strength") /\ p \notin live
    /\ IF p \in disk /\ db[p] # None /\ work[p].spec <= db[p].of.code
       THEN Goes(k, "read", None) /\ UNCHANGED <<git, rest, work, db, used>>
       ELSE Refuses(k)

\* The best common ancestor, and a field of the merged tree.
MergeBase(a, b) ==
    LET common == Past(a) \cap Past(b)
    IN  CHOOSE x \in common : \A y \in common : Cardinality(Past(y)) <= Cardinality(Past(x))
Conflicts(a, b, base) == \E f \in DOMAIN First :
    /\ TreeOf(a)[f] # TreeOf(base)[f] /\ TreeOf(b)[f] # TreeOf(base)[f]
    /\ TreeOf(a)[f] # TreeOf(b)[f]
Pick(x, y, z) == IF x = z THEN y ELSE x
Merged(a, b, base) ==
    [code    |-> Pick(TreeOf(a).code, TreeOf(b).code, TreeOf(base).code),
     spec    |-> Pick(TreeOf(a).spec, TreeOf(b).spec, TreeOf(base).spec),
     ignores |-> Pick(TreeOf(a).ignores, TreeOf(b).ignores, TreeOf(base).ignores)]

\* Mutant: a fast-forward without the merge-base test.
MergeReadForced(k) ==
    LET mine == HeadOf(Main)  their == cmd[k].their IN
    /\ At(k, "merge", "read")
    /\ IF their = mine THEN Refuses(k)
       ELSE /\ cmd' = [cmd EXCEPT ![k].at = "look", ![k].mine = mine]
            /\ UNCHANGED <<git, rest, work, db, used>>

\* HEAD, the merge base and the merge in memory: the project's commit is ahead of
\* the default branch, or is merged with it, or conflicts.
MergeRead(k) ==
    LET mine == HeadOf(Main)  their == cmd[k].their
        ahead == mine \in Past(their)
    IN
    /\ At(k, "merge", "read")
    /\ IF their = mine \/ (~ahead /\ Conflicts(mine, their, MergeBase(mine, their)))
       THEN Refuses(k)
       ELSE /\ cmd' = [cmd EXCEPT ![k].at = IF ahead THEN "look" ELSE "commit",
                                  ![k].mine = mine]
            /\ UNCHANGED <<git, rest, work, db, used>>

\* find_reference: the default branch as it is by now.
MergeLook(k) ==
    /\ At(k, "merge", "look")
    /\ cmd' = [cmd EXCEPT ![k].at = "set", ![k].seen = ref[Default]]
    /\ UNCHANGED <<git, rest, work, db, used>>

\* set_target: refused when the reference is not where it was looked up; where
\* HEAD was read is not asked again.
MergeSet(k) ==
    LET their == cmd[k].their IN
    /\ At(k, "merge", "set")
    /\ IF ref[Default] # cmd[k].seen
       THEN Refuses(k)
       ELSE /\ ref' = [ref EXCEPT ![Default] = their]
            /\ lost' = lost \cup (Past(ref[Default]) \ Past(their))
            /\ Moved(k)
            /\ UNCHANGED <<history, head, disk, admin, rest, work, db, used>>

\* Mutant: the merge commit leaves out the project's commit as a parent.
MergeCommitSquashed(k) ==
    LET mine == cmd[k].mine  their == cmd[k].their IN
    /\ At(k, "merge", "commit")
    /\ IF HeadOf(Main) # mine
       THEN Refuses(k)
       ELSE /\ Len(history) < MaxCommits
            /\ history' = Committed({mine}, Merged(mine, their, MergeBase(mine, their)))
            /\ ref' = [ref EXCEPT ![head[Main]] = Len(history')]
            /\ Moved(k)
            /\ UNCHANGED <<head, disk, admin, lost, rest, work, db, used>>

\* repo.commit on HEAD: refused when HEAD is no longer its first parent.
MergeCommit(k) ==
    LET mine == cmd[k].mine  their == cmd[k].their IN
    /\ At(k, "merge", "commit")
    /\ IF HeadOf(Main) # mine
       THEN Refuses(k)
       ELSE /\ Len(history) < MaxCommits
            /\ history' = Committed({mine, their}, Merged(mine, their, MergeBase(mine, their)))
            /\ ref' = [ref EXCEPT ![head[Main]] = Len(history')]
            /\ Moved(k)
            /\ UNCHANGED <<head, disk, admin, lost, rest, work, db, used>>

\* checkout_head, forced: main's files are those of its commit as it is by now.
MergeSync(k) ==
    /\ At(k, "merge", "sync")
    /\ work' = [work EXCEPT ![Main] = TreeOf(HeadOf(Main))]
    /\ Goes(k, "rebuild", Main)
    /\ UNCHANGED <<git, rest, db, used>>

\* Mutant: a rebuild that fails does not stop the command.
MergeRebuildBestEffort(k) ==
    /\ At(k, "merge", "rebuild")
    /\ db' = IF Scannable(Main) THEN [db EXCEPT ![Main] = Scanned(Main)] ELSE db
    /\ Goes(k, "prune", Main)
    /\ UNCHANGED <<git, rest, work, used>>

\* The main rebuild.
MergeRebuild(k) ==
    /\ At(k, "merge", "rebuild")
    /\ IF Scannable(Main)
       THEN /\ db' = IF Fresh(Main) THEN db ELSE [db EXCEPT ![Main] = Scanned(Main)]
            /\ Goes(k, "prune", Main)
            /\ UNCHANGED <<git, rest, work, used>>
       ELSE Refuses(k)

\* project delete.  It asks git for changes, and nobody for a session.
DeleteChecks(k, p) ==
    /\ head[Main] # p /\ ref[p] # 0 /\ p \in disk /\ head[p] = p
    /\ Clean(p)
    /\ Begin(k, "delete", p, "prune", 0)

\* Mutant: the directory goes, its registration with git stays.
RemoveWorktreeUnpruned(k) ==
    LET p == cmd[k].name IN
    /\ cmd[k].at = "prune"
    /\ Goes(k, "drop", p)
    /\ disk' = disk \ {p} /\ head' = [head EXCEPT ![p] = None]
    /\ work' = [work EXCEPT ![p] = First] /\ db' = [db EXCEPT ![p] = None]
    /\ live' = live \ {p} /\ open' = open \ {p} /\ masked' = masked \ {p}
    /\ UNCHANGED <<history, ref, lost, used, admin>>

\* remove_worktree: registration and directory, nothing when not registered.
\* With the directory goes all of apg/.trans: what a session has not saved, the
\* plan and the feedback.
RemoveWorktree(k) ==
    LET p == cmd[k].name IN
    /\ cmd[k].at = "prune"
    /\ Goes(k, "drop", p)
    /\ IF p \in admin
       THEN /\ admin' = admin \ {p} /\ disk' = disk \ {p}
            /\ head' = [head EXCEPT ![p] = None]
            /\ work' = [work EXCEPT ![p] = First] /\ db' = [db EXCEPT ![p] = None]
            /\ live' = live \ {p} /\ open' = open \ {p} /\ masked' = masked \ {p}
       ELSE UNCHANGED <<admin, disk, head, work, db, rest>>
    /\ UNCHANGED <<history, ref, lost, used>>

\* delete_branch: git refuses one that is checked out somewhere.
DeleteBranch(k) ==
    LET p == cmd[k].name IN
    /\ cmd[k].at = "drop"
    /\ IF \E c \in Checkout : head[c] = p
       THEN Refuses(k)
       ELSE /\ ref' = [ref EXCEPT ![p] = 0]
            /\ Ends(k, p)
            /\ UNCHANGED <<history, head, disk, admin, lost, rest, work, db, used>>

\* A git call, a scan or a copy that fails, or a kill.
Fails(k) ==
    /\ cmd[k].at # "idle" /\ used.faults < MaxFaults
    /\ used' = [used EXCEPT !.faults = @ + 1]
    /\ cmd' = [cmd EXCEPT ![k] = Idle]
    /\ UNCHANGED <<git, rest, work, db>>

Command(k) ==
    \/ \E p \in Project : StartChecks(k, p) \/ MergeChecks(k, p) \/ DeleteChecks(k, p)
    \/ StartHeal(k) \/ StartAdd(k) \/ StartCopy(k)
    \/ MergeVerify(k) \/ MergeStrength(k)
    \/ MergeRead(k) \/ MergeLook(k) \/ MergeSet(k) \/ MergeCommit(k) \/ MergeSync(k)
    \/ MergeRebuild(k)
    \/ RemoveWorktree(k) \/ DeleteBranch(k)

Next ==
    \/ \E k \in Cmd : Command(k) \/ Fails(k)
    \/ \E c \in Checkout : Edit(c) \/ CommitByHand(c) \/ Scan(c)
    \/ \E b \in Branch : Switch(b)
    \/ \E p \in Project : SessionStart(p) \/ SessionSave(p) \/ SessionEnd(p) \/ Review(p)
    \/ Repair

Spec == Init /\ [][Next]_vars

-----------------------------------------------------------------------------
(* properties *)

Did(k, op, step) == At(k, op, step) /\ cmd'[k].at # step /\ used' = used

\* A fast-forward is overtaken when the default branch moved after HEAD was read
\* and before the reference was looked up: it sets what it never compared.
Overtakes(k) == Did(k, "merge", "set") /\ cmd'[k].at = "sync" /\ cmd[k].mine # ref[Default]

\* The default branch loses no commit, whatever commands, people and failures
\* overlap, but to an overtaken fast-forward.
DefaultOnlyGrows ==
    [][Past(ref[Default]) \subseteq history'[ref'[Default]].past
       \/ \E k \in Cmd : Overtakes(k)]_vars

\* A database that reads as fresh was built of the files of its checkout, unless
\* a save re-anchored it over code that was edited after the scan.
FreshIsTheTree ==
    \A c \in Checkout \ masked : Fresh(c) => Shows(db[c].of, work[c])

\* freshness-fast-path-cannot-mask-divergence: the freshness check accepts only a
\* database of the current tree.
FreshNeverMasks == \A c \in Checkout : Fresh(c) => Shows(db[c].of, work[c])

\* What a merge brings to the default branch claims no code it does not have: as
\* long as nobody worked in the worktree meanwhile, all of it is committed, and no
\* save re-anchored the worktree's database over code that was not scanned.  With
\* such a save the claims pass the gates unread (FreshNeverMasks).
MergedClaimsAreCode ==
    [][\A k \in Cmd : LET p == cmd[k].name IN
        /\ Did(k, "merge", "set") \/ Did(k, "merge", "commit")
        /\ cmd'[k].at = "sync" /\ ~cmd[k].touched /\ p \notin masked /\ Clean(p)
        => TreeOf(cmd[k].their).spec <= TreeOf(cmd[k].their).code]_vars

\* A merge removes a worktree only when the main database was rebuilt with the
\* project in it, or an overtaken fast-forward has thrown the project out of the
\* default branch; a failure before leaves the project as it is.
RebuiltBeforeCleanup ==
    [][\A k \in Cmd : Did(k, "merge", "prune") /\ cmd'[k].at = "drop"
        => db[Main] # None /\ cmd[k].their \in Past(db[Main].sha) \cup lost]_vars

\* A merge deletes a branch whose every commit is in the default branch, unless
\* someone worked in the worktree meanwhile, or an overtaken fast-forward took it
\* out again.
MergedBeforeDropped ==
    [][\A k \in Cmd : LET p == cmd[k].name IN
        Did(k, "merge", "drop") /\ ref[p] # 0 /\ ref'[p] = 0 /\ ~cmd[k].touched
        => ref[p] \in Past(ref[Default]) \cup lost]_vars

\* A project is whole or is not there: directory, registration and branch come and
\* go together, whichever starts, merges and deletes of one name overlap, step by
\* step; to make a worktree is one step, and to remove it one.  Only
\* between the two last steps of a command is there a branch without a worktree,
\* and only a failure, a kill or a repair by hand leaves one: no command would take
\* it up again.
ProjectsWhole ==
    used.faults = 0 => \A p \in Project :
        /\ p \in disk <=> p \in admin
        /\ p \in disk => ref[p] # 0
        /\ ref[p] # 0 => p \in disk \/ \E k \in Cmd : cmd[k].name = p /\ cmd[k].at = "drop"

\* A started worktree has a fresh database without a scan, unless start had to
\* commit a .gitignore or main was moved on meanwhile.
StartedIsFresh ==
    [][\A k \in Cmd : LET p == cmd[k].name IN
        Did(k, "start", "copy") /\ p \in disk /\ ~cmd[k].touched /\ ~cmd[k].healed
        => db'[p] # None /\ db'[p].sha = HeadOf(p) /\ db'[p].key = work[p]]_vars
=============================================================================
