------------------------ MODULE ProjectLifecycleProofs ------------------------
(***************************************************************************)
(* For any projects, commands, versions and histories.  On branches: only  *)
(* an overtaken fast-forward takes commits from the default branch, and    *)
(* but for those a merge removes a worktree after main was rebuilt with it *)
(* and deletes a branch when it is merged; histories are closed under      *)
(* ancestors.  On checkouts: a fresh database is of the files, a merge     *)
(* brings no claim without its code and a start gives a fresh database,    *)
(* each with its exceptions; a command that nobody disturbs may count on   *)
(* what it read.  On names: without faults a project is whole or gone.     *)
(***************************************************************************)
EXTENDS ProjectLifecycle, TLAPS

Ids == 1 .. Len(history)

\* Ancestors of ancestors are ancestors, and a commit is its own.
PastClosed == \A i \in Ids :
    /\ Past(i) \subseteq Ids /\ i \in Past(i)
    /\ \A j \in Past(i) : Past(j) \subseteq Past(i)

\* The main checkout and the default branch are always at some commit, and a
\* database names one; main has a database, and a session has one.
Anchored ==
    /\ head[Main] \in Branch /\ ref[head[Main]] \in Ids /\ ref[Default] \in Ids
    /\ \A c \in Checkout : db[c] # None => db[c].sha \in Ids
    /\ db[Main] # None /\ \A p \in live : db[p] # None

Merging(k) == cmd[k].op = "merge" /\ cmd[k].at # "idle"

\* What a command counts on: a merge has the main checkout on the default branch,
\* and unless the project was touched its branch is the commit the merge took; a
\* fast-forward is one of the default branch as it was read; once the default
\* branch is moved the project is in it for good, and once main is rebuilt in
\* main's database, unless an overtaken fast-forward took it out.
CommandOK(k) ==
    /\ cmd[k].at # "idle" => cmd[k].name \in Project
    /\ Merging(k) =>
         /\ head[Main] = Default /\ cmd[k].their \in Ids
         /\ ~cmd[k].touched => ref[cmd[k].name] \in {0, cmd[k].their}
         /\ cmd[k].at \in {"look", "set"} => cmd[k].mine \in Past(cmd[k].their)
         /\ cmd[k].at \in {"sync", "rebuild", "prune", "drop"} =>
              cmd[k].their \in Past(ref[Default]) \cup lost
         /\ cmd[k].at = "prune" =>
              db[Main] # None /\ cmd[k].their \in Past(db[Main].sha) \cup lost
CommandsOK == \A k \in Cmd : CommandOK(k)

IInv == TypeOK /\ PastClosed /\ Anchored /\ CommandsOK

-----------------------------------------------------------------------------
(* lemmas on commits and on commands *)

Grows ==
    /\ history' \in Seq(Commits) /\ Len(history) \in Nat /\ Len(history') \in Nat
    /\ Len(history) <= Len(history')
    /\ \A i \in Ids : history'[i] = history[i]
    /\ PastClosed'

LEMMA SameGrows ==
    ASSUME TypeOK, PastClosed, UNCHANGED history
    PROVE  Grows
BY DEF TypeOK, Grows, PastClosed, Ids, Past

LEMMA OneMore ==
    ASSUME NEW n \in Nat
    PROVE  /\ 0 .. n \subseteq 0 .. (n + 1) /\ 1 .. n \subseteq 1 .. (n + 1)
           /\ n + 1 \in 0 .. (n + 1) /\ n + 1 # 0
OBVIOUS

LEMMA CommitGrows ==
    ASSUME TypeOK, PastClosed, NEW parents \in SUBSET Ids, NEW t \in Tree,
           history' = Committed(parents, t)
    PROVE  /\ Grows
           /\ Len(history') = Len(history) + 1 /\ Len(history') \in Ids'
           /\ \A i \in parents : Past(i) \subseteq history'[Len(history')].past
           /\ history'[Len(history')].tree = t
<1> DEFINE n == Len(history) + 1
           new == [past |-> {n} \cup (UNION {Past(p) : p \in parents}), tree |-> t]
<1>1. history \in Seq(Commits) /\ Len(history) \in Nat
  BY DEF TypeOK
<1>2. \A i \in Ids : Past(i) \subseteq Nat
  BY <1>1 DEF PastClosed, Ids
<1>3. new \in Commits
  BY <1>1, <1>2 DEF Commits
<1>4. history' = Append(history, new)
  BY DEF Committed
<1>5. /\ history' \in Seq(Commits) /\ Len(history') = n
      /\ \A i \in Ids : history'[i] = history[i]
      /\ history'[n] = new
  BY <1>1, <1>3, <1>4 DEF Ids
<1>6. Ids' = Ids \cup {n} /\ n \notin Ids
  BY <1>1, <1>5 DEF Ids
<1>7. PastClosed'
  <2> SUFFICES ASSUME NEW i \in Ids'
               PROVE  /\ Past(i)' \subseteq Ids' /\ i \in Past(i)'
                      /\ \A j \in Past(i)' : Past(j)' \subseteq Past(i)'
    BY DEF PastClosed
  <2>1. CASE i \in Ids
    BY <2>1, <1>5, <1>6 DEF PastClosed, Past
  <2>2. CASE i = n
    <3>1. Past(i)' = {n} \cup (UNION {Past(p) : p \in parents})
      BY <2>2, <1>5 DEF Past
    <3>2. Past(i)' \subseteq Ids'
      BY <3>1, <1>6 DEF PastClosed
    <3>3. ASSUME NEW j \in Past(i)' PROVE Past(j)' \subseteq Past(i)'
      <4>1. CASE j = n
        BY <4>1, <2>2
      <4>2. CASE j # n
        <5>1. PICK p \in parents : j \in Past(p)
          BY <4>2, <3>1, <3>3
        <5>2. j \in Ids /\ Past(j) \subseteq Past(p)
          BY <5>1 DEF PastClosed
        <5>3. Past(j)' = Past(j)
          BY <5>2, <1>5 DEF Past
        <5> QED BY <5>1, <5>2, <5>3, <3>1
      <4> QED BY <4>1, <4>2
    <3> QED BY <3>1, <3>2, <3>3, <2>2
  <2> QED BY <2>1, <2>2, <1>6
<1> QED BY <1>1, <1>5, <1>6, <1>7 DEF Grows

\* Touching changes nothing of a command but the mark.
LEMMA TouchIsTyped ==
    ASSUME TypeOK, NEW c, NEW by
    PROVE  /\ Touch(c, by) \in [Cmd -> CommandStates]
           /\ \A k \in Cmd :
                /\ Touch(c, by)[k].op = cmd[k].op /\ Touch(c, by)[k].name = cmd[k].name
                /\ Touch(c, by)[k].at = cmd[k].at /\ Touch(c, by)[k].their = cmd[k].their
                /\ Touch(c, by)[k].mine = cmd[k].mine
                /\ ~Touch(c, by)[k].touched =>
                     /\ ~cmd[k].touched
                     /\ k # by /\ cmd[k].at # "idle" => cmd[k].name # c
<1> SUFFICES ASSUME NEW k \in Cmd
             PROVE  /\ Touch(c, by)[k] \in CommandStates
                    /\ Touch(c, by)[k].op = cmd[k].op /\ Touch(c, by)[k].name = cmd[k].name
                    /\ Touch(c, by)[k].at = cmd[k].at /\ Touch(c, by)[k].their = cmd[k].their
                    /\ Touch(c, by)[k].mine = cmd[k].mine
                    /\ ~Touch(c, by)[k].touched =>
                         /\ ~cmd[k].touched
                         /\ k # by /\ cmd[k].at # "idle" => cmd[k].name # c
  BY DEF Touch
<1>1. cmd[k] \in CommandStates
  BY DEF TypeOK
<1>2. Touch(c, by)[k] = [cmd[k] EXCEPT !.touched = TRUE]
      \/ (Touch(c, by)[k] = cmd[k] /\ (k # by /\ cmd[k].at # "idle" => cmd[k].name # c))
  BY DEF Touch
<1>3. CASE Touch(c, by)[k] = [cmd[k] EXCEPT !.touched = TRUE]
  BY <1>1, <1>3 DEF CommandStates
<1>4. CASE Touch(c, by)[k] = cmd[k] /\ (k # by /\ cmd[k].at # "idle" => cmd[k].name # c)
  BY <1>1, <1>4
<1> QED BY <1>2, <1>3, <1>4

-----------------------------------------------------------------------------
(* the invariant *)

LEMMA IInvInit == Init => IInv
<1> SUFFICES ASSUME Init PROVE IInv
  OBVIOUS
<1> USE ProjectAssumption
<1>1. Len(history) = 1 /\ history[1] = [past |-> {1}, tree |-> First] /\ Ids = {1}
  BY DEF Init, Ids
<1>2. history \in Seq(Commits)
  BY <1>1 DEF Init, Commits, Tree
<1>3. TypeOK
  BY <1>1, <1>2 DEF Init, TypeOK, Branch, Checkout, Tree, Database, CommandStates, Idle, Step
<1>4. PastClosed /\ Anchored
  <2>1. [sha |-> 1, key |-> First, of |-> First] \in Database
    BY DEF Database
  <2>2. db[Main] # None
    BY <2>1 DEF Init, Checkout
  <2> QED BY <1>1, <2>2 DEF Init, PastClosed, Anchored, Past, Branch, Checkout
<1>5. CommandsOK
  BY DEF Init, CommandsOK, CommandOK, Merging, Idle
<1> QED BY <1>3, <1>4, <1>5 DEF IInv

\* What a step may do to the default branch.
DefaultGrows ==
    /\ lost \subseteq lost'
    /\ \/ Past(ref[Default]) \subseteq history'[ref'[Default]].past
       \/ /\ \E k \in Cmd : Overtakes(k)
          /\ Past(ref[Default]) \subseteq history'[ref'[Default]].past \cup lost'

\* A command that someone else's step leaves at its place, with what it may count
\* on.
LEMMA Onlooker ==
    ASSUME IInv, Grows, DefaultGrows, Anchored', NEW k \in Cmd,
           cmd'[k].op = cmd[k].op, cmd'[k].name = cmd[k].name,
           cmd'[k].at = cmd[k].at, cmd'[k].their = cmd[k].their, cmd'[k].mine = cmd[k].mine,
           Merging(k) => head'[Main] = head[Main],
           Merging(k) /\ ~cmd'[k].touched =>
               ~cmd[k].touched /\ ref'[cmd[k].name] \in {0, ref[cmd[k].name]},
           \/ db'[Main] = db[Main]
           \/ db'[Main] # None /\ Past(ref[Default]) \subseteq history'[db'[Main].sha].past
    PROVE  CommandOK(k)'
<1>1. CommandOK(k) /\ (Merging(k)' <=> Merging(k))
  BY DEF IInv, CommandsOK, Merging
<1>2. \A i \in Ids : i \in Ids' /\ Past(i)' = Past(i)
  BY DEF Grows, Ids, Past
<1>3. cmd[k].at # "idle" => cmd'[k].name \in Project
  BY <1>1 DEF CommandOK
<1>4. ASSUME Merging(k)
      PROVE  /\ head'[Main] = Default /\ cmd'[k].their \in Ids'
             /\ ~cmd'[k].touched => ref'[cmd'[k].name] \in {0, cmd'[k].their}
             /\ cmd'[k].at \in {"look", "set"} => cmd'[k].mine \in Past(cmd[k].their)'
             /\ cmd'[k].at \in {"sync", "rebuild", "prune", "drop"} =>
                  cmd'[k].their \in Past(ref[Default])' \cup lost'
             /\ cmd'[k].at = "prune" =>
                  db'[Main] # None /\ cmd'[k].their \in Past(db[Main].sha)' \cup lost'
  <2>1. head'[Main] = Default /\ cmd'[k].their \in Ids'
    BY <1>1, <1>2, <1>4 DEF CommandOK
  <2>2. ~cmd'[k].touched => ref'[cmd'[k].name] \in {0, cmd'[k].their}
    BY <1>1, <1>4 DEF CommandOK
  <2>0. cmd'[k].at \in {"look", "set"} => cmd'[k].mine \in Past(cmd[k].their)'
    <3>1. cmd[k].their \in Ids /\ Past(cmd[k].their)' = Past(cmd[k].their)
      BY <1>1, <1>2, <1>4 DEF CommandOK, Past
    <3> QED BY <1>1, <1>4, <3>1 DEF CommandOK
  <2>3. cmd'[k].at \in {"sync", "rebuild", "prune", "drop"} =>
          cmd'[k].their \in Past(ref[Default])' \cup lost'
    BY <1>1, <1>4 DEF CommandOK, DefaultGrows, Past
  <2>4. ASSUME cmd'[k].at = "prune"
        PROVE  db'[Main] # None /\ cmd'[k].their \in Past(db[Main].sha)' \cup lost'
    <3>1. /\ db[Main] # None /\ cmd[k].their \in Past(db[Main].sha) \cup lost
          /\ cmd[k].their \in Past(ref[Default]) \cup lost /\ lost \subseteq lost'
      BY <1>1, <1>4, <2>4 DEF CommandOK, DefaultGrows
    <3>2. db[Main].sha \in Ids
      BY <3>1 DEF IInv, Anchored, Checkout
    <3> QED BY <3>1, <3>2, <1>2 DEF Past
  <2> QED BY <2>0, <2>1, <2>2, <2>3, <2>4
<1> QED BY <1>1, <1>3, <1>4 DEF CommandOK

\* A step that leaves history, branches and main's database alone.
LEMMA Quiet ==
    ASSUME IInv, TypeOK', UNCHANGED <<history, ref, head, db, lost>>, NEW c,
           \A p \in live' : db[p] # None,
           cmd' = Touch(c, None)
    PROVE  IInv' /\ DefaultGrows
<1>1. Grows /\ DefaultGrows
  BY SameGrows DEF IInv, DefaultGrows, Past
<1>2. Anchored'
  BY DEF IInv, Anchored, Ids
<1>3. \A k \in Cmd : CommandOK(k)'
  BY <1>1, <1>2, Onlooker, TouchIsTyped DEF IInv
<1> QED BY <1>1, <1>2, <1>3 DEF IInv, Grows, CommandsOK

UsedType == [commands : 0 .. MaxCommands, edits : 0 .. MaxEdits, faults : 0 .. MaxFaults]

LEMMA Counts ==
    ASSUME TypeOK
    PROVE  /\ used \in UsedType
           /\ used.edits < MaxEdits => [used EXCEPT !.edits = @ + 1] \in UsedType
           /\ used.faults < MaxFaults => [used EXCEPT !.faults = @ + 1] \in UsedType
           /\ used.commands < MaxCommands => [used EXCEPT !.commands = @ + 1] \in UsedType
<1>1. used \in UsedType
  BY DEF TypeOK, UsedType
<1>2. /\ MaxCommands \in Nat /\ MaxEdits \in Nat /\ MaxFaults \in Nat
      /\ used.commands \in 0 .. MaxCommands /\ used.edits \in 0 .. MaxEdits
      /\ used.faults \in 0 .. MaxFaults
  BY <1>1, ProjectAssumption DEF UsedType
<1>3. used.edits < MaxEdits => used.edits + 1 \in 0 .. MaxEdits
  BY <1>2
<1>4. used.faults < MaxFaults => used.faults + 1 \in 0 .. MaxFaults
  BY <1>2
<1>5. used.commands < MaxCommands => used.commands + 1 \in 0 .. MaxCommands
  BY <1>2
<1>6. used.edits < MaxEdits => [used EXCEPT !.edits = @ + 1] \in UsedType
  BY <1>1, <1>3 DEF UsedType
<1>7. used.faults < MaxFaults => [used EXCEPT !.faults = @ + 1] \in UsedType
  BY <1>1, <1>4 DEF UsedType
<1>8. used.commands < MaxCommands => [used EXCEPT !.commands = @ + 1] \in UsedType
  BY <1>1, <1>5 DEF UsedType
<1> QED BY <1>1, <1>6, <1>7, <1>8

\* The states of commands over a longer history.
LEMMA StatesGrow == Grows => CommandStates \subseteq CommandStates'
BY DEF Grows, CommandStates

LEMMA EditKeeps == ASSUME IInv, NEW c \in Checkout, Edit(c) PROVE IInv' /\ DefaultGrows
<1>1. /\ UNCHANGED <<history, ref, head, disk, admin, live, open, masked, db, lost>>
      /\ cmd' = Touch(c, None) /\ used' = [used EXCEPT !.edits = @ + 1]
      /\ used.edits < MaxEdits
  BY DEF Edit, git, rest
<1>2. work \in [Checkout -> Tree] /\ work[c] \in Tree
  BY DEF IInv, TypeOK
<1>3. work' \in [Checkout -> Tree]
  <2>1. CASE \E v \in Version \ {work[c].code} : work' = [work EXCEPT ![c].code = v]
    BY <1>2, <2>1 DEF Tree
  <2>2. CASE c = Main /\ work' = [work EXCEPT ![Main].ignores = ~@]
    BY <1>2, <2>2 DEF Tree
  <2> QED BY <2>1, <2>2 DEF Edit
<1>4. TypeOK'
  BY <1>1, <1>3, Counts, TouchIsTyped DEF IInv, TypeOK, CommandStates, UsedType
<1>5. \A q \in live' : db[q] # None
  BY <1>1 DEF IInv, Anchored
<1> QED BY <1>1, <1>4, <1>5, Quiet

LEMMA SessionStartKeeps ==
    ASSUME IInv, NEW p \in Project, SessionStart(p) PROVE IInv' /\ DefaultGrows
<1>1. UNCHANGED <<history, ref, head, db, lost>> /\ cmd' = Touch(p, None)
  BY DEF SessionStart, git
<1>2. TypeOK'
  BY TouchIsTyped DEF SessionStart, git, IInv, TypeOK, CommandStates
<1>4. \A q \in live' : db[q] # None
  BY DEF SessionStart, IInv, Anchored
<1> QED BY <1>1, <1>2, <1>4, Quiet

LEMMA SessionEndKeeps ==
    ASSUME IInv, NEW p \in Project, SessionEnd(p) PROVE IInv' /\ DefaultGrows
<1>1. UNCHANGED <<history, ref, head, db, lost>> /\ cmd' = Touch(p, None)
  BY DEF SessionEnd, git
<1>2. TypeOK'
  BY TouchIsTyped DEF SessionEnd, git, IInv, TypeOK, CommandStates
<1>4. \A q \in live' : db[q] # None
  BY DEF SessionEnd, IInv, Anchored
<1> QED BY <1>1, <1>2, <1>4, Quiet

LEMMA ReviewKeeps ==
    ASSUME IInv, NEW p \in Project, Review(p) PROVE IInv' /\ DefaultGrows
<1>1. UNCHANGED <<history, ref, head, db, lost>> /\ cmd' = Touch(p, None)
  BY DEF Review, git
<1>2. used' \in UsedType
  BY Counts DEF Review, IInv
<1>3. TypeOK'
  BY <1>2, TouchIsTyped DEF Review, git, IInv, TypeOK, CommandStates, UsedType
<1>4. \A q \in live' : db[q] # None
  BY DEF Review, IInv, Anchored
<1> QED BY <1>1, <1>3, <1>4, Quiet

LEMMA CommitsAreTyped ==
    ASSUME TypeOK, NEW i \in Ids PROVE history[i] \in Commits /\ TreeOf(i) \in Tree
<1>1. history[i] \in Commits
  BY DEF TypeOK, Ids
<1> QED BY <1>1 DEF Commits, TreeOf

\* The commit a checkout that is there holds.
LEMMA HeadIsACommit ==
    ASSUME IInv, NEW c \in Checkout, c = Main \/ c \in disk
    PROVE  /\ head[c] \in Branch /\ HeadOf(c) \in Ids
           /\ work[c] \in Tree /\ TreeOf(HeadOf(c)) \in Tree
           /\ Len(history) \in Nat /\ history \in Seq(Commits)
<1>1. head[c] \in Branch /\ HeadOf(c) \in Ids
  BY DEF IInv, Anchored, TypeOK, Branch, Checkout, HeadOf, Ids
<1>2. work[c] \in Tree /\ history \in Seq(Commits) /\ Len(history) \in Nat
  BY DEF IInv, TypeOK
<1>3. TreeOf(HeadOf(c)) \in Tree
  BY <1>1, CommitsAreTyped DEF IInv
<1> QED BY <1>1, <1>2, <1>3

LEMMA ScanKeeps == ASSUME IInv, NEW c \in Checkout, Scan(c) PROVE IInv' /\ DefaultGrows
<1>1. /\ UNCHANGED <<history, ref, head, disk, admin, work, live, open, used, lost>>
      /\ cmd' = Touch(c, None) /\ db' = [db EXCEPT ![c] = Scanned(c)]
      /\ masked' \subseteq masked
      /\ c = Main \/ c \in disk
  BY DEF Scan, git
<1>2. HeadOf(c) \in Ids /\ work[c] \in Tree
  BY <1>1, HeadIsACommit
<1>3. Scanned(c) \in Database /\ Scanned(c).sha = HeadOf(c)
  BY <1>2, HeadIsACommit, <1>1 DEF Scanned, Database, Ids
<1>4. TypeOK'
  BY <1>1, <1>3, TouchIsTyped DEF IInv, TypeOK, CommandStates
<1>5. Grows /\ DefaultGrows
  BY <1>1, SameGrows DEF IInv, DefaultGrows, Past
<1>6. Anchored'
  <2>1. \A d \in Checkout : d = c \/ db'[d] = db[d]
    BY <1>1 DEF IInv, TypeOK
  <2>2. db'[c] = Scanned(c) /\ Scanned(c) # None
    BY <1>1, <1>3, ProjectAssumption DEF IInv, TypeOK
  <2>3. live \subseteq Checkout /\ Main \in Checkout
    BY DEF IInv, TypeOK, Checkout
  <2> QED BY <1>1, <1>2, <1>3, <2>1, <2>2, <2>3 DEF IInv, Anchored, Ids
<1>7. ASSUME NEW k \in Cmd PROVE CommandOK(k)'
  <2>1. db'[Main] = db[Main] \/ (c = Main /\ db'[Main] = Scanned(Main))
    BY <1>1 DEF IInv, TypeOK, Checkout
  <2>2. CASE Merging(k)
    <3>1. head[Main] = Default
      BY <2>2 DEF IInv, CommandsOK, CommandOK
    <3>2. \/ db'[Main] = db[Main]
          \/ db'[Main] # None /\ Past(ref[Default]) \subseteq history'[db'[Main].sha].past
      BY <1>1, <1>3, <2>1, <3>1, ProjectAssumption DEF HeadOf, Past
    <3> QED BY <1>1, <1>5, <1>6, <3>2, Onlooker, TouchIsTyped DEF IInv
  <2>3. CASE ~Merging(k)
    BY <1>1, <1>5, <2>3, TouchIsTyped DEF IInv, CommandsOK, CommandOK, Merging
  <2> QED BY <2>2, <2>3
<1> QED BY <1>4, <1>5, <1>6, <1>7 DEF IInv, Grows, CommandsOK

LEMMA SwitchKeeps == ASSUME IInv, NEW b \in Branch, Switch(b) PROVE IInv' /\ DefaultGrows
<1>1. /\ UNCHANGED <<history, ref, disk, admin, live, open, masked, db, cmd, used, lost>>
      /\ head' = [head EXCEPT ![Main] = b] /\ work' = [work EXCEPT ![Main] = TreeOf(ref[b])]
      /\ ref[b] # 0 /\ \A k \in Cmd : cmd[k].at = "idle"
  BY DEF Switch, git, rest
<1>2. ref[b] \in Ids
  BY <1>1 DEF IInv, TypeOK, Ids
<1>3. TreeOf(ref[b]) \in Tree
  BY <1>2, CommitsAreTyped DEF IInv
<1>4. TypeOK'
  <2>1. head' \in [Checkout -> Branch \cup {None}] /\ work' \in [Checkout -> Tree]
    BY <1>1, <1>3 DEF IInv, TypeOK
  <2>2. \A p \in Project : head'[p] = head[p]
    BY <1>1, ProjectAssumption DEF IInv, TypeOK, Checkout
  <2> QED BY <1>1, <2>1, <2>2 DEF IInv, TypeOK, CommandStates
<1>5. Grows /\ DefaultGrows
  BY <1>1, SameGrows DEF IInv, DefaultGrows, Past
<1>6. Anchored'
  BY <1>1, <1>2 DEF IInv, TypeOK, Anchored, Ids, Checkout
<1>7. CommandsOK'
  BY <1>1 DEF CommandsOK, CommandOK, Merging
<1> QED BY <1>4, <1>5, <1>6, <1>7 DEF IInv, Grows

\* A commit on the branch a checkout holds, by someone else than the command.
LEMMA CommitKeeps ==
    ASSUME IInv, NEW c \in Checkout, c = Main \/ c \in disk, NEW t \in Tree, NEW by,
           history' = Committed({HeadOf(c)}, t),
           ref' = [ref EXCEPT ![head[c]] = Len(history')],
           UNCHANGED head,
           UNCHANGED <<live, lost>>, \A p \in live : db'[p] # None,
           \/ UNCHANGED db
           \/ c # Main /\ \E d \in Database : d.sha = Len(history') /\ db' = [db EXCEPT ![c] = d]
    PROVE  /\ Grows /\ DefaultGrows /\ Anchored'
           /\ ref' \in [Branch -> 0 .. Len(history')]
           /\ Len(history') \in Ids' /\ Len(history') # 0
           /\ \A k \in Cmd : /\ cmd'[k].op = cmd[k].op /\ cmd'[k].name = cmd[k].name
                             /\ cmd'[k].at = cmd[k].at /\ cmd'[k].their = cmd[k].their
                             /\ cmd'[k].mine = cmd[k].mine
                             /\ ~cmd'[k].touched => ~cmd[k].touched
                                  /\ (cmd[k].at # "idle" /\ Merging(k) => cmd[k].name # c)
                  => CommandOK(k)'
<1>1. head[c] \in Branch /\ HeadOf(c) \in Ids
  BY HeadIsACommit
<1>2. /\ Grows /\ Len(history') = Len(history) + 1 /\ Len(history') \in Ids'
      /\ Past(HeadOf(c)) \subseteq history'[Len(history')].past
  <2>1. {HeadOf(c)} \in SUBSET Ids
    BY <1>1
  <2> QED BY <2>1, CommitGrows DEF IInv
<1>3. /\ ref' \in [Branch -> 0 .. Len(history')] /\ Len(history') # 0
      /\ Ids \subseteq Ids'
  <2>1. /\ Len(history) \in Nat /\ Len(history') = Len(history) + 1
        /\ ref \in [Branch -> 0 .. Len(history)]
    BY <1>2 DEF IInv, TypeOK, Grows
  <2>2. 0 .. Len(history) \subseteq 0 .. Len(history') /\ Len(history') \in 0 .. Len(history')
        /\ Len(history') # 0 /\ Ids \subseteq Ids'
    BY <2>1, OneMore DEF Ids
  <2> QED BY <2>1, <2>2
<1>4. \A b \in Branch : ref'[b] = IF b = head[c] THEN Len(history') ELSE ref[b]
  BY <1>1 DEF IInv, TypeOK
<1>5. DefaultGrows
  <2>1. CASE head[c] = Default
    BY <1>2, <1>4, <2>1 DEF DefaultGrows, HeadOf, Branch
  <2>2. CASE head[c] # Default
    <3>1. ref'[Default] = ref[Default] /\ ref[Default] \in Ids
      BY <1>4, <2>2 DEF Branch, IInv, Anchored
    <3> QED BY <1>2, <3>1 DEF DefaultGrows, Grows, Past
  <2> QED BY <2>1, <2>2
<1>6. Anchored'
  <2>1. head'[Main] \in Branch /\ ref'[head'[Main]] \in Ids' /\ ref'[Default] \in Ids'
    BY <1>2, <1>3, <1>4 DEF IInv, Anchored, Branch
  <2>2. \A d \in Checkout : db'[d] # None => db'[d].sha \in Ids'
    <3>1. CASE UNCHANGED db
      BY <1>3, <3>1 DEF IInv, Anchored
    <3>2. CASE \E d \in Database : d.sha = Len(history') /\ db' = [db EXCEPT ![c] = d]
      BY <1>2, <1>3, <3>2 DEF IInv, Anchored, TypeOK
    <3> QED BY <3>1, <3>2
  <2>3. db'[Main] # None
    BY DEF IInv, Anchored, TypeOK, Checkout
  <2> QED BY <2>1, <2>2, <2>3 DEF Anchored
<1>7. ASSUME NEW k \in Cmd,
             cmd'[k].op = cmd[k].op, cmd'[k].name = cmd[k].name,
             cmd'[k].at = cmd[k].at, cmd'[k].their = cmd[k].their, cmd'[k].mine = cmd[k].mine,
             ~cmd'[k].touched => ~cmd[k].touched
                  /\ (cmd[k].at # "idle" /\ Merging(k) => cmd[k].name # c)
      PROVE  CommandOK(k)'
  <2>1. db'[Main] = db[Main]
    BY DEF IInv, TypeOK, Checkout
  <2>2. ASSUME Merging(k), ~cmd'[k].touched
        PROVE  ~cmd[k].touched /\ ref'[cmd[k].name] \in {0, ref[cmd[k].name]}
    <3>1. cmd[k].name \in Project /\ cmd[k].name # c /\ head[Main] = Default /\ ~cmd[k].touched
      BY <1>7, <2>2 DEF IInv, CommandsOK, CommandOK, Merging
    <3>2. head[c] = Default \/ head[c] = c
      BY <3>1 DEF IInv, TypeOK, Checkout
    <3>3. head[c] # cmd[k].name /\ cmd[k].name \in Branch
      BY <3>1, <3>2, ProjectAssumption DEF Branch
    <3> QED BY <1>4, <3>1, <3>3
  <2> QED BY <1>2, <1>5, <1>6, <1>7, <2>1, <2>2, Onlooker
<1> QED BY <1>2, <1>3, <1>5, <1>6, <1>7

LEMMA CommitByHandKeeps ==
    ASSUME IInv, NEW c \in Checkout, CommitByHand(c) PROVE IInv' /\ DefaultGrows
<1>1. /\ c = Main \/ c \in disk
      /\ history' = Committed({HeadOf(c)}, work[c])
      /\ ref' = [ref EXCEPT ![head[c]] = Len(history')]
      /\ cmd' = Touch(c, None)
      /\ UNCHANGED <<head, disk, admin, live, open, masked, work, db, used, lost>>
  BY DEF CommitByHand, rest
<1>0. \A p \in live : db'[p] # None
  BY <1>1 DEF IInv, Anchored
<1>2. work[c] \in Tree
  BY <1>1, HeadIsACommit
<1>3. /\ Grows /\ DefaultGrows /\ Anchored'
      /\ ref' \in [Branch -> 0 .. Len(history')] /\ Len(history') # 0
  BY <1>0, <1>1, <1>2, CommitKeeps
<1>4. \A p \in disk : ref'[p] # 0
  BY <1>1, <1>3, HeadIsACommit DEF IInv, TypeOK, Branch
<1>5. TypeOK'
  <2>1. cmd' \in [Cmd -> CommandStates']
    BY <1>1, <1>3, TouchIsTyped, StatesGrow DEF IInv
  <2>2. history' \in Seq(Commits)
    BY <1>3 DEF Grows
  <2>3. \A p \in Project : IF p \in disk' THEN head'[p] = p /\ ref'[p] # 0 ELSE head'[p] = None
    BY <1>1, <1>4 DEF IInv, TypeOK
  <2> QED BY <1>1, <1>3, <2>1, <2>2, <2>3 DEF IInv, TypeOK
<1>6. ASSUME NEW k \in Cmd PROVE CommandOK(k)'
  <2>1. /\ cmd'[k].op = cmd[k].op /\ cmd'[k].name = cmd[k].name
        /\ cmd'[k].at = cmd[k].at /\ cmd'[k].their = cmd[k].their
        /\ cmd'[k].mine = cmd[k].mine
        /\ ~cmd'[k].touched =>
             ~cmd[k].touched /\ (cmd[k].at # "idle" /\ k # None => cmd[k].name # c)
    BY <1>1, TouchIsTyped DEF IInv
  <2> QED BY <1>0, <1>1, <1>2, <2>1, CommitKeeps, ProjectAssumption
<1> QED BY <1>3, <1>5, <1>6 DEF IInv, Grows, CommandsOK

LEMMA SessionSaveKeeps ==
    ASSUME IInv, NEW p \in Project, SessionSave(p) PROVE IInv' /\ DefaultGrows
<1>1. PICK v \in Version :
        /\ history' = Committed({HeadOf(p)}, [TreeOf(HeadOf(p)) EXCEPT !.spec = v])
        /\ ref' = [ref EXCEPT ![head[p]] = Len(history')]
        /\ work' = [work EXCEPT ![p].spec = v]
        /\ db' = [db EXCEPT ![p] = [sha |-> Len(history'), key |-> work'[p],
                                    of |-> [db[p].of EXCEPT !.spec = v]]]
  BY DEF SessionSave
<1>2. /\ p \in live /\ p \in disk /\ p \in Checkout /\ p # Main /\ db[p] # None
      /\ cmd' = Touch(p, None) /\ masked' \subseteq masked \cup {p}
      /\ UNCHANGED <<head, disk, admin, live, open, used, lost>>
  BY ProjectAssumption DEF SessionSave, IInv, Anchored, TypeOK, Checkout
<1>3. /\ TreeOf(HeadOf(p)) \in Tree /\ work[p] \in Tree /\ head[p] = p /\ HeadOf(p) \in Ids
  BY <1>2, HeadIsACommit DEF IInv, TypeOK
<1>4. [TreeOf(HeadOf(p)) EXCEPT !.spec = v] \in Tree /\ [work[p] EXCEPT !.spec = v] \in Tree
  BY <1>3 DEF Tree
<1>5. db[p] \in Database /\ db[p].of \in Tree
  BY <1>2 DEF IInv, TypeOK, Database
<1>6. [db[p].of EXCEPT !.spec = v] \in Tree
  BY <1>5 DEF Tree
<1>7. work' \in [Checkout -> Tree] /\ work'[p] \in Tree
  BY <1>1, <1>2, <1>4 DEF IInv, TypeOK
<1> DEFINE d == [sha |-> Len(history'), key |-> work'[p], of |-> [db[p].of EXCEPT !.spec = v]]
<1>8. Grows /\ Len(history') \in Nat
  <2>1. {HeadOf(p)} \in SUBSET Ids
    BY <1>3
  <2> QED BY <1>1, <1>4, <2>1, CommitGrows DEF IInv, Grows
<1>9. d \in Database /\ d.sha = Len(history') /\ db' = [db EXCEPT ![p] = d]
  BY <1>1, <1>6, <1>7, <1>8 DEF Database
<1>10. \A q \in live : ([db EXCEPT ![p] = d])[q] # None
  BY <1>2, <1>9, ProjectAssumption DEF IInv, TypeOK, Anchored, Checkout
<1>11. /\ DefaultGrows /\ Anchored'
       /\ ref' \in [Branch -> 0 .. Len(history')] /\ Len(history') # 0
  BY <1>1, <1>2, <1>4, <1>9, <1>10, CommitKeeps
<1>12. TypeOK'
  <2>1. cmd' \in [Cmd -> CommandStates']
    BY <1>2, <1>8, TouchIsTyped, StatesGrow DEF IInv
  <2>2. history' \in Seq(Commits)
    BY <1>8 DEF Grows
  <2>3. \A q \in Project : IF q \in disk' THEN head'[q] = q /\ ref'[q] # 0 ELSE head'[q] = None
    BY <1>1, <1>2, <1>3, <1>11 DEF IInv, TypeOK, Branch
  <2>4. db' \in [Checkout -> Database \cup {None}]
    BY <1>9 DEF IInv, TypeOK
  <2>5. masked' \subseteq Checkout
    BY <1>2 DEF IInv, TypeOK
  <2> QED BY <1>2, <1>7, <1>11, <2>1, <2>2, <2>3, <2>4, <2>5 DEF IInv, TypeOK
<1>13. ASSUME NEW k \in Cmd PROVE CommandOK(k)'
  <2>1. /\ cmd'[k].op = cmd[k].op /\ cmd'[k].name = cmd[k].name
        /\ cmd'[k].at = cmd[k].at /\ cmd'[k].their = cmd[k].their
        /\ cmd'[k].mine = cmd[k].mine
        /\ ~cmd'[k].touched =>
             ~cmd[k].touched /\ (cmd[k].at # "idle" /\ k # None => cmd[k].name # p)
    BY <1>2, TouchIsTyped DEF IInv
  <2> QED BY <1>1, <1>2, <1>4, <1>9, <1>10, <2>1, CommitKeeps, ProjectAssumption
<1> QED BY <1>8, <1>11, <1>12, <1>13 DEF IInv, Grows, CommandsOK

LEMMA RepairKeeps == ASSUME IInv, Repair PROVE IInv' /\ DefaultGrows
<1>1. PICK p \in Project :
        /\ \/ /\ p \in disk \ live
              /\ disk' = disk \ {p} /\ head' = [head EXCEPT ![p] = None]
              /\ work' = [work EXCEPT ![p] = First] /\ db' = [db EXCEPT ![p] = None]
              /\ open' = open \ {p} /\ masked' = masked \ {p}
              /\ UNCHANGED <<ref, admin>>
           \/ /\ p \in admin \ disk /\ admin' = admin \ {p}
              /\ UNCHANGED <<ref, disk, head, work, db, open, masked>>
           \/ /\ ref[p] # 0 /\ \A c \in Checkout : head[c] # p
              /\ ref' = [ref EXCEPT ![p] = 0]
              /\ UNCHANGED <<head, disk, admin, work, db, open, masked>>
           \/ /\ ref[p] # 0 /\ p \notin disk \cup admin
              /\ \A c \in Checkout : head[c] # p
              /\ disk' = disk \cup {p} /\ admin' = admin \cup {p}
              /\ head' = [head EXCEPT ![p] = p]
              /\ work' = [work EXCEPT ![p] = TreeOf(ref[p])]
              /\ UNCHANGED <<ref, db, open, masked>>
        /\ cmd' = Touch(p, None)
  BY DEF Repair
<1>2. UNCHANGED <<history, live, lost>> /\ used' \in UsedType
  BY Counts DEF Repair, IInv
<1>3. p # Main /\ p # Default /\ p \in Checkout /\ p \in Branch /\ Main \in Checkout
      /\ Default \in Branch /\ First \in Tree /\ live \subseteq Project
  BY ProjectAssumption DEF Checkout, Branch, IInv, TypeOK
<1>4. Grows /\ (\A i \in Ids : Past(i)' = Past(i)) /\ Ids' = Ids
  BY <1>2, SameGrows DEF IInv, Past, Ids
<1>5. head'[Main] = head[Main] /\ db'[Main] = db[Main] /\ ref'[Default] = ref[Default]
  BY <1>1, <1>3 DEF IInv, TypeOK
<1>6. DefaultGrows
  BY <1>2, <1>5 DEF DefaultGrows, Past
<1>7. \A b \in Branch : ref'[b] = ref[b] \/ (b = p /\ ref'[b] = 0 /\ \A c \in Checkout : head[c] # p)
  BY <1>1, <1>3 DEF IInv, TypeOK
<1>8. \A c \in Checkout : db'[c] = db[c] \/ (c = p /\ db'[c] = None /\ p \notin live)
  BY <1>1, <1>3 DEF IInv, TypeOK
<1>9. Anchored'
  <2>1. head'[Main] \in Branch /\ ref'[head'[Main]] \in Ids' /\ ref'[Default] \in Ids'
    BY <1>3, <1>4, <1>5, <1>7 DEF IInv, Anchored
  <2>2. \A c \in Checkout : db'[c] # None => db'[c].sha \in Ids'
    BY <1>4, <1>8 DEF IInv, Anchored
  <2>3. db'[Main] # None /\ \A q \in live' : db'[q] # None
    BY <1>2, <1>3, <1>5, <1>8 DEF IInv, Anchored, Checkout
  <2> QED BY <2>1, <2>2, <2>3 DEF Anchored
<1>10. TypeOK'
  <2>1. cmd' \in [Cmd -> CommandStates']
    BY <1>1, <1>4, TouchIsTyped, StatesGrow DEF IInv
  <2>2. ref' \in [Branch -> 0 .. Len(history')] /\ history' \in Seq(Commits)
    <3>1. 0 \in 0 .. Len(history)
      BY DEF IInv, TypeOK
    <3> QED BY <1>1, <1>2, <3>1 DEF IInv, TypeOK
  <2>3. head' \in [Checkout -> Branch \cup {None}] /\ db' \in [Checkout -> Database \cup {None}]
    <3>1. /\ head \in [Checkout -> Branch \cup {None}] /\ db \in [Checkout -> Database \cup {None}]
          /\ p \in Branch \cup {None} /\ None \in Branch \cup {None}
          /\ None \in Database \cup {None}
      BY <1>3 DEF IInv, TypeOK
    <3>2. head' = head \/ head' = [head EXCEPT ![p] = None] \/ head' = [head EXCEPT ![p] = p]
      BY <1>1
    <3>3. db' = db \/ db' = [db EXCEPT ![p] = None]
      BY <1>1
    <3>4. head' \in [Checkout -> Branch \cup {None}]
      BY <3>1, <3>2
    <3>5. db' \in [Checkout -> Database \cup {None}]
      BY <3>1, <3>3
    <3> QED BY <3>4, <3>5
  <2>4. work' \in [Checkout -> Tree]
    <3>1. work \in [Checkout -> Tree]
      BY DEF IInv, TypeOK
    <3>2. ref[p] # 0 => TreeOf(ref[p]) \in Tree
      BY <1>3, CommitsAreTyped DEF IInv, TypeOK, Ids
    <3>3. \/ work' = work \/ work' = [work EXCEPT ![p] = First]
          \/ ref[p] # 0 /\ work' = [work EXCEPT ![p] = TreeOf(ref[p])]
      BY <1>1
    <3> QED BY <1>3, <3>1, <3>2, <3>3
  <2>5. disk' \subseteq Project /\ admin' \subseteq Project /\ live' \subseteq disk'
        /\ open' \subseteq Project /\ masked' \subseteq Checkout
    BY <1>1, <1>2 DEF IInv, TypeOK
  <2>6. \A q \in Project : IF q \in disk' THEN head'[q] = q /\ ref'[q] # 0 ELSE head'[q] = None
    <3> TAKE q \in Project
    <3>1. q \in Checkout /\ q \in Branch
      BY DEF Checkout, Branch
    <3>2. CASE q # p
      BY <1>1, <1>3, <3>1, <3>2 DEF IInv, TypeOK
    <3>3. CASE q = p
      BY <1>1, <1>3, <3>1, <3>3 DEF IInv, TypeOK
    <3> QED BY <3>2, <3>3
  <2>7. lost' \subseteq Nat
    BY <1>2 DEF IInv, TypeOK
  <2> QED BY <1>2, <2>1, <2>2, <2>3, <2>4, <2>5, <2>6, <2>7 DEF TypeOK, UsedType
<1>11. ASSUME NEW k \in Cmd PROVE CommandOK(k)'
  <2>1. Merging(k) => cmd[k].name \in Branch
    BY DEF IInv, CommandsOK, CommandOK, Merging, Branch
  <2>2. /\ cmd'[k].op = cmd[k].op /\ cmd'[k].name = cmd[k].name
        /\ cmd'[k].at = cmd[k].at /\ cmd'[k].their = cmd[k].their
        /\ cmd'[k].mine = cmd[k].mine
        /\ ~cmd'[k].touched => ~cmd[k].touched
    BY <1>1, TouchIsTyped DEF IInv
  <2> QED BY <1>4, <1>5, <1>6, <1>7, <1>9, <2>1, <2>2, Onlooker
<1> QED BY <1>4, <1>6, <1>9, <1>10, <1>11 DEF IInv, Grows, CommandsOK

-----------------------------------------------------------------------------
(* the steps of a command *)

\* The commands but k keep their places; those on c, or copying from it, are marked.
Others(k, c) == \A j \in Cmd \ {k} :
    /\ cmd'[j].op = cmd[j].op /\ cmd'[j].name = cmd[j].name
    /\ cmd'[j].at = cmd[j].at /\ cmd'[j].their = cmd[j].their
    /\ cmd'[j].mine = cmd[j].mine
    /\ ~cmd'[j].touched => ~cmd[j].touched /\ (cmd[j].at # "idle" => cmd[j].name # c)

LEMMA Turns ==
    ASSUME IInv, NEW c, NEW k \in Cmd, NEW s \in CommandStates,
           \/ cmd' = [Touch(c, k) EXCEPT ![k] = s]
           \/ c = None /\ cmd' = [cmd EXCEPT ![k] = s]
    PROVE  cmd' \in [Cmd -> CommandStates] /\ cmd'[k] = s /\ Others(k, c)
<1>1. cmd \in [Cmd -> CommandStates] /\ Touch(c, k) \in [Cmd -> CommandStates]
  BY TouchIsTyped DEF IInv, TypeOK
<1>2. cmd' \in [Cmd -> CommandStates] /\ cmd'[k] = s
  BY <1>1
<1>3. ASSUME NEW j \in Cmd \ {k}
      PROVE  /\ cmd'[j].op = cmd[j].op /\ cmd'[j].name = cmd[j].name
             /\ cmd'[j].at = cmd[j].at /\ cmd'[j].their = cmd[j].their
             /\ cmd'[j].mine = cmd[j].mine
             /\ ~cmd'[j].touched => ~cmd[j].touched /\ (cmd[j].at # "idle" => cmd[j].name # c)
  <2>1. CASE cmd' = [Touch(c, k) EXCEPT ![k] = s]
    <3>1. cmd'[j] = Touch(c, k)[j] /\ j \in Cmd /\ j # k
      BY <1>1, <2>1
    <3> QED BY <3>1, TouchIsTyped DEF IInv
  <2>2. CASE c = None /\ cmd' = [cmd EXCEPT ![k] = s]
    <3>1. cmd'[j] = cmd[j]
      BY <1>1, <2>2
    <3> QED BY <3>1, <2>2, ProjectAssumption DEF IInv, CommandsOK, CommandOK
  <2> QED BY <2>1, <2>2
<1> QED BY <1>2, <1>3 DEF Others

LEMMA Advances ==
    ASSUME IInv, NEW c, NEW k \in Cmd, NEW step \in Step, Goes(k, step, c)
    PROVE  /\ cmd' \in [Cmd -> CommandStates] /\ Others(k, c)
           /\ cmd'[k].op = cmd[k].op /\ cmd'[k].name = cmd[k].name /\ cmd'[k].at = step
           /\ cmd'[k].their = cmd[k].their /\ cmd'[k].touched = cmd[k].touched
<1> DEFINE s == [cmd[k] EXCEPT !.at = step]
<1>1. cmd[k] \in CommandStates
  BY DEF IInv, TypeOK
<1>2. s \in CommandStates
  BY <1>1 DEF CommandStates
<1>3. Touch(c, k) \in [Cmd -> CommandStates]
  BY TouchIsTyped DEF IInv
<1>4. cmd' = [Touch(c, k) EXCEPT ![k] = s]
  <2>1. Touch(c, k)[k] = cmd[k]
    BY DEF Touch
  <2> QED BY <1>3, <2>1 DEF Goes
<1>5. cmd' \in [Cmd -> CommandStates] /\ cmd'[k] = s /\ Others(k, c)
  BY <1>2, <1>4, Turns
<1> QED BY <1>1, <1>5 DEF CommandStates

LEMMA IdleIsTyped == ASSUME IInv PROVE Idle \in CommandStates
BY DEF IInv, TypeOK, Idle, CommandStates, Step

\* What is left to show of a step of k.
LEMMA StepOf ==
    ASSUME IInv, TypeOK', Grows, DefaultGrows, Anchored', NEW c, NEW k \in Cmd,
           Others(k, c), CommandOK(k)', head'[Main] = head[Main],
           \A j \in Cmd : Merging(j) /\ cmd[j].name # c =>
               ref'[cmd[j].name] \in {0, ref[cmd[j].name]},
           \/ db'[Main] = db[Main]
           \/ db'[Main] # None
              /\ ((\E j \in Cmd : Merging(j)) => Past(ref[Default]) \subseteq history'[db'[Main].sha].past)
    PROVE  IInv' /\ DefaultGrows
<1>1. ASSUME NEW j \in Cmd, j # k PROVE CommandOK(j)'
  <2>1. /\ cmd'[j].op = cmd[j].op /\ cmd'[j].name = cmd[j].name
        /\ cmd'[j].at = cmd[j].at /\ cmd'[j].their = cmd[j].their
        /\ cmd'[j].mine = cmd[j].mine
        /\ ~cmd'[j].touched => ~cmd[j].touched /\ (cmd[j].at # "idle" => cmd[j].name # c)
    BY <1>1 DEF Others
  <2>2. CASE Merging(j)
    BY <2>1, <2>2, Onlooker DEF Merging
  <2>3. CASE ~Merging(j)
    BY <2>1, <2>3 DEF IInv, CommandsOK, CommandOK, Merging
  <2> QED BY <2>2, <2>3
<1> QED BY <1>1 DEF IInv, Grows, CommandsOK

\* A step of k that changes nothing but the commands and the count of them.
LEMMA CommandOnly ==
    ASSUME IInv, NEW c, NEW k \in Cmd,
           UNCHANGED <<history, ref, head, disk, admin, work, db, live, open, masked, lost>>,
           used' \in UsedType, cmd' \in [Cmd -> CommandStates], Others(k, c), CommandOK(k)'
    PROVE  IInv' /\ DefaultGrows
<1>1. TypeOK'
  BY DEF IInv, TypeOK, CommandStates, UsedType
<1>2. Grows /\ DefaultGrows /\ Anchored'
  BY SameGrows DEF IInv, DefaultGrows, Past, Anchored, Ids
<1> QED BY <1>1, <1>2, StepOf

LEMMA EndsWell == ASSUME NEW k \in Cmd, cmd'[k] = Idle PROVE CommandOK(k)'
BY DEF CommandOK, Merging, Idle

LEMMA RefusesKeeps == ASSUME IInv, NEW k \in Cmd, Refuses(k) PROVE IInv' /\ DefaultGrows
<1>1. /\ UNCHANGED <<history, ref, head, disk, admin, work, db, live, open, masked, lost>>
      /\ UNCHANGED used /\ cmd' = [cmd EXCEPT ![k] = Idle]
  BY DEF Refuses, git, rest
<1>2. cmd' \in [Cmd -> CommandStates] /\ cmd'[k] = Idle /\ Others(k, None)
  BY <1>1, Turns, IdleIsTyped
<1>3. used' \in UsedType
  BY <1>1, Counts DEF IInv
<1> QED BY <1>1, <1>2, <1>3, EndsWell, CommandOnly

LEMMA FailsKeeps == ASSUME IInv, NEW k \in Cmd, Fails(k) PROVE IInv' /\ DefaultGrows
<1>1. /\ UNCHANGED <<history, ref, head, disk, admin, work, db, live, open, masked, lost>>
      /\ cmd' = [cmd EXCEPT ![k] = Idle]
  BY DEF Fails, git, rest
<1>2. cmd' \in [Cmd -> CommandStates] /\ cmd'[k] = Idle /\ Others(k, None)
  BY <1>1, Turns, IdleIsTyped
<1>3. used' \in UsedType
  BY Counts DEF Fails, IInv
<1> QED BY <1>1, <1>2, <1>3, EndsWell, CommandOnly

\* The three checks that begin a command.
LEMMA BeginKeeps ==
    ASSUME IInv, NEW k \in Cmd, NEW op \in {"start", "merge", "delete"}, NEW p \in Project,
           NEW at \in {"heal", "verify", "prune"}, NEW their \in 0 .. Len(history),
           Begin(k, op, p, at, their),
           op = "merge" => head[Main] = Default /\ at = "verify" /\ their = ref[p] /\ ref[p] # 0
    PROVE  IInv' /\ DefaultGrows
<1> DEFINE s == [Idle EXCEPT !.op = op, !.name = p, !.at = at, !.their = their]
<1>1. /\ UNCHANGED <<history, ref, head, disk, admin, work, db, live, open, masked, lost>>
      /\ cmd' = [cmd EXCEPT ![k] = s]
  BY DEF Begin, git, rest
<1>2. Idle \in CommandStates /\ Idle.touched = FALSE
  BY IdleIsTyped DEF Idle
<1>3. s \in CommandStates
  BY <1>2 DEF CommandStates, Step
<1>7. s.op = op /\ s.name = p /\ s.at = at /\ s.their = their /\ s.touched = FALSE
  BY <1>2 DEF CommandStates
<1>4. cmd' \in [Cmd -> CommandStates] /\ cmd'[k] = s /\ Others(k, None)
  BY <1>1, <1>3, Turns
<1>5. CommandOK(k)'
  <2>1. their # 0 => their \in Ids
    BY DEF IInv, TypeOK, Ids
  <2>2. Ids' = Ids /\ ref' = ref /\ head' = head
    BY <1>1 DEF Ids
  <2> QED BY <1>7, <1>4, <2>1, <2>2 DEF CommandOK, Merging
<1>6. used' \in UsedType
  BY Counts DEF Begin, IInv
<1> QED BY <1>1, <1>4, <1>5, <1>6, CommandOnly

LEMMA ChecksKeep ==
    ASSUME IInv, NEW k \in Cmd, NEW p \in Project,
           StartChecks(k, p) \/ MergeChecks(k, p) \/ DeleteChecks(k, p)
    PROVE  IInv' /\ DefaultGrows
<1>1. 0 \in 0 .. Len(history) /\ ref[p] \in 0 .. Len(history)
  BY DEF IInv, TypeOK, Branch
<1>2. CASE StartChecks(k, p)
  BY <1>1, <1>2, BeginKeeps DEF StartChecks
<1>3. CASE MergeChecks(k, p)
  BY <1>1, <1>3, BeginKeeps DEF MergeChecks
<1>4. CASE DeleteChecks(k, p)
  BY <1>1, <1>4, BeginKeeps DEF DeleteChecks
<1> QED BY <1>2, <1>3, <1>4

\* A merge's gates change nothing but where it is.
LEMMA GatesKeep ==
    ASSUME IInv, NEW k \in Cmd, MergeVerify(k) \/ MergeStrength(k)
    PROVE  IInv' /\ DefaultGrows
<1>1. CASE Refuses(k)
  BY <1>1, RefusesKeeps
<1>2. CASE ~Refuses(k)
  <2>1. PICK step \in {"strength", "read"} : Goes(k, step, None)
    BY <1>2 DEF MergeVerify, MergeStrength
  <2>2. /\ UNCHANGED <<history, ref, head, disk, admin, work, db, live, open, masked, lost>>
        /\ UNCHANGED used /\ cmd[k].op = "merge" /\ cmd[k].at # "idle"
    BY <1>2 DEF MergeVerify, MergeStrength, At, git, rest
  <2>3. /\ cmd' \in [Cmd -> CommandStates] /\ Others(k, None)
        /\ cmd'[k].op = cmd[k].op /\ cmd'[k].name = cmd[k].name /\ cmd'[k].at = step
        /\ cmd'[k].their = cmd[k].their /\ cmd'[k].touched = cmd[k].touched
    <3>1. step \in Step
      BY DEF Step
    <3> QED BY <2>1, <3>1, Advances
  <2>4. CommandOK(k)'
    BY <2>2, <2>3 DEF IInv, CommandsOK, CommandOK, Merging, Ids
  <2>5. used' \in UsedType
    BY <2>2, Counts DEF IInv
  <2> QED BY <2>2, <2>3, <2>4, <2>5, CommandOnly
<1> QED BY <1>1, <1>2

LEMMA StartHealKeeps ==
    ASSUME IInv, NEW k \in Cmd, StartHeal(k) PROVE IInv' /\ DefaultGrows
<1>1. /\ cmd[k].op = "start" /\ cmd[k].at = "heal" /\ cmd[k].name \in Project
      /\ UNCHANGED <<head, disk, admin, live, open, masked, db, used, lost>>
  BY DEF StartHeal, At, rest, IInv, CommandsOK, CommandOK
<1>2. CASE work[Main].ignores
  <2>1. Goes(k, "add", None) /\ UNCHANGED <<history, ref, work>>
    BY <1>2 DEF StartHeal
  <2>2. /\ cmd' \in [Cmd -> CommandStates] /\ Others(k, None)
        /\ cmd'[k].op = cmd[k].op /\ cmd'[k].name = cmd[k].name
    <3>1. "add" \in Step
      BY DEF Step
    <3> QED BY <2>1, <3>1, Advances
  <2>3. CommandOK(k)'
    BY <1>1, <2>2 DEF CommandOK, Merging
  <2>4. used' \in UsedType
    BY <1>1, Counts DEF IInv
  <2> QED BY <1>1, <2>1, <2>2, <2>3, <2>4, CommandOnly
<1>3. CASE ~work[Main].ignores
  <2> DEFINE t == [TreeOf(HeadOf(Main)) EXCEPT !.ignores = TRUE]
             s == [cmd[k] EXCEPT !.at = "add", !.healed = TRUE]
  <2>1. /\ work' = [work EXCEPT ![Main].ignores = TRUE]
        /\ history' = Committed({HeadOf(Main)}, t)
        /\ ref' = [ref EXCEPT ![head[Main]] = Len(history')]
        /\ cmd' = [Touch(Main, k) EXCEPT ![k].at = "add", ![k].healed = TRUE]
    BY <1>3 DEF StartHeal
  <2>2. /\ Main \in Checkout /\ head[Main] \in Branch /\ work[Main] \in Tree
        /\ TreeOf(HeadOf(Main)) \in Tree
    BY HeadIsACommit DEF Checkout
  <2>3. t \in Tree /\ [work[Main] EXCEPT !.ignores = TRUE] \in Tree
    BY <2>2 DEF Tree
  <2>4. \A p \in live : db'[p] # None
    BY <1>1 DEF IInv, Anchored
  <2>5. /\ Grows /\ DefaultGrows /\ Anchored'
        /\ ref' \in [Branch -> 0 .. Len(history')] /\ Len(history') # 0
    BY <1>1, <2>1, <2>2, <2>3, <2>4, CommitKeeps
  <2>6. cmd' \in [Cmd -> CommandStates] /\ cmd'[k] = s /\ Others(k, Main)
    <3>1. cmd[k] \in CommandStates
      BY DEF IInv, TypeOK
    <3>2. s \in CommandStates
      BY <3>1 DEF CommandStates, Step
    <3>3. Touch(Main, k) \in [Cmd -> CommandStates]
      BY TouchIsTyped DEF IInv
    <3>4. Touch(Main, k)[k] = cmd[k]
      BY DEF Touch
    <3>5. cmd' = [Touch(Main, k) EXCEPT ![k] = s]
      BY <2>1, <3>3, <3>4
    <3> QED BY <3>2, <3>5, Turns
  <2>7. TypeOK'
    <3>1. cmd' \in [Cmd -> CommandStates']
      BY <2>5, <2>6, StatesGrow
    <3>2. work' \in [Checkout -> Tree] /\ history' \in Seq(Commits)
      BY <2>1, <2>2, <2>3, <2>5 DEF IInv, TypeOK, Grows
    <3>3. \A p \in disk : ref'[p] # 0
      BY <2>1, <2>2, <2>5 DEF IInv, TypeOK, Branch
    <3>4. \A p \in Project : IF p \in disk' THEN head'[p] = p /\ ref'[p] # 0 ELSE head'[p] = None
      BY <1>1, <3>3 DEF IInv, TypeOK
    <3> QED BY <1>1, <2>5, <3>1, <3>2, <3>4 DEF IInv, TypeOK
  <2>8. CommandOK(k)'
    <3>1. cmd[k] \in CommandStates
      BY DEF IInv, TypeOK
    <3>2. cmd'[k].op = "start" /\ cmd'[k].name = cmd[k].name
      BY <1>1, <2>6, <3>1 DEF CommandStates
    <3> QED BY <1>1, <3>2 DEF CommandOK, Merging
  <2>9. ASSUME NEW j \in Cmd, Merging(j) PROVE ref'[cmd[j].name] \in {0, ref[cmd[j].name]}
    <3>1. cmd[j].name \in Branch /\ cmd[j].name # head[Main]
      BY <2>9, ProjectAssumption DEF IInv, CommandsOK, CommandOK, Merging, Branch
    <3>2. ref \in [Branch -> 0 .. Len(history)]
      BY DEF IInv, TypeOK
    <3> QED BY <2>1, <3>1, <3>2
  <2> QED BY <1>1, <2>5, <2>6, <2>7, <2>8, <2>9, StepOf
<1> QED BY <1>2, <1>3

LEMMA StartAddKeeps ==
    ASSUME IInv, NEW k \in Cmd, StartAdd(k) PROVE IInv' /\ DefaultGrows
<1>1. CASE Refuses(k)
  BY <1>1, RefusesKeeps
<1>2. CASE ~Refuses(k)
  <2> DEFINE p == cmd[k].name
  <2>1. /\ cmd[k].op = "start" /\ p \in Project /\ ref[p] = 0 /\ p \notin admin \cup disk
        /\ ref' = [ref EXCEPT ![p] = HeadOf(Main)]
        /\ admin' = admin \cup {p} /\ disk' = disk \cup {p}
        /\ head' = [head EXCEPT ![p] = p]
        /\ work' = [work EXCEPT ![p] = TreeOf(HeadOf(Main))]
        /\ Goes(k, "copy", p)
        /\ UNCHANGED <<history, live, open, masked, db, used, lost>>
    BY <1>2 DEF StartAdd, At, rest, IInv, CommandsOK, CommandOK
  <2>2. /\ p \in Checkout /\ p \in Branch /\ p # Main /\ p # Default /\ p # None
        /\ Main \in Checkout /\ head[Main] \in Branch /\ HeadOf(Main) \in Ids
        /\ TreeOf(HeadOf(Main)) \in Tree
    BY <2>1, HeadIsACommit, ProjectAssumption DEF Checkout, Branch
  <2>3. Grows /\ Ids' = Ids /\ Len(history) \in Nat
    BY <2>1, SameGrows DEF IInv, TypeOK, Ids
  <2>4. \A b \in Branch : b # p => ref'[b] = ref[b]
    BY <2>1 DEF IInv, TypeOK
  <2>5. head[Main] # p
    BY <2>1, <2>2, <2>3 DEF HeadOf, Ids
  <2>6. head'[Main] = head[Main] /\ ref'[head[Main]] = ref[head[Main]] /\ ref'[Default] = ref[Default]
    BY <2>1, <2>2, <2>4, <2>5 DEF IInv, TypeOK, Branch
  <2>7. DefaultGrows /\ Anchored'
    BY <2>1, <2>3, <2>6 DEF DefaultGrows, Past, IInv, Anchored
  <2>8. /\ cmd' \in [Cmd -> CommandStates] /\ Others(k, p)
        /\ cmd'[k].op = cmd[k].op /\ cmd'[k].name = cmd[k].name
    <3>1. "copy" \in Step
      BY DEF Step
    <3> QED BY <2>1, <3>1, Advances
  <2>9. TypeOK'
    <3>1. cmd' \in [Cmd -> CommandStates']
      BY <2>3, <2>8, StatesGrow
    <3>2. ref' \in [Branch -> 0 .. Len(history')] /\ HeadOf(Main) # 0
      <4>1. HeadOf(Main) \in 0 .. Len(history) /\ HeadOf(Main) # 0
        BY <2>2, <2>3 DEF Ids
      <4> QED BY <2>1, <4>1 DEF IInv, TypeOK
    <3>3. head' \in [Checkout -> Branch \cup {None}] /\ work' \in [Checkout -> Tree]
      BY <2>1, <2>2 DEF IInv, TypeOK
    <3>4. \A q \in Project : IF q \in disk' THEN head'[q] = q /\ ref'[q] # 0 ELSE head'[q] = None
      <4> TAKE q \in Project
      <4>1. q \in Checkout /\ q \in Branch
        BY DEF Checkout, Branch
      <4>2. CASE q # p
        BY <2>1, <2>2, <2>4, <4>1, <4>2 DEF IInv, TypeOK
      <4>3. CASE q = p
        BY <2>1, <2>2, <3>2, <4>3 DEF IInv, TypeOK
      <4> QED BY <4>2, <4>3
    <3>5. disk' \subseteq Project /\ admin' \subseteq Project /\ live' \subseteq disk'
      BY <2>1 DEF IInv, TypeOK
    <3> QED BY <2>1, <3>1, <3>2, <3>3, <3>4, <3>5 DEF IInv, TypeOK
  <2>10. CommandOK(k)'
    BY <2>1, <2>8 DEF CommandOK, Merging
  <2>11. \A j \in Cmd : Merging(j) /\ cmd[j].name # p =>
           ref'[cmd[j].name] \in {0, ref[cmd[j].name]}
    BY <2>4 DEF IInv, CommandsOK, CommandOK, Merging, Branch
  <2> QED BY <2>1, <2>3, <2>6, <2>7, <2>8, <2>9, <2>10, <2>11, StepOf
<1> QED BY <1>1, <1>2

LEMMA StartCopyKeeps ==
    ASSUME IInv, NEW k \in Cmd, StartCopy(k) PROVE IInv' /\ DefaultGrows
<1>1. CASE Refuses(k)
  BY <1>1, RefusesKeeps
<1>2. CASE ~Refuses(k)
  <2> DEFINE p == cmd[k].name
  <2>1. /\ p \in disk /\ db' = [db EXCEPT ![p] = db[Main]]
        /\ masked' \subseteq masked \cup {p} /\ Ends(k, p)
        /\ UNCHANGED <<history, ref, head, disk, admin, work, live, open, used, lost>>
    BY <1>2 DEF StartCopy, git
  <2>2. p \in Checkout /\ p # Main /\ Main \in Checkout /\ db[Main] # None
    BY <2>1, ProjectAssumption DEF IInv, TypeOK, Checkout, Anchored
  <2>3. db' \in [Checkout -> Database \cup {None}]
    BY <2>1, <2>2 DEF IInv, TypeOK
  <2>4. /\ db'[Main] = db[Main]
        /\ \A c \in Checkout : db'[c] = db[c] \/ db'[c] = db[Main]
    BY <2>1, <2>2 DEF IInv, TypeOK
  <2>5. Grows /\ Ids' = Ids /\ DefaultGrows
    BY <2>1, SameGrows DEF IInv, Ids, DefaultGrows, Past
  <2>6. Anchored'
    <3>1. live \subseteq Checkout
      BY DEF IInv, TypeOK, Checkout
    <3> QED BY <2>1, <2>2, <2>4, <2>5, <3>1 DEF IInv, Anchored
  <2>7. cmd' \in [Cmd -> CommandStates] /\ cmd'[k] = Idle /\ Others(k, p)
    BY <2>1, Turns, IdleIsTyped DEF Ends
  <2>8. TypeOK'
    <3>1. masked' \subseteq Checkout
      BY <2>1, <2>2 DEF IInv, TypeOK
    <3> QED BY <2>1, <2>3, <2>7, <3>1 DEF IInv, TypeOK, CommandStates
  <2> QED BY <2>1, <2>4, <2>5, <2>6, <2>7, <2>8, EndsWell, StepOf
<1> QED BY <1>1, <1>2

LEMMA MergeRebuildKeeps ==
    ASSUME IInv, NEW k \in Cmd, MergeRebuild(k) PROVE IInv' /\ DefaultGrows
<1>1. CASE Refuses(k)
  BY <1>1, RefusesKeeps
<1>2. CASE ~Refuses(k)
  <2>1. /\ cmd[k].op = "merge" /\ cmd[k].at = "rebuild"
        /\ db' = IF Fresh(Main) THEN db ELSE [db EXCEPT ![Main] = Scanned(Main)]
        /\ Goes(k, "prune", Main)
        /\ UNCHANGED <<history, ref, head, disk, admin, live, open, masked, work, used, lost>>
    BY <1>2 DEF MergeRebuild, At, git, rest
  <2>2. /\ head[Main] = Default /\ cmd[k].their \in Past(ref[Default]) \cup lost
        /\ cmd[k].name \in Project /\ cmd[k].their \in Ids
        /\ ~cmd[k].touched => ref[cmd[k].name] \in {0, cmd[k].their}
    BY <2>1 DEF IInv, CommandsOK, CommandOK, Merging
  <2>3. /\ Main \in Checkout /\ HeadOf(Main) \in Ids /\ HeadOf(Main) \in Nat
        /\ work[Main] \in Tree /\ HeadOf(Main) = ref[Default]
    BY <2>2, HeadIsACommit DEF Checkout, HeadOf, Ids
  <2>4. Scanned(Main) \in Database /\ Scanned(Main).sha = ref[Default]
    BY <2>3 DEF Scanned, Database
  <2>5. /\ db' \in [Checkout -> Database \cup {None}]
        /\ db'[Main] # None /\ db'[Main].sha = ref[Default]
        /\ \A c \in Checkout : c # Main => db'[c] = db[c]
    <3>1. CASE Fresh(Main)
      BY <2>1, <2>3, <3>1 DEF Fresh, IInv, TypeOK
    <3>2. CASE ~Fresh(Main)
      BY <2>1, <2>3, <2>4, <3>2, ProjectAssumption DEF IInv, TypeOK
    <3> QED BY <3>1, <3>2
  <2>6. Grows /\ Ids' = Ids /\ DefaultGrows /\ \A i \in Ids : Past(i)' = Past(i)
    BY <2>1, SameGrows DEF IInv, Ids, DefaultGrows, Past
  <2>7. Anchored'
    <3>1. live \subseteq Checkout /\ Main \notin live
      BY ProjectAssumption DEF IInv, TypeOK, Checkout
    <3> QED BY <2>1, <2>3, <2>5, <2>6, <3>1 DEF IInv, Anchored
  <2>8. /\ cmd' \in [Cmd -> CommandStates] /\ Others(k, Main)
        /\ cmd'[k].op = cmd[k].op /\ cmd'[k].name = cmd[k].name /\ cmd'[k].at = "prune"
        /\ cmd'[k].their = cmd[k].their /\ cmd'[k].touched = cmd[k].touched
    <3>1. "prune" \in Step
      BY DEF Step
    <3> QED BY <2>1, <3>1, Advances
  <2>9. TypeOK'
    BY <2>1, <2>5, <2>8 DEF IInv, TypeOK, CommandStates
  <2>10. CommandOK(k)'
    BY <2>1, <2>2, <2>5, <2>6, <2>8 DEF CommandOK, Merging, Past
  <2>11. Past(ref[Default]) \subseteq history'[db'[Main].sha].past
    BY <2>1, <2>5 DEF Past
  <2> QED BY <2>1, <2>5, <2>6, <2>7, <2>8, <2>9, <2>10, <2>11, StepOf
<1> QED BY <1>1, <1>2

LEMMA RemoveWorktreeKeeps ==
    ASSUME IInv, NEW k \in Cmd, RemoveWorktree(k) PROVE IInv' /\ DefaultGrows
<1> DEFINE p == cmd[k].name
<1>1. /\ cmd[k].at = "prune" /\ p \in Project /\ Goes(k, "drop", p)
      /\ UNCHANGED <<history, ref, used, lost>>
  BY DEF RemoveWorktree, IInv, CommandsOK, CommandOK
<1>2. \/ UNCHANGED <<admin, disk, head, work, db, live, open, masked>>
      \/ /\ admin' = admin \ {p} /\ disk' = disk \ {p}
         /\ head' = [head EXCEPT ![p] = None]
         /\ work' = [work EXCEPT ![p] = First] /\ db' = [db EXCEPT ![p] = None]
         /\ live' = live \ {p} /\ open' = open \ {p} /\ masked' = masked \ {p}
  BY DEF RemoveWorktree, rest
<1>3. p \in Checkout /\ p # Main /\ Main \in Checkout /\ First \in Tree
      /\ None \in Branch \cup {None} /\ None \in Database \cup {None} /\ live \subseteq Project
  BY <1>1, ProjectAssumption DEF Checkout, IInv, TypeOK
<1>4. /\ head' \in [Checkout -> Branch \cup {None}] /\ head'[Main] = head[Main]
      /\ \A q \in Checkout : q # p => head'[q] = head[q]
      /\ p \in disk' \/ head'[p] = None
  <2>1. p \in disk \/ head[p] = None
    BY <1>1 DEF IInv, TypeOK
  <2> QED BY <1>2, <1>3, <2>1 DEF IInv, TypeOK
<1>5. /\ db' \in [Checkout -> Database \cup {None}] /\ db'[Main] = db[Main]
      /\ \A q \in Checkout : db'[q] = db[q] \/ (q = p /\ p \notin live' /\ db'[q] = None)
  BY <1>2, <1>3 DEF IInv, TypeOK
<1>6. work' \in [Checkout -> Tree]
  BY <1>2, <1>3 DEF IInv, TypeOK
<1>7. Grows /\ Ids' = Ids /\ DefaultGrows
  BY <1>1, SameGrows DEF IInv, Ids, DefaultGrows, Past
<1>8. live' \subseteq live /\ live' \subseteq disk' /\ disk' \subseteq disk /\ disk \ {p} \subseteq disk'
      /\ admin' \subseteq Project /\ open' \subseteq Project /\ masked' \subseteq Checkout
  BY <1>2 DEF IInv, TypeOK
<1>9. Anchored'
  <2>1. \A q \in live' : q \in Checkout /\ db[q] # None
    BY <1>8 DEF IInv, Anchored, TypeOK, Checkout
  <2> QED BY <1>1, <1>3, <1>4, <1>5, <1>7, <2>1 DEF IInv, Anchored
<1>10. /\ cmd' \in [Cmd -> CommandStates] /\ Others(k, p)
       /\ cmd'[k].op = cmd[k].op /\ cmd'[k].name = cmd[k].name /\ cmd'[k].at = "drop"
       /\ cmd'[k].their = cmd[k].their /\ cmd'[k].touched = cmd[k].touched
  <2>1. "drop" \in Step
    BY DEF Step
  <2> QED BY <1>1, <2>1, Advances
<1>11. TypeOK'
  <2>1. \A q \in Project : IF q \in disk' THEN head'[q] = q /\ ref'[q] # 0 ELSE head'[q] = None
    <3> TAKE q \in Project
    <3>1. CASE q # p
      BY <1>1, <1>4, <1>8, <3>1 DEF IInv, TypeOK, Checkout
    <3>2. CASE q = p
      <4>1. CASE p \in disk'
        <5>1. UNCHANGED head
          BY <1>2, <4>1
        <5> QED BY <1>1, <1>8, <3>2, <4>1, <5>1 DEF IInv, TypeOK
      <4>2. CASE p \notin disk'
        BY <1>4, <3>2, <4>2
      <4> QED BY <4>1, <4>2
    <3> QED BY <3>1, <3>2
  <2>2. cmd' \in [Cmd -> CommandStates']
    BY <1>7, <1>10, StatesGrow
  <2> QED BY <1>1, <1>4, <1>5, <1>6, <1>8, <2>1, <2>2 DEF IInv, TypeOK
<1>12. CommandOK(k)'
  BY <1>1, <1>4, <1>7, <1>10 DEF IInv, CommandsOK, CommandOK, Merging, Past
<1>13. \A j \in Cmd : Merging(j) => ref'[cmd[j].name] \in {0, ref[cmd[j].name]}
  BY <1>1
<1> QED BY <1>4, <1>5, <1>7, <1>9, <1>10, <1>11, <1>12, <1>13, StepOf

LEMMA DeleteBranchKeeps ==
    ASSUME IInv, NEW k \in Cmd, DeleteBranch(k) PROVE IInv' /\ DefaultGrows
<1>1. CASE Refuses(k)
  BY <1>1, RefusesKeeps
<1>2. CASE ~Refuses(k)
  <2> DEFINE p == cmd[k].name
  <2>1. /\ cmd[k].at = "drop" /\ p \in Project /\ \A c \in Checkout : head[c] # p
        /\ ref' = [ref EXCEPT ![p] = 0] /\ Ends(k, p)
        /\ UNCHANGED <<history, head, disk, admin, live, open, masked, work, db, used, lost>>
    BY <1>2 DEF DeleteBranch, rest, IInv, CommandsOK, CommandOK
  <2>2. p # Default /\ p \in Branch /\ Main \in Checkout /\ head[Main] # p /\ p \notin disk
    BY <2>1, ProjectAssumption DEF Branch, Checkout, IInv, TypeOK
  <2>3. \A b \in Branch : ref'[b] = IF b = p THEN 0 ELSE ref[b]
    BY <2>1 DEF IInv, TypeOK
  <2>4. ref' \in [Branch -> 0 .. Len(history')]
    <3>1. 0 \in 0 .. Len(history)
      BY DEF IInv, TypeOK
    <3> QED BY <2>1, <3>1 DEF IInv, TypeOK
  <2>5. Grows /\ Ids' = Ids
    BY <2>1, SameGrows DEF IInv, Ids
  <2>6. DefaultGrows /\ Anchored'
    BY <2>1, <2>2, <2>3, <2>5 DEF DefaultGrows, Past, IInv, Anchored, Branch
  <2>7. cmd' \in [Cmd -> CommandStates] /\ cmd'[k] = Idle /\ Others(k, p)
    BY <2>1, Turns, IdleIsTyped DEF Ends
  <2>8. TypeOK'
    <3>1. \A q \in Project : IF q \in disk' THEN head'[q] = q /\ ref'[q] # 0 ELSE head'[q] = None
      BY <2>1, <2>2, <2>3 DEF IInv, TypeOK, Branch
    <3> QED BY <2>1, <2>4, <2>7, <3>1 DEF IInv, TypeOK, CommandStates
  <2>9. \A j \in Cmd : Merging(j) => ref'[cmd[j].name] \in {0, ref[cmd[j].name]}
    BY <2>3 DEF IInv, CommandsOK, CommandOK, Merging, Branch
  <2> QED BY <2>1, <2>5, <2>6, <2>7, <2>8, <2>9, EndsWell, StepOf
<1> QED BY <1>1, <1>2

\* Whatever the merge base is, each field of a merged tree is one of the two.
LEMMA MergedIsATree ==
    ASSUME IInv, NEW a \in Ids, NEW b \in Ids, NEW base PROVE Merged(a, b, base) \in Tree
<1>1. TreeOf(a) \in Tree /\ TreeOf(b) \in Tree
  BY CommitsAreTyped DEF IInv
<1>2. \A f \in {"code", "spec", "ignores"} :
        Pick(TreeOf(a)[f], TreeOf(b)[f], TreeOf(base)[f]) \in {TreeOf(a)[f], TreeOf(b)[f]}
  BY DEF Pick
<1> QED BY <1>1, <1>2 DEF Tree, Merged

LEMMA MergeCommits ==
    ASSUME IInv, NEW a \in Ids, NEW b \in Ids, NEW base,
           history' = Committed({a, b}, Merged(a, b, base))
    PROVE  /\ Grows /\ Len(history') = Len(history) + 1 /\ Len(history') \in Ids'
           /\ Past(a) \subseteq history'[Len(history')].past
           /\ b \in history'[Len(history')].past
           /\ history'[Len(history')].tree \in Tree
<1>1. Merged(a, b, base) \in Tree /\ {a, b} \in SUBSET Ids
  BY MergedIsATree
<1>2. b \in Past(b)
  BY DEF IInv, PastClosed
<1>3. TypeOK /\ PastClosed
  BY DEF IInv
<1> QED BY <1>1, <1>2, <1>3, CommitGrows

\* What a merge at work may count on.
LEMMA AtWork ==
    ASSUME IInv, NEW k \in Cmd, Merging(k)
    PROVE  /\ head[Main] = Default /\ cmd[k].their \in Ids /\ cmd[k].name \in Project
           /\ ~cmd[k].touched => ref[cmd[k].name] \in {0, cmd[k].their}
           /\ Main \in Checkout /\ Default \in Branch
           /\ HeadOf(Main) = ref[Default] /\ HeadOf(Main) \in Ids
           /\ Len(history) \in Nat /\ Ids \subseteq 0 .. Len(history)
           /\ cmd[k].name # Default /\ cmd[k].name \in Branch
<1>1. /\ head[Main] = Default /\ cmd[k].their \in Ids /\ cmd[k].name \in Project
      /\ ~cmd[k].touched => ref[cmd[k].name] \in {0, cmd[k].their}
  BY DEF IInv, CommandsOK, CommandOK, Merging
<1>2. Main \in Checkout /\ Default \in Branch
  BY DEF Checkout, Branch
<1>3. HeadOf(Main) = ref[Default] /\ HeadOf(Main) \in Ids /\ Len(history) \in Nat
  BY <1>1, <1>2, HeadIsACommit DEF HeadOf
<1> QED BY <1>1, <1>2, <1>3, ProjectAssumption DEF Ids, Branch

LEMMA MergeReadKeeps ==
    ASSUME IInv, NEW k \in Cmd, MergeRead(k) PROVE IInv' /\ DefaultGrows
<1>1. CASE Refuses(k)
  BY <1>1, RefusesKeeps
<1>2. CASE ~Refuses(k)
  <2> DEFINE mine == HeadOf(Main)
             step == IF mine \in Past(cmd[k].their) THEN "look" ELSE "commit"
  <2>1. /\ At(k, "merge", "read")
        /\ cmd' = [cmd EXCEPT ![k].at = step, ![k].mine = mine]
        /\ UNCHANGED <<history, ref, head, disk, admin, work, db, live, open, masked, lost>>
        /\ UNCHANGED used
    BY <1>2 DEF MergeRead, git, rest
  <2>2. Merging(k) /\ step \in Step
    BY <2>1 DEF Merging, At, Step
  <2> DEFINE s == [cmd[k] EXCEPT !.at = step, !.mine = mine]
  <2>3. cmd[k] \in CommandStates /\ cmd \in [Cmd -> CommandStates]
    BY DEF IInv, TypeOK
  <2>4. s \in CommandStates /\ cmd' = [cmd EXCEPT ![k] = s]
    <3>1. mine \in 0 .. Len(history)
      BY <2>2, AtWork
    <3>2. s \in CommandStates
      BY <2>2, <2>3, <3>1 DEF CommandStates
    <3> QED BY <2>1, <2>3, <3>2
  <2>5. /\ cmd' \in [Cmd -> CommandStates] /\ Others(k, None)
        /\ cmd'[k].op = cmd[k].op /\ cmd'[k].name = cmd[k].name /\ cmd'[k].at = step
        /\ cmd'[k].their = cmd[k].their /\ cmd'[k].touched = cmd[k].touched
        /\ cmd'[k].mine = mine
    <3>1. cmd' \in [Cmd -> CommandStates] /\ Others(k, None) /\ cmd'[k] = s
      BY <2>4, Turns
    <3> QED BY <2>3, <3>1 DEF CommandStates
  <2>6. CommandOK(k)'
    BY <2>1, <2>2, <2>5, AtWork DEF CommandOK, Merging, Ids, Past
  <2>7. used' \in UsedType
    BY <2>1, Counts DEF IInv
  <2> QED BY <2>1, <2>5, <2>6, <2>7, CommandOnly
<1> QED BY <1>1, <1>2

LEMMA MergeLookKeeps ==
    ASSUME IInv, NEW k \in Cmd, MergeLook(k) PROVE IInv' /\ DefaultGrows
<1>1. /\ At(k, "merge", "look")
      /\ cmd' = [cmd EXCEPT ![k].at = "set", ![k].seen = ref[Default]]
      /\ UNCHANGED <<history, ref, head, disk, admin, work, db, live, open, masked, lost>>
      /\ UNCHANGED used
  BY DEF MergeLook, git, rest
<1>2. Merging(k) /\ "set" \in Step
  BY <1>1 DEF Merging, At, Step
<1> DEFINE s == [cmd[k] EXCEPT !.at = "set", !.seen = ref[Default]]
<1>3. cmd[k] \in CommandStates /\ cmd \in [Cmd -> CommandStates]
  BY DEF IInv, TypeOK
<1>4. s \in CommandStates /\ cmd' = [cmd EXCEPT ![k] = s]
  <2>1. ref[Default] \in 0 .. Len(history)
    BY <1>2, AtWork
  <2>2. s \in CommandStates
    BY <1>2, <1>3, <2>1 DEF CommandStates
  <2> QED BY <1>1, <1>3, <2>2
<1>5. /\ cmd' \in [Cmd -> CommandStates] /\ Others(k, None)
      /\ cmd'[k].op = cmd[k].op /\ cmd'[k].name = cmd[k].name /\ cmd'[k].at = "set"
      /\ cmd'[k].their = cmd[k].their /\ cmd'[k].touched = cmd[k].touched
      /\ cmd'[k].mine = cmd[k].mine
  <2>1. cmd' \in [Cmd -> CommandStates] /\ Others(k, None) /\ cmd'[k] = s
    BY <1>4, Turns
  <2> QED BY <1>3, <2>1 DEF CommandStates
<1>6. cmd[k].mine \in Past(cmd[k].their)
  BY <1>1, <1>2 DEF IInv, CommandsOK, CommandOK, At
<1>7. CommandOK(k)'
  BY <1>1, <1>2, <1>5, <1>6, AtWork DEF CommandOK, Merging, Ids, Past
<1>8. used' \in UsedType
  BY <1>1, Counts DEF IInv
<1> QED BY <1>1, <1>5, <1>7, <1>8, CommandOnly

\* The default branch is at a commit with the project in it, and the merge goes on
\* to main's files.
LEMMA MovedKeeps ==
    ASSUME IInv, NEW k \in Cmd, Merging(k), Grows, DefaultGrows, Moved(k), lost' \subseteq Nat,
           NEW to \in Ids', to \in 0 .. Len(history'), Ids \subseteq Ids',
           ref' = [ref EXCEPT ![Default] = to], cmd[k].their \in history'[to].past,
           UNCHANGED <<head, disk, admin, live, open, masked, work, db, used>>
    PROVE  IInv' /\ DefaultGrows
<1> DEFINE s == [cmd[k] EXCEPT !.at = "sync", !.mine = 0, !.seen = 0]
<1>1. /\ cmd' \in [Cmd -> CommandStates] /\ cmd'[k] = s /\ Others(k, Main)
  <2>1. cmd[k] \in CommandStates
    BY DEF IInv, TypeOK
  <2>2. s \in CommandStates
    <3>1. 0 \in 0 .. Len(history) /\ "sync" \in Step
      BY AtWork DEF Step
    <3> QED BY <2>1, <3>1 DEF CommandStates
  <2>3. Touch(Main, k) \in [Cmd -> CommandStates] /\ Touch(Main, k)[k] = cmd[k]
    <3>1. Touch(Main, k) \in [Cmd -> CommandStates]
      BY TouchIsTyped DEF IInv
    <3> QED BY <3>1 DEF Touch
  <2>4. cmd' = [Touch(Main, k) EXCEPT ![k] = s]
    BY <2>3 DEF Moved
  <2> QED BY <2>2, <2>4, Turns
<1>2. /\ s.op = cmd[k].op /\ s.name = cmd[k].name /\ s.their = cmd[k].their /\ s.at = "sync"
      /\ s.touched = cmd[k].touched
  BY DEF IInv, TypeOK, CommandStates
<1>3. ref'[Default] = to /\ \A b \in Branch : b # Default => ref'[b] = ref[b]
  BY AtWork DEF IInv, TypeOK
<1>4. Anchored'
  BY <1>3, AtWork DEF IInv, Anchored
<1>5. TypeOK'
  <2>1. cmd' \in [Cmd -> CommandStates'] /\ history' \in Seq(Commits)
    BY <1>1, StatesGrow DEF Grows
  <2>2. ref' \in [Branch -> 0 .. Len(history')]
    <3>1. 0 .. Len(history) \subseteq 0 .. Len(history')
      BY DEF Grows
    <3> QED BY <3>1 DEF IInv, TypeOK
  <2>3. \A q \in Project : q # Default /\ q \in Branch
    BY ProjectAssumption DEF Branch
  <2>4. \A q \in Project : IF q \in disk' THEN head'[q] = q /\ ref'[q] # 0 ELSE head'[q] = None
    BY <1>3, <2>3 DEF IInv, TypeOK
  <2> QED BY <2>1, <2>2, <2>4 DEF IInv, TypeOK
<1>6. CommandOK(k)'
  BY <1>1, <1>2, <1>3, AtWork DEF CommandOK, Merging, Past
<1>7. \A j \in Cmd : Merging(j) => ref'[cmd[j].name] \in {0, ref[cmd[j].name]}
  BY <1>3, AtWork
<1> QED BY <1>1, <1>4, <1>5, <1>6, <1>7, StepOf

LEMMA MergeSetKeeps ==
    ASSUME IInv, NEW k \in Cmd, MergeSet(k) PROVE IInv' /\ DefaultGrows
<1>1. CASE Refuses(k)
  BY <1>1, RefusesKeeps
<1>2. CASE ~Refuses(k)
  <2> DEFINE their == cmd[k].their
  <2>1. /\ At(k, "merge", "set") /\ Moved(k)
        /\ ref' = [ref EXCEPT ![Default] = their]
        /\ lost' = lost \cup (Past(ref[Default]) \ Past(their))
        /\ UNCHANGED <<history, head, disk, admin, live, open, masked, work, db, used>>
    BY <1>2 DEF MergeSet, rest
  <2>2. Merging(k) /\ cmd[k].mine \in Past(their)
    BY <2>1 DEF Merging, At, IInv, CommandsOK, CommandOK
  <2>3. /\ Grows /\ Ids' = Ids /\ their \in 0 .. Len(history') /\ ref'[Default] = their
        /\ \A i \in Ids : history'[i].past = Past(i)
    BY <2>1, <2>2, AtWork, SameGrows DEF IInv, TypeOK, Ids, Past
  <2>4. their \in Past(their) /\ Past(cmd[k].mine) \subseteq Past(their)
    BY <2>2, AtWork DEF IInv, PastClosed
  <2>5. lost' \subseteq Nat
    <3>1. lost \subseteq Nat /\ Past(ref[Default]) \subseteq Ids /\ Ids \subseteq Nat
      BY <2>2, AtWork DEF IInv, TypeOK, PastClosed, Ids
    <3> QED BY <2>1, <3>1
  <2>6. DefaultGrows
    <3>1. CASE cmd[k].mine = ref[Default]
      BY <2>1, <2>2, <2>3, <2>4, <3>1, AtWork DEF DefaultGrows
    <3>2. CASE cmd[k].mine # ref[Default]
      <4>1. cmd'[k].at = "sync"
        <5>1. Touch(Main, k) \in [Cmd -> CommandStates]
          BY TouchIsTyped DEF IInv
        <5> QED BY <2>1, <5>1 DEF Moved, CommandStates
      <4>2. Overtakes(k)
        BY <2>1, <3>2, <4>1 DEF Overtakes, Did, At
      <4> QED BY <2>1, <2>2, <2>3, <4>2, AtWork DEF DefaultGrows
    <3> QED BY <3>1, <3>2
  <2>7. their \in history'[their].past /\ their \in Ids'
    BY <2>2, <2>3, <2>4, AtWork
  <2> QED BY <2>1, <2>2, <2>3, <2>5, <2>6, <2>7, MovedKeeps
<1> QED BY <1>1, <1>2

LEMMA MergeCommitKeeps ==
    ASSUME IInv, NEW k \in Cmd, MergeCommit(k) PROVE IInv' /\ DefaultGrows
<1>1. CASE Refuses(k)
  BY <1>1, RefusesKeeps
<1>2. CASE ~Refuses(k)
  <2> DEFINE mine == cmd[k].mine
             their == cmd[k].their
             to == Len(history')
  <2>1. /\ At(k, "merge", "commit") /\ Moved(k) /\ HeadOf(Main) = mine
        /\ history' = Committed({mine, their}, Merged(mine, their, MergeBase(mine, their)))
        /\ ref' = [ref EXCEPT ![head[Main]] = to]
        /\ UNCHANGED <<head, disk, admin, live, open, masked, work, db, used, lost>>
    BY <1>2 DEF MergeCommit, rest
  <2>2. /\ Merging(k) /\ mine \in Ids /\ their \in Ids /\ mine = ref[Default]
        /\ ref' = [ref EXCEPT ![Default] = to]
    <3>1. Merging(k)
      BY <2>1 DEF Merging, At
    <3> QED BY <2>1, <3>1, AtWork
  <2>3. /\ Grows /\ to = Len(history) + 1 /\ to \in Ids'
        /\ Past(mine) \subseteq history'[to].past /\ their \in history'[to].past
    BY <2>1, <2>2, MergeCommits
  <2>4. to \in 0 .. Len(history') /\ Ids \subseteq Ids'
    BY <2>2, <2>3, AtWork, OneMore DEF Ids
  <2>5. ref'[Default] = to
    BY <2>2, AtWork DEF IInv, TypeOK
  <2>6. DefaultGrows
    BY <2>1, <2>2, <2>3, <2>5 DEF DefaultGrows
  <2>7. lost' \subseteq Nat
    BY <2>1 DEF IInv, TypeOK
  <2> QED BY <2>1, <2>2, <2>3, <2>4, <2>6, <2>7, MovedKeeps
<1> QED BY <1>1, <1>2

LEMMA MergeSyncKeeps ==
    ASSUME IInv, NEW k \in Cmd, MergeSync(k) PROVE IInv' /\ DefaultGrows
<1>1. /\ At(k, "merge", "sync") /\ Goes(k, "rebuild", Main)
      /\ work' = [work EXCEPT ![Main] = TreeOf(HeadOf(Main))]
      /\ UNCHANGED <<history, ref, head, disk, admin, live, open, masked, db, used, lost>>
  BY DEF MergeSync, git, rest
<1>2. Merging(k) /\ cmd[k].their \in Past(ref[Default]) \cup lost
  BY <1>1 DEF Merging, At, IInv, CommandsOK, CommandOK
<1>3. TreeOf(HeadOf(Main)) \in Tree
  BY <1>2, AtWork, CommitsAreTyped DEF IInv
<1>4. /\ cmd' \in [Cmd -> CommandStates] /\ Others(k, Main)
      /\ cmd'[k].op = cmd[k].op /\ cmd'[k].name = cmd[k].name /\ cmd'[k].at = "rebuild"
      /\ cmd'[k].their = cmd[k].their /\ cmd'[k].touched = cmd[k].touched
  <2>1. "rebuild" \in Step
    BY DEF Step
  <2> QED BY <1>1, <2>1, Advances
<1>5. Grows /\ DefaultGrows /\ Anchored'
  BY <1>1, SameGrows DEF IInv, DefaultGrows, Past, Anchored, Ids
<1>6. TypeOK'
  <2>1. work' \in [Checkout -> Tree]
    BY <1>1, <1>3 DEF IInv, TypeOK
  <2> QED BY <1>1, <1>4, <2>1 DEF IInv, TypeOK, CommandStates
<1>7. CommandOK(k)'
  BY <1>1, <1>2, <1>4, AtWork DEF CommandOK, Merging, Ids, Past
<1> QED BY <1>1, <1>4, <1>5, <1>6, <1>7, StepOf

-----------------------------------------------------------------------------
(* the theorems on branches *)

LEMMA NextKeeps == ASSUME IInv, [Next]_vars PROVE IInv' /\ DefaultGrows
<1>1. CASE UNCHANGED vars
  <2>1. /\ UNCHANGED <<history, ref, head, disk, admin, work, db, live, open, cmd, used, masked, lost>>
    BY <1>1 DEF vars
  <2> QED BY <2>1 DEF IInv, TypeOK, PastClosed, Anchored, CommandsOK, CommandOK, Merging, Ids,
                      Past, CommandStates, DefaultGrows
<1>2. ASSUME NEW k \in Cmd, Command(k) \/ Fails(k) PROVE IInv' /\ DefaultGrows
  BY <1>2, FailsKeeps, ChecksKeep, StartHealKeeps, StartAddKeeps, StartCopyKeeps, GatesKeep,
     MergeReadKeeps, MergeLookKeeps, MergeSetKeeps, MergeCommitKeeps, MergeSyncKeeps,
     MergeRebuildKeeps, RemoveWorktreeKeeps, DeleteBranchKeeps DEF Command
<1>3. ASSUME NEW c \in Checkout, Edit(c) \/ CommitByHand(c) \/ Scan(c)
      PROVE  IInv' /\ DefaultGrows
  BY <1>3, EditKeeps, CommitByHandKeeps, ScanKeeps
<1>4. ASSUME NEW b \in Branch, Switch(b) PROVE IInv' /\ DefaultGrows
  BY <1>4, SwitchKeeps
<1>5. ASSUME NEW p \in Project,
             SessionStart(p) \/ SessionSave(p) \/ SessionEnd(p) \/ Review(p)
      PROVE  IInv' /\ DefaultGrows
  BY <1>5, SessionStartKeeps, SessionSaveKeeps, SessionEndKeeps, ReviewKeeps
<1> QED BY <1>1, <1>2, <1>3, <1>4, <1>5, RepairKeeps DEF Next

LEMMA Invariance == Spec => []IInv
<1>1. IInv /\ [Next]_vars => IInv'
  BY NextKeeps
<1> QED BY IInvInit, <1>1, PTL DEF Spec

\* Every state is typed, a worktree that is there holds its own branch, and a
\* session has a worktree.
THEOREM TypeCorrect == Spec => []TypeOK
<1>1. IInv => TypeOK
  BY DEF IInv
<1> QED BY <1>1, Invariance, PTL

\* However commands, people and sessions overlap, only a fast-forward that was
\* overtaken between its reading of HEAD and its look at the reference takes a
\* commit from the default branch.
THEOREM DefaultKeepsCommits == Spec => DefaultOnlyGrows
<1>1. IInv /\ [Next]_vars =>
        [Past(ref[Default]) \subseteq history'[ref'[Default]].past
         \/ \E k \in Cmd : Overtakes(k)]_vars
  BY NextKeeps DEF DefaultGrows
<1> QED BY <1>1, Invariance, PTL DEF Spec, DefaultOnlyGrows

\* A merge that removes a worktree has rebuilt main's database with the project in
\* it, whoever scanned or moved the default branch in between, unless an overtaken
\* fast-forward took the project's commit out of the default branch.
THEOREM RebuiltFirst == Spec => RebuiltBeforeCleanup
<1>1. IInv => \A k \in Cmd : Did(k, "merge", "prune") /\ cmd'[k].at = "drop"
                 => db[Main] # None /\ cmd[k].their \in Past(db[Main].sha) \cup lost
  BY DEF IInv, CommandsOK, CommandOK, Merging, Did, At
<1>2. IInv /\ [Next]_vars =>
        [\A k \in Cmd : Did(k, "merge", "prune") /\ cmd'[k].at = "drop"
           => db[Main] # None /\ cmd[k].their \in Past(db[Main].sha) \cup lost]_vars
  BY <1>1
<1> QED BY <1>2, Invariance, PTL DEF Spec, RebuiltBeforeCleanup

\* A merge deletes only commits that are in the default branch, when nobody worked
\* in the worktree while it ran and no overtaken fast-forward took them out.
THEOREM DropsMerged == Spec => MergedBeforeDropped
<1>1. IInv => \A k \in Cmd :
        Did(k, "merge", "drop") /\ ref[cmd[k].name] # 0 /\ ref'[cmd[k].name] = 0 /\ ~cmd[k].touched
        => ref[cmd[k].name] \in Past(ref[Default]) \cup lost
  BY DEF IInv, CommandsOK, CommandOK, Merging, Did, At
<1>2. IInv /\ [Next]_vars =>
        [\A k \in Cmd : LET p == cmd[k].name IN
           Did(k, "merge", "drop") /\ ref[p] # 0 /\ ref'[p] = 0 /\ ~cmd[k].touched
           => ref[p] \in Past(ref[Default]) \cup lost]_vars
  BY <1>1
<1> QED BY <1>2, Invariance, PTL DEF Spec, MergedBeforeDropped

-----------------------------------------------------------------------------
(* what the commands count on of the checkouts *)

\* The main checkout never holds the branch of a worktree that is there.
HeadsApart == \A p \in disk : head[Main] # p

\* A database is of the tree its key names, but for one a save masked.
DatabasesShow == \A c \in Checkout \ masked : db[c] # None => Shows(db[c].of, db[c].key)

\* The steps of a merge between its gates and the move of the default branch.
Taking == {"read", "look", "set", "commit"}

\* Unless it was touched, a merge past its checks has a worktree whose claims are
\* scanned code, and a start that committed no .gitignore has main's database of
\* main's commit and files, and a worktree at them.
Promise(k) == LET p == cmd[k].name IN ~cmd[k].touched =>
    /\ cmd[k].op = "merge" /\ cmd[k].at \in {"strength"} \cup Taking /\ p \notin masked =>
         p \in disk /\ db[p] # None /\ Shows(db[p].of, work[p])
    /\ cmd[k].op = "merge" /\ cmd[k].at \in Taking /\ p \notin masked =>
         work[p].spec <= db[p].of.code
    /\ cmd[k].op = "start" /\ cmd[k].at \in {"heal", "add", "copy"} /\ ~cmd[k].healed =>
         /\ db[Main].sha = HeadOf(Main) /\ db[Main].key = work[Main]
         /\ work[Main] = TreeOf(HeadOf(Main))
         /\ cmd[k].at = "copy" /\ p \in disk => HeadOf(p) = HeadOf(Main) /\ work[p] = work[Main]
Promises == \A k \in Cmd : Promise(k)

CheckoutInv == IInv /\ HeadsApart /\ DatabasesShow /\ Promises

\* A step that leaves a checkout as it was, and a command that stays where it is
\* and is marked when a checkout it reads is one of those that changed.
Same(d) ==
    /\ (d \in disk' <=> d \in disk) /\ (d \in masked' <=> d \in masked)
    /\ work'[d] = work[d] /\ db'[d] = db[d]
    /\ d = Main \/ d \in disk => HeadOf(d)' = HeadOf(d) /\ TreeOf(HeadOf(d))' = TreeOf(HeadOf(d))

Bystander(k, changed) ==
    /\ cmd'[k].op = cmd[k].op /\ cmd'[k].name = cmd[k].name /\ cmd'[k].at = cmd[k].at
    /\ cmd'[k].their = cmd[k].their /\ cmd'[k].healed = cmd[k].healed
    /\ ~cmd'[k].touched =>
         /\ ~cmd[k].touched
         /\ cmd[k].at # "idle" =>
              cmd[k].name \notin changed /\ (cmd[k].op = "start" => Main \notin changed)

\* A step of command by, or of nobody, that changes those checkouts at most.
Changes(changed, by) ==
    /\ \A d \in Checkout \ changed : Same(d)
    /\ \A k \in Cmd \ {by} : Bystander(k, changed)

LEMMA TouchMarks ==
    ASSUME IInv, NEW c, NEW by, NEW k \in Cmd, k # by, cmd'[k] = Touch(c, by)[k]
    PROVE  Bystander(k, {c})
<1>1. cmd[k] \in CommandStates
  BY DEF IInv, TypeOK
<1>2. \/ cmd'[k] = [cmd[k] EXCEPT !.touched = TRUE]
      \/ /\ cmd'[k] = cmd[k]
         /\ cmd[k].at # "idle" => cmd[k].name # c /\ (cmd[k].op = "start" => Main # c)
  BY DEF Touch
<1>3. CASE cmd'[k] = [cmd[k] EXCEPT !.touched = TRUE]
  BY <1>1, <1>3 DEF CommandStates, Bystander
<1>4. CASE /\ cmd'[k] = cmd[k]
           /\ cmd[k].at # "idle" => cmd[k].name # c /\ (cmd[k].op = "start" => Main # c)
  BY <1>4 DEF Bystander
<1> QED BY <1>2, <1>3, <1>4

\* A turn of a command, as the commands see it.
LEMMA TurnMarks ==
    ASSUME IInv, NEW c, NEW k \in Cmd, NEW s, cmd' = [Touch(c, k) EXCEPT ![k] = s]
    PROVE  \A j \in Cmd \ {k} : Bystander(j, {c}) /\ Bystander(j, {})
<1> SUFFICES ASSUME NEW j \in Cmd \ {k} PROVE Bystander(j, {c}) /\ Bystander(j, {})
  OBVIOUS
<1>1. cmd'[j] = Touch(c, k)[j]
  BY TouchIsTyped DEF IInv
<1>2. Bystander(j, {c})
  BY <1>1, TouchMarks
<1> QED BY <1>2 DEF Bystander

LEMMA TurnIsQuiet ==
    ASSUME IInv, NEW k \in Cmd, NEW s, cmd' = [cmd EXCEPT ![k] = s]
    PROVE  \A j \in Cmd \ {k} : Bystander(j, {})
BY DEF Bystander, IInv, TypeOK

LEMMA GoesMarks ==
    ASSUME IInv, NEW c, NEW k \in Cmd, NEW step \in Step, Goes(k, step, c)
    PROVE  /\ \A j \in Cmd \ {k} : Bystander(j, {c}) /\ Bystander(j, {})
           /\ cmd'[k].op = cmd[k].op /\ cmd'[k].name = cmd[k].name /\ cmd'[k].at = step
           /\ cmd'[k].their = cmd[k].their /\ cmd'[k].touched = cmd[k].touched
           /\ cmd'[k].healed = cmd[k].healed
<1> DEFINE s == [cmd[k] EXCEPT !.at = step]
<1>1. cmd[k] \in CommandStates
  BY DEF IInv, TypeOK
<1>2. Touch(c, k) \in [Cmd -> CommandStates] /\ Touch(c, k)[k] = cmd[k]
  <2>1. Touch(c, k) \in [Cmd -> CommandStates]
    BY TouchIsTyped DEF IInv
  <2> QED BY <2>1 DEF Touch
<1>3. cmd' = [Touch(c, k) EXCEPT ![k] = s]
  BY <1>2 DEF Goes
<1>4. cmd'[k] = s
  BY <1>2, <1>3
<1>5. \A j \in Cmd \ {k} : Bystander(j, {c}) /\ Bystander(j, {})
  BY <1>3, TurnMarks
<1>6. /\ s.op = cmd[k].op /\ s.name = cmd[k].name /\ s.at = step
      /\ s.their = cmd[k].their /\ s.touched = cmd[k].touched /\ s.healed = cmd[k].healed
  BY <1>1 DEF CommandStates
<1> QED BY <1>4, <1>5, <1>6

\* What a bystander counts on stays.
LEMMA PromiseStays ==
    ASSUME IInv, NEW k \in Cmd, NEW changed, Promise(k), Bystander(k, changed),
           \A d \in Checkout \ changed : Same(d)
    PROVE  Promise(k)'
<1> SUFFICES ASSUME ~cmd'[k].touched, cmd[k].at # "idle" PROVE Promise(k)'
  BY DEF Promise, Taking, Bystander
<1>0. PICK p \in Project : p = cmd[k].name
  BY DEF IInv, CommandsOK, CommandOK
<1>1. /\ ~cmd[k].touched /\ p \in Checkout /\ p # Main
      /\ p \notin changed /\ (cmd[k].op = "start" => Main \notin changed)
      /\ Main \in Checkout
  BY <1>0, ProjectAssumption DEF Bystander, Checkout
<1>2. Same(p) /\ (cmd[k].op = "start" => Same(Main))
  BY <1>1
<1>3. /\ cmd'[k].op = cmd[k].op /\ cmd'[k].name = p /\ cmd'[k].at = cmd[k].at
      /\ cmd'[k].healed = cmd[k].healed
  BY <1>0 DEF Bystander
<1>4. ASSUME cmd[k].op = "merge", cmd[k].at \in {"strength"} \cup Taking, p \notin masked'
      PROVE  /\ p \in disk' /\ db'[p] # None /\ Shows(db'[p].of, work'[p])
             /\ cmd[k].at \in Taking => work'[p].spec <= db'[p].of.code
  BY <1>0, <1>1, <1>2, <1>4 DEF Promise, Same
<1>5. ASSUME cmd[k].op = "start", cmd[k].at \in {"heal", "add", "copy"}, ~cmd[k].healed
      PROVE  /\ db'[Main].sha = HeadOf(Main)' /\ db'[Main].key = work'[Main]
             /\ work'[Main] = TreeOf(HeadOf(Main))'
             /\ cmd[k].at = "copy" /\ p \in disk' =>
                  HeadOf(p)' = HeadOf(Main)' /\ work'[p] = work'[Main]
  BY <1>0, <1>1, <1>2, <1>5 DEF Promise, Same
<1> QED BY <1>3, <1>4, <1>5 DEF Promise, HeadOf, TreeOf

\* What is left to show of a step.
LEMMA StepKeepsPromises ==
    ASSUME CheckoutInv, IInv', NEW changed, NEW by, Changes(changed, by), HeadsApart',
           \A c \in changed \cap Checkout :
               c \notin masked' /\ db'[c] # None => Shows(db'[c].of, db'[c].key),
           by \in Cmd => Promise(by)'
    PROVE  CheckoutInv'
<1>1. ASSUME NEW c \in Checkout, c \notin masked', db'[c] # None
      PROVE  Shows(db'[c].of, db'[c].key)
  <2>1. CASE c \in changed
    BY <1>1, <2>1
  <2>2. CASE c \notin changed
    BY <1>1, <2>2 DEF Changes, Same, CheckoutInv, DatabasesShow
  <2> QED BY <2>1, <2>2
<1>2. ASSUME NEW k \in Cmd PROVE Promise(k)'
  <2>1. CASE k # by
    BY <2>1, PromiseStays DEF Changes, CheckoutInv, Promises
  <2>2. CASE k = by
    BY <2>2
  <2> QED BY <2>1, <2>2
<1>3. DatabasesShow'
  BY <1>1 DEF DatabasesShow, Shows
<1> QED BY <1>2, <1>3 DEF CheckoutInv, Promises

\* Two checkouts that are there hold two branches.
LEMMA HeadsDiffer ==
    ASSUME CheckoutInv, NEW c \in Checkout, NEW d \in Checkout, c # d,
           c = Main \/ c \in disk, d = Main \/ d \in disk
    PROVE  head[c] # head[d]
BY DEF CheckoutInv, IInv, TypeOK, HeadsApart, Checkout

LEMMA SameElsewhere ==
    ASSUME CheckoutInv, NEW changed, \A i \in Ids : history'[i] = history[i],
           \A d \in Checkout \ changed :
               /\ (d \in disk' <=> d \in disk) /\ (d \in masked' <=> d \in masked)
               /\ work'[d] = work[d] /\ db'[d] = db[d]
               /\ d = Main \/ d \in disk => head'[d] = head[d] /\ ref'[head[d]] = ref[head[d]]
    PROVE  \A d \in Checkout \ changed : Same(d)
<1> SUFFICES ASSUME NEW d \in Checkout \ changed, d = Main \/ d \in disk
             PROVE  HeadOf(d)' = HeadOf(d) /\ TreeOf(HeadOf(d))' = TreeOf(HeadOf(d))
  BY DEF Same
<1>1. HeadOf(d)' = HeadOf(d)
  BY DEF HeadOf
<1>2. HeadOf(d) \in Ids
  BY HeadIsACommit DEF CheckoutInv
<1> QED BY <1>1, <1>2 DEF TreeOf

\* A step that leaves git, the files and the databases alone.
LEMMA NothingChanges ==
    ASSUME CheckoutInv, NEW changed, UNCHANGED <<history, ref, head, disk, masked, work, db>>
    PROVE  /\ \A d \in Checkout \ changed : Same(d)
           /\ HeadsApart'
           /\ \A c \in Checkout : c \notin masked' /\ db'[c] # None => Shows(db'[c].of, db'[c].key)
<1>1. \A d \in Checkout \ changed : Same(d)
  BY SameElsewhere
<1>2. HeadsApart'
  BY DEF CheckoutInv, HeadsApart
<1>3. \A c \in Checkout : c \notin masked' /\ db'[c] # None => Shows(db'[c].of, db'[c].key)
  BY DEF CheckoutInv, DatabasesShow
<1> QED BY <1>1, <1>2, <1>3

LEMMA TouchedByNobody ==
    ASSUME IInv, NEW c, cmd' = Touch(c, None)
    PROVE  None \notin Cmd /\ \A k \in Cmd \ {None} : Bystander(k, {c})
<1>1. None \notin Cmd
  BY ProjectAssumption
<1> QED BY <1>1, TouchMarks

LEMMA EditPromise == ASSUME CheckoutInv, IInv', NEW c \in Checkout, Edit(c) PROVE CheckoutInv'
<1>1. /\ UNCHANGED <<history, ref, head, disk, masked, db>> /\ cmd' = Touch(c, None)
      /\ \A d \in Checkout \ {c} : work'[d] = work[d]
  BY DEF Edit, git, rest, CheckoutInv, IInv, TypeOK
<1>2. \A d \in Checkout \ {c} : Same(d)
  BY <1>1, SameElsewhere
<1>3. HeadsApart'
  BY <1>1 DEF CheckoutInv, HeadsApart
<1>4. c \notin masked' /\ db'[c] # None => Shows(db'[c].of, db'[c].key)
  BY <1>1 DEF CheckoutInv, DatabasesShow
<1>5. None \notin Cmd /\ Changes({c}, None)
  BY <1>1, <1>2, TouchedByNobody DEF Changes, CheckoutInv
<1> QED BY <1>3, <1>4, <1>5, StepKeepsPromises

LEMMA PeoplePromise ==
    ASSUME CheckoutInv, IInv', NEW p \in Project, SessionStart(p) \/ SessionEnd(p) \/ Review(p)
    PROVE  CheckoutInv'
<1>1. UNCHANGED <<history, ref, head, disk, masked, work, db>> /\ cmd' = Touch(p, None)
  BY DEF SessionStart, SessionEnd, Review, git
<1>2. Changes({p}, None) /\ None \notin Cmd
  BY <1>1, NothingChanges, TouchedByNobody DEF Changes, CheckoutInv
<1>3. HeadsApart' /\ \A c \in {p} \cap Checkout :
          c \notin masked' /\ db'[c] # None => Shows(db'[c].of, db'[c].key)
  BY <1>1, NothingChanges
<1> QED BY <1>2, <1>3, StepKeepsPromises

\* A commit in one checkout moves the branch of no other.
LEMMA CommitsApart ==
    ASSUME CheckoutInv, NEW c \in Checkout, c = Main \/ c \in disk, NEW t \in Tree,
           history' = Committed({HeadOf(c)}, t),
           ref' = [ref EXCEPT ![head[c]] = Len(history')],
           UNCHANGED <<head, disk>>,
           \A d \in Checkout \ {c} :
               (d \in masked' <=> d \in masked) /\ work'[d] = work[d] /\ db'[d] = db[d]
    PROVE  /\ \A d \in Checkout \ {c} : Same(d)
           /\ HeadsApart'
           /\ HeadOf(c)' = Len(history') /\ TreeOf(HeadOf(c))' = t
<1>1. head[c] \in Branch /\ HeadOf(c) \in Ids /\ {HeadOf(c)} \in SUBSET Ids
  BY HeadIsACommit DEF CheckoutInv
<1>2. \A i \in Ids : history'[i] = history[i]
  BY <1>1, CommitGrows DEF CheckoutInv, IInv, Grows
<1>3. history'[Len(history')].tree = t
  BY <1>1, CommitGrows DEF CheckoutInv, IInv
<1>4. ref \in [Branch -> 0 .. Len(history)]
  BY DEF CheckoutInv, IInv, TypeOK
<1>5. \A d \in Checkout \ {c} : d = Main \/ d \in disk => ref'[head[d]] = ref[head[d]]
  <2>1. ASSUME NEW d \in Checkout \ {c}, d = Main \/ d \in disk
        PROVE  head[d] \in Branch /\ head[d] # head[c]
    BY <2>1, HeadsDiffer, HeadIsACommit DEF CheckoutInv
  <2> QED BY <1>1, <1>4, <2>1
<1>6. \A d \in Checkout \ {c} : Same(d)
  BY <1>2, <1>5, SameElsewhere
<1>7. HeadsApart'
  BY DEF CheckoutInv, HeadsApart
<1>8. HeadOf(c)' = Len(history')
  BY <1>1, <1>4 DEF HeadOf
<1> QED BY <1>3, <1>6, <1>7, <1>8 DEF TreeOf

LEMMA CommitByHandPromise ==
    ASSUME CheckoutInv, IInv', NEW c \in Checkout, CommitByHand(c) PROVE CheckoutInv'
<1>1. /\ c = Main \/ c \in disk
      /\ history' = Committed({HeadOf(c)}, work[c])
      /\ ref' = [ref EXCEPT ![head[c]] = Len(history')]
      /\ cmd' = Touch(c, None)
      /\ UNCHANGED <<head, disk, masked, work, db>>
  BY DEF CommitByHand, rest
<1>2. work[c] \in Tree
  BY DEF CheckoutInv, IInv, TypeOK
<1>3. (\A d \in Checkout \ {c} : Same(d)) /\ HeadsApart'
  BY <1>1, <1>2, CommitsApart
<1>4. c \notin masked' /\ db'[c] # None => Shows(db'[c].of, db'[c].key)
  BY <1>1 DEF CheckoutInv, DatabasesShow
<1>5. None \notin Cmd /\ Changes({c}, None)
  BY <1>1, <1>3, TouchedByNobody DEF Changes, CheckoutInv
<1> QED BY <1>3, <1>4, <1>5, StepKeepsPromises

LEMMA ScanPromise == ASSUME CheckoutInv, IInv', NEW c \in Checkout, Scan(c) PROVE CheckoutInv'
<1>1. /\ UNCHANGED <<history, ref, head, disk, work>> /\ cmd' = Touch(c, None)
      /\ db' = [db EXCEPT ![c] = Scanned(c)] /\ masked' = masked \ {c}
  BY DEF Scan, git
<1>2. db'[c] = Scanned(c) /\ \A d \in Checkout \ {c} : db'[d] = db[d]
  BY <1>1 DEF CheckoutInv, IInv, TypeOK
<1>3. \A d \in Checkout \ {c} : Same(d)
  BY <1>1, <1>2, SameElsewhere
<1>4. HeadsApart' /\ Shows(db'[c].of, db'[c].key)
  BY <1>1, <1>2 DEF CheckoutInv, HeadsApart, Scanned, Shows
<1>5. None \notin Cmd /\ Changes({c}, None)
  BY <1>1, <1>3, TouchedByNobody DEF Changes, CheckoutInv
<1> QED BY <1>4, <1>5, StepKeepsPromises

LEMMA SwitchPromise ==
    ASSUME CheckoutInv, IInv', NEW b \in Branch, Switch(b) PROVE CheckoutInv'
<1>1. /\ UNCHANGED <<history, ref, disk, masked, db, cmd>>
      /\ head' = [head EXCEPT ![Main] = b] /\ work' = [work EXCEPT ![Main] = TreeOf(ref[b])]
      /\ \A k \in Cmd : cmd[k].at = "idle"
      /\ \A c \in Checkout : head[c] # b
  BY DEF Switch, git, rest
<1>2. /\ head'[Main] = b
      /\ \A d \in Checkout \ {Main} : head'[d] = head[d] /\ work'[d] = work[d]
  BY <1>1 DEF CheckoutInv, IInv, TypeOK, Checkout
<1>3. \A d \in Checkout \ {Main} : Same(d)
  BY <1>1, <1>2, SameElsewhere
<1>4. HeadsApart'
  <2>1. \A p \in disk : head[p] = p /\ p \in Checkout
    BY DEF CheckoutInv, IInv, TypeOK, Checkout
  <2> QED BY <1>1, <1>2, <2>1 DEF HeadsApart
<1>5. \A c \in Checkout : c \notin masked' /\ db'[c] # None => Shows(db'[c].of, db'[c].key)
  BY <1>1 DEF CheckoutInv, DatabasesShow
<1>6. None \notin Cmd /\ Changes({Main}, None)
  BY <1>1, <1>3, ProjectAssumption DEF Changes, Bystander
<1> QED BY <1>4, <1>5, <1>6, StepKeepsPromises

LEMMA SessionSavePromise ==
    ASSUME CheckoutInv, IInv', NEW p \in Project, SessionSave(p) PROVE CheckoutInv'
<1>1. PICK v \in Version :
        /\ history' = Committed({HeadOf(p)}, [TreeOf(HeadOf(p)) EXCEPT !.spec = v])
        /\ ref' = [ref EXCEPT ![head[p]] = Len(history')]
        /\ work' = [work EXCEPT ![p].spec = v]
        /\ db' = [db EXCEPT ![p] = [sha |-> Len(history'), key |-> work'[p],
                                    of |-> [db[p].of EXCEPT !.spec = v]]]
  BY DEF SessionSave
<1>2. /\ UNCHANGED <<head, disk>> /\ cmd' = Touch(p, None)
      /\ p \in disk /\ p \in Checkout
      /\ masked' = IF Shows(db'[p].of, work'[p]) THEN masked \ {p} ELSE masked \cup {p}
  BY DEF SessionSave, CheckoutInv, IInv, TypeOK, Checkout
<1>3. [TreeOf(HeadOf(p)) EXCEPT !.spec = v] \in Tree
  <2>1. TreeOf(HeadOf(p)) \in Tree
    BY <1>2, HeadIsACommit DEF CheckoutInv
  <2> QED BY <2>1 DEF Tree
<1>4. \A d \in Checkout \ {p} : work'[d] = work[d] /\ db'[d] = db[d]
  BY <1>1 DEF CheckoutInv, IInv, TypeOK
<1>5. (\A d \in Checkout \ {p} : Same(d)) /\ HeadsApart'
  BY <1>1, <1>2, <1>3, <1>4, CommitsApart
<1>6. p \notin masked' /\ db'[p] # None => Shows(db'[p].of, db'[p].key)
  <2>1. db'[p].key = work'[p]
    BY <1>1, <1>2 DEF CheckoutInv, IInv, TypeOK
  <2> QED BY <1>2, <2>1
<1>7. None \notin Cmd /\ Changes({p}, None)
  BY <1>2, <1>5, TouchedByNobody DEF Changes, CheckoutInv
<1> QED BY <1>5, <1>6, <1>7, StepKeepsPromises

LEMMA RepairPromise == ASSUME CheckoutInv, IInv', Repair PROVE CheckoutInv'
<1>1. PICK p \in Project :
        /\ \/ /\ p \in disk \ live
              /\ disk' = disk \ {p} /\ head' = [head EXCEPT ![p] = None]
              /\ work' = [work EXCEPT ![p] = First] /\ db' = [db EXCEPT ![p] = None]
              /\ masked' = masked \ {p}
              /\ UNCHANGED ref
           \/ UNCHANGED <<ref, disk, head, work, db, masked>>
           \/ /\ \A c \in Checkout : head[c] # p
              /\ ref' = [ref EXCEPT ![p] = 0]
              /\ UNCHANGED <<head, disk, work, db, masked>>
           \/ /\ \A c \in Checkout : head[c] # p
              /\ disk' = disk \cup {p}
              /\ head' = [head EXCEPT ![p] = p]
              /\ work' = [work EXCEPT ![p] = TreeOf(ref[p])]
              /\ UNCHANGED <<ref, db, masked>>
        /\ cmd' = Touch(p, None)
  BY DEF Repair
<1>2. p \in Checkout /\ p # Main /\ Main \in Checkout /\ UNCHANGED history
  BY ProjectAssumption DEF Checkout, Repair
<1>3. \A d \in Checkout \ {p} :
        /\ (d \in disk' <=> d \in disk) /\ (d \in masked' <=> d \in masked)
        /\ head'[d] = head[d] /\ work'[d] = work[d] /\ db'[d] = db[d]
  BY <1>1 DEF CheckoutInv, IInv, TypeOK
<1>4. \A d \in Checkout \ {p} : d = Main \/ d \in disk => ref'[head[d]] = ref[head[d]]
  <2>1. \/ ref' = ref
        \/ ref' = [ref EXCEPT ![p] = 0] /\ \A c \in Checkout : head[c] # p
    BY <1>1
  <2>2. \A d \in Checkout : d = Main \/ d \in disk => head[d] \in Branch
    BY HeadIsACommit DEF CheckoutInv
  <2>3. ref \in [Branch -> 0 .. Len(history)]
    BY DEF CheckoutInv, IInv, TypeOK
  <2> QED BY <2>1, <2>2, <2>3
<1>5. \A d \in Checkout \ {p} : Same(d)
  BY <1>2, <1>3, <1>4, SameElsewhere
<1>6. HeadsApart'
  <2>1. \A q \in disk' : q \in disk \/ (q = p /\ head[Main] # p)
    BY <1>1, <1>2
  <2> QED BY <1>2, <1>3, <2>1 DEF CheckoutInv, HeadsApart
<1>7. p \notin masked' /\ db'[p] # None => Shows(db'[p].of, db'[p].key)
  <2>1. db'[p] = None \/ (db'[p] = db[p] /\ (p \in masked' <=> p \in masked))
    BY <1>1, <1>2 DEF CheckoutInv, IInv, TypeOK
  <2> QED BY <1>2, <2>1 DEF CheckoutInv, DatabasesShow
<1>8. None \notin Cmd /\ Changes({p}, None)
  BY <1>1, <1>5, TouchedByNobody DEF Changes, CheckoutInv
<1> QED BY <1>6, <1>7, <1>8, StepKeepsPromises

-----------------------------------------------------------------------------
(* and what its own step gives a command *)

LEMMA IdlePromise == ASSUME NEW k \in Cmd, cmd'[k] = Idle PROVE Promise(k)'
BY DEF Promise, Idle

LEMMA EndsPromise ==
    ASSUME CheckoutInv, IInv', NEW k \in Cmd, Refuses(k) \/ Fails(k) PROVE CheckoutInv'
<1>1. /\ UNCHANGED <<history, ref, head, disk, masked, work, db>>
      /\ cmd' = [cmd EXCEPT ![k] = Idle]
  BY DEF Refuses, Fails, git, rest
<1>2. cmd'[k] = Idle
  BY <1>1 DEF CheckoutInv, IInv, TypeOK
<1>3. Changes({}, k)
  BY <1>1, NothingChanges, TurnIsQuiet DEF Changes, CheckoutInv
<1>4. HeadsApart' /\ Promise(k)'
  BY <1>1, <1>2, NothingChanges, IdlePromise
<1> QED BY <1>3, <1>4, StepKeepsPromises

LEMMA BeginPromise ==
    ASSUME CheckoutInv, IInv', NEW k \in Cmd, NEW p \in Project,
           StartChecks(k, p) \/ MergeChecks(k, p) \/ DeleteChecks(k, p)
    PROVE  CheckoutInv'
<1>1. PICK op \in {"start", "merge", "delete"}, at \in {"heal", "verify", "prune"},
           their \in 0 .. Len(history) :
        /\ Begin(k, op, p, at, their)
        /\ op = "start" => at = "heal" /\ Clean(Main) /\ Fresh(Main)
        /\ op = "merge" => at = "verify"
  <2>1. 0 \in 0 .. Len(history) /\ ref[p] \in 0 .. Len(history)
    BY DEF CheckoutInv, IInv, TypeOK, Branch
  <2> QED BY <2>1 DEF StartChecks, MergeChecks, DeleteChecks
<1> DEFINE s == [Idle EXCEPT !.op = op, !.name = p, !.at = at, !.their = their]
<1>2. /\ UNCHANGED <<history, ref, head, disk, masked, work, db>>
      /\ cmd' = [cmd EXCEPT ![k] = s]
  BY <1>1 DEF Begin, git, rest
<1>3. cmd'[k].op = op /\ cmd'[k].name = p /\ cmd'[k].at = at
  BY <1>2 DEF Idle, CheckoutInv, IInv, TypeOK
<1>4. Promise(k)'
  BY <1>1, <1>2, <1>3 DEF Promise, Taking, Clean, Fresh, HeadOf, TreeOf
<1>5. Changes({}, k)
  BY <1>2, NothingChanges, TurnIsQuiet DEF Changes, CheckoutInv
<1>6. HeadsApart'
  BY <1>2, NothingChanges
<1> QED BY <1>4, <1>5, <1>6, StepKeepsPromises

\* A start that committed nothing goes on with what it read; the .gitignore that it
\* commits ends the promise.
LEMMA StartHealPromise ==
    ASSUME CheckoutInv, IInv', NEW k \in Cmd, StartHeal(k) PROVE CheckoutInv'
<1>1. /\ cmd[k].op = "start" /\ cmd[k].at = "heal"
      /\ UNCHANGED <<head, disk, masked, db>>
  BY DEF StartHeal, At, rest
<1>2. CASE work[Main].ignores
  <2>1. Goes(k, "add", None) /\ UNCHANGED <<history, ref, work>>
    BY <1>2 DEF StartHeal
  <2>2. /\ \A j \in Cmd \ {k} : Bystander(j, {})
        /\ cmd'[k].op = cmd[k].op /\ cmd'[k].name = cmd[k].name /\ cmd'[k].at = "add"
        /\ cmd'[k].touched = cmd[k].touched /\ cmd'[k].healed = cmd[k].healed
    <3>1. "add" \in Step
      BY DEF Step
    <3> QED BY <2>1, <3>1, GoesMarks DEF CheckoutInv
  <2>3. Promise(k)'
    BY <1>1, <2>1, <2>2 DEF CheckoutInv, Promises, Promise, HeadOf, TreeOf
  <2>4. Changes({}, k) /\ HeadsApart'
    BY <1>1, <2>1, <2>2, NothingChanges DEF Changes
  <2> QED BY <2>3, <2>4, StepKeepsPromises
<1>3. CASE ~work[Main].ignores
  <2> DEFINE t == [TreeOf(HeadOf(Main)) EXCEPT !.ignores = TRUE]
             s == [cmd[k] EXCEPT !.at = "add", !.healed = TRUE]
  <2>1. /\ work' = [work EXCEPT ![Main].ignores = TRUE]
        /\ history' = Committed({HeadOf(Main)}, t)
        /\ ref' = [ref EXCEPT ![head[Main]] = Len(history')]
        /\ cmd' = [Touch(Main, k) EXCEPT ![k].at = "add", ![k].healed = TRUE]
    BY <1>3 DEF StartHeal
  <2>2. Main \in Checkout /\ t \in Tree
    <3>1. Main \in Checkout /\ TreeOf(HeadOf(Main)) \in Tree
      BY HeadIsACommit DEF Checkout, CheckoutInv
    <3> QED BY <3>1 DEF Tree
  <2>3. \A d \in Checkout \ {Main} : work'[d] = work[d]
    BY <2>1 DEF CheckoutInv, IInv, TypeOK
  <2>4. (\A d \in Checkout \ {Main} : Same(d)) /\ HeadsApart'
    BY <1>1, <2>1, <2>2, <2>3, CommitsApart
  <2>5. cmd' = [Touch(Main, k) EXCEPT ![k] = s] /\ cmd'[k] = s
    <3>1. Touch(Main, k) \in [Cmd -> CommandStates]
      BY TouchIsTyped DEF CheckoutInv, IInv
    <3>2. Touch(Main, k)[k] = cmd[k]
      BY DEF Touch
    <3> QED BY <2>1, <3>1, <3>2
  <2>6. Promise(k)'
    <3>1. cmd[k] \in CommandStates
      BY DEF CheckoutInv, IInv, TypeOK
    <3>2. cmd'[k].op = "start" /\ cmd'[k].healed
      BY <1>1, <2>5, <3>1 DEF CommandStates
    <3> QED BY <3>2 DEF Promise
  <2>7. Changes({Main}, k)
    BY <2>4, <2>5, TurnMarks DEF Changes, CheckoutInv
  <2>8. Main \notin masked' /\ db'[Main] # None => Shows(db'[Main].of, db'[Main].key)
    BY <1>1, <2>2 DEF CheckoutInv, DatabasesShow
  <2> QED BY <2>4, <2>6, <2>7, <2>8, StepKeepsPromises
<1> QED BY <1>2, <1>3

\* The worktree that start adds is at main's commit and has its files.
LEMMA StartAddPromise ==
    ASSUME CheckoutInv, IInv', NEW k \in Cmd, StartAdd(k) PROVE CheckoutInv'
<1>1. CASE Refuses(k)
  BY <1>1, EndsPromise
<1>2. CASE ~Refuses(k)
  <2>1. PICK p \in Project :
        /\ p = cmd[k].name /\ cmd[k].op = "start" /\ cmd[k].at = "add"
        /\ ref[p] = 0 /\ p \notin disk
        /\ ref' = [ref EXCEPT ![p] = HeadOf(Main)] /\ disk' = disk \cup {p}
        /\ head' = [head EXCEPT ![p] = p]
        /\ work' = [work EXCEPT ![p] = TreeOf(HeadOf(Main))]
        /\ Goes(k, "copy", p)
        /\ UNCHANGED <<history, masked, db>>
    <3>1. cmd[k].name \in Project
      BY DEF StartAdd, At, CheckoutInv, IInv, CommandsOK, CommandOK
    <3> QED BY <1>2, <3>1 DEF StartAdd, At, rest
  <2>2. /\ p \in Checkout /\ p \in Branch /\ p # Main /\ Main \in Checkout
        /\ head[Main] \in Branch /\ HeadOf(Main) \in Ids /\ HeadOf(Main) # 0
    <3>1. p \in Checkout /\ p \in Branch /\ p # Main /\ Main \in Checkout
      BY ProjectAssumption DEF Checkout, Branch
    <3>2. head[Main] \in Branch /\ HeadOf(Main) \in Ids /\ Len(history) \in Nat
      BY <3>1, HeadIsACommit DEF CheckoutInv
    <3> QED BY <3>1, <3>2 DEF Ids
  <2>3. /\ head[Main] # p /\ head'[Main] = head[Main] /\ head'[p] = p /\ ref'[p] = HeadOf(Main)
        /\ \A b \in Branch : b # p => ref'[b] = ref[b]
        /\ \A d \in Checkout : d # p => head'[d] = head[d] /\ work'[d] = work[d]
        /\ work'[p] = TreeOf(HeadOf(Main))
    BY <2>1, <2>2 DEF HeadOf, CheckoutInv, IInv, TypeOK
  <2>4. \A d \in Checkout \ {p} : d = Main \/ d \in disk => head[d] # p /\ head[d] \in Branch
    BY <2>1, <2>2, <2>3, HeadIsACommit DEF CheckoutInv, IInv, TypeOK, Checkout
  <2>5. \A d \in Checkout \ {p} : Same(d)
    BY <2>1, <2>3, <2>4, SameElsewhere
  <2>6. HeadsApart'
    BY <2>1, <2>3 DEF CheckoutInv, HeadsApart
  <2>7. /\ \A j \in Cmd \ {k} : Bystander(j, {p})
        /\ cmd'[k].op = "start" /\ cmd'[k].name = p /\ cmd'[k].at = "copy"
        /\ cmd'[k].touched = cmd[k].touched /\ cmd'[k].healed = cmd[k].healed
    <3>1. "copy" \in Step
      BY DEF Step
    <3> QED BY <2>1, <3>1, GoesMarks DEF CheckoutInv
  <2>8. Promise(k)'
    <3>1. /\ HeadOf(Main)' = HeadOf(Main) /\ HeadOf(p)' = HeadOf(Main)
          /\ TreeOf(HeadOf(Main))' = TreeOf(HeadOf(Main))
          /\ work'[Main] = work[Main] /\ db' = db
      BY <2>1, <2>2, <2>3 DEF HeadOf, TreeOf
    <3>2. ASSUME ~cmd[k].touched, ~cmd[k].healed
          PROVE  /\ db[Main].sha = HeadOf(Main) /\ db[Main].key = work[Main]
                 /\ work[Main] = TreeOf(HeadOf(Main))
      BY <2>1, <3>2 DEF CheckoutInv, Promises, Promise
    <3> QED BY <2>3, <2>7, <3>1, <3>2 DEF Promise, HeadOf
  <2>9. p \notin masked' /\ db'[p] # None => Shows(db'[p].of, db'[p].key)
    BY <2>1, <2>2 DEF CheckoutInv, DatabasesShow
  <2>10. Changes({p}, k)
    BY <2>5, <2>7 DEF Changes
  <2> QED BY <2>6, <2>8, <2>9, <2>10, StepKeepsPromises
<1> QED BY <1>1, <1>2

LEMMA StartCopyPromise ==
    ASSUME CheckoutInv, IInv', NEW k \in Cmd, StartCopy(k) PROVE CheckoutInv'
<1>1. CASE Refuses(k)
  BY <1>1, EndsPromise
<1>2. CASE ~Refuses(k)
  <2>1. PICK p \in Project :
        /\ p = cmd[k].name /\ p \in disk /\ db' = [db EXCEPT ![p] = db[Main]]
        /\ masked' = (IF Main \in masked THEN masked \cup {p} ELSE masked \ {p})
        /\ Ends(k, p) /\ UNCHANGED <<history, ref, head, disk, work>>
    BY <1>2 DEF StartCopy, git, At, CheckoutInv, IInv, CommandsOK, CommandOK
  <2>2. /\ db'[p] = db[Main] /\ Main \in Checkout
        /\ \A d \in Checkout \ {p} : db'[d] = db[d]
    BY <2>1 DEF CheckoutInv, IInv, TypeOK, Checkout
  <2>3. \A d \in Checkout \ {p} : Same(d)
    BY <2>1, <2>2, SameElsewhere
  <2>4. p \notin masked' /\ db'[p] # None => Shows(db'[p].of, db'[p].key)
    BY <2>1, <2>2 DEF CheckoutInv, DatabasesShow
  <2>5. cmd'[k] = Idle
    <3>1. Touch(p, k) \in [Cmd -> CommandStates]
      BY TouchIsTyped DEF CheckoutInv, IInv
    <3> QED BY <2>1, <3>1 DEF Ends
  <2>6. Changes({p}, k) /\ Promise(k)' /\ HeadsApart'
    BY <2>1, <2>3, <2>5, TurnMarks, IdlePromise DEF Changes, Ends, CheckoutInv, HeadsApart
  <2> QED BY <2>4, <2>6, StepKeepsPromises
<1> QED BY <1>1, <1>2

\* The gates of a merge: a fresh database of a worktree that no save masked shows
\* its files.
LEMMA GatesPromise ==
    ASSUME CheckoutInv, IInv', NEW k \in Cmd, MergeVerify(k) \/ MergeStrength(k)
    PROVE  CheckoutInv'
<1>1. CASE Refuses(k)
  BY <1>1, EndsPromise
<1>2. CASE ~Refuses(k)
  <2>1. PICK p \in Project, step \in {"strength", "read"} :
        /\ p = cmd[k].name /\ cmd[k].op = "merge" /\ Goes(k, step, None)
        /\ step = "strength" => p \in disk /\ Fresh(p)
        /\ step = "read" => /\ cmd[k].at = "strength" /\ db[p] # None
                            /\ work[p].spec <= db[p].of.code
        /\ UNCHANGED <<history, ref, head, disk, masked, work, db>>
    <3>1. cmd[k].name \in Project
      BY DEF MergeVerify, MergeStrength, At, CheckoutInv, IInv, CommandsOK, CommandOK
    <3> QED BY <1>2, <3>1 DEF MergeVerify, MergeStrength, At, git, rest
  <2>2. /\ \A j \in Cmd \ {k} : Bystander(j, {})
        /\ cmd'[k].op = "merge" /\ cmd'[k].name = p /\ cmd'[k].at = step
        /\ cmd'[k].touched = cmd[k].touched
    <3>1. step \in Step
      BY DEF Step
    <3> QED BY <2>1, <3>1, GoesMarks DEF CheckoutInv
  <2>3. ASSUME ~cmd[k].touched, p \notin masked
        PROVE  p \in disk /\ db[p] # None /\ Shows(db[p].of, work[p])
    <3>1. CASE step = "strength"
      BY <2>1, <2>3, <3>1 DEF Fresh, Checkout, CheckoutInv, DatabasesShow
    <3>2. CASE step = "read"
      BY <2>1, <2>3, <3>2 DEF CheckoutInv, Promises, Promise
    <3> QED BY <3>1, <3>2
  <2>4. Promise(k)'
    BY <2>1, <2>2, <2>3 DEF Promise, Taking
  <2>5. Changes({}, k) /\ HeadsApart'
    BY <2>1, <2>2, NothingChanges DEF Changes
  <2> QED BY <2>4, <2>5, StepKeepsPromises
<1> QED BY <1>1, <1>2

\* Reading and looking up leave everything, and the promise, as it is.
LEMMA NotesPromise ==
    ASSUME CheckoutInv, IInv', NEW k \in Cmd, MergeRead(k) \/ MergeLook(k) PROVE CheckoutInv'
<1>1. CASE Refuses(k)
  BY <1>1, EndsPromise
<1>2. CASE ~Refuses(k)
  <2>1. cmd \in [Cmd -> CommandStates] /\ cmd[k] \in CommandStates
    BY DEF CheckoutInv, IInv, TypeOK
  <2>2. /\ cmd[k].op = "merge" /\ cmd[k].at \in Taking
        /\ cmd'[k].op = "merge" /\ cmd'[k].at \in Taking
        /\ cmd'[k].name = cmd[k].name /\ cmd'[k].touched = cmd[k].touched
        /\ \A j \in Cmd \ {k} : Bystander(j, {})
        /\ UNCHANGED <<history, ref, head, disk, masked, work, db>>
    <3>1. CASE MergeRead(k)
      <4> DEFINE next == IF HeadOf(Main) \in Past(cmd[k].their) THEN "look" ELSE "commit"
      <4>1. /\ At(k, "merge", "read") /\ next \in {"look", "commit"}
            /\ cmd' = [cmd EXCEPT ![k].at = next, ![k].mine = HeadOf(Main)]
            /\ UNCHANGED <<history, ref, head, disk, masked, work, db>>
        BY <1>2, <3>1 DEF MergeRead, git, rest
      <4> HIDE DEF next
      <4> QED BY <2>1, <4>1 DEF At, CommandStates, Bystander, Taking
    <3>2. CASE MergeLook(k)
      <4>1. /\ At(k, "merge", "look")
            /\ cmd' = [cmd EXCEPT ![k].at = "set", ![k].seen = ref[Default]]
            /\ UNCHANGED <<history, ref, head, disk, masked, work, db>>
        BY <3>2 DEF MergeLook, git, rest
      <4> QED BY <2>1, <4>1 DEF At, CommandStates, Bystander, Taking
    <3> QED BY <3>1, <3>2
  <2>3. Promise(k)'
    BY <2>2 DEF CheckoutInv, Promises, Promise, Taking
  <2>4. Changes({}, k) /\ HeadsApart'
    BY <2>2, NothingChanges DEF Changes, CheckoutInv
  <2> QED BY <2>3, <2>4, StepKeepsPromises
<1> QED BY <1>1, <1>2

LEMMA MovedPromise ==
    ASSUME CheckoutInv, IInv', NEW k \in Cmd, Merging(k), Moved(k),
           \A i \in Ids : history'[i] = history[i],
           NEW to, ref' = [ref EXCEPT ![Default] = to],
           UNCHANGED <<head, disk, masked, work, db>>
    PROVE  CheckoutInv'
<1>1. head[Main] = Default /\ Main \in Checkout
  BY AtWork DEF CheckoutInv
<1>2. \A d \in Checkout \ {Main} : d \in disk => ref'[head[d]] = ref[head[d]]
  <2>1. \A d \in Checkout \ {Main} : d \in disk => head[d] # Default /\ head[d] \in Branch
    BY <1>1, HeadsDiffer, HeadIsACommit DEF CheckoutInv
  <2> QED BY <2>1 DEF CheckoutInv, IInv, TypeOK
<1>3. \A d \in Checkout \ {Main} : Same(d)
  BY <1>2, SameElsewhere
<1>4. HeadsApart' /\ (Main \notin masked' /\ db'[Main] # None => Shows(db'[Main].of, db'[Main].key))
  BY <1>1 DEF CheckoutInv, HeadsApart, DatabasesShow
<1> DEFINE s == [cmd[k] EXCEPT !.at = "sync", !.mine = 0, !.seen = 0]
<1>5. cmd' = [Touch(Main, k) EXCEPT ![k] = s] /\ cmd'[k] = s
  <2>1. Touch(Main, k) \in [Cmd -> CommandStates]
    BY TouchIsTyped DEF CheckoutInv, IInv
  <2>2. Touch(Main, k)[k] = cmd[k]
    BY <2>1 DEF Touch
  <2> QED BY <2>1, <2>2 DEF Moved
<1>6. cmd'[k].op = "merge" /\ cmd'[k].at = "sync"
  BY <1>5 DEF Merging, CheckoutInv, IInv, TypeOK, CommandStates
<1>7. Promise(k)' /\ Changes({Main}, k)
  BY <1>3, <1>5, <1>6, TurnMarks DEF Promise, Taking, Changes, CheckoutInv
<1> QED BY <1>4, <1>7, StepKeepsPromises

LEMMA MovesPromise ==
    ASSUME CheckoutInv, IInv', NEW k \in Cmd, MergeSet(k) \/ MergeCommit(k) PROVE CheckoutInv'
<1>1. CASE Refuses(k)
  BY <1>1, EndsPromise
<1>2. CASE MergeSet(k) /\ ~Refuses(k)
  <2>1. /\ Merging(k) /\ Moved(k) /\ ref' = [ref EXCEPT ![Default] = cmd[k].their]
        /\ UNCHANGED <<history, head, disk, masked, work, db>>
    BY <1>2 DEF MergeSet, At, Merging, rest
  <2> QED BY <2>1, MovedPromise
<1>3. CASE MergeCommit(k) /\ ~Refuses(k)
  <2> DEFINE mine == cmd[k].mine
             their == cmd[k].their
  <2>1. /\ Merging(k) /\ Moved(k) /\ HeadOf(Main) = mine
        /\ history' = Committed({mine, their}, Merged(mine, their, MergeBase(mine, their)))
        /\ ref' = [ref EXCEPT ![head[Main]] = Len(history')]
        /\ UNCHANGED <<head, disk, masked, work, db>>
    BY <1>3 DEF MergeCommit, At, Merging, rest
  <2>2. mine \in Ids /\ their \in Ids /\ ref' = [ref EXCEPT ![Default] = Len(history')]
    BY <2>1, AtWork DEF CheckoutInv
  <2>3. \A i \in Ids : history'[i] = history[i]
    BY <2>1, <2>2, MergeCommits DEF CheckoutInv, Grows
  <2> QED BY <2>1, <2>2, <2>3, MovedPromise
<1> QED BY <1>1, <1>2, <1>3

LEMMA MergeSyncPromise ==
    ASSUME CheckoutInv, IInv', NEW k \in Cmd, MergeSync(k) PROVE CheckoutInv'
<1>1. /\ cmd[k].op = "merge" /\ Goes(k, "rebuild", Main)
      /\ work' = [work EXCEPT ![Main] = TreeOf(HeadOf(Main))]
      /\ UNCHANGED <<history, ref, head, disk, masked, db>>
  BY DEF MergeSync, At, git, rest
<1>2. \A d \in Checkout \ {Main} : work'[d] = work[d]
  BY <1>1 DEF CheckoutInv, IInv, TypeOK
<1>3. \A d \in Checkout \ {Main} : Same(d)
  BY <1>1, <1>2, SameElsewhere
<1>4. HeadsApart' /\ (Main \notin masked' /\ db'[Main] # None => Shows(db'[Main].of, db'[Main].key))
  BY <1>1 DEF CheckoutInv, HeadsApart, DatabasesShow, Checkout
<1>5. (\A j \in Cmd \ {k} : Bystander(j, {Main})) /\ cmd'[k].op = "merge" /\ cmd'[k].at = "rebuild"
  <2>1. "rebuild" \in Step
    BY DEF Step
  <2> QED BY <1>1, <2>1, GoesMarks DEF CheckoutInv
<1>6. Promise(k)' /\ Changes({Main}, k)
  BY <1>3, <1>5 DEF Promise, Taking, Changes
<1> QED BY <1>4, <1>6, StepKeepsPromises

LEMMA MergeRebuildPromise ==
    ASSUME CheckoutInv, IInv', NEW k \in Cmd, MergeRebuild(k) PROVE CheckoutInv'
<1>1. CASE Refuses(k)
  BY <1>1, EndsPromise
<1>2. CASE ~Refuses(k)
  <2>1. /\ cmd[k].op = "merge" /\ cmd[k].at = "rebuild"
        /\ db' = (IF Fresh(Main) THEN db ELSE [db EXCEPT ![Main] = Scanned(Main)])
        /\ Goes(k, "prune", Main)
        /\ UNCHANGED <<history, ref, head, disk, masked, work>>
    BY <1>2 DEF MergeRebuild, At, git, rest
  <2>2. /\ Main \in Checkout /\ (\A d \in Checkout \ {Main} : db'[d] = db[d])
        /\ db'[Main] = db[Main] \/ db'[Main] = Scanned(Main)
    BY <2>1 DEF CheckoutInv, IInv, TypeOK, Checkout
  <2>3. \A d \in Checkout \ {Main} : Same(d)
    BY <2>1, <2>2, SameElsewhere
  <2>4. HeadsApart' /\ (Main \notin masked' /\ db'[Main] # None => Shows(db'[Main].of, db'[Main].key))
    BY <2>1, <2>2 DEF CheckoutInv, HeadsApart, DatabasesShow, Scanned, Shows
  <2>5. (\A j \in Cmd \ {k} : Bystander(j, {Main})) /\ cmd'[k].op = "merge" /\ cmd'[k].at = "prune"
    <3>1. "prune" \in Step
      BY DEF Step
    <3> QED BY <2>1, <3>1, GoesMarks DEF CheckoutInv
  <2>6. Promise(k)' /\ Changes({Main}, k)
    BY <2>3, <2>5 DEF Promise, Taking, Changes
  <2> QED BY <2>4, <2>6, StepKeepsPromises
<1> QED BY <1>1, <1>2

LEMMA RemoveWorktreePromise ==
    ASSUME CheckoutInv, IInv', NEW k \in Cmd, RemoveWorktree(k) PROVE CheckoutInv'
<1>1. PICK p \in Project :
        /\ p = cmd[k].name /\ cmd[k].at = "prune" /\ Goes(k, "drop", p)
        /\ UNCHANGED <<history, ref>>
        /\ \/ UNCHANGED <<disk, head, work, db, masked>>
           \/ /\ disk' = disk \ {p} /\ head' = [head EXCEPT ![p] = None]
              /\ work' = [work EXCEPT ![p] = First] /\ db' = [db EXCEPT ![p] = None]
              /\ masked' = masked \ {p}
  BY DEF RemoveWorktree, rest, CheckoutInv, IInv, CommandsOK, CommandOK
<1>2. p \in Checkout /\ p # Main /\ Main \in Checkout
  BY ProjectAssumption DEF Checkout
<1>3. \A d \in Checkout \ {p} :
        /\ (d \in disk' <=> d \in disk) /\ (d \in masked' <=> d \in masked)
        /\ head'[d] = head[d] /\ work'[d] = work[d] /\ db'[d] = db[d]
  BY <1>1 DEF CheckoutInv, IInv, TypeOK
<1>4. \A d \in Checkout \ {p} : Same(d)
  BY <1>1, <1>3, SameElsewhere
<1>5. HeadsApart'
  BY <1>1, <1>2, <1>3 DEF CheckoutInv, HeadsApart
<1>6. p \notin masked' /\ db'[p] # None => Shows(db'[p].of, db'[p].key)
  BY <1>1, <1>2 DEF CheckoutInv, IInv, TypeOK, DatabasesShow
<1>7. (\A j \in Cmd \ {k} : Bystander(j, {p})) /\ cmd'[k].at = "drop"
  <2>1. "drop" \in Step
    BY DEF Step
  <2> QED BY <1>1, <2>1, GoesMarks DEF CheckoutInv
<1>8. Promise(k)' /\ Changes({p}, k)
  BY <1>4, <1>7 DEF Promise, Taking, Changes
<1> QED BY <1>5, <1>6, <1>8, StepKeepsPromises

LEMMA DeleteBranchPromise ==
    ASSUME CheckoutInv, IInv', NEW k \in Cmd, DeleteBranch(k) PROVE CheckoutInv'
<1>1. CASE Refuses(k)
  BY <1>1, EndsPromise
<1>2. CASE ~Refuses(k)
  <2>1. PICK p \in Project :
        /\ p = cmd[k].name /\ \A c \in Checkout : head[c] # p
        /\ ref' = [ref EXCEPT ![p] = 0] /\ Ends(k, p)
        /\ UNCHANGED <<history, head, disk, masked, work, db>>
    BY <1>2 DEF DeleteBranch, rest, CheckoutInv, IInv, CommandsOK, CommandOK
  <2>2. \A d \in Checkout : d = Main \/ d \in disk => ref'[head[d]] = ref[head[d]]
    <3>1. \A d \in Checkout : d = Main \/ d \in disk => head[d] \in Branch
      BY HeadIsACommit DEF CheckoutInv
    <3> QED BY <2>1, <3>1 DEF CheckoutInv, IInv, TypeOK
  <2>3. \A d \in Checkout \ {p} : Same(d)
    BY <2>1, <2>2, SameElsewhere
  <2>4. cmd'[k] = Idle
    <3>1. Touch(p, k) \in [Cmd -> CommandStates]
      BY TouchIsTyped DEF CheckoutInv, IInv
    <3> QED BY <2>1, <3>1 DEF Ends
  <2>5. Changes({p}, k) /\ Promise(k)' /\ HeadsApart'
    BY <2>1, <2>3, <2>4, TurnMarks, IdlePromise DEF Changes, Ends, CheckoutInv, HeadsApart
  <2>6. p \notin masked' /\ db'[p] # None => Shows(db'[p].of, db'[p].key)
    BY <2>1 DEF CheckoutInv, DatabasesShow, Checkout
  <2> QED BY <2>5, <2>6, StepKeepsPromises
<1> QED BY <1>1, <1>2

-----------------------------------------------------------------------------
(* the theorems on checkouts *)

LEMMA PromisesInit == Init => CheckoutInv
<1> SUFFICES ASSUME Init PROVE CheckoutInv
  OBVIOUS
<1>1. IInv /\ HeadsApart /\ Promises
  BY IInvInit DEF Init, HeadsApart, Promises, Promise, Idle
<1>2. DatabasesShow
  BY DEF Init, DatabasesShow, Shows
<1> QED BY <1>1, <1>2 DEF CheckoutInv

LEMMA NextKeepsPromises == ASSUME CheckoutInv, [Next]_vars PROVE CheckoutInv'
<1>0. IInv'
  BY NextKeeps DEF CheckoutInv
<1>1. CASE UNCHANGED vars
  BY <1>0, <1>1 DEF vars, CheckoutInv, HeadsApart, DatabasesShow, Promises, Promise, Shows, HeadOf,
                    TreeOf
<1>2. ASSUME NEW k \in Cmd, Command(k) \/ Fails(k) PROVE CheckoutInv'
  BY <1>0, <1>2, EndsPromise, BeginPromise, StartHealPromise, StartAddPromise, StartCopyPromise,
     GatesPromise, NotesPromise, MovesPromise, MergeSyncPromise, MergeRebuildPromise,
     RemoveWorktreePromise, DeleteBranchPromise DEF Command
<1>3. ASSUME NEW c \in Checkout, Edit(c) \/ CommitByHand(c) \/ Scan(c) PROVE CheckoutInv'
  BY <1>0, <1>3, EditPromise, CommitByHandPromise, ScanPromise
<1>4. ASSUME NEW b \in Branch, Switch(b) PROVE CheckoutInv'
  BY <1>0, <1>4, SwitchPromise
<1>5. ASSUME NEW p \in Project,
             SessionStart(p) \/ SessionSave(p) \/ SessionEnd(p) \/ Review(p)
      PROVE  CheckoutInv'
  BY <1>0, <1>5, PeoplePromise, SessionSavePromise
<1> QED BY <1>0, <1>1, <1>2, <1>3, <1>4, <1>5, RepairPromise DEF Next

LEMMA PromisesInvariance == Spec => []CheckoutInv
<1>1. CheckoutInv /\ [Next]_vars => CheckoutInv'
  BY NextKeepsPromises
<1> QED BY PromisesInit, <1>1, PTL DEF Spec

\* A database that the commit and the content key call fresh was built of the files
\* of its checkout, but for one that a save re-anchored over code edited after the
\* scan.
THEOREM FreshIsOfTheTree == Spec => []FreshIsTheTree
<1>1. CheckoutInv => FreshIsTheTree
  BY DEF CheckoutInv, DatabasesShow, FreshIsTheTree, Fresh
<1> QED BY <1>1, PromisesInvariance, PTL

\* A merge of a worktree that nobody worked in meanwhile, whose files are all
\* committed and whose database no save re-anchored over code that was not scanned,
\* brings the default branch no claim without its code, although its checks look at
\* the files and it moves a commit.
THEOREM ClaimsMerged == Spec => MergedClaimsAreCode
<1>1. ASSUME CheckoutInv, NEW k \in Cmd, At(k, "merge", "set") \/ At(k, "merge", "commit"),
             ~cmd[k].touched, cmd[k].name \notin masked, Clean(cmd[k].name)
      PROVE  TreeOf(cmd[k].their).spec <= TreeOf(cmd[k].their).code
  <2> DEFINE p == cmd[k].name
  <2>1. p \in disk /\ Shows(db[p].of, work[p]) /\ work[p].spec <= db[p].of.code
    BY <1>1 DEF CheckoutInv, Promises, Promise, Taking, At
  <2>2. ref[p] \in {0, cmd[k].their} /\ head[p] = p /\ ref[p] # 0
    BY <1>1, <2>1 DEF CheckoutInv, IInv, CommandsOK, CommandOK, Merging, At, TypeOK
  <2>3. work[p] = TreeOf(cmd[k].their)
    BY <1>1, <2>2 DEF Clean, HeadOf
  <2> QED BY <2>1, <2>3 DEF Shows
<1>2. CheckoutInv /\ [Next]_vars =>
        [\A k \in Cmd : LET p == cmd[k].name IN
           /\ Did(k, "merge", "set") \/ Did(k, "merge", "commit")
           /\ cmd'[k].at = "sync" /\ ~cmd[k].touched /\ p \notin masked /\ Clean(p)
           => TreeOf(cmd[k].their).spec <= TreeOf(cmd[k].their).code]_vars
  BY <1>1 DEF Did
<1> QED BY <1>2, PromisesInvariance, PTL DEF Spec, MergedClaimsAreCode

\* A command's step moves no other command.
LEMMA OneAtATime ==
    ASSUME IInv, NEW k \in Cmd, Command(k) \/ Fails(k), NEW j \in Cmd, j # k
    PROVE  cmd'[j].at = cmd[j].at /\ cmd'[j].name = cmd[j].name
<1>1. ASSUME NEW s, cmd' = [cmd EXCEPT ![k] = s]
      PROVE  cmd'[j].at = cmd[j].at /\ cmd'[j].name = cmd[j].name
  BY <1>1 DEF IInv, TypeOK
<1>2. ASSUME NEW c, NEW s, cmd' = [Touch(c, k) EXCEPT ![k] = s]
      PROVE  cmd'[j].at = cmd[j].at /\ cmd'[j].name = cmd[j].name
  <2>1. /\ Touch(c, k) \in [Cmd -> CommandStates]
        /\ Touch(c, k)[j].at = cmd[j].at /\ Touch(c, k)[j].name = cmd[j].name
    BY TouchIsTyped DEF IInv
  <2>2. cmd'[j] = Touch(c, k)[j]
    BY <1>2, <2>1
  <2> QED BY <2>1, <2>2
<1>3. ASSUME Refuses(k) \/ Fails(k)
      PROVE  cmd'[j].at = cmd[j].at /\ cmd'[j].name = cmd[j].name
  BY <1>1, <1>3 DEF Refuses, Fails
<1>4. ASSUME NEW c, Ends(k, c) \/ Moved(k) \/ \E step : Goes(k, step, c)
      PROVE  cmd'[j].at = cmd[j].at /\ cmd'[j].name = cmd[j].name
  BY <1>2, <1>4 DEF Ends, Moved, Goes
<1>5. ASSUME NEW p \in Project, StartChecks(k, p) \/ MergeChecks(k, p) \/ DeleteChecks(k, p)
      PROVE  cmd'[j].at = cmd[j].at /\ cmd'[j].name = cmd[j].name
  BY <1>1, <1>5 DEF StartChecks, MergeChecks, DeleteChecks, Begin
<1>6. ASSUME StartHeal(k) PROVE cmd'[j].at = cmd[j].at /\ cmd'[j].name = cmd[j].name
  BY <1>2, <1>4, <1>6 DEF StartHeal
<1>7. ASSUME StartAdd(k) \/ StartCopy(k)
      PROVE  cmd'[j].at = cmd[j].at /\ cmd'[j].name = cmd[j].name
  BY <1>3, <1>4, <1>7 DEF StartAdd, StartCopy
<1>8. ASSUME MergeVerify(k) \/ MergeStrength(k) \/ MergeSync(k) \/ MergeRebuild(k)
      PROVE  cmd'[j].at = cmd[j].at /\ cmd'[j].name = cmd[j].name
  BY <1>3, <1>4, <1>8 DEF MergeVerify, MergeStrength, MergeSync, MergeRebuild
<1>9. ASSUME MergeRead(k) \/ MergeLook(k)
      PROVE  cmd'[j].at = cmd[j].at /\ cmd'[j].name = cmd[j].name
  BY <1>1, <1>3, <1>9 DEF MergeRead, MergeLook
<1>10. ASSUME MergeSet(k) \/ MergeCommit(k)
       PROVE  cmd'[j].at = cmd[j].at /\ cmd'[j].name = cmd[j].name
  BY <1>3, <1>4, <1>10 DEF MergeSet, MergeCommit
<1>11. ASSUME RemoveWorktree(k) \/ DeleteBranch(k)
       PROVE  cmd'[j].at = cmd[j].at /\ cmd'[j].name = cmd[j].name
  BY <1>3, <1>4, <1>11 DEF RemoveWorktree, DeleteBranch
<1> QED BY <1>3, <1>5, <1>6, <1>7, <1>8, <1>9, <1>10, <1>11 DEF Command

\* No step but its own, or its end by a fault, takes a start on from its copy.
LEMMA OnlyTheCopy ==
    ASSUME IInv, Next, NEW k \in Cmd, Did(k, "start", "copy") PROVE StartCopy(k)
<1>1. /\ cmd[k].op = "start" /\ cmd[k].at = "copy" /\ cmd'[k].at # cmd[k].at /\ used' = used
  BY DEF Did, At
<1>2. \A c \in Checkout : cmd' # Touch(c, None) /\ cmd' # cmd
  BY <1>1, TouchIsTyped DEF IInv
<1>3. \A c \in Checkout : ~Edit(c) /\ ~CommitByHand(c) /\ ~Scan(c)
  BY <1>2 DEF Edit, CommitByHand, Scan
<1>4. \A p \in Project : p \in Checkout
  BY DEF Checkout
<1>5. /\ \A p \in Project : ~SessionStart(p) /\ ~SessionSave(p) /\ ~SessionEnd(p) /\ ~Review(p)
      /\ ~Repair
  BY <1>2, <1>4 DEF SessionStart, SessionSave, SessionEnd, Review, Repair
<1>6. \A b \in Branch : ~Switch(b)
  BY <1>1 DEF Switch
<1>7. PICK j \in Cmd : Command(j) \/ Fails(j)
  BY <1>3, <1>5, <1>6 DEF Next
<1>8. ~Fails(j)
  BY <1>1 DEF Fails, IInv, TypeOK, CommandStates
<1>9. j = k
  BY <1>1, <1>7, OneAtATime
<1> QED BY <1>1, <1>7, <1>8, <1>9 DEF Command, StartChecks, MergeChecks, DeleteChecks, Begin,
     StartHeal, StartAdd, MergeVerify, MergeStrength, MergeRead, MergeLook, MergeSet, MergeCommit,
     MergeSync, MergeRebuild, RemoveWorktree, DeleteBranch, At

\* The worktree of a start that committed no .gitignore, and during which nobody
\* changed main or the worktree, has main's database at the commit and with the
\* files it was added at.
THEOREM StartsFresh == Spec => StartedIsFresh
<1>1. ASSUME CheckoutInv, Next, NEW k \in Cmd, Did(k, "start", "copy"), cmd[k].name \in disk,
             ~cmd[k].touched, ~cmd[k].healed
      PROVE  /\ db'[cmd[k].name] # None /\ db'[cmd[k].name].sha = HeadOf(cmd[k].name)
             /\ db'[cmd[k].name].key = work[cmd[k].name]
  <2> DEFINE p == cmd[k].name
  <2>1. StartCopy(k)
    BY <1>1, OnlyTheCopy DEF CheckoutInv
  <2>2. db'[p] = db[Main] /\ db[Main] # None
    BY <1>1, <2>1 DEF StartCopy, CheckoutInv, IInv, TypeOK, Anchored, Checkout
  <2>3. /\ db[Main].sha = HeadOf(p) /\ db[Main].key = work[p]
    BY <1>1 DEF CheckoutInv, Promises, Promise, Did, At
  <2> QED BY <2>2, <2>3
<1>2. CheckoutInv /\ [Next]_vars =>
        [\A k \in Cmd : LET p == cmd[k].name IN
           Did(k, "start", "copy") /\ p \in disk /\ ~cmd[k].touched /\ ~cmd[k].healed
           => db'[p] # None /\ db'[p].sha = HeadOf(p) /\ db'[p].key = work[p]]_vars
  BY <1>1
<1> QED BY <1>2, PromisesInvariance, PTL DEF Spec, StartedIsFresh

-----------------------------------------------------------------------------
(* projects are whole *)

Dropping(p) == \E k \in Cmd : cmd[k].name = p /\ cmd[k].at = "drop"

\* Without faults the main checkout never leaves the default branch either: every
\* other branch is in a worktree, or about to be deleted by a command.
Whole == used.faults = 0 =>
    /\ head[Main] = Default /\ disk = admin
    /\ \A p \in Project : ref[p] # 0 => p \in disk \/ Dropping(p)

\* A step that makes no project and leaves every command that is about to delete a
\* branch where it is.
LEMMA StillWhole ==
    ASSUME Whole, used'.faults = 0 => used.faults = 0,
           UNCHANGED <<disk, admin>>, head'[Main] = head[Main],
           \A p \in Project : ref'[p] # 0 => ref[p] # 0,
           \A k \in Cmd : cmd[k].at = "drop" =>
               cmd'[k].at = "drop" /\ cmd'[k].name = cmd[k].name
    PROVE  Whole'
<1>1. \A p \in Project : Dropping(p) => Dropping(p)'
  BY DEF Dropping
<1> QED BY <1>1 DEF Whole

LEMMA FaultsStay ==
    ASSUME IInv,
           \/ UNCHANGED used
           \/ used' = [used EXCEPT !.edits = @ + 1] \/ used' = [used EXCEPT !.commands = @ + 1]
    PROVE  used'.faults = used.faults
BY DEF IInv, TypeOK

\* A fault counts.
LEMMA FaultIsWhole ==
    ASSUME IInv, used' = [used EXCEPT !.faults = @ + 1] PROVE Whole'
<1>1. used.faults \in Nat /\ used'.faults = used.faults + 1
  BY Counts DEF IInv, TypeOK, UsedType
<1> QED BY <1>1 DEF Whole

\* A commit goes to a branch that exists.
LEMMA CommitsOnBranches ==
    ASSUME IInv, NEW c \in Checkout, c = Main \/ c \in disk, NEW i,
           ref' = [ref EXCEPT ![head[c]] = i]
    PROVE  \A p \in Project : ref'[p] # 0 => ref[p] # 0
<1>1. head[c] \in Branch /\ HeadOf(c) \in Ids /\ Len(history) \in Nat
  BY HeadIsACommit
<1>2. ref[head[c]] # 0
  BY <1>1 DEF HeadOf, Ids
<1>3. Project \subseteq Branch /\ ref \in [Branch -> 0 .. Len(history)]
  BY DEF Branch, IInv, TypeOK
<1> QED BY <1>1, <1>2, <1>3

LEMMA PeopleWhole ==
    ASSUME IInv, Whole, NEW c \in Checkout,
           \/ Edit(c) \/ CommitByHand(c) \/ Scan(c)
           \/ c \in Project /\ (SessionStart(c) \/ SessionSave(c) \/ SessionEnd(c) \/ Review(c))
    PROVE  Whole'
<1>1. /\ UNCHANGED <<head, disk, admin>> /\ cmd' = Touch(c, None)
      /\ UNCHANGED used \/ used' = [used EXCEPT !.edits = @ + 1]
  BY DEF Edit, CommitByHand, Scan, SessionStart, SessionSave, SessionEnd, Review, git
<1>2. \A p \in Project : ref'[p] # 0 => ref[p] # 0
  <2>1. CASE CommitByHand(c)
    BY <2>1, CommitsOnBranches DEF CommitByHand
  <2>2. CASE c \in Project /\ SessionSave(c)
    <3>1. c \in disk /\ ref' = [ref EXCEPT ![head[c]] = Len(history')]
      BY <2>2 DEF SessionSave, IInv, TypeOK
    <3> QED BY <3>1, CommitsOnBranches
  <2>3. CASE UNCHANGED ref
    BY <2>3
  <2> QED BY <2>1, <2>2, <2>3 DEF Edit, Scan, SessionStart, SessionEnd, Review, git
<1>3. \A k \in Cmd : cmd[k].at = "drop" => cmd'[k].at = "drop" /\ cmd'[k].name = cmd[k].name
  BY <1>1, TouchIsTyped DEF IInv
<1> QED BY <1>1, <1>2, <1>3, FaultsStay, StillWhole

LEMMA SwitchWhole ==
    ASSUME IInv, Whole, NEW b \in Branch, Switch(b) PROVE Whole'
<1>1. /\ UNCHANGED used /\ \A k \in Cmd : cmd[k].at = "idle"
      /\ ref[b] # 0 /\ \A c \in Checkout : head[c] # b
  BY DEF Switch
<1>2. used.faults # 0
  <2> SUFFICES ASSUME used.faults = 0 PROVE FALSE
    OBVIOUS
  <2>1. head[Main] = Default /\ \A p \in Project : ref[p] # 0 => p \in disk
    BY <1>1 DEF Whole, Dropping
  <2>2. b \in Project /\ b \in Checkout
    BY <1>1, <2>1 DEF Branch, Checkout
  <2> QED BY <1>1, <2>1, <2>2 DEF IInv, TypeOK
<1> QED BY <1>1, <1>2 DEF Whole

\* A step of a command that is not its last: no project appears.
LEMMA CommandWhole ==
    ASSUME IInv, Whole, NEW k \in Cmd, Command(k), cmd[k].at # "drop",
           UNCHANGED <<disk, admin, head>>, UNCHANGED used \/ used' = [used EXCEPT !.commands = @ + 1],
           \A p \in Project : ref'[p] # 0 => ref[p] # 0
    PROVE  Whole'
<1>1. \A j \in Cmd : cmd[j].at = "drop" => cmd'[j].at = "drop" /\ cmd'[j].name = cmd[j].name
  BY OneAtATime
<1> QED BY <1>1, FaultsStay, StillWhole

LEMMA QuietWhole ==
    ASSUME IInv, Whole, NEW k \in Cmd,
           \/ \E p \in Project : StartChecks(k, p) \/ MergeChecks(k, p) \/ DeleteChecks(k, p)
           \/ StartCopy(k) \/ MergeVerify(k) \/ MergeStrength(k) \/ MergeRead(k) \/ MergeLook(k)
           \/ MergeSync(k) \/ MergeRebuild(k)
    PROVE  Whole'
<1>1. Command(k)
  BY DEF Command
<1>2. /\ cmd[k].at # "drop" /\ UNCHANGED <<ref, disk, admin, head>>
      /\ UNCHANGED used \/ used' = [used EXCEPT !.commands = @ + 1]
  <2>1. CASE \E p \in Project : StartChecks(k, p) \/ MergeChecks(k, p) \/ DeleteChecks(k, p)
    BY <2>1 DEF StartChecks, MergeChecks, DeleteChecks, Begin, git
  <2>2. CASE StartCopy(k)
    BY <2>2 DEF StartCopy, Refuses, At, git
  <2>3. CASE MergeVerify(k) \/ MergeStrength(k)
    BY <2>3 DEF MergeVerify, MergeStrength, Refuses, At, git
  <2>4. CASE MergeRead(k) \/ MergeLook(k)
    BY <2>4 DEF MergeRead, MergeLook, Refuses, At, git
  <2>5. CASE MergeSync(k) \/ MergeRebuild(k)
    BY <2>5 DEF MergeSync, MergeRebuild, Refuses, At, git
  <2> QED BY <2>1, <2>2, <2>3, <2>4, <2>5
<1> QED BY <1>1, <1>2, CommandWhole

LEMMA MovesWhole ==
    ASSUME IInv, Whole, NEW k \in Cmd, StartHeal(k) \/ MergeSet(k) \/ MergeCommit(k)
    PROVE  Whole'
<1>1. Command(k)
  BY DEF Command
<1>2. cmd[k].at # "drop" /\ UNCHANGED <<disk, admin, head, used>>
  BY DEF StartHeal, MergeSet, MergeCommit, Refuses, At, git
<1>3. \A p \in Project : ref'[p] # 0 => ref[p] # 0
  <2>1. CASE UNCHANGED ref
    BY <2>1
  <2>2. CASE \E i : ref' = [ref EXCEPT ![head[Main]] = i]
    BY <2>2, CommitsOnBranches DEF Checkout
  <2>3. CASE ref' = [ref EXCEPT ![Default] = cmd[k].their]
    BY <2>3, ProjectAssumption DEF IInv, TypeOK, Branch
  <2> QED BY <2>1, <2>2, <2>3 DEF StartHeal, MergeSet, MergeCommit, Refuses, git
<1> QED BY <1>1, <1>2, <1>3, CommandWhole

\* Branch, worktree and registration come at once.
LEMMA StartAddWhole ==
    ASSUME IInv, Whole, NEW k \in Cmd, StartAdd(k) PROVE Whole'
<1>1. Command(k) /\ cmd[k].at = "add" /\ UNCHANGED used
  BY DEF Command, StartAdd, Refuses, At
<1>2. CASE Refuses(k)
  BY <1>1, <1>2, CommandWhole DEF Refuses, git
<1>3. CASE ~Refuses(k)
  <2> DEFINE p == cmd[k].name
  <2>1. /\ ref' = [ref EXCEPT ![p] = HeadOf(Main)] /\ head' = [head EXCEPT ![p] = p]
        /\ admin' = admin \cup {p} /\ disk' = disk \cup {p}
    BY <1>3 DEF StartAdd
  <2>2. p \in Project /\ p # Main
    BY <1>1, ProjectAssumption DEF IInv, CommandsOK, CommandOK
  <2>3. head'[Main] = head[Main]
    BY <2>1, <2>2 DEF IInv, TypeOK
  <2>4. \A q \in Project : q # p /\ ref'[q] # 0 => ref[q] # 0
    BY <2>1 DEF IInv, TypeOK
  <2>5. \A q \in Project : Dropping(q) => Dropping(q)'
    BY <1>1, OneAtATime DEF Dropping
  <2> QED BY <1>1, <2>1, <2>3, <2>4, <2>5 DEF Whole
<1> QED BY <1>2, <1>3

\* Worktree and registration go at once, and the branch is to follow.
LEMMA RemoveWorktreeWhole ==
    ASSUME IInv, Whole, NEW k \in Cmd, RemoveWorktree(k) PROVE Whole'
<1> DEFINE p == cmd[k].name
<1>1. /\ Command(k) /\ cmd[k].at = "prune" /\ Goes(k, "drop", p) /\ UNCHANGED <<ref, used>>
      /\ p \in Project /\ p # Main
  BY ProjectAssumption DEF Command, RemoveWorktree, IInv, CommandsOK, CommandOK
<1>2. \/ admin' = admin \ {p} /\ disk' = disk \ {p} /\ head' = [head EXCEPT ![p] = None]
      \/ UNCHANGED <<admin, disk, head>>
  BY DEF RemoveWorktree
<1>3. head'[Main] = head[Main]
  <2>1. head \in [Checkout -> Branch \cup {None}] /\ Main \in Checkout
    BY DEF IInv, TypeOK, Checkout
  <2> QED BY <1>1, <1>2, <2>1
<1>4. cmd'[k].at = "drop" /\ cmd'[k].name = p
  <2>1. "drop" \in Step
    BY DEF Step
  <2> QED BY <1>1, <2>1, Advances
<1>5. \A q \in Project : Dropping(q) => Dropping(q)'
  BY <1>1, OneAtATime DEF Dropping
<1>6. ASSUME used.faults = 0, NEW q \in Project, ref'[q] # 0 PROVE q \in disk' \/ Dropping(q)'
  <2>1. q \in disk \/ Dropping(q)
    BY <1>1, <1>6 DEF Whole
  <2>2. CASE q = p
    BY <1>4, <2>2 DEF Dropping
  <2>3. CASE q # p
    BY <2>1, <2>3, <1>2, <1>5
  <2> QED BY <2>2, <2>3
<1> QED BY <1>1, <1>2, <1>3, <1>6 DEF Whole

\* A command that is refused its branch leaves one that is in a worktree.
LEMMA DeleteBranchWhole ==
    ASSUME IInv, Whole, NEW k \in Cmd, DeleteBranch(k) PROVE Whole'
<1> DEFINE p == cmd[k].name
<1>1. /\ Command(k) /\ cmd[k].at = "drop" /\ UNCHANGED <<disk, admin, head, used>>
      /\ p \in Project /\ p # Default
  BY ProjectAssumption DEF Command, DeleteBranch, Refuses, git, IInv, CommandsOK, CommandOK
<1>2. \A q \in Project : q # p /\ Dropping(q) => Dropping(q)'
  BY <1>1, OneAtATime DEF Dropping
<1>3. CASE \E c \in Checkout : head[c] = p
  <2>1. UNCHANGED ref
    BY <1>3 DEF DeleteBranch, Refuses, git
  <2>2. head[Main] = Default => p \in disk
    BY <1>1, <1>3, ProjectAssumption DEF IInv, TypeOK, Checkout
  <2> QED BY <1>1, <1>2, <2>1, <2>2 DEF Whole
<1>4. CASE \A c \in Checkout : head[c] # p
  <2>1. \A q \in Project : IF q = p THEN ref'[q] = 0 ELSE ref'[q] = ref[q]
    BY <1>1, <1>4 DEF DeleteBranch, IInv, TypeOK, Branch
  <2> QED BY <1>1, <1>2, <2>1 DEF Whole
<1> QED BY <1>3, <1>4

LEMMA WholeInit == Init => Whole
BY ProjectAssumption DEF Init, Whole, Branch, Checkout

LEMMA NextKeepsWhole == ASSUME IInv, Whole, [Next]_vars PROVE Whole'
<1>1. CASE UNCHANGED vars
  BY <1>1 DEF vars, Whole, Dropping
<1>2. ASSUME NEW k \in Cmd, Command(k) PROVE Whole'
  BY <1>2, QuietWhole, MovesWhole, StartAddWhole, RemoveWorktreeWhole, DeleteBranchWhole DEF Command
<1>3. ASSUME NEW k \in Cmd, Fails(k) PROVE Whole'
  BY <1>3, FaultIsWhole DEF Fails
<1>4. ASSUME NEW c \in Checkout, Edit(c) \/ CommitByHand(c) \/ Scan(c) PROVE Whole'
  BY <1>4, PeopleWhole
<1>5. ASSUME NEW b \in Branch, Switch(b) PROVE Whole'
  BY <1>5, SwitchWhole
<1>6. ASSUME NEW p \in Project,
             SessionStart(p) \/ SessionSave(p) \/ SessionEnd(p) \/ Review(p)
      PROVE  Whole'
  BY <1>6, PeopleWhole DEF Checkout
<1>7. ASSUME Repair PROVE Whole'
  BY <1>7, FaultIsWhole DEF Repair
<1> QED BY <1>1, <1>2, <1>3, <1>4, <1>5, <1>6, <1>7 DEF Next

\* However the starts, merges and deletes of a name overlap, a project is whole or
\* is not there, until something fails, is killed or is repaired by hand.
THEOREM WholeProjects == Spec => []ProjectsWhole
<1>1. IInv /\ Whole /\ [Next]_vars => Whole'
  BY NextKeepsWhole
<1>2. IInv /\ Whole => ProjectsWhole
  <2> SUFFICES ASSUME IInv, Whole, used.faults = 0, NEW p \in Project
               PROVE  /\ p \in disk <=> p \in admin
                      /\ p \in disk => ref[p] # 0
                      /\ ref[p] # 0 =>
                           p \in disk \/ \E k \in Cmd : cmd[k].name = p /\ cmd[k].at = "drop"
    BY DEF ProjectsWhole
  <2> QED BY DEF Whole, Dropping, IInv, TypeOK
<1> QED BY WholeInit, Invariance, <1>1, <1>2, PTL DEF Spec
=============================================================================
