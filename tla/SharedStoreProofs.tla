--------------------------- MODULE SharedStoreProofs ---------------------------
(***************************************************************************)
(* For every set of worktrees, files, contents, languages and faults: a    *)
(* full scan's database is the rebuild of its tree, at rest the files of   *)
(* the shared store name one scan and one tree and hold a unit for every   *)
(* file of it, and a fresh database shows exactly the files of its tree.   *)
(* Where each file has names of its own (OwnNames), whatever was scanned,  *)
(* reused, spliced, killed or overtaken, it shows exactly the declarations *)
(* of its tree, and at rest the stored units, signatures and dependencies  *)
(* are those of the recorded tree.                                         *)
(***************************************************************************)
EXTENDS SharedStore, SequenceTheorems, WellFoundedInduction, FiniteSetTheorems, TLAPS

JobFields == {"key", "recorded", "full", "warm", "targets", "removed", "candidates",
              "manifest", "graph", "held", "hurt"}
Before  == {"probe", "recorded", "plan", "diff"}
Saving  == {"index", "manifest", "scan", "state", "build"}
Steps   == {"idle", "emit", "assemble"} \cup Before \cup Saving

(* The strengthening.  The repository holds trees of the universe only.     *)
RepoOK ==
    /\ commits \in Seq([tree : Trees, ancestors : SUBSET Nat])
    /\ \A c \in 1..Len(commits) : commits[c].ancestors \subseteq 1..(c - 1)
    /\ head \in [Worktree -> 1..Len(commits)]
    /\ tree \in [Worktree -> Trees]

\* A scan works for the key its worktree still has, from the tree it still has;
\* a full one takes no target, and what it holds is the whole tree's.
FullGraph(w) ==
    job[w].full /\ job[w].hurt = {} =>
        /\ pc[w] = "assemble" => job[w].graph = Ingested(WholeStream(tree[w]))
        /\ pc[w] \in Saving => job[w].graph = Finalized(Ingested(WholeStream(tree[w])))

JobOK(w) ==
    /\ DOMAIN job[w] = JobFields
    /\ job[w].hurt \subseteq Language
    /\ DOMAIN job[w].held \subseteq File \X Content
    /\ Idle(w) => job[w] = NoJob
    /\ ~Idle(w) => job[w].key = Key(w)
    /\ pc[w] \in Before => ~job[w].full
    /\ pc[w] \in {"diff", "emit", "assemble"} \cup Saving => job[w].manifest = tree[w]
    /\ job[w].full => job[w].targets = {}
    /\ FullGraph(w)

JobsOK ==
    /\ pc \in [Worktree -> Steps]
    /\ DOMAIN job = Worktree
    /\ \A w \in Worktree : JobOK(w)

StoreOK ==
    /\ DOMAIN index.units \subseteq File \X Content
    /\ storeHurt \subseteq Language
    /\ manifest \in Trees \cup {None}
    /\ scan # None => /\ scan.manifest \in Trees
                      /\ scan.manifest = scan.key.tree
                      /\ scan.sha \in 1..Len(commits)

DbsOK ==
    /\ DOMAIN db = Worktree
    /\ \A w \in Worktree : db[w] # None =>
        /\ db[w].hurt \subseteq Language
        /\ db[w].full /\ db[w].hurt = {} =>
              db[w].key.tree \in Trees /\ db[w].graph = Rebuild(db[w].key.tree)

\* A scan nobody saved over finds in the store what it has written so far.
Untorn(w) ==
    ~torn[w] =>
        /\ pc[w] \in {"scan", "state"} => manifest = job[w].manifest
        /\ pc[w] = "state" => scan.manifest = job[w].manifest /\ scan.key = job[w].key

TornOK ==
    /\ torn \in [Worktree -> BOOLEAN]
    /\ \A w \in Worktree : Untorn(w)
    /\ StoreOfOneScan

IInv == RepoOK /\ JobsOK /\ StoreOK /\ DbsOK /\ TornOK

-----------------------------------------------------------------------------
(* The trees, and what rebuilds them                                        *)

LEMMA TreesAreTrees == Trees \subseteq Tree
BY DEF Trees

LEMMA FirstTreeIsOne == FirstTree \in Trees
BY StoreAssumption DEF Trees, Tree

\* The table of rebuilds has the rebuild of every tree it ranges over.
LEMMA RebuiltIsRebuild ==
    ASSUME NEW T \in Trees
    PROVE  Rebuilt(T).db = Rebuild(T)
<1>0. \A U, D : Described(U, D).tree = U /\ Described(U, D).db = D
  BY DEF Described
<1>1. \E r \in Rebuilds : r.tree = T
  BY <1>0 DEF Rebuilds
<1>2. \A r \in Rebuilds : r.tree = T => r.db = Rebuild(T)
  BY <1>0 DEF Rebuilds
<1>3. Rebuilt(T) \in Rebuilds /\ Rebuilt(T).tree = T
  BY <1>1 DEF Rebuilt
<1> QED BY <1>2, <1>3

\* A language with no file has nothing to say.
LEMMA EmptyLanguage ==
    ASSUME NEW T \in Trees, NEW l \in Language, \A f \in Present(T) : langOf[f] # l,
           NEW field \in DOMAIN EmptyStream
    PROVE  Stream(T, l, File)[field] = {}
<1> DEFINE W == {f \in Present(T) : langOf[f] = l}
           Within(walked) == UNION {Prefixes(moduleOf[f]) : f \in walked}
<1>1. W = {} /\ W \cap File = {}
  OBVIOUS
<1>2. Stream(T, l, File) = Spool(T, l, Within(W), W \cap File, EdgesOf(T, W \cap File))
  BY DEF Stream
<1>3. EdgesOf(T, {}) = {} /\ Within({}) = {}
  BY DEF EdgesOf
<1>4. Stream(T, l, File) = Spool(T, l, {}, {}, {})
  <2> HIDE DEF Within, W
  <2> QED BY <1>1, <1>2, <1>3
<1>5. /\ Records(T, {}, "Struct") = {}
      /\ Records(T, {}, "Function") = {}
  BY DEF Records
<1>6. Spool(T, l, {}, {}, {})[field] = {}
  BY <1>5 DEF EmptyStream, Spool
<1> QED
  BY <1>4, <1>6

\* Spawning every detected language emits the whole tree.
LEMMA FullSpools ==
    ASSUME NEW w \in Worktree, tree[w] \in Trees
    PROVE  Joined(Spools(w, {}, {})) = WholeStream(tree[w])
<1> DEFINE T  == tree[w]
           sp == Spools(w, {}, {})
           al == [l \in Language |-> Stream(T, l, File)]
<1>1. Detected(T) \subseteq Language
  BY StoreAssumption DEF Detected, Present
<1>2. sp = [l \in Detected(T) |-> Stream(T, l, File)]
  BY <1>1 DEF Spools, Spawned
<1>3. \A l \in Language \ Detected(T) : \A f \in Present(T) : langOf[f] # l
  BY DEF Detected
<1>4. ASSUME NEW field \in DOMAIN EmptyStream
      PROVE  UNION {sp[l][field] : l \in DOMAIN sp} = UNION {al[l][field] : l \in DOMAIN al}
  <2>1. \A l \in Language \ Detected(T) : al[l][field] = {}
    BY <1>3, EmptyLanguage
  <2>2. \A l \in Detected(T) : sp[l][field] = al[l][field]
    BY <1>1, <1>2
  <2>3. DOMAIN sp = Detected(T) /\ DOMAIN al = Language
    BY <1>2
  <2> HIDE DEF sp, al
  <2> QED BY <1>1, <2>1, <2>2, <2>3
<1>5. Joined(sp) = Joined(al)
  <2> HIDE DEF sp, al
  <2> QED BY <1>4 DEF Joined
<1> QED BY <1>5 DEF WholeStream

LEMMA FieldsOfAJob == DOMAIN NoJob = JobFields
BY DEF NoJob, JobFields

-----------------------------------------------------------------------------
(* What a step of one worktree leaves of the others                         *)

\* A step of w changes no other job and moves no worktree.
Apart(w) ==
    /\ DOMAIN job' = Worktree
    /\ \A v \in Worktree \ {w} : job'[v] = job[v] /\ pc'[v] = pc[v]
    /\ UNCHANGED <<head, tree>>

LEMMA JobsApart ==
    ASSUME JobsOK, NEW w \in Worktree, Apart(w),
           pc' \in [Worktree -> Steps], JobOK(w)'
    PROVE  JobsOK'
<1>1. ASSUME NEW v \in Worktree, v # w PROVE JobOK(v)'
  <2>1. /\ job'[v] = job[v] /\ pc'[v] = pc[v] /\ tree'[v] = tree[v] /\ head'[v] = head[v]
        /\ JobOK(v)
    BY <1>1 DEF Apart, JobsOK
  <2> QED BY <2>1 DEF JobOK, FullGraph, Idle, Key
<1> QED BY <1>1 DEF JobsOK, Apart

\* A step that leaves the store alone keeps its record.
LEMMA TornApart ==
    ASSUME JobsOK, TornOK, NEW w \in Worktree, Apart(w),
           torn' \in [Worktree -> BOOLEAN],
           \A v \in Worktree \ {w} : torn'[v] = torn[v],
           ~MidSave(w)', MidSave(w) => storeHurt' = Language,
           ~MidSave(w) => storeHurt' = storeHurt,
           UNCHANGED <<manifest, scan>>
    PROVE  TornOK'
<1>1. ASSUME NEW v \in Worktree, v # w PROVE Untorn(v)' /\ MidSave(v)' = MidSave(v)
  BY <1>1 DEF Apart, TornOK, Untorn, MidSave
<1>2. Untorn(w)'
  BY DEF MidSave, Untorn
<1>3. MidSave(w) => StoreOfOneScan'
  BY DEF StoreOfOneScan
<1>4. ~MidSave(w) => StoreOfOneScan'
  <2>1. ~MidSave(w) /\ AtRest' => AtRest
    BY <1>1 DEF AtRest
  <2> QED BY <2>1 DEF StoreOfOneScan, TornOK
<1> QED BY <1>1, <1>2, <1>3, <1>4 DEF TornOK

\* A save of w tears every other scan.
LEMMA TornSaving ==
    ASSUME TornOK, NEW w \in Worktree, Apart(w), Overtakes(w), Untorn(w)'
    PROVE  /\ torn' \in [Worktree -> BOOLEAN]
           /\ \A v \in Worktree : Untorn(v)'
           /\ torn'[w] = torn[w]
<1>1. torn \in [Worktree -> BOOLEAN]
  BY DEF TornOK
<1>2. torn' \in [Worktree -> BOOLEAN] /\ torn'[w] = torn[w]
  BY <1>1 DEF Overtakes
<1>3. ASSUME NEW v \in Worktree, v # w PROVE Untorn(v)'
  <2>1. torn'[v] = (torn[v] \/ ~Idle(v)) /\ pc'[v] = pc[v]
    BY <1>3 DEF Overtakes, Apart
  <2>2. CASE Idle(v)
    BY <2>1, <2>2 DEF Untorn, Idle
  <2>3. CASE ~Idle(v)
    BY <2>1, <2>3, <1>1 DEF Untorn
  <2> QED BY <2>2, <2>3
<1> QED BY <1>2, <1>3

-----------------------------------------------------------------------------
(* The repository moves                                                      *)

LEMMA ContentsKeepTrees ==
    ASSUME NEW T \in Trees, NEW f \in File, NEW c \in contentsOf[f]
    PROVE  [T EXCEPT ![f] = c] \in Trees
<1>1. contentsOf[f] \subseteq Content \cup {Missing}
  BY StoreAssumption
<1>2. T \in Tree /\ \A g \in File : T[g] \in contentsOf[g] \cup {FirstTree[g]}
  BY DEF Trees
<1> DEFINE U == [T EXCEPT ![f] = c]
<1>3. U \in Tree /\ \A g \in File : U[g] \in contentsOf[g] \cup {FirstTree[g]}
  BY <1>1, <1>2 DEF Tree
<1> QED BY <1>3 DEF Trees

LEMMA MovesKeep ==
    ASSUME IInv, Moves, RepoOK', Len(commits) <= Len(commits')
    PROVE  IInv'
<1>1. RepoOK /\ JobsOK /\ StoreOK /\ DbsOK /\ TornOK
  BY DEF IInv
<1>2. \A v \in Worktree : Idle(v)
  BY DEF Moves
<1>3. UNCHANGED <<db, index, manifest, scan, state, pc, job, torn, storeHurt>>
  BY DEF Moves, store, history
<1>4. JobsOK'
  <2>1. ASSUME NEW v \in Worktree PROVE JobOK(v)'
    <3>1. pc'[v] = "idle" /\ job'[v] = job[v] /\ JobOK(v)
      BY <1>1, <1>2, <1>3 DEF Idle, JobsOK
    <3>2. job[v] = NoJob
      BY <3>1, <1>2 DEF JobOK
    <3>3. ~NoJob.full
      BY DEF NoJob
    <3> QED BY <3>1, <3>2, <3>3 DEF JobOK, FullGraph, Idle, Before, Saving
  <2> QED BY <1>1, <1>3, <2>1 DEF JobsOK
<1>5. StoreOK'
  <2>1. Len(commits) \in Nat /\ Len(commits') \in Nat
    BY <1>1 DEF RepoOK
  <2> QED BY <1>1, <1>3, <2>1 DEF StoreOK
<1>6. DbsOK'
  BY <1>1, <1>3 DEF DbsOK
<1>7. TornOK'
  BY <1>1, <1>3 DEF TornOK, Untorn, StoreOfOneScan, AtRest, MidSave
<1> QED BY <1>4, <1>5, <1>6, <1>7 DEF IInv

LEMMA EditFileKeeps ==
    ASSUME IInv, NEW w \in Worktree, NEW f \in File, NEW c \in contentsOf[f], EditFile(w, f, c)
    PROVE  IInv'
<1>1. RepoOK
  BY DEF IInv
<1>2. tree' = [tree EXCEPT ![w] = [tree[w] EXCEPT ![f] = c]] /\ UNCHANGED <<commits, head>>
  BY DEF EditFile
<1>3. [tree[w] EXCEPT ![f] = c] \in Trees
  BY <1>1, ContentsKeepTrees DEF RepoOK
<1>4. tree' \in [Worktree -> Trees]
  BY <1>1, <1>2, <1>3 DEF RepoOK
<1>5. RepoOK'
  BY <1>1, <1>2, <1>4 DEF RepoOK
<1>6. Len(commits) <= Len(commits')
  BY <1>1, <1>2 DEF RepoOK
<1> QED BY <1>5, <1>6, MovesKeep DEF EditFile

LEMMA CommitTreeKeeps ==
    ASSUME IInv, NEW w \in Worktree, CommitTree(w)
    PROVE  IInv'
<1>1. RepoOK
  BY DEF IInv
<1> DEFINE new == [tree |-> tree[w], ancestors |-> commits[head[w]].ancestors \cup {head[w]}]
           n   == Len(commits)
<1>2. /\ commits' = Append(commits, new)
      /\ head' = [head EXCEPT ![w] = n + 1] /\ UNCHANGED tree
  BY DEF CommitTree
<1>3. n \in Nat /\ head[w] \in 1..n /\ tree[w] \in Trees
  BY <1>1 DEF RepoOK
<1>4. commits[head[w]].ancestors \subseteq 1..(head[w] - 1)
  BY <1>1, <1>3 DEF RepoOK
<1>5. new.ancestors \subseteq 1..n
  BY <1>3, <1>4
<1>6. new \in [tree : Trees, ancestors : SUBSET Nat]
  BY <1>3, <1>5
<1> HIDE DEF new
<1>7. /\ commits' \in Seq([tree : Trees, ancestors : SUBSET Nat])
      /\ Len(commits') = n + 1 /\ commits'[n + 1] = new
      /\ \A c \in 1..n : commits'[c] = commits[c]
  BY <1>1, <1>2, <1>6 DEF RepoOK
<1>8. \A c \in 1..(n + 1) : commits'[c].ancestors \subseteq 1..(c - 1)
  <2>1. \A c \in 1..n : commits'[c].ancestors \subseteq 1..(c - 1)
    BY <1>1, <1>7 DEF RepoOK
  <2> QED BY <2>1, <1>3, <1>5, <1>7
<1>9. head' \in [Worktree -> 1..(n + 1)]
  BY <1>1, <1>2, <1>3 DEF RepoOK
<1>10. RepoOK'
  BY <1>1, <1>2, <1>7, <1>8, <1>9 DEF RepoOK
<1> QED BY <1>3, <1>7, <1>10, MovesKeep DEF CommitTree

LEMMA CheckoutKeeps ==
    ASSUME IInv, NEW w \in Worktree, NEW c \in 1..Len(commits), Checkout(w, c)
    PROVE  IInv'
<1>1. RepoOK
  BY DEF IInv
<1>2. /\ head' = [head EXCEPT ![w] = c] /\ tree' = [tree EXCEPT ![w] = commits[c].tree]
      /\ UNCHANGED commits
  BY DEF Checkout
<1>3. commits[c].tree \in Trees /\ Len(commits) \in Nat
  <2>1. commits \in Seq([tree : Trees, ancestors : SUBSET Nat])
    BY <1>1 DEF RepoOK
  <2>2. commits[c] \in [tree : Trees, ancestors : SUBSET Nat]
    BY <2>1, ElementOfSeq
  <2> QED BY <2>1, <2>2
<1>4. RepoOK'
  BY <1>1, <1>2, <1>3 DEF RepoOK
<1> QED BY <1>2, <1>3, <1>4, MovesKeep DEF Checkout

-----------------------------------------------------------------------------
(* The steps of a scan that write neither store nor database                *)

LEMMA QuietStep ==
    ASSUME IInv, NEW w \in Worktree, Apart(w), JobOK(w)', pc' \in [Worktree -> Steps],
           UNCHANGED <<commits, index, manifest, scan>>, DbsOK',
           torn' \in [Worktree -> BOOLEAN], \A v \in Worktree \ {w} : torn'[v] = torn[v],
           ~MidSave(w)', MidSave(w) => storeHurt' = Language,
           ~MidSave(w) => storeHurt' = storeHurt
    PROVE  IInv'
<1>1. RepoOK /\ JobsOK /\ StoreOK /\ TornOK
  BY DEF IInv
<1>2. RepoOK'
  BY <1>1 DEF RepoOK, Apart
<1>3. JobsOK'
  BY <1>1, JobsApart
<1>4. StoreOK'
  BY <1>1 DEF StoreOK
<1>5. TornOK'
  BY <1>1, TornApart
<1> QED BY <1>2, <1>3, <1>4, <1>5 DEF IInv

LEMMA SameDbs == ASSUME DbsOK, UNCHANGED db PROVE DbsOK'
BY DEF DbsOK

\* What a step of w does to the program counters and to the other jobs.
LEMMA StepApart ==
    ASSUME IInv, NEW w \in Worktree, NEW here \in Steps, NEW next \in Steps,
           At(w, here, next), UNCHANGED <<head, tree>>,
           NEW j, job' = [job EXCEPT ![w] = j]
    PROVE  /\ Apart(w) /\ job'[w] = j
           /\ pc[w] = here /\ pc'[w] = next /\ pc' \in [Worktree -> Steps]
BY DEF At, IInv, JobsOK, Apart

LEMMA StartKeeps ==
    ASSUME IInv, NEW w \in Worktree, Start(w)
    PROVE  IInv'
<1> DEFINE j == [NoJob EXCEPT !.key = Key(w)]
<1>1. /\ At(w, "idle", "probe") /\ job' = [job EXCEPT ![w] = j]
      /\ torn' = [torn EXCEPT ![w] = \E v \in Worktree \ {w} : MidSave(v)]
      /\ UNCHANGED <<commits, head, tree, db, index, manifest, scan, storeHurt>>
  BY DEF Start, Takes, repo, store
<1>2. /\ Apart(w) /\ job'[w] = j
      /\ pc[w] = "idle" /\ pc'[w] = "probe" /\ pc' \in [Worktree -> Steps]
  BY <1>1, StepApart DEF Steps, Before
<1>3. JobOK(w)'
  <2>1. /\ j.key = Key(w) /\ ~j.full /\ j.hurt = {} /\ j.held = << >> /\ DOMAIN j = JobFields
    BY DEF NoJob, JobFields
  <2>2. DOMAIN << >> = {}
    OBVIOUS
  <2>3. Key(w)' = Key(w)
    BY <1>1 DEF Key
  <2> HIDE DEF j
  <2> QED BY <1>2, <2>1, <2>2, <2>3 DEF JobOK, FullGraph, Idle, Before, Saving
<1>4. torn' \in [Worktree -> BOOLEAN] /\ \A v \in Worktree \ {w} : torn'[v] = torn[v]
  BY <1>1 DEF IInv, TornOK
<1>5. ~MidSave(w) /\ ~MidSave(w)'
  BY <1>2 DEF MidSave
<1>6. DbsOK'
  BY <1>1, SameDbs DEF IInv
<1> QED BY <1>1, <1>2, <1>3, <1>4, <1>5, <1>6, QuietStep

LEMMA StartForcedKeeps ==
    ASSUME IInv, NEW w \in Worktree, StartForced(w)
    PROVE  IInv'
<1> DEFINE j == [NoJob EXCEPT !.key = Key(w), !.full = TRUE, !.manifest = tree[w]]
<1>1. /\ At(w, "idle", "emit") /\ job' = [job EXCEPT ![w] = j]
      /\ torn' = [torn EXCEPT ![w] = \E v \in Worktree \ {w} : MidSave(v)]
      /\ UNCHANGED <<commits, head, tree, index, manifest, scan, storeHurt>>
      /\ db' = [db EXCEPT ![w] = None]
  BY DEF StartForced, Takes, repo, store
<1>2. /\ Apart(w) /\ job'[w] = j
      /\ pc[w] = "idle" /\ pc'[w] = "emit" /\ pc' \in [Worktree -> Steps]
  BY <1>1, StepApart DEF Steps, Before
<1>3. JobOK(w)'
  <2>1. /\ j.key = Key(w) /\ j.full /\ j.hurt = {} /\ j.held = << >> /\ DOMAIN j = JobFields
        /\ j.targets = {} /\ j.manifest = tree[w]
    BY DEF NoJob, JobFields
  <2>2. DOMAIN << >> = {}
    OBVIOUS
  <2>3. Key(w)' = Key(w)
    BY <1>1 DEF Key
  <2> HIDE DEF j
  <2> QED BY <1>1, <1>2, <2>1, <2>2, <2>3 DEF JobOK, FullGraph, Idle, Before, Saving
<1>4. torn' \in [Worktree -> BOOLEAN] /\ \A v \in Worktree \ {w} : torn'[v] = torn[v]
  BY <1>1 DEF IInv, TornOK
<1>5. ~MidSave(w) /\ ~MidSave(w)'
  BY <1>2 DEF MidSave
<1>6. DbsOK'
  BY <1>1 DEF IInv, DbsOK
<1> QED BY <1>1, <1>2, <1>3, <1>4, <1>5, <1>6, QuietStep

\* A step that only fills in the job.
LEMMA JobStep ==
    ASSUME IInv, NEW w \in Worktree, Apart(w), JobOK(w)', pc' \in [Worktree -> Steps],
           UNCHANGED <<commits, index, manifest, scan, db, torn, storeHurt>>,
           ~MidSave(w), ~MidSave(w)'
    PROVE  IInv'
<1>1. torn' \in [Worktree -> BOOLEAN] /\ \A v \in Worktree \ {w} : torn'[v] = torn[v]
  BY DEF IInv, TornOK
<1>2. DbsOK'
  BY SameDbs DEF IInv
<1> QED BY <1>1, <1>2, QuietStep

LEMMA ProbeKeeps ==
    ASSUME IInv, NEW w \in Worktree, Probe(w)
    PROVE  IInv'
<1>1. UNCHANGED <<commits, head, tree, index, manifest, scan, db, torn, storeHurt>>
  BY DEF Probe, StepKeeps, repo, store, history
<1>2. JobsOK /\ StoreOK /\ JobOK(w) /\ DOMAIN job = Worktree /\ pc \in [Worktree -> Steps]
  BY DEF IInv, JobsOK
<1>3. CASE Warm(w) /\ At(w, "probe", "assemble")
           /\ job' = [job EXCEPT ![w].warm = TRUE, ![w].recorded = scan.key,
                         ![w].manifest = scan.manifest, ![w].candidates = Present(scan.manifest),
                         ![w].graph = Ingested(Joined(<< >>))]
  <2>1. /\ Apart(w) /\ pc[w] = "probe" /\ pc'[w] = "assemble" /\ pc' \in [Worktree -> Steps]
    BY <1>1, <1>2, <1>3 DEF Apart, At, Steps
  <2>2. /\ DOMAIN job'[w] = DOMAIN job[w] /\ job'[w].hurt = job[w].hurt
        /\ job'[w].held = job[w].held /\ job'[w].key = job[w].key /\ job'[w].full = job[w].full
        /\ job'[w].manifest = scan.manifest
    BY <1>2, <1>3 DEF JobOK, JobFields
  <2>3. scan.manifest = tree[w]
    BY <1>2, <1>3, <2>1 DEF Warm, StoreOK, JobOK, Idle, Key
  <2>4. JobOK(w)'
    BY <1>1, <1>2, <2>1, <2>2, <2>3 DEF JobOK, FullGraph, Idle, Key, Before, Saving
  <2> QED BY <1>1, <2>1, <2>4, JobStep DEF MidSave
<1>4. CASE At(w, "probe", "recorded") /\ UNCHANGED job
  <2>1. /\ Apart(w) /\ pc[w] = "probe" /\ pc'[w] = "recorded" /\ pc' \in [Worktree -> Steps]
    BY <1>1, <1>2, <1>4 DEF Apart, At, Steps, Before
  <2>2. JobOK(w)'
    BY <1>1, <1>2, <1>4, <2>1 DEF JobOK, FullGraph, Idle, Key, Before, Saving
  <2> QED BY <1>1, <2>1, <2>2, JobStep DEF MidSave
<1> QED BY <1>3, <1>4 DEF Probe

LEMMA ReadRecordedKeyKeeps ==
    ASSUME IInv, NEW w \in Worktree, ReadRecordedKey(w)
    PROVE  IInv'
<1>1. /\ UNCHANGED <<commits, head, tree, index, manifest, scan, db, torn, storeHurt>>
      /\ At(w, "recorded", "plan")
      /\ job' = [job EXCEPT ![w].recorded = IF scan = None THEN None ELSE scan.key]
  BY DEF ReadRecordedKey, StepKeeps, repo, store, history
<1>2. JobOK(w) /\ DOMAIN job = Worktree /\ pc \in [Worktree -> Steps]
  BY DEF IInv, JobsOK
<1>3. Apart(w) /\ pc[w] = "recorded" /\ pc'[w] = "plan" /\ pc' \in [Worktree -> Steps]
  BY <1>1, <1>2 DEF Apart, At, Steps, Before
<1>4. /\ DOMAIN job'[w] = DOMAIN job[w] /\ job'[w].hurt = job[w].hurt
      /\ job'[w].held = job[w].held /\ job'[w].key = job[w].key /\ job'[w].full = job[w].full
  BY <1>1, <1>2 DEF JobOK, JobFields
<1>5. JobOK(w)'
  BY <1>1, <1>2, <1>3, <1>4 DEF JobOK, FullGraph, Idle, Key, Before, Saving
<1> QED BY <1>1, <1>3, <1>5, JobStep DEF MidSave

\* Falling back to a full scan from where no graph is held yet.
LEMMA FullJob ==
    ASSUME IInv, NEW w \in Worktree, GoesFull(w), pc[w] \in Before, pc'[w] = "emit",
           UNCHANGED <<head, tree>>
    PROVE  JobOK(w)'
<1>1. JobOK(w) /\ DOMAIN job = Worktree
  BY DEF IInv, JobsOK
<1>2. /\ DOMAIN job'[w] = DOMAIN job[w] /\ job'[w].hurt = job[w].hurt
      /\ job'[w].held = job[w].held /\ job'[w].key = job[w].key
      /\ job'[w].targets = {} /\ job'[w].manifest = tree[w]
  BY <1>1 DEF GoesFull, JobOK, JobFields
<1> QED BY <1>1, <1>2 DEF JobOK, FullGraph, Idle, Key, Before, Saving

LEMMA PlanKeeps ==
    ASSUME IInv, NEW w \in Worktree, Plan(w)
    PROVE  IInv'
<1>1. UNCHANGED <<commits, head, tree, index, manifest, scan, db, torn, storeHurt>>
  BY DEF Plan, StepKeeps, repo, store, history
<1>2. JobOK(w) /\ DOMAIN job = Worktree /\ pc \in [Worktree -> Steps]
  BY DEF IInv, JobsOK
<1>3. CASE At(w, "plan", "emit") /\ GoesFull(w)
  <2>1. Apart(w) /\ pc[w] = "plan" /\ pc'[w] = "emit" /\ pc' \in [Worktree -> Steps]
    BY <1>1, <1>2, <1>3 DEF Apart, At, Steps, GoesFull
  <2>2. JobOK(w)'
    BY <1>1, <1>3, <2>1, FullJob DEF Before
  <2> QED BY <1>1, <2>1, <2>2, JobStep DEF MidSave
<1>4. CASE /\ At(w, "plan", "diff")
           /\ job' = [job EXCEPT ![w].manifest = tree[w],
                 ![w].targets = IF scan.sha = head[w] THEN {} ELSE GitDelta(w, scan.sha)]
  <2>1. Apart(w) /\ pc[w] = "plan" /\ pc'[w] = "diff" /\ pc' \in [Worktree -> Steps]
    BY <1>1, <1>2, <1>4 DEF Apart, At, Steps, Before
  <2>2. /\ DOMAIN job'[w] = DOMAIN job[w] /\ job'[w].hurt = job[w].hurt
        /\ job'[w].held = job[w].held /\ job'[w].key = job[w].key /\ job'[w].full = job[w].full
        /\ job'[w].manifest = tree[w]
    BY <1>2, <1>4 DEF JobOK, JobFields
  <2>3. JobOK(w)'
    BY <1>1, <1>2, <2>1, <2>2 DEF JobOK, FullGraph, Idle, Key, Before, Saving
  <2> QED BY <1>1, <2>1, <2>3, JobStep DEF MidSave
<1> QED BY <1>3, <1>4 DEF Plan

LEMMA DiffKeeps ==
    ASSUME IInv, NEW w \in Worktree, Diff(w)
    PROVE  IInv'
<1>1. /\ UNCHANGED <<commits, head, tree, index, manifest, scan, db, torn, storeHurt>>
      /\ At(w, "diff", "emit")
  BY DEF Diff, StepKeeps, repo, store, history
<1>2. JobOK(w) /\ DOMAIN job = Worktree /\ pc \in [Worktree -> Steps]
  BY DEF IInv, JobsOK
<1>3. pc[w] = "diff" /\ pc'[w] = "emit" /\ pc' \in [Worktree -> Steps]
  BY <1>1, <1>2 DEF At, Steps
<1>4. CASE GoesFull(w)
  <2>1. Apart(w)
    BY <1>1, <1>2, <1>4 DEF Apart, At, GoesFull
  <2>2. JobOK(w)'
    BY <1>1, <1>4, <1>3, FullJob DEF Before
  <2> QED BY <1>1, <1>3, <2>1, <2>2, JobStep DEF MidSave
<1>5. CASE job' = [job EXCEPT ![w].targets = Stage1(w), ![w].removed = RemovedFqns(w),
                              ![w].candidates = Reusable(w, Stage1(w))]
  <2>1. Apart(w)
    BY <1>1, <1>2, <1>5 DEF Apart, At
  <2>2. /\ DOMAIN job'[w] = DOMAIN job[w] /\ job'[w].hurt = job[w].hurt
        /\ job'[w].held = job[w].held /\ job'[w].key = job[w].key /\ job'[w].full = job[w].full
        /\ job'[w].manifest = job[w].manifest
    BY <1>2, <1>5 DEF JobOK, JobFields
  <2>3. JobOK(w)'
    BY <1>1, <1>2, <1>3, <2>2 DEF JobOK, FullGraph, Idle, Key, Before, Saving
  <2> QED BY <1>1, <1>3, <2>1, <2>3, JobStep DEF MidSave
<1> QED BY <1>4, <1>5 DEF Diff

LEMMA EmitFactsKeeps ==
    ASSUME IInv, NEW w \in Worktree, EmitFacts(w)
    PROVE  IInv'
<1>1. /\ UNCHANGED <<commits, head, tree, index, manifest, scan, db, torn, storeHurt>>
      /\ At(w, "emit", "assemble")
  BY DEF EmitFacts, Emits, repo, store, history
<1>2. /\ JobOK(w) /\ DOMAIN job = Worktree /\ pc \in [Worktree -> Steps]
      /\ tree[w] \in Trees
  BY DEF IInv, JobsOK, RepoOK
<1> DEFINE stage1 == job[w].targets
           First(failed) == Spools(w, stage1, failed)
           Extra(failed) == IF job[w].full THEN {} ELSE Cascade(stage1, Ingested(Joined(First(failed))))
           All(one, two) == IF Extra(one) = {} THEN First(one)
                            ELSE SecondPass(w, First(one), stage1 \cup Extra(one), two)
<1>3. PICK one \in SUBSET Language, two \in SUBSET Language :
        job' = [job EXCEPT ![w].targets = stage1 \cup Extra(one),
                           ![w].candidates = @ \ (stage1 \cup Extra(one)),
                           ![w].graph = Ingested(Joined(All(one, two))),
                           ![w].hurt = one \cup two]
  BY DEF EmitFacts, Emits
<1> HIDE DEF All
<1>4. Apart(w) /\ pc[w] = "emit" /\ pc'[w] = "assemble" /\ pc' \in [Worktree -> Steps]
  BY <1>1, <1>2, <1>3 DEF Apart, At, Steps
<1>5. /\ DOMAIN job'[w] = DOMAIN job[w] /\ job'[w].hurt = one \cup two
      /\ job'[w].held = job[w].held /\ job'[w].key = job[w].key /\ job'[w].full = job[w].full
      /\ job'[w].manifest = job[w].manifest
      /\ job'[w].targets = stage1 \cup Extra(one)
      /\ job'[w].graph = Ingested(Joined(All(one, two)))
  BY <1>2, <1>3 DEF JobOK, JobFields
<1>6. job[w].full => stage1 = {} /\ Extra(one) = {}
  BY <1>2 DEF JobOK
<1>7. job[w].full /\ one \cup two = {} => job'[w].graph = Ingested(WholeStream(tree[w]))
  <2>1. one \cup two = {} => one = {}
    OBVIOUS
  <2>2. job[w].full => All(one, two) = First(one)
    BY <1>6 DEF All
  <2>3. job[w].full => First(one) = Spools(w, {}, one)
    BY <1>6
  <2> HIDE DEF First, Extra
  <2> QED BY <1>2, <1>5, <2>1, <2>2, <2>3, FullSpools
<1>8. FullGraph(w)'
  BY <1>1, <1>4, <1>5, <1>7 DEF FullGraph, Saving
<1>9. JobOK(w)'
  <2> HIDE DEF Extra
  <2> QED BY <1>1, <1>2, <1>4, <1>5, <1>6, <1>8 DEF JobOK, Idle, Key, Before, Saving
<1> QED BY <1>1, <1>4, <1>9, JobStep DEF MidSave

LEMMA AssembleKeeps ==
    ASSUME IInv, NEW w \in Worktree, Assemble(w)
    PROVE  IInv'
<1> DEFINE cached == WithCached(job[w].graph, CachedUnits(w), {index.scaffolding[l] : l \in Skipped(w)})
           more   == IF job[w].full THEN {} ELSE IF torn[w] THEN Language ELSE storeHurt
<1>1. /\ UNCHANGED <<commits, head, tree, index, manifest, scan, db, torn, storeHurt>>
      /\ At(w, "assemble", "index")
      /\ job' = [job EXCEPT ![w].graph = Finalized(IF job[w].full THEN @ ELSE cached),
                            ![w].held = index.units,
                            ![w].hurt = @ \cup more]
  BY DEF Assemble, StepKeeps, repo, store, history
<1>2. /\ JobOK(w) /\ DOMAIN job = Worktree /\ pc \in [Worktree -> Steps]
      /\ StoreOK
  BY DEF IInv, JobsOK
<1> HIDE DEF cached
<1>3. Apart(w) /\ pc[w] = "assemble" /\ pc'[w] = "index" /\ pc' \in [Worktree -> Steps]
  BY <1>1, <1>2 DEF Apart, At, Steps, Saving
<1>4. /\ DOMAIN job'[w] = DOMAIN job[w] /\ job'[w].hurt = job[w].hurt \cup more
      /\ job'[w].held = index.units /\ job'[w].key = job[w].key /\ job'[w].full = job[w].full
      /\ job'[w].manifest = job[w].manifest /\ job'[w].targets = job[w].targets
      /\ job'[w].graph = Finalized(IF job[w].full THEN job[w].graph ELSE cached)
  BY <1>1, <1>2 DEF JobOK, JobFields
<1>5. more \subseteq Language
  BY <1>2 DEF StoreOK
<1> HIDE DEF more
<1>6. FullGraph(w)'
  BY <1>1, <1>2, <1>3, <1>4 DEF JobOK, FullGraph, Saving
<1>7. JobOK(w)'
  BY <1>1, <1>2, <1>3, <1>4, <1>5, <1>6 DEF JobOK, StoreOK, Idle, Key, Before, Saving
<1> QED BY <1>1, <1>3, <1>7, JobStep DEF MidSave

-----------------------------------------------------------------------------
(* The saves                                                                 *)

\* A save of w, but for what it writes.
LEMMA SaveStep ==
    ASSUME IInv, NEW w \in Worktree, NEW here \in Steps, NEW next \in Saving,
           here \in Saving, At(w, here, next), UNCHANGED <<commits, head, tree, db, job>>,
           Overtakes(w), StoreOK', Untorn(w)', StoreOfOneScan'
    PROVE  IInv'
<1>1. /\ RepoOK /\ JobsOK /\ TornOK
      /\ JobOK(w) /\ DOMAIN job = Worktree /\ pc \in [Worktree -> Steps]
  BY DEF IInv, JobsOK
<1>2. Apart(w) /\ pc[w] = here /\ pc'[w] = next /\ pc' \in [Worktree -> Steps]
  BY <1>1 DEF Apart, At, Steps
<1>3. JobOK(w)'
  BY <1>1, <1>2 DEF JobOK, FullGraph, Idle, Key, Before, Saving
<1>4. JobsOK'
  BY <1>1, <1>2, <1>3, JobsApart
<1>5. TornOK'
  BY <1>1, <1>2, TornSaving DEF TornOK
<1>6. RepoOK' /\ DbsOK'
  BY <1>1, SameDbs DEF RepoOK, IInv
<1> QED BY <1>4, <1>5, <1>6 DEF IInv

LEMMA NotAtRest ==
    ASSUME NEW w \in Worktree, pc'[w] \in {"manifest", "scan", "state"}
    PROVE  StoreOfOneScan'
BY DEF StoreOfOneScan, AtRest, MidSave

LEMMA SaveIndexKeeps ==
    ASSUME IInv, NEW w \in Worktree, SaveIndex(w)
    PROVE  IInv'
<1> DEFINE new == {<<f, job[w].manifest[f]>> : f \in NewUnits(w)}
<1>1. /\ At(w, "index", "manifest") /\ Overtakes(w)
      /\ UNCHANGED <<commits, head, tree, db, job, manifest, scan, storeHurt>>
      /\ DOMAIN index'.units = DOMAIN job[w].held \cup new
  BY DEF SaveIndex, repo
<1>2. /\ JobOK(w) /\ StoreOK /\ pc \in [Worktree -> Steps] /\ tree[w] \in Trees
  BY DEF IInv, JobsOK, RepoOK
<1>3. job[w].manifest \in Tree
  BY <1>1, <1>2, TreesAreTrees DEF JobOK, At, Saving
<1>4. new \subseteq File \X Content
  <2>1. NewUnits(w) \subseteq {f \in File : job[w].manifest[f] # Missing}
    BY DEF NewUnits, Present
  <2> QED BY <1>3, <2>1 DEF Tree
<1> HIDE DEF new
<1>5. StoreOK'
  BY <1>1, <1>2, <1>4 DEF StoreOK, JobOK
<1>6. pc'[w] = "manifest"
  BY <1>1, <1>2 DEF At
<1>7. Untorn(w)' /\ StoreOfOneScan'
  BY <1>6, NotAtRest DEF Untorn
<1> QED BY <1>1, <1>5, <1>7, SaveStep DEF Steps, Saving

LEMMA SaveManifestKeeps ==
    ASSUME IInv, NEW w \in Worktree, SaveManifest(w)
    PROVE  IInv'
<1>1. /\ At(w, "manifest", "scan") /\ Overtakes(w)
      /\ UNCHANGED <<commits, head, tree, db, job, index, scan, storeHurt>>
      /\ manifest' = job[w].manifest
  BY DEF SaveManifest, repo
<1>2. /\ JobOK(w) /\ StoreOK /\ pc \in [Worktree -> Steps] /\ tree[w] \in Trees
  BY DEF IInv, JobsOK, RepoOK
<1>3. pc[w] = "manifest" /\ pc'[w] = "scan"
  BY <1>1, <1>2 DEF At
<1>4. StoreOK'
  BY <1>1, <1>2, <1>3 DEF StoreOK, JobOK, Saving
<1>5. Untorn(w)' /\ StoreOfOneScan'
  BY <1>1, <1>3, NotAtRest DEF Untorn
<1> QED BY <1>1, <1>4, <1>5, SaveStep DEF Steps, Saving

LEMMA SaveScanRecordKeeps ==
    ASSUME IInv, NEW w \in Worktree, SaveScanRecord(w)
    PROVE  IInv'
<1>1. /\ At(w, "scan", "state") /\ Overtakes(w)
      /\ UNCHANGED <<commits, head, tree, db, job, index, manifest, storeHurt>>
      /\ scan' = [sha |-> job[w].key.head, key |-> job[w].key, manifest |-> job[w].manifest]
  BY DEF SaveScanRecord, repo
<1>2. /\ JobOK(w) /\ StoreOK /\ pc \in [Worktree -> Steps]
      /\ tree[w] \in Trees /\ head[w] \in 1..Len(commits)
      /\ torn \in [Worktree -> BOOLEAN] /\ Untorn(w)
  BY DEF IInv, JobsOK, RepoOK, TornOK
<1>3. pc[w] = "scan" /\ pc'[w] = "state" /\ torn'[w] = torn[w]
  BY <1>1, <1>2 DEF At, Overtakes
<1>4. /\ scan'.manifest = job[w].manifest /\ scan'.key = job[w].key /\ scan'.sha = job[w].key.head
      /\ job[w].manifest = tree[w] /\ job[w].key.tree = tree[w] /\ job[w].key.head = head[w]
  BY <1>1, <1>2, <1>3 DEF JobOK, Idle, Saving, Key
<1>5. StoreOK'
  BY <1>1, <1>2, <1>4 DEF StoreOK
<1>6. Untorn(w)' /\ StoreOfOneScan'
  BY <1>1, <1>2, <1>3, <1>4, NotAtRest DEF Untorn
<1> QED BY <1>1, <1>5, <1>6, SaveStep DEF Steps, Saving

LEMMA SaveStateKeeps ==
    ASSUME IInv, NEW w \in Worktree, SaveState(w)
    PROVE  IInv'
<1>1. /\ At(w, "state", "build") /\ Overtakes(w)
      /\ UNCHANGED <<commits, head, tree, db, job, index, manifest, scan>>
      /\ storeHurt' = IF torn[w] THEN Language ELSE job[w].hurt
  BY DEF SaveState, repo
<1>2. /\ JobOK(w) /\ StoreOK /\ pc \in [Worktree -> Steps]
      /\ torn \in [Worktree -> BOOLEAN] /\ Untorn(w)
  BY DEF IInv, JobsOK, TornOK
<1>3. pc[w] = "state" /\ pc'[w] = "build" /\ torn'[w] = torn[w]
  BY <1>1, <1>2 DEF At, Overtakes
<1>4. StoreOK'
  BY <1>1, <1>2 DEF StoreOK, JobOK
<1>5. job[w].manifest = tree[w] /\ job[w].key.tree = tree[w]
  BY <1>2, <1>3 DEF JobOK, Idle, Saving, Key
<1>6. StoreOfOneScan'
  <2>1. CASE torn[w]
    BY <1>1, <2>1 DEF StoreOfOneScan
  <2>2. CASE ~torn[w]
    <3>1. manifest = job[w].manifest /\ scan.manifest = job[w].manifest /\ scan.key = job[w].key
      BY <1>2, <1>3, <2>2 DEF Untorn
    <3> QED BY <1>1, <1>5, <3>1 DEF StoreOfOneScan
  <2> QED BY <2>1, <2>2
<1>7. Untorn(w)'
  BY <1>3 DEF Untorn
<1> QED BY <1>1, <1>4, <1>6, <1>7, SaveStep DEF Steps, Saving

-----------------------------------------------------------------------------
(* The end of a scan                                                         *)

LEMMA EndedJob ==
    ASSUME IInv, NEW w \in Worktree, job' = [job EXCEPT ![w] = NoJob],
           pc' = [pc EXCEPT ![w] = "idle"], UNCHANGED <<head, tree>>
    PROVE  Apart(w) /\ JobOK(w)' /\ pc' \in [Worktree -> Steps] /\ ~MidSave(w)'
<1>1. DOMAIN job = Worktree /\ pc \in [Worktree -> Steps]
  BY DEF IInv, JobsOK
<1>2. Apart(w) /\ job'[w] = NoJob /\ pc'[w] = "idle" /\ pc' \in [Worktree -> Steps]
  BY <1>1 DEF Apart, Steps
<1>3. ~NoJob.full /\ NoJob.hurt = {} /\ NoJob.held = << >> /\ DOMAIN << >> = {}
  BY DEF NoJob
<1>4. JobOK(w)'
  BY <1>2, <1>3, FieldsOfAJob DEF JobOK, FullGraph, Idle, Before, Saving
<1> QED BY <1>2, <1>4 DEF MidSave

LEMMA BuildKeeps ==
    ASSUME IInv, NEW w \in Worktree, Build(w)
    PROVE  IInv'
<1> DEFINE spliced == [key |-> job[w].key, full |-> FALSE, hurt |-> job[w].hurt \cup db[w].hurt,
               graph |-> Applied(db[w].graph, job[w].graph, job[w].targets, job[w].removed)]
           loaded  == [key |-> job[w].key, full |-> job[w].full, hurt |-> job[w].hurt,
               graph |-> Loaded(job[w].graph)]
<1>1. /\ At(w, "build", "idle") /\ job' = [job EXCEPT ![w] = NoJob]
      /\ torn' = [torn EXCEPT ![w] = FALSE]
      /\ UNCHANGED <<commits, head, tree, index, manifest, scan, storeHurt>>
      /\ db' = [db EXCEPT ![w] = IF Seedable(w) THEN spliced ELSE loaded]
  BY DEF Build, Ends, repo, store
<1>2. /\ DbsOK /\ JobOK(w) /\ pc \in [Worktree -> Steps] /\ tree[w] \in Trees
      /\ torn \in [Worktree -> BOOLEAN]
  BY DEF IInv, JobsOK, RepoOK, TornOK
<1>3. pc[w] = "build" /\ pc' = [pc EXCEPT ![w] = "idle"]
  BY <1>1 DEF At
<1>4. Apart(w) /\ JobOK(w)' /\ pc' \in [Worktree -> Steps] /\ ~MidSave(w)'
  BY <1>1, <1>3, EndedJob
<1>5. job[w].hurt \subseteq Language /\ job[w].key.tree = tree[w]
  BY <1>2, <1>3 DEF JobOK, Idle, Key
<1>6. job[w].full /\ job[w].hurt = {} => Loaded(job[w].graph) = Rebuild(tree[w])
  BY <1>2, <1>3 DEF JobOK, FullGraph, Saving, Rebuild
<1>7. CASE Seedable(w)
  <2>1. db[w] # None
    BY <1>7 DEF Seedable
  <2>2. spliced.hurt \subseteq Language /\ ~spliced.full
    BY <1>2, <1>5, <2>1 DEF DbsOK
  <2> HIDE DEF spliced
  <2>3. DbsOK'
    BY <1>1, <1>2, <1>7, <2>2 DEF DbsOK
  <2> QED BY <1>1, <1>2, <1>3, <1>4, <2>3, QuietStep DEF MidSave
<1>8. CASE ~Seedable(w)
  <2>1. /\ loaded.hurt = job[w].hurt /\ loaded.full = job[w].full /\ loaded.key = job[w].key
        /\ loaded.graph = Loaded(job[w].graph)
    OBVIOUS
  <2> HIDE DEF loaded
  <2>2. DbsOK'
    BY <1>1, <1>2, <1>5, <1>6, <1>8, <2>1 DEF DbsOK
  <2> QED BY <1>1, <1>2, <1>3, <1>4, <2>2, QuietStep DEF MidSave
<1> QED BY <1>7, <1>8

LEMMA KillScanKeeps ==
    ASSUME IInv, NEW w \in Worktree, KillScan(w)
    PROVE  IInv'
<1>1. /\ pc' = [pc EXCEPT ![w] = "idle"] /\ job' = [job EXCEPT ![w] = NoJob]
      /\ torn' = [torn EXCEPT ![w] = FALSE]
      /\ storeHurt' = IF MidSave(w) THEN Language ELSE storeHurt
      /\ UNCHANGED <<commits, head, tree, index, manifest, scan>>
      /\ UNCHANGED db \/ db' = [db EXCEPT ![w] = None]
  BY DEF KillScan, Ends, repo, store
<1>2. DbsOK /\ torn \in [Worktree -> BOOLEAN]
  BY DEF IInv, TornOK
<1>3. Apart(w) /\ JobOK(w)' /\ pc' \in [Worktree -> Steps] /\ ~MidSave(w)'
  BY <1>1, EndedJob
<1>4. DbsOK'
  BY <1>1, <1>2 DEF DbsOK
<1> QED BY <1>1, <1>2, <1>3, <1>4, QuietStep

LEMMA RecordFailsKeeps ==
    ASSUME IInv, NEW w \in Worktree, RecordFails(w)
    PROVE  IInv'
<1>1. /\ pc[w] = "index" \/ MidSave(w)
      /\ pc' = [pc EXCEPT ![w] = "build"]
      /\ storeHurt' = IF MidSave(w) THEN Language ELSE storeHurt
      /\ UNCHANGED <<commits, head, tree, db, index, manifest, scan, job, torn>>
  BY DEF RecordFails, repo, store
<1>2. /\ JobOK(w) /\ DOMAIN job = Worktree /\ pc \in [Worktree -> Steps]
      /\ torn \in [Worktree -> BOOLEAN]
  BY DEF IInv, JobsOK, TornOK
<1>3. Apart(w) /\ pc'[w] = "build" /\ pc' \in [Worktree -> Steps]
  BY <1>1, <1>2 DEF Apart, Steps, Saving
<1>4. pc[w] \in {"index", "manifest", "scan", "state"}
  BY <1>1 DEF MidSave
<1>5. JobOK(w)'
  BY <1>1, <1>2, <1>3, <1>4 DEF JobOK, FullGraph, Idle, Key, Before, Saving
<1>6. DbsOK'
  BY <1>1, SameDbs DEF IInv
<1> QED BY <1>1, <1>2, <1>3, <1>5, <1>6, QuietStep DEF MidSave

-----------------------------------------------------------------------------
(* The invariant                                                             *)

LEMMA InitIsSound == Init => IInv
<1> SUFFICES ASSUME Init PROVE IInv
  OBVIOUS
<1> DEFINE first == [tree |-> FirstTree, ancestors |-> {}]
<1>1. first \in [tree : Trees, ancestors : SUBSET Nat] /\ commits = <<first>>
  BY FirstTreeIsOne DEF Init
<1>2. commits \in Seq([tree : Trees, ancestors : SUBSET Nat]) /\ Len(commits) = 1
      /\ commits[1].ancestors = {}
  BY <1>1
<1>3. RepoOK
  BY <1>2, FirstTreeIsOne DEF Init, RepoOK
<1>4. JobsOK
  <2>1. ~NoJob.full /\ NoJob.hurt = {} /\ NoJob.held = << >> /\ DOMAIN << >> = {}
    BY DEF NoJob
  <2> QED BY <2>1, FieldsOfAJob
        DEF Init, JobsOK, JobOK, FullGraph, Idle, Before, Saving, Steps
<1>5. StoreOK
  <2>1. DOMAIN index.units = {}
    BY DEF Init
  <2> QED BY <2>1 DEF Init, StoreOK
<1>6. DbsOK
  BY DEF Init, DbsOK
<1>7. TornOK
  BY DEF Init, TornOK, Untorn, StoreOfOneScan
<1> QED BY <1>3, <1>4, <1>5, <1>6, <1>7 DEF IInv

LEMMA NextKeeps == IInv /\ [Next]_vars => IInv'
<1> SUFFICES ASSUME IInv, [Next]_vars PROVE IInv'
  OBVIOUS
<1>1. CASE UNCHANGED vars
  BY <1>1 DEF vars, repo, store, history, budget, IInv, RepoOK, JobsOK, JobOK, FullGraph, Idle, Key,
              StoreOK, DbsOK, TornOK, Untorn, StoreOfOneScan, AtRest, MidSave
<1>2. CASE \E w \in Worktree : \E f \in File : \E c \in contentsOf[f] : EditFile(w, f, c)
  BY <1>2, EditFileKeeps
<1>3. CASE \E w \in Worktree : CommitTree(w) \/ Start(w) \/ StartForced(w)
  BY <1>3, CommitTreeKeeps, StartKeeps, StartForcedKeeps
<1>4. CASE \E w \in Worktree : \E c \in 1..Len(commits) : Checkout(w, c)
  BY <1>4, CheckoutKeeps
<1>5. CASE \E w \in Worktree : ScanStep(w)
  BY <1>5, ProbeKeeps, ReadRecordedKeyKeeps, PlanKeeps, DiffKeeps, EmitFactsKeeps, AssembleKeeps,
     SaveIndexKeeps, SaveManifestKeeps, SaveScanRecordKeeps, SaveStateKeeps, BuildKeeps
     DEF ScanStep
<1>6. CASE \E w \in Worktree : KillScan(w) \/ RecordFails(w)
  BY <1>6, KillScanKeeps, RecordFailsKeeps
<1> QED BY <1>1, <1>2, <1>3, <1>4, <1>5, <1>6 DEF Next

\* Every reachable state satisfies the inductive invariant: scans work for the
\* key and the tree their worktree still has, whoever else is scanning.
THEOREM Inductive == Spec => []IInv
BY InitIsSound, NextKeeps, PTL DEF Spec

\* A full scan's database is the rebuild of its tree, whatever the store held and
\* whichever scans were killed, overtaken or half failed before it.
THEOREM FullScansRebuild == Spec => []FullScanIsRebuild
<1>1. IInv => FullScanIsRebuild
  BY RebuiltIsRebuild DEF IInv, DbsOK, FullScanIsRebuild
<1> QED BY <1>1, Inductive, PTL

\* At rest the manifest and the scan record are of one scan and one tree, unless a
\* scan was killed between its saves or two scans saved over each other.
THEOREM StoreNamesOneScan == Spec => []StoreOfOneScan
<1>1. IInv => StoreOfOneScan
  BY DEF IInv, TornOK
<1> QED BY <1>1, Inductive, PTL

\* Every variable keeps its type, and a scan that is over holds nothing.
THEOREM StoreIsTyped == Spec => []TypeOK
<1>1. IInv => TypeOK
  <2> SUFFICES ASSUME IInv PROVE TypeOK
    OBVIOUS
  <2>1. RepoOK /\ JobsOK /\ StoreOK /\ DbsOK
    BY DEF IInv
  <2>2. \A c \in 1..Len(commits) : commits[c].tree \in Tree
    <3> SUFFICES ASSUME NEW c \in 1..Len(commits) PROVE commits[c].tree \in Tree
      OBVIOUS
    <3>1. commits[c] \in [tree : Trees, ancestors : SUBSET Nat]
      BY <2>1, ElementOfSeq DEF RepoOK
    <3> QED BY <3>1, TreesAreTrees
  <2>3. \A w \in Worktree : Idle(w) => job[w] = NoJob
    BY <2>1 DEF JobsOK, JobOK
  <2>4. tree \in [Worktree -> Tree]
    BY <2>1, TreesAreTrees DEF RepoOK
  <2> QED BY <2>1, <2>2, <2>3, <2>4, TreesAreTrees DEF TypeOK, RepoOK, StoreOK, DbsOK
<1> QED BY <1>1, Inductive, PTL

-----------------------------------------------------------------------------
(* The units a scan counts on.                                               *)

Real(G, x) == x \in DOMAIN G.nodes /\ G.nodes[x].kind # "Unresolved" /\ ~G.nodes[x].planned

\* What a scan holds: every file it was to emit, in a language whose frontend did
\* not fail, and after the splice a unit for every other one.
WarmOK(w) ==
    /\ pc[w] = "probe" \/ job[w].warm => job[w].targets = {}
    /\ job[w].warm => ~job[w].full /\ pc[w] \notin {"idle", "emit"} \cup Before

Sure(w) == {f \in Present(job[w].manifest) : langOf[f] \notin job[w].hurt}

EmitsFiles(w) ==
    pc[w] = "assemble" /\ ~job[w].warm => \A f \in Sure(w) :
        job[w].targets = {} \/ f \in job[w].targets => Real(job[w].graph, <<f>>)

HoldsUnits(w) ==
    pc[w] \in Saving => \A f \in Sure(w) :
        f \in NewUnits(w) \/ <<f, job[w].manifest[f]>> \in DOMAIN job[w].held

\* What it may count on of the store, as long as nobody saves over it.
Solo(w) == ~Idle(w) => \A v \in Worktree \ {w} : ~MidSave(v)

\* scan # None past the plan, and a unit for whatever is no target.
Reuses(w) ==
    /\ pc[w] = "diff" => scan # None
    /\ pc[w] \in {"emit", "assemble"} /\ ~job[w].full =>
         \A f \in Present(job[w].manifest) \ job[w].targets :
             langOf[f] \notin storeHurt => <<f, job[w].manifest[f]>> \in DOMAIN index.units

SavesUnits(w) ==
    MidSave(w) => \A f \in Sure(w) : <<f, job[w].manifest[f]>> \in DOMAIN index.units

OwnInv(w)   == WarmOK(w) /\ EmitsFiles(w) /\ HoldsUnits(w)
CountsOn(w) == ~torn[w] => Solo(w) /\ Reuses(w) /\ SavesUnits(w)

UnitsInv ==
    /\ IInv /\ UnitsHeld
    /\ \A w \in Worktree : OwnInv(w) /\ CountsOn(w)

-----------------------------------------------------------------------------
(* What is emitted, and what a splice of cached units leaves of it          *)

LEMMA DescribedByPairs ==
    ASSUME NEW pairs, NEW x \in DOMAIN AsFunction(pairs)
    PROVE  \E p \in pairs : p[1] = x /\ AsFunction(pairs)[x] = p[2]
<1>1. \E p \in pairs : p[1] = x
  BY DEF AsFunction
<1>2. AsFunction(pairs)[x] = (CHOOSE p \in pairs : p[1] = x)[2]
  BY DEF AsFunction
<1> QED BY <1>1, <1>2

\* A declaration is no placeholder and no unresolved target.
LEMMA DeclaredAreReal ==
    ASSUME NEW S, NEW x \in DOMAIN DeclaredNodes(S)
    PROVE  DeclaredNodes(S)[x].kind # "Unresolved" /\ ~DeclaredNodes(S)[x].planned
<1> DEFINE structs == {<<StructFqn(s), NodeOf("Struct", s.path, None, s.body)>> : s \in S.structs}
           functions == {<<FunctionFqn(S.functions, d), NodeOf("Function", d.path, d.params, d.body)>> :
                            d \in Admitted(S)}
           modules == {<<m[2], Bare("Module")>> : m \in {y \in S.modules : y[2] \notin Shadowed(S)}}
           roots == {<< <<m[1]>>, Bare("Language")>> : m \in S.modules}
           files == {<< <<f.path>>, NodeOf("File", f.path, None, f.body)>> : f \in S.files}
           pairs == structs \cup functions \cup modules \cup roots \cup files
<1>1. DeclaredNodes(S) = AsFunction(pairs)
  BY DEF DeclaredNodes
<1>2. \A k, path, params, body :
        NodeOf(k, path, params, body).kind = k /\ ~NodeOf(k, path, params, body).planned
  BY DEF NodeOf
<1>3. \A p \in structs : p[2].kind = "Struct" /\ ~p[2].planned
  BY <1>2
<1>4. \A p \in functions : p[2].kind = "Function" /\ ~p[2].planned
  BY <1>2
<1>5. \A p \in modules \cup roots : p[2].kind \in {"Module", "Language"} /\ ~p[2].planned
  BY <1>2 DEF Bare
<1>6. \A p \in files : p[2].kind = "File" /\ ~p[2].planned
  BY <1>2
<1>7. \A p \in pairs : p[2].kind # "Unresolved" /\ ~p[2].planned
  <2> HIDE DEF structs, functions, modules, roots, files
  <2> QED BY <1>3, <1>4, <1>5, <1>6
<1> HIDE DEF pairs
<1> QED BY <1>1, <1>7, DescribedByPairs

\* A file a frontend was asked for is a node of the ingested graph.
LEMMA EmittedFile ==
    ASSUME NEW T, NEW spools, NEW l \in DOMAIN spools, NEW emitted,
           spools[l] = Stream(T, l, emitted),
           NEW f \in Present(T), langOf[f] = l, f \in emitted
    PROVE  Real(Ingested(Joined(spools)), <<f>>)
<1> DEFINE S == Joined(spools)
           rec == [path |-> f, parent |-> moduleOf[f], body |-> T[f]]
<1>1. rec \in spools[l].files
  BY DEF Stream, Spool
<1>2. S.files = UNION {spools[k].files : k \in DOMAIN spools}
  BY DEF Joined, EmptyStream
<1>3. rec \in S.files
  BY <1>1, <1>2
<1> HIDE DEF S
<1>4. <<f>> \in DOMAIN DeclaredNodes(S)
  <2> DEFINE pair == << <<rec.path>>, NodeOf("File", rec.path, None, rec.body)>>
             files == {<< <<r.path>>, NodeOf("File", r.path, None, r.body)>> : r \in S.files}
  <2>1. pair \in files /\ pair[1] = <<f>>
    BY <1>3
  <2>2. ASSUME NEW others PROVE <<f>> \in DOMAIN AsFunction(others \cup files)
    <3> HIDE DEF pair, files
    <3> QED BY <2>1 DEF AsFunction
  <2> HIDE DEF files
  <2> QED BY <2>2 DEF DeclaredNodes, files
<1>5. Real([nodes |-> IngestedNodes(S), edges |-> {}], <<f>>)
  BY <1>4, DeclaredAreReal DEF Real, IngestedNodes, Overlaid
<1>6. Ingested(S).nodes = IngestedNodes(S)
  BY DEF Ingested, WithEdges
<1> QED BY <1>5, <1>6 DEF S, Real

LEMMA FinalizedNodes == ASSUME NEW G PROVE Finalized(G).nodes = G.nodes
BY DEF Finalized

\* What is declared stays as it is, whatever is spliced beside it.
LEMMA SplicedKeeps ==
    ASSUME NEW G, NEW units, NEW scaffolding, NEW x, Real(G, x)
    PROVE  Real(WithCached(G, units, scaffolding), x)
<1> DEFINE merged  == MergedNodes(G.nodes, units)
           modules == (UNION {units[i].modules : i \in DOMAIN units})
                        \cup (UNION {s.modules : s \in scaffolding})
           roots   == UNION {s.languages : s \in scaffolding}
           nodes   == WithModules(merged, modules, roots)
<1>1. x \in DOMAIN merged /\ merged[x] = G.nodes[x]
  BY DEF Real, MergedNodes, Yields
<1> HIDE DEF merged, modules, roots
<1>2. x \in DOMAIN nodes /\ nodes[x] = G.nodes[x]
  BY <1>1 DEF Real, WithModules
<1> HIDE DEF nodes
<1>3. ASSUME NEW edges PROVE Real(Resolved([nodes |-> nodes, edges |-> edges]), x)
  BY <1>2 DEF Resolved, Real
<1> QED BY <1>3 DEF WithCached, nodes, merged, modules, roots

-----------------------------------------------------------------------------
(* What a step leaves of it                                                  *)

LEMMA LanguagesOfFiles == \A T : \A f \in Present(T) : langOf[f] \in Language
BY StoreAssumption DEF Present

LEMMA OthersOwn ==
    ASSUME UnitsInv, NEW w \in Worktree, Apart(w), NEW v \in Worktree \ {w}
    PROVE  OwnInv(v)'
<1>1. job'[v] = job[v] /\ pc'[v] = pc[v] /\ OwnInv(v)
  BY DEF Apart, UnitsInv
<1> QED BY <1>1 DEF OwnInv, WarmOK, EmitsFiles, HoldsUnits, Sure, NewUnits

LEMMA QuietOthers ==
    ASSUME UnitsInv, NEW w \in Worktree, Apart(w), UNCHANGED <<index, scan>>,
           storeHurt' = storeHurt \/ storeHurt' = Language,
           \A v \in Worktree \ {w} : torn'[v] = torn[v],
           ~MidSave(w)', NEW v \in Worktree \ {w}
    PROVE  CountsOn(v)'
<1>1. job'[v] = job[v] /\ pc'[v] = pc[v] /\ torn'[v] = torn[v] /\ CountsOn(v)
  BY DEF Apart, UnitsInv
<1>2. Solo(v) => Solo(v)'
  <2>1. \A u \in Worktree \ {w} : pc'[u] = pc[u]
    BY DEF Apart
  <2> QED BY <1>1, <2>1 DEF Solo, Idle, MidSave
<1>3. Reuses(v) => Reuses(v)'
  BY <1>1, LanguagesOfFiles DEF Reuses
<1>4. SavesUnits(v) => SavesUnits(v)'
  BY <1>1 DEF SavesUnits, MidSave, Sure
<1> QED BY <1>1, <1>2, <1>3, <1>4 DEF CountsOn

\* A step that writes no file of the store.
LEMMA QuietUnits ==
    ASSUME UnitsInv, IInv', NEW w \in Worktree, Apart(w), UNCHANGED <<index, manifest, scan>>,
           \A v \in Worktree \ {w} : torn'[v] = torn[v],
           storeHurt' = storeHurt \/ storeHurt' = Language,
           MidSave(w) => storeHurt' = Language, ~MidSave(w)',
           OwnInv(w)', CountsOn(w)'
    PROVE  UnitsInv'
<1>1. \A v \in Worktree : OwnInv(v)' /\ CountsOn(v)'
  BY OthersOwn, QuietOthers
<1>2. UnitsHeld'
  <2>1. CASE storeHurt' = Language
    BY <2>1, LanguagesOfFiles DEF UnitsHeld, Stored
  <2>2. CASE storeHurt' = storeHurt /\ ~MidSave(w)
    <3>1. AtRest' => AtRest
      BY <2>2 DEF AtRest, Apart, MidSave
    <3> QED BY <2>2, <3>1 DEF UnitsHeld, Stored, UnitsInv, Present
  <2> QED BY <2>1, <2>2
<1> QED BY <1>1, <1>2 DEF UnitsInv

\* One that only fills in the job.
LEMMA JobUnits ==
    ASSUME UnitsInv, IInv', NEW w \in Worktree, Apart(w),
           UNCHANGED <<index, manifest, scan, torn, storeHurt>>,
           ~Idle(w), ~MidSave(w), ~MidSave(w)', OwnInv(w)', ~torn[w] => Reuses(w)'
    PROVE  UnitsInv'
<1>1. CountsOn(w)'
  <2>1. \A u \in Worktree \ {w} : pc'[u] = pc[u]
    BY DEF Apart
  <2>2. ~torn[w] => Solo(w)'
    BY <2>1 DEF UnitsInv, CountsOn, Solo, MidSave
  <2> QED BY <2>2 DEF CountsOn, SavesUnits
<1> QED BY <1>1, QuietUnits

\* A save: whoever is at it is overtaken.
LEMMA SavingOthers ==
    ASSUME UnitsInv, NEW w \in Worktree, Apart(w), Overtakes(w), NEW v \in Worktree \ {w}
    PROVE  CountsOn(v)'
<1>1. torn \in [Worktree -> BOOLEAN] /\ pc'[v] = pc[v]
  BY DEF UnitsInv, IInv, TornOK, Apart
<1>2. torn'[v] = (torn[v] \/ ~Idle(v))
  BY DEF Overtakes
<1>3. ~torn'[v] => pc'[v] = "idle"
  <2>1. CASE Idle(v)
    BY <1>1, <2>1 DEF Idle
  <2>2. CASE ~Idle(v)
    BY <1>1, <1>2, <2>2
  <2> QED BY <2>1, <2>2
<1> QED BY <1>3 DEF CountsOn, Solo, Reuses, SavesUnits, Idle, MidSave

LEMMA SavingUnits ==
    ASSUME UnitsInv, IInv', NEW w \in Worktree, Apart(w), Overtakes(w), UNCHANGED job,
           pc[w] \in Saving, pc'[w] \in Saving, UnitsHeld',
           ~torn[w] => SavesUnits(w)'
    PROVE  UnitsInv'
<1>1. torn'[w] = torn[w]
  BY DEF UnitsInv, IInv, TornOK, Overtakes
<1>2. OwnInv(w)'
  BY DEF UnitsInv, OwnInv, WarmOK, EmitsFiles, HoldsUnits, Sure, NewUnits, Saving, Before
<1>3. CountsOn(w)'
  <2>1. \A u \in Worktree \ {w} : pc'[u] = pc[u]
    BY DEF Apart
  <2>2. ~torn[w] => Solo(w)'
    BY <2>1 DEF UnitsInv, CountsOn, Solo, MidSave, Idle, Saving
  <2>3. Reuses(w)'
    BY DEF Reuses, Saving
  <2> QED BY <1>1, <2>2, <2>3 DEF CountsOn
<1> QED BY <1>2, <1>3, OthersOwn, SavingOthers DEF UnitsInv

-----------------------------------------------------------------------------
(* Step by step                                                              *)

LEMMA SameUnits ==
    ASSUME UnitsInv, IInv', UNCHANGED <<index, manifest, scan, storeHurt, pc, job, torn>>
    PROVE  UnitsInv'
BY DEF UnitsInv, UnitsHeld, AtRest, MidSave, Stored, Present, OwnInv, WarmOK, EmitsFiles, HoldsUnits,
       Sure, NewUnits, CountsOn, Solo, Idle, Reuses, SavesUnits

LEMMA TakesUnits ==
    ASSUME UnitsInv, IInv', NEW w \in Worktree, NEW next \in {"probe", "emit"}, NEW j,
           Takes(w, next, j), j.targets = {}, ~j.warm, next = "emit" => j.full
    PROVE  UnitsInv'
<1>1. /\ At(w, "idle", next) /\ job' = [job EXCEPT ![w] = j]
      /\ torn' = [torn EXCEPT ![w] = \E v \in Worktree \ {w} : MidSave(v)]
      /\ UNCHANGED <<head, tree, index, manifest, scan, storeHurt>>
  BY DEF Takes, repo, store
<1>2. IInv /\ torn \in [Worktree -> BOOLEAN]
  BY DEF UnitsInv, IInv, TornOK
<1>3. /\ Apart(w) /\ job'[w] = j /\ pc[w] = "idle" /\ pc'[w] = next
  BY <1>1, <1>2, StepApart DEF Steps, Before
<1>4. OwnInv(w)'
  BY <1>3 DEF OwnInv, WarmOK, EmitsFiles, HoldsUnits, Saving, Before
<1>5. CountsOn(w)'
  <2>1. \A v \in Worktree \ {w} : MidSave(v)' = MidSave(v)
    BY <1>3 DEF Apart, MidSave
  <2>2. ~torn'[w] => Solo(w)'
    BY <1>1, <1>2, <2>1 DEF Solo
  <2> QED BY <1>3, <2>2 DEF CountsOn, Reuses, SavesUnits, MidSave
<1>6. /\ \A v \in Worktree \ {w} : torn'[v] = torn[v]
      /\ ~MidSave(w) /\ ~MidSave(w)'
  BY <1>1, <1>2, <1>3 DEF MidSave
<1> QED BY <1>1, <1>3, <1>4, <1>5, <1>6, QuietUnits

LEMMA StartUnits ==
    ASSUME UnitsInv, NEW w \in Worktree, Start(w) \/ StartForced(w)
    PROVE  UnitsInv'
<1>1. IInv'
  BY StartKeeps, StartForcedKeeps DEF UnitsInv
<1>2. CASE Start(w)
  <2> DEFINE j == [NoJob EXCEPT !.key = Key(w)]
  <2>1. Takes(w, "probe", j) /\ j.targets = {} /\ ~j.warm
    BY <1>2 DEF Start, NoJob
  <2> HIDE DEF j
  <2> QED BY <1>1, <2>1, TakesUnits
<1>3. CASE StartForced(w)
  <2> DEFINE j == [NoJob EXCEPT !.key = Key(w), !.full = TRUE, !.manifest = tree[w]]
  <2>1. Takes(w, "emit", j) /\ j.targets = {} /\ ~j.warm /\ j.full
    BY <1>3 DEF StartForced, NoJob
  <2> HIDE DEF j
  <2> QED BY <1>1, <2>1, TakesUnits
<1> QED BY <1>2, <1>3

LEMMA ProbeUnits ==
    ASSUME UnitsInv, NEW w \in Worktree, Probe(w)
    PROVE  UnitsInv'
<1>1. IInv' /\ JobOK(w) /\ DOMAIN job = Worktree /\ pc \in [Worktree -> Steps]
  BY ProbeKeeps DEF UnitsInv, IInv, JobsOK
<1>2. UNCHANGED <<head, tree, index, manifest, scan, torn, storeHurt>>
  BY DEF Probe, StepKeeps, repo, store, history
<1>3. pc[w] = "probe" /\ ~job[w].full /\ job[w].targets = {} /\ ~job[w].warm
  BY <1>1 DEF Probe, At, JobOK, Before, UnitsInv, OwnInv, WarmOK
<1>4. CASE Warm(w) /\ At(w, "probe", "assemble")
           /\ job' = [job EXCEPT ![w].warm = TRUE, ![w].recorded = scan.key,
                         ![w].manifest = scan.manifest, ![w].candidates = Present(scan.manifest),
                         ![w].graph = Ingested(Joined(<< >>))]
  <2>1. Apart(w) /\ pc'[w] = "assemble"
    BY <1>1, <1>2, <1>4 DEF Apart, At
  <2>2. /\ job'[w].full = job[w].full /\ job'[w].targets = job[w].targets
        /\ job'[w].manifest = scan.manifest /\ job'[w].warm
    BY <1>1, <1>4 DEF JobOK, JobFields
  <2>3. OwnInv(w)'
    BY <1>3, <2>1, <2>2 DEF OwnInv, WarmOK, EmitsFiles, HoldsUnits, Saving, Before
  <2>4. Reuses(w)'
    BY <1>2, <1>4, <2>1, <2>2 DEF Reuses, Warm, Present
  <2> QED BY <1>1, <1>2, <1>3, <2>1, <2>3, <2>4, JobUnits DEF Idle, MidSave
<1>5. CASE At(w, "probe", "recorded") /\ UNCHANGED job
  <2>1. Apart(w) /\ pc'[w] = "recorded"
    BY <1>1, <1>2, <1>5 DEF Apart, At
  <2>2. OwnInv(w)' /\ Reuses(w)'
    BY <1>3, <1>5, <2>1 DEF OwnInv, WarmOK, EmitsFiles, HoldsUnits, Saving, Reuses
  <2> QED BY <1>1, <1>2, <1>3, <2>1, <2>2, JobUnits DEF Idle, MidSave
<1> QED BY <1>4, <1>5 DEF Probe

LEMMA ReadRecordedKeyUnits ==
    ASSUME UnitsInv, NEW w \in Worktree, ReadRecordedKey(w)
    PROVE  UnitsInv'
<1>1. IInv' /\ JobOK(w) /\ DOMAIN job = Worktree /\ pc \in [Worktree -> Steps]
  BY ReadRecordedKeyKeeps DEF UnitsInv, IInv, JobsOK
<1>2. /\ UNCHANGED <<head, tree, index, manifest, scan, torn, storeHurt>>
      /\ At(w, "recorded", "plan")
      /\ job' = [job EXCEPT ![w].recorded = IF scan = None THEN None ELSE scan.key]
  BY DEF ReadRecordedKey, StepKeeps, repo, store, history
<1>3. Apart(w) /\ pc[w] = "recorded" /\ pc'[w] = "plan" /\ ~job[w].warm
  BY <1>1, <1>2 DEF Apart, At, UnitsInv, OwnInv, WarmOK, Before
<1>4. ~job'[w].warm
  BY <1>1, <1>2, <1>3 DEF JobOK, JobFields
<1>5. OwnInv(w)' /\ Reuses(w)'
  BY <1>3, <1>4 DEF OwnInv, WarmOK, EmitsFiles, HoldsUnits, Saving, Reuses
<1> QED BY <1>1, <1>2, <1>3, <1>5, JobUnits DEF Idle, MidSave

\* Falling back to a full scan: nothing is reused.
LEMMA FullUnits ==
    ASSUME UnitsInv, IInv', NEW w \in Worktree, NEW here \in Before, At(w, here, "emit"), GoesFull(w),
           UNCHANGED <<head, tree, index, manifest, scan, torn, storeHurt>>
    PROVE  UnitsInv'
<1>1. JobOK(w) /\ DOMAIN job = Worktree /\ pc \in [Worktree -> Steps]
  BY DEF UnitsInv, IInv, JobsOK
<1>2. Apart(w) /\ pc[w] = here /\ pc'[w] = "emit" /\ ~job[w].warm
  BY <1>1 DEF Apart, At, GoesFull, UnitsInv, OwnInv, WarmOK
<1>3. job'[w].full /\ ~job'[w].warm
  BY <1>1, <1>2 DEF GoesFull, JobOK, JobFields
<1>4. OwnInv(w)' /\ Reuses(w)'
  BY <1>2, <1>3 DEF OwnInv, WarmOK, EmitsFiles, HoldsUnits, Saving, Reuses
<1> QED BY <1>1, <1>2, <1>4, JobUnits DEF Idle, MidSave, Before

LEMMA PlanUnits ==
    ASSUME UnitsInv, NEW w \in Worktree, Plan(w)
    PROVE  UnitsInv'
<1>1. IInv' /\ JobOK(w) /\ DOMAIN job = Worktree /\ pc \in [Worktree -> Steps]
  BY PlanKeeps DEF UnitsInv, IInv, JobsOK
<1>2. UNCHANGED <<head, tree, index, manifest, scan, torn, storeHurt>>
  BY DEF Plan, StepKeeps, repo, store, history
<1>3. CASE At(w, "plan", "emit") /\ GoesFull(w)
  BY <1>1, <1>2, <1>3, FullUnits DEF Before
<1>4. CASE Usable(w) /\ At(w, "plan", "diff")
           /\ job' = [job EXCEPT ![w].manifest = tree[w],
                 ![w].targets = IF scan.sha = head[w] THEN {} ELSE GitDelta(w, scan.sha)]
  <2>1. Apart(w) /\ pc[w] = "plan" /\ pc'[w] = "diff" /\ ~job[w].warm
    BY <1>1, <1>2, <1>4 DEF Apart, At, UnitsInv, OwnInv, WarmOK, Before
  <2>2. ~job'[w].warm
    BY <1>1, <1>4, <2>1 DEF JobOK, JobFields
  <2>3. OwnInv(w)'
    BY <2>1, <2>2 DEF OwnInv, WarmOK, EmitsFiles, HoldsUnits, Saving
  <2>4. Reuses(w)'
    BY <1>2, <1>4, <2>1 DEF Reuses, Usable
  <2> QED BY <1>1, <1>2, <2>1, <2>3, <2>4, JobUnits DEF Idle, MidSave
<1> QED BY <1>3, <1>4 DEF Plan

\* What the manifest diff leaves out has its unit.
LEMMA UnchangedHeld ==
    ASSUME UnitsInv, AtRest, scan # None, NEW T \in Tree,
           NEW f \in Present(T), f \notin ManifestDelta(manifest, T), langOf[f] \notin storeHurt
    PROVE  <<f, T[f]>> \in DOMAIN index.units
<1>1. langOf[f] \in Language
  BY LanguagesOfFiles
<1>2. manifest = scan.manifest /\ scan.manifest \in Trees
  BY <1>1 DEF UnitsInv, IInv, TornOK, StoreOK, StoreOfOneScan
<1>3. manifest # None
  BY <1>2, TreesAreTrees, StoreAssumption
<1>4. manifest[f] = T[f]
  BY <1>3 DEF ManifestDelta, Present
<1> QED BY <1>4 DEF UnitsInv, UnitsHeld, Stored, Present

LEMMA DiffUnits ==
    ASSUME UnitsInv, NEW w \in Worktree, Diff(w)
    PROVE  UnitsInv'
<1>1. /\ IInv' /\ JobOK(w) /\ DOMAIN job = Worktree /\ pc \in [Worktree -> Steps]
      /\ tree[w] \in Tree
  BY DiffKeeps, TreesAreTrees DEF UnitsInv, IInv, JobsOK, RepoOK
<1>2. /\ UNCHANGED <<head, tree, index, manifest, scan, torn, storeHurt>>
      /\ At(w, "diff", "emit")
  BY DEF Diff, StepKeeps, repo, store, history
<1>3. CASE GoesFull(w)
  BY <1>1, <1>2, <1>3, FullUnits DEF Before
<1>4. CASE job' = [job EXCEPT ![w].targets = Stage1(w), ![w].removed = RemovedFqns(w),
                              ![w].candidates = Reusable(w, Stage1(w))]
  <2>1. Apart(w) /\ pc[w] = "diff" /\ pc'[w] = "emit" /\ ~job[w].warm
    BY <1>1, <1>2, <1>4 DEF Apart, At, UnitsInv, OwnInv, WarmOK, Before
  <2>2. /\ ~job'[w].warm /\ job'[w].targets = Stage1(w) /\ job'[w].manifest = tree[w]
    BY <1>1, <1>4, <2>1 DEF JobOK, JobFields
  <2>3. OwnInv(w)'
    BY <2>1, <2>2 DEF OwnInv, WarmOK, EmitsFiles, HoldsUnits, Saving
  <2>4. ~torn[w] => Reuses(w)'
    <3> SUFFICES ASSUME ~torn[w], NEW f \in Present(tree[w]) \ Stage1(w), langOf[f] \notin storeHurt
                 PROVE  <<f, tree[w][f]>> \in DOMAIN index.units
      BY <1>2, <2>1, <2>2 DEF Reuses
    <3>1. AtRest /\ scan # None
      BY <2>1 DEF UnitsInv, CountsOn, Solo, Reuses, AtRest, MidSave, Idle
    <3>2. f \notin ManifestDelta(manifest, tree[w])
      BY DEF Stage1
    <3> QED BY <1>1, <3>1, <3>2, UnchangedHeld
  <2> QED BY <1>1, <1>2, <2>1, <2>3, <2>4, JobUnits DEF Idle, MidSave
<1> QED BY <1>3, <1>4 DEF Diff

\* Every file a pass is asked for is emitted, unless its frontend fails.
LEMMA PassEmits ==
    ASSUME NEW w \in Worktree, NEW targets, NEW failed, NEW f \in Present(tree[w]),
           langOf[f] \notin failed, targets = {} \/ f \in targets
    PROVE  /\ langOf[f] \in DOMAIN Spools(w, targets, failed)
           /\ Spools(w, targets, failed)[langOf[f]] =
                 Stream(tree[w], langOf[f], IF targets = {} THEN File ELSE targets)
           /\ f \in IF targets = {} THEN File ELSE targets
<1>1. f \in File /\ langOf[f] \in Language
  BY LanguagesOfFiles DEF Present
<1>2. langOf[f] \in Spawned(w, targets)
  BY <1>1 DEF Spawned, Detected
<1> QED BY <1>1, <1>2 DEF Spools

LEMMA EmitFactsUnits ==
    ASSUME UnitsInv, NEW w \in Worktree, EmitFacts(w)
    PROVE  UnitsInv'
<1>1. /\ UNCHANGED <<head, tree, index, manifest, scan, torn, storeHurt>>
      /\ At(w, "emit", "assemble")
  BY DEF EmitFacts, Emits, repo, store, history
<1>2. IInv' /\ JobOK(w) /\ DOMAIN job = Worktree /\ pc \in [Worktree -> Steps]
  BY EmitFactsKeeps DEF UnitsInv, IInv, JobsOK
<1> DEFINE stage1 == job[w].targets
           First(failed) == Spools(w, stage1, failed)
           Extra(failed) == IF job[w].full THEN {} ELSE Cascade(stage1, Ingested(Joined(First(failed))))
           All(one, two) == IF Extra(one) = {} THEN First(one)
                            ELSE SecondPass(w, First(one), stage1 \cup Extra(one), two)
<1>3. PICK one \in SUBSET Language, two \in SUBSET Language :
        job' = [job EXCEPT ![w].targets = stage1 \cup Extra(one),
                           ![w].candidates = @ \ (stage1 \cup Extra(one)),
                           ![w].graph = Ingested(Joined(All(one, two))),
                           ![w].hurt = one \cup two]
  BY DEF EmitFacts, Emits
<1> DEFINE extra   == Extra(one)
           targets == stage1 \cup extra
           spools  == All(one, two)
<1>4. spools = IF extra = {} THEN First(one) ELSE SecondPass(w, First(one), targets, two)
  OBVIOUS
<1> HIDE DEF Extra, All, extra, spools
<1>5. Apart(w) /\ pc[w] = "emit" /\ pc'[w] = "assemble" /\ ~job[w].warm
  BY <1>1, <1>2, <1>3 DEF Apart, At, UnitsInv, OwnInv, WarmOK
<1>6. /\ job'[w].hurt = one \cup two /\ job'[w].full = job[w].full /\ job'[w].warm = job[w].warm
      /\ job'[w].manifest = tree[w] /\ job[w].manifest = tree[w]
      /\ job'[w].targets = targets
      /\ job'[w].graph = Ingested(Joined(spools))
  BY <1>2, <1>3, <1>5 DEF JobOK, JobFields, extra, spools
<1>7. ASSUME NEW f \in Present(tree[w]), langOf[f] \notin one \cup two,
             targets = {} \/ f \in targets
      PROVE  Real(Ingested(Joined(spools)), <<f>>)
  <2>1. CASE extra = {}
    <3>1. spools = Spools(w, targets, one)
      BY <1>4, <2>1
    <3> HIDE DEF targets
    <3> QED BY <1>7, <3>1, PassEmits, EmittedFile
  <2>2. CASE extra # {}
    <3>1. spools = SecondPass(w, First(one), targets, two)
      BY <1>4, <2>2
    <3> HIDE DEF targets, First
    <3>2. /\ langOf[f] \in DOMAIN Spools(w, targets, two)
          /\ Spools(w, targets, two)[langOf[f]] =
                Stream(tree[w], langOf[f], IF targets = {} THEN File ELSE targets)
          /\ f \in IF targets = {} THEN File ELSE targets
      BY <1>7, PassEmits
    <3>3. /\ langOf[f] \in DOMAIN spools
          /\ spools[langOf[f]] = Stream(tree[w], langOf[f], IF targets = {} THEN File ELSE targets)
      BY <3>1, <3>2 DEF SecondPass
    <3> QED BY <3>2, <3>3, EmittedFile
  <2> QED BY <2>1, <2>2
<1> HIDE DEF targets
<1>8. OwnInv(w)'
  BY <1>1, <1>5, <1>6, <1>7 DEF OwnInv, WarmOK, EmitsFiles, HoldsUnits, Sure, Saving, Before, Present
<1>9. ~torn[w] => Reuses(w)'
  <2>1. stage1 \subseteq targets
    BY DEF targets
  <2> QED BY <1>1, <1>5, <1>6, <2>1 DEF UnitsInv, CountsOn, Reuses, Present
<1> QED BY <1>1, <1>2, <1>5, <1>8, <1>9, JobUnits DEF Idle, MidSave

LEMMA AssembleUnits ==
    ASSUME UnitsInv, NEW w \in Worktree, Assemble(w)
    PROVE  UnitsInv'
<1> DEFINE cached == WithCached(job[w].graph, CachedUnits(w), {index.scaffolding[l] : l \in Skipped(w)})
           more   == IF job[w].full THEN {} ELSE IF torn[w] THEN Language ELSE storeHurt
<1>1. /\ UNCHANGED <<head, tree, index, manifest, scan, torn, storeHurt>>
      /\ At(w, "assemble", "index")
      /\ job' = [job EXCEPT ![w].graph = Finalized(IF job[w].full THEN @ ELSE cached),
                            ![w].held = index.units,
                            ![w].hurt = @ \cup more]
  BY DEF Assemble, StepKeeps, repo, store, history
<1>2. IInv' /\ JobOK(w) /\ DOMAIN job = Worktree /\ pc \in [Worktree -> Steps]
  BY AssembleKeeps DEF UnitsInv, IInv, JobsOK
<1>3. \A x : Real(job[w].graph, x) => Real(cached, x)
  BY SplicedKeeps
<1> HIDE DEF cached
<1>4. Apart(w) /\ pc[w] = "assemble" /\ pc'[w] = "index"
  BY <1>1, <1>2 DEF Apart, At
<1>5. /\ job'[w].hurt = job[w].hurt \cup more /\ job'[w].held = index.units
      /\ job'[w].full = job[w].full /\ job'[w].warm = job[w].warm
      /\ job'[w].manifest = job[w].manifest /\ job'[w].targets = job[w].targets
      /\ job'[w].graph = Finalized(IF job[w].full THEN job[w].graph ELSE cached)
  BY <1>1, <1>2 DEF JobOK, JobFields
<1>6. \A x : Real(job[w].graph, x) => x \in DOMAIN job'[w].graph.nodes
  BY <1>3, <1>5, FinalizedNodes DEF Real
<1>7. ASSUME NEW f \in Present(job[w].manifest), langOf[f] \notin job[w].hurt \cup more
      PROVE  \/ /\ <<f>> \in DOMAIN job'[w].graph.nodes
                /\ job[w].targets = {} \/ f \in job[w].targets
             \/ <<f, job[w].manifest[f]>> \in DOMAIN index.units
  <2>1. CASE ~job[w].warm /\ (job[w].targets = {} \/ f \in job[w].targets)
    BY <1>4, <1>6, <1>7, <2>1 DEF UnitsInv, OwnInv, EmitsFiles, Sure
  <2>2. CASE job[w].warm \/ ~(job[w].targets = {} \/ f \in job[w].targets)
    <3>1. ~job[w].full /\ f \notin job[w].targets
      BY <1>2, <2>2 DEF UnitsInv, OwnInv, WarmOK, JobOK
    <3>2. ~torn[w] /\ langOf[f] \notin storeHurt
      BY <1>7, <3>1, LanguagesOfFiles
    <3> QED BY <1>4, <3>1, <3>2 DEF UnitsInv, CountsOn, Reuses
  <2> QED BY <2>1, <2>2
<1> HIDE DEF more
<1>8. OwnInv(w)'
  <2>1. WarmOK(w)'
    BY <1>4, <1>5 DEF UnitsInv, OwnInv, WarmOK, Before
  <2>2. HoldsUnits(w)'
    BY <1>5, <1>7 DEF HoldsUnits, Sure, NewUnits
  <2> QED BY <1>4, <2>1, <2>2 DEF OwnInv, EmitsFiles
<1>9. Reuses(w)'
  BY <1>4 DEF Reuses
<1> QED BY <1>1, <1>2, <1>4, <1>8, <1>9, JobUnits DEF Idle, MidSave

LEMMA SaveIndexUnits ==
    ASSUME UnitsInv, NEW w \in Worktree, SaveIndex(w)
    PROVE  UnitsInv'
<1>1. /\ At(w, "index", "manifest") /\ Overtakes(w) /\ UNCHANGED <<head, tree, job>>
      /\ DOMAIN index'.units =
            DOMAIN job[w].held \cup {<<f, job[w].manifest[f]>> : f \in NewUnits(w)}
  BY DEF SaveIndex, repo
<1>2. IInv' /\ DOMAIN job = Worktree /\ pc \in [Worktree -> Steps]
  BY SaveIndexKeeps DEF UnitsInv, IInv, JobsOK
<1>3. Apart(w) /\ pc[w] = "index" /\ pc'[w] = "manifest"
  BY <1>1, <1>2 DEF Apart, At
<1>4. UnitsHeld'
  BY <1>3 DEF UnitsHeld, AtRest, MidSave
<1>5. SavesUnits(w)'
  <2>1. HoldsUnits(w)
    BY DEF UnitsInv, OwnInv
  <2> QED BY <1>1, <1>3, <2>1 DEF SavesUnits, HoldsUnits, Sure, Saving
<1> QED BY <1>1, <1>2, <1>3, <1>4, <1>5, SavingUnits DEF Saving

LEMMA SaveManifestUnits ==
    ASSUME UnitsInv, NEW w \in Worktree, SaveManifest(w) \/ SaveScanRecord(w)
    PROVE  UnitsInv'
<1>1. /\ At(w, "manifest", "scan") \/ At(w, "scan", "state")
      /\ Overtakes(w) /\ UNCHANGED <<head, tree, job, index>>
  BY DEF SaveManifest, SaveScanRecord, repo
<1>2. IInv' /\ DOMAIN job = Worktree /\ pc \in [Worktree -> Steps]
  BY SaveManifestKeeps, SaveScanRecordKeeps DEF UnitsInv, IInv, JobsOK
<1>3. /\ Apart(w) /\ MidSave(w) /\ MidSave(w)' /\ pc[w] \in Saving /\ pc'[w] \in Saving
  BY <1>1, <1>2 DEF Apart, At, MidSave, Saving
<1>4. UnitsHeld'
  BY <1>3 DEF UnitsHeld, AtRest
<1>5. ~torn[w] => SavesUnits(w)'
  BY <1>1, <1>3 DEF UnitsInv, CountsOn, SavesUnits, Sure
<1> QED BY <1>1, <1>2, <1>3, <1>4, <1>5, SavingUnits

\* The last save: the store is this scan's, or given up as overtaken.
LEMMA SaveStateUnits ==
    ASSUME UnitsInv, NEW w \in Worktree, SaveState(w)
    PROVE  UnitsInv'
<1>1. /\ At(w, "state", "build") /\ Overtakes(w)
      /\ UNCHANGED <<head, tree, job, index, manifest, scan>>
      /\ storeHurt' = IF torn[w] THEN Language ELSE job[w].hurt
  BY DEF SaveState, repo
<1>2. IInv' /\ DOMAIN job = Worktree /\ pc \in [Worktree -> Steps] /\ Untorn(w)
  BY SaveStateKeeps DEF UnitsInv, IInv, JobsOK, TornOK
<1>3. Apart(w) /\ pc[w] = "state" /\ pc'[w] = "build"
  BY <1>1, <1>2 DEF Apart, At
<1>4. UnitsHeld'
  <2>1. CASE torn[w]
    BY <1>1, <2>1, LanguagesOfFiles DEF UnitsHeld, Stored
  <2>2. CASE ~torn[w]
    <3>1. manifest = job[w].manifest
      BY <1>2, <1>3, <2>2 DEF Untorn
    <3>2. \A f \in Sure(w) : <<f, job[w].manifest[f]>> \in DOMAIN index.units
      BY <1>3, <2>2 DEF UnitsInv, CountsOn, SavesUnits, MidSave
    <3> QED BY <1>1, <2>2, <3>1, <3>2 DEF UnitsHeld, Stored, Sure, Present
  <2> QED BY <2>1, <2>2
<1>5. SavesUnits(w)'
  BY <1>3 DEF SavesUnits, MidSave
<1> QED BY <1>1, <1>2, <1>3, <1>4, <1>5, SavingUnits DEF Saving

\* However it ends: the database, a kill, a record given up.
LEMMA EndUnits ==
    ASSUME UnitsInv, NEW w \in Worktree, Build(w) \/ KillScan(w)
    PROVE  UnitsInv'
<1>1. /\ pc' = [pc EXCEPT ![w] = "idle"] /\ job' = [job EXCEPT ![w] = NoJob]
      /\ torn' = [torn EXCEPT ![w] = FALSE]
      /\ storeHurt' = IF MidSave(w) THEN Language ELSE storeHurt
      /\ UNCHANGED <<head, tree, index, manifest, scan>>
  BY DEF Build, KillScan, At, Ends, MidSave, repo, store
<1>2. /\ IInv' /\ DOMAIN job = Worktree /\ pc \in [Worktree -> Steps]
      /\ torn \in [Worktree -> BOOLEAN]
  BY BuildKeeps, KillScanKeeps DEF UnitsInv, IInv, JobsOK, TornOK
<1>3. Apart(w) /\ pc'[w] = "idle" /\ job'[w] = NoJob
  BY <1>1, <1>2 DEF Apart
<1>4. OwnInv(w)' /\ CountsOn(w)'
  BY <1>3 DEF OwnInv, WarmOK, EmitsFiles, HoldsUnits, CountsOn, Solo, Reuses, SavesUnits,
              NoJob, Idle, MidSave, Saving
<1>5. ~MidSave(w)' /\ \A v \in Worktree \ {w} : torn'[v] = torn[v]
  BY <1>1, <1>2, <1>3 DEF MidSave
<1> QED BY <1>1, <1>2, <1>3, <1>4, <1>5, QuietUnits

LEMMA RecordFailsUnits ==
    ASSUME UnitsInv, NEW w \in Worktree, RecordFails(w)
    PROVE  UnitsInv'
<1>1. /\ pc[w] = "index" \/ MidSave(w)
      /\ pc' = [pc EXCEPT ![w] = "build"]
      /\ storeHurt' = IF MidSave(w) THEN Language ELSE storeHurt
      /\ UNCHANGED <<head, tree, index, manifest, scan, job, torn>>
  BY DEF RecordFails, repo, store
<1>2. IInv' /\ DOMAIN job = Worktree /\ pc \in [Worktree -> Steps]
  BY RecordFailsKeeps DEF UnitsInv, IInv, JobsOK
<1>3. Apart(w) /\ pc'[w] = "build" /\ pc[w] \in Saving /\ ~Idle(w)
  BY <1>1, <1>2 DEF Apart, Saving, MidSave, Idle
<1>4. OwnInv(w)'
  BY <1>1, <1>3 DEF UnitsInv, OwnInv, WarmOK, EmitsFiles, HoldsUnits, Sure, NewUnits, Saving, Before
<1>5. CountsOn(w)'
  <2>1. \A v \in Worktree \ {w} : MidSave(v)' = MidSave(v)
    BY <1>3 DEF Apart, MidSave
  <2> QED BY <1>1, <1>3, <2>1 DEF UnitsInv, CountsOn, Solo, Reuses, SavesUnits, MidSave
<1> QED BY <1>1, <1>2, <1>3, <1>4, <1>5, QuietUnits DEF MidSave

LEMMA InitUnits == Init => UnitsInv
<1> SUFFICES ASSUME Init PROVE UnitsInv
  OBVIOUS
<1>1. UnitsHeld
  BY DEF Init, UnitsHeld
<1>2. \A w \in Worktree : OwnInv(w) /\ CountsOn(w)
  BY DEF Init, NoJob, OwnInv, WarmOK, EmitsFiles, HoldsUnits, CountsOn, Solo, Reuses, SavesUnits,
         Idle, MidSave, Saving
<1> QED BY <1>1, <1>2, InitIsSound DEF UnitsInv

LEMMA NextUnits == UnitsInv /\ [Next]_vars => UnitsInv'
<1> SUFFICES ASSUME UnitsInv, [Next]_vars PROVE UnitsInv'
  OBVIOUS
<1>1. IInv'
  BY NextKeeps DEF UnitsInv
<1>2. CASE UNCHANGED vars
  BY <1>1, <1>2, SameUnits DEF vars, store, history
<1>3. CASE \E w \in Worktree : \/ \E f \in File : \E c \in contentsOf[f] : EditFile(w, f, c)
                               \/ CommitTree(w)
                               \/ \E c \in 1..Len(commits) : Checkout(w, c)
  <2>1. Moves
    BY <1>3 DEF EditFile, CommitTree, Checkout
  <2> QED BY <1>1, <2>1, SameUnits DEF Moves, store, history
<1>4. CASE \E w \in Worktree : Start(w) \/ StartForced(w)
  BY <1>4, StartUnits
<1>5. CASE \E w \in Worktree : ScanStep(w)
  BY <1>5, ProbeUnits, ReadRecordedKeyUnits, PlanUnits, DiffUnits, EmitFactsUnits, AssembleUnits,
     SaveIndexUnits, SaveManifestUnits, SaveStateUnits, EndUnits
     DEF ScanStep
<1>6. CASE \E w \in Worktree : KillScan(w) \/ RecordFails(w)
  BY <1>6, EndUnits, RecordFailsUnits
<1> QED BY <1>2, <1>3, <1>4, <1>5, <1>6 DEF Next

\* At rest every file of the manifest, in a language no fault has touched, has a
\* unit under its content, whichever worktrees scanned, were killed or failed to
\* record between: what the next scan leaves unemitted, record has kept.
THEOREM EveryFileHasItsUnit == Spec => []UnitsHeld
<1>1. UnitsInv => UnitsHeld
  BY DEF UnitsInv
<1> QED BY <1>1, InitUnits, NextUnits, PTL DEF Spec

-----------------------------------------------------------------------------
(* The files a scan is of.                                                   *)

FileRow(f, T) == NodeOf("File", f, None, T[f])
FileFqns == {<<f>> : f \in File}

\* What stands at a file's FQN is that file of the tree, under its content.
ShowsFiles(G, T) ==
    \A f \in File : <<f>> \in DOMAIN G.nodes => T[f] # Missing /\ G.nodes[<<f>>] = FileRow(f, T)

\* Whose edges end at nodes, of the kinds they may have.
Settled(G) == \A e \in G.edges : /\ e[2] \in DOMAIN G.nodes /\ e[3] \in DOMAIN G.nodes
                                 /\ ValidPair(e[1], G.nodes[e[2]].kind, G.nodes[e[3]].kind)

\* A unit has its own file and no other; what is replayed beside it, none.
UnitRight(u, f, c) ==
    /\ <<f>> \in DOMAIN u.nodes /\ u.nodes[<<f>>] = NodeOf("File", f, None, c)
    /\ \A g \in File : <<g>> \in DOMAIN u.nodes => g = f
    /\ u.modules \cap FileFqns = {}
UnitsRight(units) == \A f \in File : \A c : <<f, c>> \in DOMAIN units => UnitRight(units[<<f, c>>], f, c)
ScaffoldingRight(s) == (s.modules \cup s.languages) \cap FileFqns = {}

StoreFiles ==
    /\ UnitsRight(index.units)
    /\ \A l \in Language : ScaffoldingRight(index.scaffolding[l])
    /\ \A f \in File : \A s \in state.signatures[f] : s[2] \notin FileFqns

JobFiles(w) ==
    /\ ShowsFiles(job[w].graph, tree[w])
    /\ UnitsRight(job[w].held)
    /\ \A f \in job[w].candidates : f \in Present(job[w].manifest)
    /\ job[w].removed \cap FileFqns = {}
    /\ pc[w] \in Before => job[w].candidates = {}
    /\ pc[w] = "diff" => job[w].targets \subseteq File

\* Once assembled, the graph has every file; what is no target is as the recorded
\* scan found it.
Unmoved(w, f) == job[w].recorded # None => job[w].recorded.tree[f] = tree[w][f]
Assembled(w) ==
    pc[w] \in Saving =>
        /\ Settled(job[w].graph)
        /\ \A f \in Sure(w) : <<f>> \in DOMAIN job[w].graph.nodes
        /\ ~job[w].full => \A f \in File \ job[w].targets : langOf[f] \notin job[w].hurt => Unmoved(w, f)

\* Until then that rests on the store.
Reckons(w) ==
    ~torn[w] =>
        /\ pc[w] \in {"plan", "diff"} /\ scan # None => job[w].recorded = scan.key
        /\ pc[w] \in {"emit", "assemble"} /\ ~job[w].full =>
             \A f \in File \ job[w].targets : langOf[f] \notin storeHurt =>
                 /\ Unmoved(w, f)
                 /\ f \in Present(job[w].manifest) => f \in job[w].candidates

\* A database shows the files of the tree its key names.
DbShows(D, T, hurt) ==
    \A f \in File : langOf[f] \notin hurt =>
        /\ <<"File", <<f>> >> \in DOMAIN D.rows <=> T[f] # Missing
        /\ <<"File", <<f>> >> \in DOMAIN D.rows => D.rows[<<"File", <<f>> >>] = FileRow(f, T)

DbFiles(w) == db[w] # None => DbShows(db[w].graph, db[w].key.tree, db[w].hurt)

FilesInv ==
    /\ UnitsInv /\ StoreFiles
    /\ \A w \in Worktree : JobFiles(w) /\ Assembled(w) /\ Reckons(w) /\ DbFiles(w)

-----------------------------------------------------------------------------
(* No declaration, module or foreign name is a file's FQN                    *)

Deep(x) == \E S : x \in Seq(S) /\ Len(x) > 1

LEMMA DeepIsNoFile == ASSUME NEW x, Deep(x), NEW y PROVE x # <<y>>
<1> SUFFICES ASSUME x = <<y>> PROVE FALSE
  OBVIOUS
<1>1. Len(x) = 1
  OBVIOUS
<1>2. \E S : Len(x) > 1
  BY DEF Deep
<1> QED BY <1>1, <1>2

LEMMA LongIsDeep == ASSUME NEW S, NEW x \in Seq(S), Len(x) > 1 PROVE Deep(x)
BY Zenon DEF Deep

LEMMA AppendedIsDeep ==
    ASSUME NEW S, NEW s \in Seq(S), s # << >>, NEW e
    PROVE  Deep(Append(s, e))
<1> DEFINE R == S \cup {e}
<1>1. s \in Seq(R) /\ e \in R
  BY SeqMonotonic
<1>2. Len(s) > 0
  BY EmptySeq
<1>3. Append(s, e) \in Seq(R) /\ Len(Append(s, e)) = Len(s) + 1
  BY <1>1, AppendProperties
<1> QED BY <1>2, <1>3, LenProperties DEF Deep

LEMMA AppendKeepsDeep == ASSUME NEW x, Deep(x), NEW e PROVE Deep(Append(x, e))
<1>1. PICK S : x \in Seq(S) /\ Len(x) > 1
  BY DEF Deep
<1>2. x # << >>
  BY <1>1
<1> QED BY <1>1, <1>2, AppendedIsDeep

LEMMA PairKeepsDeep == ASSUME NEW x, Deep(x), NEW p, NEW q PROVE Deep(x \o <<p, q>>)
<1>1. PICK S : x \in Seq(S) /\ Len(x) > 1
  BY DEF Deep
<1> DEFINE R == S \cup {p, q}
<1>2. x \in Seq(R)
  BY <1>1, SeqMonotonic
<1>3. <<p, q>> \in Seq(R) /\ Len(<<p, q>>) = 2
  OBVIOUS
<1>4. x \o <<p, q>> \in Seq(R) /\ Len(x \o <<p, q>>) = Len(x) + 2
  BY <1>2, <1>3, ConcatProperties
<1> QED BY <1>1, <1>4, LenProperties DEF Deep

\* Whatever the overloads of its name, a declaration lies in its scope.
LEMMA FunctionIsDeep ==
    ASSUME NEW decls, NEW d, NEW S, d.parent \in Seq(S), d.parent # << >>
    PROVE  Deep(FunctionFqn(decls, d))
<1> DEFINE plain == Append(d.parent, d.name)
<1>1. Deep(plain)
  BY AppendedIsDeep
<1> HIDE DEF plain
<1>2. Deep(Append(plain, d.path)) /\ Deep(Append(plain, d.params)) /\ Deep(plain \o <<d.params, d.path>>)
  BY <1>1, AppendKeepsDeep, PairKeepsDeep
<1>3. FunctionFqn(decls, d) \in {plain, Append(plain, d.path), Append(plain, d.params),
                                 plain \o <<d.params, d.path>>}
  BY DEF FunctionFqn, plain
<1> QED BY <1>1, <1>2, <1>3

LEMMA ScopesOfRecords ==
    ASSUME NEW T \in Trees, NEW files \in SUBSET Present(T), NEW kind, NEW r \in Records(T, files, kind)
    PROVE  r.parent \in Seq(STRING) /\ r.parent # << >>
<1>0. PICK f \in files : \E d \in DeclsOf(T, f) : r = Record(T, f, d)
  BY DEF Records
<1>1. PICK d \in DeclsOf(T, f) : r = Record(T, f, d)
  BY <1>0
<1>2. f \in File /\ T[f] # Missing /\ T[f] \in contentsOf[f] \cup {FirstTree[f]}
  BY DEF Present, Trees
<1>3. d.within \in Seq(STRING) /\ moduleOf[f] \in Seq(STRING) /\ moduleOf[f] # << >>
  BY <1>1, <1>2, NamesAssumption DEF DeclsOf
<1>4. r.parent = moduleOf[f] \o d.within
  BY <1>1 DEF Record
<1> DEFINE m == moduleOf[f]
           v == d.within
<1> HIDE DEF m, v
<1>5. m \o v \in Seq(STRING) /\ Len(m \o v) = Len(m) + Len(v) /\ Len(m) \in Nat \ {0} /\ Len(v) \in Nat
  BY <1>3, ConcatProperties, EmptySeq, LenProperties DEF m, v
<1> QED BY <1>4, <1>5 DEF m, v

-----------------------------------------------------------------------------
(* What is ingested shows the files of the tree                              *)

Modest(S, T) ==
    /\ \A r \in S.structs \cup S.functions : r.parent \in Seq(STRING) /\ r.parent # << >>
    /\ \A m \in S.modules : m[1] \in Language /\ Deep(m[2])
    /\ \A r \in S.files : r.path \in Present(T) /\ r.body = T[r.path]
    /\ \A x \in S.unresolved : Deep(x)

LEMMA ForeignIsDeep ==
    ASSUME NEW T, NEW files, NEW e \in EdgesOf(T, files),
           e[1] \in {"UnresolvedCall", "UnresolvedUse"}
    PROVE  Deep(e[3])
<1>1. ASSUME NEW from, NEW ref, NEW to, NEW table \in {"Calls", "Uses"}, NEW unresolved,
             e \in RefersTo(from, ref, to, table, unresolved)
      PROVE  e[3] = Foreign(ref)
  BY <1>1 DEF RefersTo
<1>2. PICK f \in files : \/ e \in MemberEdges(T, f)
                         \/ \E d \in DeclsOf(T, f) : e \in RefEdges(T, files, f, d)
  BY DEF EdgesOf
<1>3. e \notin MemberEdges(T, f)
  BY DEF MemberEdges
<1>4. \E ref : e[3] = Foreign(ref)
  <2>1. PICK d \in DeclsOf(T, f) : e \in RefEdges(T, files, f, d)
    BY <1>2, <1>3
  <2>2. \/ \E ref \in d.calls :
              e \in RefersTo(Id(f, d), ref, Referents(T, files, ref, "Function"), "Calls", "UnresolvedCall")
        \/ \E ref \in d.uses :
              e \in RefersTo(Id(f, d), ref, Referents(T, files, ref, "Struct"), "Uses", "UnresolvedUse")
    BY <2>1 DEF RefEdges
  <2> QED BY <1>1, <2>2
<1>5. PICK ref : e[3] = <<"?", ref[2]>>
  BY <1>4 DEF Foreign
<1>6. <<"?", ref[2]>> \in Seq({"?", ref[2]}) /\ Len(<<"?", ref[2]>>) = 2
  OBVIOUS
<1>7. Len(<<"?", ref[2]>>) > 1
  OBVIOUS
<1> QED BY <1>5, <1>6, <1>7, LongIsDeep

LEMMA PrefixesAreDeep ==
    ASSUME NEW f \in File, NEW x \in Prefixes(moduleOf[f])
    PROVE  Deep(x)
<1>1. PICK n \in 2..Len(moduleOf[f]) : x = SubSeq(moduleOf[f], 1, n)
  BY DEF Prefixes
<1>2. moduleOf[f] \in Seq(STRING)
  BY NamesAssumption
<1>3. x \in Seq(STRING) /\ Len(x) = n
  BY <1>1, <1>2, SubSeqProperties, LenProperties
<1>4. Len(x) > 1
  BY <1>3
<1> QED BY <1>3, <1>4, LongIsDeep

LEMMA StreamIsModest ==
    ASSUME NEW T \in Trees, NEW l \in Language, NEW emitted
    PROVE  Modest(Stream(T, l, emitted), T)
<1> DEFINE walked  == {f \in Present(T) : langOf[f] = l}
           files   == walked \cap emitted
           modules == UNION {Prefixes(moduleOf[f]) : f \in walked}
           edges   == EdgesOf(T, files)
           S       == Spool(T, l, modules, files, edges)
<1>1. Stream(T, l, emitted) = S
  BY DEF Stream
<1>2. files \subseteq Present(T)
  OBVIOUS
<1>3. \A x \in modules : Deep(x)
  BY PrefixesAreDeep DEF Present
<1>4. \A e \in edges : e[1] \in {"UnresolvedCall", "UnresolvedUse"} => Deep(e[3])
  BY ForeignIsDeep
<1> HIDE DEF files, modules, edges
<1>5. /\ S.structs = Records(T, files, "Struct") /\ S.functions = Records(T, files, "Function")
      /\ S.modules = {<<l, m>> : m \in modules}
      /\ S.files = {[path |-> f, parent |-> moduleOf[f], body |-> T[f]] : f \in files}
      /\ S.unresolved = {e[3] : e \in {x \in edges : x[1] \in {"UnresolvedCall", "UnresolvedUse"}}}
  BY DEF Spool
<1> HIDE DEF S
<1>6. \A r \in S.structs \cup S.functions : r.parent \in Seq(STRING) /\ r.parent # << >>
  BY <1>2, <1>5, ScopesOfRecords
<1>7. \A m \in S.modules : m[1] \in Language /\ Deep(m[2])
  BY <1>3, <1>5
<1>8. \A r \in S.files : r.path \in Present(T) /\ r.body = T[r.path]
  BY <1>2, <1>5
<1>9. \A x \in S.unresolved : Deep(x)
  BY <1>4, <1>5
<1> QED BY <1>1, <1>6, <1>7, <1>8, <1>9 DEF Modest

LEMMA JoinedIsModest ==
    ASSUME NEW T \in Trees, NEW spools,
           \A l \in DOMAIN spools : l \in Language /\ \E emitted : spools[l] = Stream(T, l, emitted)
    PROVE  Modest(Joined(spools), T) /\ Joined(spools).planned = Placeholders
<1> DEFINE S == Joined(spools)
           All(field) == UNION {spools[l][field] : l \in DOMAIN spools}
<1>1. /\ S.structs = All("structs") /\ S.functions = All("functions") /\ S.modules = All("modules")
      /\ S.files = All("files") /\ S.unresolved = All("unresolved") /\ S.planned = Placeholders
  BY DEF Joined, EmptyStream
<1>2. \A l \in DOMAIN spools : Modest(spools[l], T)
  BY StreamIsModest
<1> HIDE DEF S
<1>3. Modest(S, T)
  BY <1>1, <1>2 DEF Modest
<1> QED BY <1>1, <1>3 DEF S

LEMMA IngestedShowsFiles ==
    ASSUME NEW T \in Trees, NEW S, Modest(S, T), S.planned = Placeholders
    PROVE  ShowsFiles(Ingested(S), T)
<1> DEFINE structs == {<<StructFqn(s), NodeOf("Struct", s.path, None, s.body)>> : s \in S.structs}
           functions == {<<FunctionFqn(S.functions, d), NodeOf("Function", d.path, d.params, d.body)>> :
                            d \in Admitted(S)}
           modules == {<<m[2], Bare("Module")>> : m \in {y \in S.modules : y[2] \notin Shadowed(S)}}
           roots == {<< <<m[1]>>, Bare("Language")>> : m \in S.modules}
           files == {<< <<r.path>>, NodeOf("File", r.path, None, r.body)>> : r \in S.files}
           pairs == structs \cup functions \cup modules \cup roots \cup files
           planned == AsFunction({<<p.fqn, Planned(p.kind)>> : p \in S.planned})
<1> SUFFICES ASSUME NEW f \in File, <<f>> \in DOMAIN Ingested(S).nodes
             PROVE  T[f] # Missing /\ Ingested(S).nodes[<<f>>] = FileRow(f, T)
  BY DEF ShowsFiles
<1>1. DeclaredNodes(S) = AsFunction(pairs)
  BY DEF DeclaredNodes
<1>2. Ingested(S).nodes = Overlaid(DeclaredNodes(S), planned, S.unresolved)
  BY DEF Ingested, WithEdges, IngestedNodes
<1>3. <<f>> \notin S.unresolved
  BY DeepIsNoFile DEF Modest
<1>4. <<f>> \notin DOMAIN planned
  <2>1. \A p \in Placeholders : p.fqn[1] # f
    BY NamesAssumption
  <2> QED BY <2>1 DEF AsFunction
<1>5. ASSUME NEW p \in pairs, p[1] = <<f>>
      PROVE  T[f] # Missing /\ p[2] = FileRow(f, T)
  <2>1. p \notin structs
    BY <1>5, AppendedIsDeep, DeepIsNoFile DEF Modest, StructFqn
  <2>2. p \notin functions
    <3> SUFFICES ASSUME NEW d \in S.functions,
                        p = <<FunctionFqn(S.functions, d), NodeOf("Function", d.path, d.params, d.body)>>
                 PROVE  FALSE
      BY DEF Admitted
    <3>1. Deep(FunctionFqn(S.functions, d))
      BY FunctionIsDeep DEF Modest
    <3> QED BY <1>5, <3>1, DeepIsNoFile
  <2>3. p \notin modules
    BY <1>5, DeepIsNoFile DEF Modest
  <2>4. p \notin roots
    <3>1. \A l \in Language : <<l>> # <<f>>
      BY NamesAssumption
    <3> QED BY <1>5, <3>1 DEF Modest
  <2>5. PICK r \in S.files : p = << <<r.path>>, NodeOf("File", r.path, None, r.body)>>
    BY <2>1, <2>2, <2>3, <2>4
  <2>6. r.path = f
    BY <1>5, <2>5
  <2>7. p[2] = NodeOf("File", f, None, r.body)
    BY <2>5, <2>6
  <2> QED BY <2>6, <2>7 DEF Modest, Present, FileRow
<1> HIDE DEF pairs, planned
<1>6. <<f>> \in DOMAIN AsFunction(pairs) /\ Ingested(S).nodes[<<f>>] = AsFunction(pairs)[<<f>>]
  BY <1>1, <1>2, <1>3, <1>4 DEF Overlaid
<1>7. \E p \in pairs : p[1] = <<f>> /\ AsFunction(pairs)[<<f>>] = p[2]
  BY <1>6, DescribedByPairs
<1> QED BY <1>5, <1>6, <1>7

\* A warm scan asks no frontend.
LEMMA NoSpoolsShowFiles ==
    ASSUME NEW T \in Trees
    PROVE  ShowsFiles(Ingested(Joined(<< >>)), T)
BY JoinedIsModest, IngestedShowsFiles

-----------------------------------------------------------------------------
(* What a splice of cached units, a unit and a database show of the files    *)

LEMMA FieldsOfAFile ==
    \A f, c : LET n == NodeOf("File", f, None, c)
              IN  n.kind = "File" /\ n.path = f /\ ~n.planned
BY DEF NodeOf

LEMMA SplicedShowsFiles ==
    ASSUME NEW T, NEW G, ShowsFiles(G, T), NEW units,
           \A i \in DOMAIN units :
              /\ i \in Int /\ pathOrder[i] \in File /\ T[pathOrder[i]] # Missing
              /\ UnitRight(units[i], pathOrder[i], T[pathOrder[i]]),
           \A i, j \in DOMAIN units : pathOrder[i] = pathOrder[j] => i = j,
           NEW scaffolding, \A s \in scaffolding : ScaffoldingRight(s)
    PROVE  LET W == WithCached(G, units, scaffolding)
           IN  /\ ShowsFiles(W, T)
               /\ \A i \in DOMAIN units : <<pathOrder[i]>> \in DOMAIN W.nodes
<1> DEFINE merged  == MergedNodes(G.nodes, units)
           modules == (UNION {units[i].modules : i \in DOMAIN units})
                        \cup (UNION {s.modules : s \in scaffolding})
           roots   == UNION {s.languages : s \in scaffolding}
           nodes   == WithModules(merged, modules, roots)
           W       == WithCached(G, units, scaffolding)
           Right(f, n) == T[f] # Missing /\ n[<<f>>] = FileRow(f, T)
<1>1. ASSUME NEW f \in File, NEW i \in DOMAIN units, <<f>> \in DOMAIN units[i].nodes
      PROVE  T[f] # Missing /\ CachedNode(units, <<f>>) = FileRow(f, T)
  <2>1. \A j \in DOMAIN units : <<f>> \in DOMAIN units[j].nodes => pathOrder[j] = f
    BY DEF UnitRight
  <2> DEFINE holders == {j \in DOMAIN units : <<f>> \in DOMAIN units[j].nodes}
             real    == {j \in holders : units[j].nodes[<<f>>].kind # "Unresolved"}
             chosen  == IF real = {} THEN holders ELSE real
  <2>2. holders = {i}
    BY <1>1, <2>1
  <2>3. units[i].nodes[<<f>>] = FileRow(f, T) /\ T[f] # Missing
    BY <1>1, <2>1 DEF UnitRight, FileRow
  <2>4. units[i].nodes[<<f>>].kind # "Unresolved"
    BY <2>3, FieldsOfAFile DEF FileRow
  <2>5. chosen = {i}
    BY <2>2, <2>4
  <2>6. (CHOOSE k \in {i} : \A j \in {i} : k <= j) = i
    OBVIOUS
  <2>7. CachedNode(units, <<f>>) = units[CHOOSE k \in chosen : \A j \in chosen : k <= j].nodes[<<f>>]
    BY DEF CachedNode
  <2>8. CachedNode(units, <<f>>) = units[i].nodes[<<f>>]
    <3> HIDE DEF chosen
    <3> QED BY <2>5, <2>6, <2>7
  <2> QED BY <2>3, <2>8
<1>2. ASSUME NEW f \in File, <<f>> \in DOMAIN merged
      PROVE  Right(f, merged)
  BY <1>1, <1>2 DEF MergedNodes, ShowsFiles
<1>3. \A i \in DOMAIN units : <<pathOrder[i]>> \in DOMAIN merged
  BY DEF MergedNodes, UnitRight
<1> HIDE DEF merged
<1>4. \A f \in File : <<f>> \notin modules /\ <<f>> \notin roots
  <2>1. \A i \in DOMAIN units : units[i].modules \cap FileFqns = {}
    BY DEF UnitRight
  <2>2. \A s \in scaffolding : s.modules \cap FileFqns = {} /\ s.languages \cap FileFqns = {}
    BY DEF ScaffoldingRight
  <2>3. \A f \in File : <<f>> \in FileFqns
    BY DEF FileFqns
  <2>4. modules \cap FileFqns = {} /\ roots \cap FileFqns = {}
    BY <2>1, <2>2
  <2> HIDE DEF modules, roots
  <2> QED BY <2>3, <2>4
<1> HIDE DEF modules, roots
<1>5. \A f \in File : /\ <<f>> \in DOMAIN merged <=> <<f>> \in DOMAIN nodes
                      /\ <<f>> \in DOMAIN nodes => Right(f, nodes)
  BY <1>2, <1>4 DEF WithModules
<1> HIDE DEF nodes
<1>6. ASSUME NEW edges
      PROVE  \A f \in File :
                /\ <<f>> \in DOMAIN nodes <=> <<f>> \in DOMAIN Resolved([nodes |-> nodes, edges |-> edges]).nodes
                /\ <<f>> \in DOMAIN nodes => Right(f, Resolved([nodes |-> nodes, edges |-> edges]).nodes)
  <2> SUFFICES ASSUME NEW f \in File
               PROVE  /\ <<f>> \in DOMAIN nodes <=>
                            <<f>> \in DOMAIN Resolved([nodes |-> nodes, edges |-> edges]).nodes
                      /\ <<f>> \in DOMAIN nodes =>
                            Right(f, Resolved([nodes |-> nodes, edges |-> edges]).nodes)
    OBVIOUS
  <2>1. <<f>> \in DOMAIN nodes => nodes[<<f>>].kind # "Unresolved"
    BY <1>5, FieldsOfAFile DEF FileRow
  <2> QED BY <1>5, <2>1 DEF Resolved
<1>7. \E edges : W = Resolved([nodes |-> nodes, edges |-> edges])
  BY DEF WithCached, nodes, merged, modules, roots
<1>8. ShowsFiles(W, T)
  BY <1>5, <1>6, <1>7 DEF ShowsFiles
<1>9. \A i \in DOMAIN units : <<pathOrder[i]>> \in DOMAIN W.nodes
  BY <1>3, <1>5, <1>6, <1>7
<1> HIDE DEF W
<1> QED BY <1>8, <1>9 DEF W

LEMMA FinalizedShowsFiles ==
    ASSUME NEW T, NEW G, ShowsFiles(G, T)
    PROVE  ShowsFiles(Finalized(G), T)
BY FinalizedNodes DEF ShowsFiles

LEMMA FinalizedIsSettled == ASSUME NEW G PROVE Settled(Finalized(G))
<1>1. \A e \in Finalized(G).edges : /\ e[2] \in DOMAIN G.nodes /\ e[3] \in DOMAIN G.nodes
                                     /\ ValidPair(e[1], G.nodes[e[2]].kind, G.nodes[e[3]].kind)
  BY DEF Finalized
<1> QED BY <1>1, FinalizedNodes DEF Settled

LEMMA UnitOfIsRight ==
    ASSUME NEW T, NEW G, ShowsFiles(G, T), Settled(G), NEW f \in File, <<f>> \in DOMAIN G.nodes
    PROVE  UnitRight(UnitOf(G, f), f, T[f])
<1> DEFINE modules == ModuleEdgesOf(G, f)
           carried == {e[3] : e \in {x \in FileEdges(G, f) : x[1] \in {"UnresolvedCall", "UnresolvedUse"}}}
           rows    == FileRows(G, f) \cup (carried \cap DOMAIN G.nodes)
           u       == UnitOf(G, f)
<1>1. u.modules = {e[2] : e \in modules} /\ u.nodes = [x \in rows |-> G.nodes[x]]
  BY DEF UnitOf
<1>2. \A g \in File : <<g>> \in DOMAIN G.nodes =>
         G.nodes[<<g>>].kind = "File" /\ FileKeyOf(G, <<g>>) = g
  <2> SUFFICES ASSUME NEW g \in File, <<g>> \in DOMAIN G.nodes
               PROVE  G.nodes[<<g>>].kind = "File" /\ FileKeyOf(G, <<g>>) = g
    OBVIOUS
  <2>1. IsKind(G, <<g>>, "File") /\ <<g>>[1] = g /\ ~Located(G.nodes[<<g>>])
    BY FieldsOfAFile DEF ShowsFiles, FileRow, IsKind, Located
  <2> QED BY <2>1 DEF FileKeyOf, IsKind
<1>3. \A x \in carried : G.nodes[x].kind = "Unresolved"
  BY DEF Settled, ValidPair, FileEdges
<1>4. \A g \in File : <<g>> \in rows => g = f
  BY <1>2, <1>3 DEF FileRows
<1>5. <<f>> \in rows
  BY <1>2 DEF FileRows
<1>6. \A g \in File : <<g>> \notin {e[2] : e \in modules}
  BY <1>2 DEF IsKind, ModuleEdgesOf
<1> HIDE DEF rows, modules, u
<1>7. <<f>> \in DOMAIN u.nodes /\ u.nodes[<<f>>] = NodeOf("File", f, None, T[f])
  BY <1>1, <1>5 DEF ShowsFiles, FileRow
<1>8. UnitRight(u, f, T[f])
  BY <1>1, <1>4, <1>6, <1>7 DEF UnitRight, FileFqns
<1> QED BY <1>8 DEF u

LEMMA ScaffoldingOfIsRight ==
    ASSUME NEW T, NEW G, ShowsFiles(G, T), NEW l
    PROVE  ScaffoldingRight(ScaffoldingOf(G, l, langOf))
<1>1. \A f \in File : <<f>> \in DOMAIN G.nodes => G.nodes[<<f>>].kind = "File"
  BY FieldsOfAFile DEF ShowsFiles, FileRow
<1>2. \A x \in ScaffoldingOf(G, l, langOf).modules : IsKind(G, x, "Module")
  BY DEF ScaffoldingOf
<1>3. \A x \in ScaffoldingOf(G, l, langOf).languages : IsKind(G, x, "Language")
  BY DEF ScaffoldingOf
<1> QED BY <1>1, <1>2, <1>3 DEF ScaffoldingRight, FileFqns, IsKind

LEMMA NoScaffoldingIsRight == ScaffoldingRight(NoScaffolding)
BY DEF ScaffoldingRight, NoScaffolding

\* What is signed is declared, never a file.
LEMMA SignaturesNameNoFile ==
    ASSUME NEW T, NEW G, ShowsFiles(G, T), NEW f, NEW s \in SignaturesOf(G, f)
    PROVE  s[2] \notin FileFqns
<1>1. \A g \in File : <<g>> \in DOMAIN G.nodes => ~Located(G.nodes[<<g>>])
  BY FieldsOfAFile DEF ShowsFiles, FileRow, Located
<1>2. s[2] \in DOMAIN G.nodes /\ Located(G.nodes[s[2]])
  BY DEF SignaturesOf
<1> QED BY <1>1, <1>2 DEF FileFqns

LEMMA LoadedShows ==
    ASSUME NEW T, NEW G, ShowsFiles(G, T), NEW hurt,
           \A f \in Present(T) : langOf[f] \notin hurt => <<f>> \in DOMAIN G.nodes
    PROVE  DbShows(Loaded(G), T, hurt)
<1> DEFINE pairs == {<<Row(G, x), G.nodes[x]>> : x \in DOMAIN G.nodes}
<1>1. Loaded(G).rows = AsFunction(pairs)
  BY DEF Loaded
<1> SUFFICES ASSUME NEW f \in File, langOf[f] \notin hurt
             PROVE  LET k == <<"File", <<f>> >>
                    IN  /\ k \in DOMAIN AsFunction(pairs) <=> T[f] # Missing
                        /\ k \in DOMAIN AsFunction(pairs) => AsFunction(pairs)[k] = FileRow(f, T)
  BY <1>1 DEF DbShows
<1> DEFINE k == <<"File", <<f>> >>
<1>2. ASSUME NEW p \in pairs, p[1] = k
      PROVE  T[f] # Missing /\ p[2] = FileRow(f, T)
  <2>1. PICK x \in DOMAIN G.nodes : p = <<Row(G, x), G.nodes[x]>>
    OBVIOUS
  <2>2. x = <<f>>
    BY <1>2, <2>1 DEF Row
  <2> QED BY <2>1, <2>2 DEF ShowsFiles
<1>3. T[f] # Missing => k \in DOMAIN AsFunction(pairs)
  <2> SUFFICES ASSUME T[f] # Missing PROVE \E p \in pairs : p[1] = k
    BY DEF AsFunction
  <2>1. <<f>> \in DOMAIN G.nodes
    BY DEF Present
  <2>2. Row(G, <<f>>) = k
    BY <2>1, FieldsOfAFile DEF Row, ShowsFiles, FileRow
  <2>3. <<Row(G, <<f>>), G.nodes[<<f>>]>> \in pairs
    BY <2>1
  <2> HIDE DEF pairs
  <2> QED BY <2>2, <2>3
<1> HIDE DEF pairs, k
<1>4. k \in DOMAIN AsFunction(pairs) => T[f] # Missing /\ AsFunction(pairs)[k] = FileRow(f, T)
  BY <1>2, DescribedByPairs
<1> QED BY <1>3, <1>4 DEF k

\* A splice brings the files of its targets up to date and leaves the others.
LEMMA AppliedShows ==
    ASSUME NEW T, NEW T0, NEW D, NEW G, NEW hurt, NEW spoilt, NEW targets, NEW removed,
           ShowsFiles(G, T), DbShows(D, T0, spoilt), removed \cap FileFqns = {},
           \A f \in File : langOf[f] \notin hurt =>
              /\ T[f] # Missing => <<f>> \in DOMAIN G.nodes
              /\ f \notin targets => T0[f] = T[f]
    PROVE  DbShows(Applied(D, G, targets, removed), T, hurt \cup spoilt)
<1> DEFINE delta    == {Row(G, x) : x \in DeltaNodes(D, G, targets)}
           gone     == Disappearing(D, G, targets, removed)
           merged   == MergedRels(D, G, targets, removed)
           targeted == {r[3] : r \in {x \in merged : x[1] \in {"UnresolvedCall", "UnresolvedUse"}}}
           rows     == (DOMAIN D.rows \cup delta \cup targeted) \ gone
           A        == Applied(D, G, targets, removed)
<1>1. \E named : A.rows = [k \in {y \in rows : y[1] # "Unresolved" \/ y \in named} |->
                              IF k \in delta \cup targeted THEN Upserted(D, G.nodes[k[2]], k) ELSE D.rows[k]]
  BY DEF Applied
<1>2. \A k \in targeted : k[1] = "Unresolved"
  <2>1. \A table, a, b : table \in {"UnresolvedCall", "UnresolvedUse"} /\ ValidPair(table, a, b)
                            => b = "Unresolved"
    BY DEF ValidPair
  <2>2. \A r \in merged : ValidPair(r[1], r[2][1], r[3][1])
    BY DEF MergedRels
  <2> HIDE DEF merged
  <2> QED BY <2>1, <2>2
<1> SUFFICES ASSUME NEW f \in File, langOf[f] \notin hurt \cup spoilt
             PROVE  LET k == <<"File", <<f>> >>
                    IN  /\ k \in DOMAIN A.rows <=> T[f] # Missing
                        /\ k \in DOMAIN A.rows => A.rows[k] = FileRow(f, T)
  BY DEF DbShows
<1> DEFINE k == <<"File", <<f>> >>
<1> HIDE DEF A
<1>3. /\ k \in DOMAIN A.rows <=> (k \in DOMAIN D.rows \/ k \in delta) /\ k \notin gone
      /\ k \in DOMAIN A.rows => A.rows[k] = IF k \in delta THEN Upserted(D, G.nodes[<<f>>], k) ELSE D.rows[k]
  <2>1. k \notin targeted /\ k[1] # "Unresolved" /\ k[2] = <<f>>
    BY <1>2
  <2> HIDE DEF targeted, delta, gone, k
  <2> QED BY <1>1, <2>1
<1> HIDE DEF rows, targeted
<1>4. k \in delta => /\ T[f] # Missing /\ Upserted(D, G.nodes[<<f>>], k) = FileRow(f, T)
                    /\ <<f>> \in DeltaNodes(D, G, targets)
  <2> SUFFICES ASSUME NEW x \in DeltaNodes(D, G, targets), k = Row(G, x)
               PROVE  T[f] # Missing /\ Upserted(D, G.nodes[<<f>>], k) = FileRow(f, T) /\ x = <<f>>
    OBVIOUS
  <2>1. x = <<f>>
    BY DEF Row
  <2>2. x \in DOMAIN G.nodes
    BY DEF DeltaNodes
  <2>3. T[f] # Missing /\ G.nodes[<<f>>] = FileRow(f, T)
    BY <2>1, <2>2 DEF ShowsFiles
  <2>4. ~G.nodes[<<f>>].planned
    BY <2>3, FieldsOfAFile DEF FileRow
  <2> QED BY <2>1, <2>3, <2>4 DEF Upserted
<1>5. k \in DOMAIN D.rows => /\ T0[f] # Missing /\ D.rows[k] = FileRow(f, T0)
                             /\ D.rows[k].path = f
  BY FieldsOfAFile DEF DbShows, FileRow
<1>6. k \in gone => f \in targets /\ <<f>> \notin DeltaNodes(D, G, targets)
  <2> SUFFICES ASSUME k \in gone PROVE f \in targets /\ <<f>> \notin DeltaNodes(D, G, targets)
    OBVIOUS
  <2>1. k \in DeleteScope(D, targets, removed) /\ <<f>> \notin DeltaNodes(D, G, targets)
    BY DEF Disappearing
  <2>2. k \in DOMAIN D.rows /\ <<f>> \notin removed
    BY <2>1 DEF DeleteScope, FileFqns
  <2> QED BY <1>5, <2>1, <2>2 DEF DeleteScope
<1>7. CASE f \in targets /\ T[f] # Missing
  <2>1. <<f>> \in DOMAIN G.nodes /\ G.nodes[<<f>>] = FileRow(f, T)
    BY <1>7 DEF ShowsFiles
  <2>2. G.nodes[<<f>>].kind = "File" /\ G.nodes[<<f>>].path = f
    BY <2>1, FieldsOfAFile DEF FileRow
  <2>3. <<f>> \in DeltaNodes(D, G, targets) /\ Row(G, <<f>>) = k
    BY <1>7, <2>1, <2>2 DEF DeltaNodes, Row
  <2>4. k \in delta /\ k \notin gone
    BY <1>6, <2>3
  <2> HIDE DEF delta, gone
  <2> QED BY <1>3, <1>4, <1>7, <2>4
<1>8. CASE f \in targets /\ T[f] = Missing
  <2>1. k \notin delta
    BY <1>4, <1>8
  <2>2. k \in DOMAIN D.rows => k \in gone
    <3> SUFFICES ASSUME k \in DOMAIN D.rows PROVE k \in gone
      OBVIOUS
    <3>1. k \in DeleteScope(D, targets, removed)
      BY <1>5, <1>8 DEF DeleteScope
    <3>2. <<f>> \notin DeltaNodes(D, G, targets)
      BY <1>8 DEF ShowsFiles, DeltaNodes
    <3> QED BY <3>1, <3>2 DEF Disappearing
  <2> HIDE DEF delta, gone
  <2> QED BY <1>3, <1>8, <2>1, <2>2
<1>9. CASE f \notin targets
  <2>1. T0[f] = T[f] /\ k \notin gone
    BY <1>6, <1>9
  <2>2. k \in DOMAIN D.rows <=> T[f] # Missing
    BY <2>1 DEF DbShows
  <2>3. FileRow(f, T0) = FileRow(f, T)
    BY <2>1 DEF FileRow
  <2> HIDE DEF delta, gone
  <2> QED BY <1>3, <1>4, <1>5, <2>1, <2>2, <2>3
<1> QED BY <1>7, <1>8, <1>9

-----------------------------------------------------------------------------
(* What a step leaves of it                                                  *)

LEMMA NothingHeld ==
    ASSUME NEW w \in Worktree, job[w] = NoJob, Idle(w)
    PROVE  JobFiles(w) /\ Assembled(w) /\ Reckons(w)
<1>1. NoJob.graph.nodes = << >> /\ NoJob.held = << >> /\ NoJob.candidates = {} /\ NoJob.removed = {}
  BY DEF NoJob, EmptyGraph
<1>2. DOMAIN << >> = {}
  OBVIOUS
<1>3. pc[w] \notin Saving \cup {"plan", "diff", "emit", "assemble"}
  BY DEF Idle, Saving
<1> QED BY <1>1, <1>2, <1>3 DEF JobFiles, ShowsFiles, UnitsRight, Assembled, Reckons, Before

LEMMA NothingLeft ==
    ASSUME NEW w \in Worktree, job'[w] = NoJob, Idle(w)'
    PROVE  JobFiles(w)' /\ Assembled(w)' /\ Reckons(w)'
<1>1. NoJob.graph.nodes = << >> /\ NoJob.held = << >> /\ NoJob.candidates = {} /\ NoJob.removed = {}
  BY DEF NoJob, EmptyGraph
<1>2. DOMAIN << >> = {}
  OBVIOUS
<1>3. pc'[w] \notin Saving \cup {"plan", "diff", "emit", "assemble"}
  BY DEF Idle, Saving
<1> QED BY <1>1, <1>2, <1>3 DEF JobFiles, ShowsFiles, UnitsRight, Assembled, Reckons, Before

LEMMA OthersFiles ==
    ASSUME FilesInv, NEW w \in Worktree, Apart(w), NEW v \in Worktree \ {w}
    PROVE  JobFiles(v)' /\ Assembled(v)'
<1>1. job'[v] = job[v] /\ pc'[v] = pc[v] /\ tree'[v] = tree[v] /\ JobFiles(v) /\ Assembled(v)
  BY DEF Apart, FilesInv
<1> QED BY <1>1 DEF JobFiles, Assembled, Unmoved, Sure

\* A step that writes no file of the store.
LEMMA QuietFiles ==
    ASSUME FilesInv, UnitsInv', NEW w \in Worktree, Apart(w), UNCHANGED <<index, scan, state>>,
           \A v \in Worktree \ {w} : torn'[v] = torn[v] /\ db'[v] = db[v],
           storeHurt' = storeHurt \/ storeHurt' = Language,
           JobFiles(w)', Assembled(w)', Reckons(w)', DbFiles(w)'
    PROVE  FilesInv'
<1>1. StoreFiles'
  BY DEF FilesInv, StoreFiles
<1>2. ASSUME NEW v \in Worktree \ {w} PROVE Reckons(v)' /\ DbFiles(v)'
  <2>1. /\ job'[v] = job[v] /\ pc'[v] = pc[v] /\ tree'[v] = tree[v] /\ torn'[v] = torn[v]
        /\ db'[v] = db[v] /\ Reckons(v) /\ DbFiles(v)
    BY DEF Apart, FilesInv
  <2>2. \A f \in File : langOf[f] \in Language
    BY StoreAssumption
  <2>3. Reckons(v)'
    BY <2>1, <2>2 DEF Reckons, Unmoved
  <2> QED BY <2>1, <2>3 DEF DbFiles
<1> QED BY <1>1, <1>2, OthersFiles DEF FilesInv

\* One that only fills in the job.
LEMMA JobFilesStep ==
    ASSUME FilesInv, UnitsInv', NEW w \in Worktree, Apart(w),
           UNCHANGED <<index, scan, state, torn, storeHurt, db>>,
           JobFiles(w)', Assembled(w)', Reckons(w)'
    PROVE  FilesInv'
<1>1. DbFiles(w)'
  BY DEF FilesInv, DbFiles
<1> QED BY <1>1, QuietFiles

LEMMA SavingFiles ==
    ASSUME FilesInv, UnitsInv', NEW w \in Worktree, Apart(w), Overtakes(w), UNCHANGED <<job, db>>,
           pc[w] \in Saving, pc'[w] \in Saving, StoreFiles'
    PROVE  FilesInv'
<1>1. JobFiles(w)' /\ Assembled(w)'
  <2>1. tree'[w] = tree[w] /\ JobFiles(w) /\ Assembled(w)
    BY DEF Apart, FilesInv
  <2> QED BY <2>1 DEF JobFiles, Assembled, Unmoved, Sure, Saving, Before
<1>2. Reckons(w)'
  BY DEF Reckons, Saving
<1>3. ASSUME NEW v \in Worktree \ {w} PROVE Reckons(v)'
  <2>1. torn \in [Worktree -> BOOLEAN] /\ pc'[v] = pc[v]
    BY DEF FilesInv, UnitsInv, IInv, TornOK, Apart
  <2>2. torn'[v] = (torn[v] \/ ~Idle(v))
    BY DEF Overtakes
  <2>3. ~torn'[v] => pc'[v] = "idle"
    <3>1. CASE Idle(v)
      BY <2>1, <3>1 DEF Idle
    <3>2. CASE ~Idle(v)
      BY <2>1, <2>2, <3>2
    <3> QED BY <3>1, <3>2
  <2> QED BY <2>3 DEF Reckons
<1>4. \A v \in Worktree : DbFiles(v)'
  BY DEF FilesInv, DbFiles
<1> QED BY <1>1, <1>2, <1>3, <1>4, OthersFiles DEF FilesInv

-----------------------------------------------------------------------------
(* Step by step                                                              *)

LEMMA MovesFiles ==
    ASSUME FilesInv, UnitsInv', \A v \in Worktree : Idle(v),
           UNCHANGED <<index, scan, state, pc, job, torn, storeHurt, db>>
    PROVE  FilesInv'
<1>1. ASSUME NEW v \in Worktree PROVE JobFiles(v)' /\ Assembled(v)' /\ Reckons(v)'
  <2>1. job[v] = NoJob
    BY DEF FilesInv, UnitsInv, IInv, JobsOK, JobOK
  <2>2. job'[v] = NoJob /\ Idle(v)'
    BY <2>1 DEF Idle
  <2> QED BY <2>2, NothingLeft
<1> QED BY <1>1 DEF FilesInv, StoreFiles, DbFiles

LEMMA SameFiles ==
    ASSUME FilesInv, UnitsInv', UNCHANGED <<tree, index, scan, state, pc, job, torn, storeHurt, db>>
    PROVE  FilesInv'
BY DEF FilesInv, StoreFiles, JobFiles, Assembled, Sure, Unmoved, Reckons, DbFiles

LEMMA StartFiles ==
    ASSUME FilesInv, NEW w \in Worktree, Start(w) \/ StartForced(w)
    PROVE  FilesInv'
<1> DEFINE probe == [NoJob EXCEPT !.key = Key(w)]
           emit  == [NoJob EXCEPT !.key = Key(w), !.full = TRUE, !.manifest = tree[w]]
<1>1. UnitsInv'
  BY StartUnits DEF FilesInv
<1>2. \/ At(w, "idle", "probe") /\ job' = [job EXCEPT ![w] = probe] /\ UNCHANGED db
      \/ At(w, "idle", "emit") /\ job' = [job EXCEPT ![w] = emit] /\ db' = [db EXCEPT ![w] = None]
  BY DEF Start, StartForced, Takes
<1>3. /\ torn' = [torn EXCEPT ![w] = \E v \in Worktree \ {w} : MidSave(v)]
      /\ UNCHANGED <<head, tree, index, scan, state, storeHurt>>
  BY DEF Start, StartForced, Takes, repo, store
<1>4. IInv /\ torn \in [Worktree -> BOOLEAN] /\ DOMAIN db = Worktree
  BY DEF FilesInv, UnitsInv, IInv, TornOK, DbsOK
<1>5. /\ Apart(w)
      /\ (job'[w] = probe /\ pc'[w] = "probe") \/ (job'[w] = emit /\ pc'[w] = "emit")
  <2>1. {"idle", "probe", "emit"} \subseteq Steps
    BY DEF Steps, Before
  <2>2. CASE At(w, "idle", "probe") /\ job' = [job EXCEPT ![w] = probe]
    <3> HIDE DEF probe, emit
    <3> QED BY <1>3, <1>4, <2>1, <2>2, StepApart
  <2>3. CASE At(w, "idle", "emit") /\ job' = [job EXCEPT ![w] = emit]
    <3> HIDE DEF probe, emit
    <3> QED BY <1>3, <1>4, <2>1, <2>3, StepApart
  <2> QED BY <1>2, <2>2, <2>3
<1>6. /\ job'[w].graph.nodes = << >> /\ job'[w].held = << >> /\ job'[w].candidates = {}
      /\ job'[w].removed = {}
      /\ pc'[w] = "emit" => job'[w].full
  <2>1. /\ probe.graph = EmptyGraph /\ probe.held = << >> /\ probe.candidates = {}
        /\ probe.removed = {}
    BY DEF NoJob
  <2>2. /\ emit.graph = EmptyGraph /\ emit.held = << >> /\ emit.candidates = {}
        /\ emit.removed = {} /\ emit.full
    BY DEF NoJob
  <2> HIDE DEF probe, emit
  <2>3. EmptyGraph.nodes = << >>
    BY DEF EmptyGraph
  <2>4. CASE job'[w] = probe /\ pc'[w] = "probe"
    BY <2>1, <2>3, <2>4
  <2>5. CASE job'[w] = emit /\ pc'[w] = "emit"
    BY <2>2, <2>3, <2>5
  <2> QED BY <1>5, <2>4, <2>5
<1> HIDE DEF probe, emit
<1>7. JobFiles(w)'
  <2>1. DOMAIN << >> = {}
    OBVIOUS
  <2> QED BY <1>5, <1>6, <2>1 DEF JobFiles, ShowsFiles, UnitsRight
<1>8. Assembled(w)' /\ Reckons(w)'
  BY <1>5, <1>6 DEF Assembled, Reckons, Saving
<1>9. DbFiles(w)' /\ \A v \in Worktree \ {w} : torn'[v] = torn[v] /\ db'[v] = db[v]
  BY <1>2, <1>3, <1>4 DEF DbFiles, FilesInv
<1> QED BY <1>1, <1>3, <1>5, <1>7, <1>8, <1>9, QuietFiles

LEMMA ProbeFiles ==
    ASSUME FilesInv, NEW w \in Worktree, Probe(w)
    PROVE  FilesInv'
<1>1. /\ UnitsInv' /\ JobOK(w) /\ DOMAIN job = Worktree /\ pc \in [Worktree -> Steps]
      /\ JobFiles(w)
  BY ProbeUnits DEF FilesInv, UnitsInv, IInv, JobsOK
<1>2. UNCHANGED <<head, tree, index, scan, state, torn, storeHurt, db>>
  BY DEF Probe, StepKeeps, repo, store, history
<1>3. CASE Warm(w) /\ At(w, "probe", "assemble")
           /\ job' = [job EXCEPT ![w].warm = TRUE, ![w].recorded = scan.key,
                         ![w].manifest = scan.manifest, ![w].candidates = Present(scan.manifest),
                         ![w].graph = Ingested(Joined(<< >>))]
  <2>1. Apart(w) /\ pc[w] = "probe" /\ pc'[w] = "assemble"
    BY <1>1, <1>2, <1>3 DEF Apart, At
  <2>2. /\ job'[w].recorded = scan.key /\ job'[w].manifest = scan.manifest
        /\ job'[w].candidates = Present(scan.manifest) /\ job'[w].removed = job[w].removed
        /\ job'[w].graph = Ingested(Joined(<< >>)) /\ job'[w].held = job[w].held
    BY <1>1, <1>3 DEF JobOK, JobFields
  <2>3. scan.key = Key(w)
    BY <1>1, <1>3, <2>1 DEF Warm, JobOK, Idle
  <2>4. job'[w].recorded.tree = tree[w]
    BY <2>2, <2>3 DEF Key
  <2>5. JobFiles(w)'
    <3>1. ShowsFiles(job'[w].graph, tree[w])
      <4>1. tree[w] \in Trees
        BY DEF FilesInv, UnitsInv, IInv, RepoOK
      <4> QED BY <2>2, <4>1, NoSpoolsShowFiles
    <3> QED BY <1>1, <1>2, <2>1, <2>2, <3>1 DEF JobFiles, Before
  <2>6. Assembled(w)' /\ Reckons(w)'
    BY <1>2, <2>1, <2>2, <2>4 DEF Assembled, Saving, Reckons, Unmoved, Present
  <2> QED BY <1>1, <1>2, <2>1, <2>5, <2>6, JobFilesStep
<1>4. CASE At(w, "probe", "recorded") /\ UNCHANGED job
  <2>1. Apart(w) /\ pc[w] = "probe" /\ pc'[w] = "recorded"
    BY <1>1, <1>2, <1>4 DEF Apart, At
  <2>2. JobFiles(w)' /\ Assembled(w)' /\ Reckons(w)'
    BY <1>1, <1>2, <1>4, <2>1 DEF JobFiles, Before, Assembled, Saving, Reckons
  <2> QED BY <1>1, <1>2, <2>1, <2>2, JobFilesStep
<1> QED BY <1>3, <1>4 DEF Probe

LEMMA ReadRecordedKeyFiles ==
    ASSUME FilesInv, NEW w \in Worktree, ReadRecordedKey(w)
    PROVE  FilesInv'
<1>1. /\ UnitsInv' /\ JobOK(w) /\ DOMAIN job = Worktree /\ pc \in [Worktree -> Steps]
      /\ JobFiles(w)
  BY ReadRecordedKeyUnits DEF FilesInv, UnitsInv, IInv, JobsOK
<1>2. /\ UNCHANGED <<head, tree, index, scan, state, torn, storeHurt, db>>
      /\ At(w, "recorded", "plan")
      /\ job' = [job EXCEPT ![w].recorded = IF scan = None THEN None ELSE scan.key]
  BY DEF ReadRecordedKey, StepKeeps, repo, store, history
<1>3. Apart(w) /\ pc[w] = "recorded" /\ pc'[w] = "plan"
  BY <1>1, <1>2 DEF Apart, At
<1>4. /\ job'[w].recorded = IF scan = None THEN None ELSE scan.key
      /\ job'[w].manifest = job[w].manifest
      /\ job'[w].candidates = job[w].candidates /\ job'[w].removed = job[w].removed
      /\ job'[w].graph = job[w].graph /\ job'[w].held = job[w].held
  BY <1>1, <1>2 DEF JobOK, JobFields
<1>5. JobFiles(w)'
  BY <1>1, <1>2, <1>3, <1>4 DEF JobFiles, Before
<1>6. Assembled(w)' /\ Reckons(w)'
  BY <1>2, <1>3, <1>4 DEF Assembled, Saving, Reckons
<1> QED BY <1>1, <1>2, <1>3, <1>5, <1>6, JobFilesStep

LEMMA FullFiles ==
    ASSUME FilesInv, UnitsInv', NEW w \in Worktree, NEW here \in Before, At(w, here, "emit"), GoesFull(w),
           UNCHANGED <<head, tree, index, scan, state, torn, storeHurt, db>>
    PROVE  FilesInv'
<1>1. /\ JobOK(w) /\ DOMAIN job = Worktree /\ pc \in [Worktree -> Steps]
      /\ JobFiles(w)
  BY DEF FilesInv, UnitsInv, IInv, JobsOK
<1>2. Apart(w) /\ pc'[w] = "emit"
  BY <1>1 DEF Apart, At, GoesFull
<1>3. /\ job'[w].full /\ job'[w].candidates = {} /\ job'[w].removed = {}
      /\ job'[w].graph = job[w].graph /\ job'[w].held = job[w].held
  BY <1>1 DEF GoesFull, JobOK, JobFields
<1>4. JobFiles(w)' /\ Assembled(w)' /\ Reckons(w)'
  BY <1>1, <1>2, <1>3 DEF JobFiles, Before, Assembled, Saving, Reckons
<1> QED BY <1>2, <1>4, JobFilesStep

LEMMA PlanFiles ==
    ASSUME FilesInv, NEW w \in Worktree, Plan(w)
    PROVE  FilesInv'
<1>1. /\ UnitsInv' /\ JobOK(w) /\ DOMAIN job = Worktree /\ pc \in [Worktree -> Steps]
      /\ JobFiles(w) /\ Reckons(w)
  BY PlanUnits DEF FilesInv, UnitsInv, IInv, JobsOK
<1>2. UNCHANGED <<head, tree, index, scan, state, torn, storeHurt, db>>
  BY DEF Plan, StepKeeps, repo, store, history
<1>3. CASE At(w, "plan", "emit") /\ GoesFull(w)
  BY <1>1, <1>2, <1>3, FullFiles DEF Before
<1>4. CASE /\ At(w, "plan", "diff")
           /\ job' = [job EXCEPT ![w].manifest = tree[w],
                 ![w].targets = IF scan.sha = head[w] THEN {} ELSE GitDelta(w, scan.sha)]
  <2>1. Apart(w) /\ pc[w] = "plan" /\ pc'[w] = "diff"
    BY <1>1, <1>2, <1>4 DEF Apart, At
  <2>2. /\ job'[w].targets = IF scan.sha = head[w] THEN {} ELSE GitDelta(w, scan.sha)
        /\ job'[w].recorded = job[w].recorded
        /\ job'[w].candidates = job[w].candidates /\ job'[w].removed = job[w].removed
        /\ job'[w].graph = job[w].graph /\ job'[w].held = job[w].held
    BY <1>1, <1>4 DEF JobOK, JobFields
  <2>3. job'[w].targets \subseteq File
    BY <2>2 DEF GitDelta
  <2>4. JobFiles(w)'
    BY <1>1, <1>2, <2>1, <2>2, <2>3 DEF JobFiles, Before
  <2>5. Assembled(w)' /\ Reckons(w)'
    BY <1>1, <1>2, <2>1, <2>2 DEF Assembled, Saving, Reckons
  <2> QED BY <1>1, <1>2, <2>1, <2>4, <2>5, JobFilesStep
<1> QED BY <1>3, <1>4 DEF Plan

LEMMA DiffFiles ==
    ASSUME FilesInv, NEW w \in Worktree, Diff(w)
    PROVE  FilesInv'
<1>1. /\ UnitsInv' /\ JobOK(w) /\ DOMAIN job = Worktree /\ pc \in [Worktree -> Steps]
      /\ JobFiles(w) /\ Reckons(w) /\ tree[w] \in Tree
  BY DiffUnits, TreesAreTrees DEF FilesInv, UnitsInv, IInv, JobsOK, RepoOK
<1>2. /\ UNCHANGED <<head, tree, index, scan, state, torn, storeHurt, db>>
      /\ At(w, "diff", "emit")
  BY DEF Diff, StepKeeps, repo, store, history
<1>3. CASE GoesFull(w)
  BY <1>1, <1>2, <1>3, FullFiles DEF Before
<1>4. CASE job' = [job EXCEPT ![w].targets = Stage1(w), ![w].removed = RemovedFqns(w),
                              ![w].candidates = Reusable(w, Stage1(w))]
  <2>1. Apart(w) /\ pc[w] = "diff" /\ pc'[w] = "emit" /\ job[w].manifest = tree[w]
    BY <1>1, <1>2, <1>4 DEF Apart, At, JobOK
  <2>2. /\ job'[w].targets = Stage1(w) /\ job'[w].removed = RemovedFqns(w)
        /\ job'[w].candidates = Reusable(w, Stage1(w))
        /\ job'[w].recorded = job[w].recorded /\ job'[w].manifest = tree[w]
        /\ job'[w].graph = job[w].graph /\ job'[w].held = job[w].held
    BY <1>1, <1>4, <2>1 DEF JobOK, JobFields
  <2>3. Stage1(w) \subseteq File
    BY <1>1, <2>1 DEF JobFiles, Stage1, ManifestDelta, Peers
  <2>4. RemovedFqns(w) \cap FileFqns = {}
    BY <2>3 DEF RemovedFqns, FilesInv, StoreFiles
  <2>5. \A f \in Reusable(w, Stage1(w)) : f \in Present(tree[w])
    BY DEF Reusable
  <2>6. JobFiles(w)'
    BY <1>1, <1>2, <2>1, <2>2, <2>4, <2>5 DEF JobFiles, Before, Present
  <2>7. ASSUME ~torn[w], NEW f \in File \ Stage1(w), langOf[f] \notin storeHurt
        PROVE  /\ job[w].recorded.tree[f] = tree[w][f]
               /\ f \in Present(tree[w]) => f \in Reusable(w, Stage1(w))
    <3>1. AtRest /\ scan # None
      BY <2>1, <2>7 DEF FilesInv, UnitsInv, CountsOn, Solo, Reuses, AtRest, MidSave, Idle
    <3>2. langOf[f] \in Language
      BY StoreAssumption
    <3>3. manifest = scan.manifest /\ manifest = scan.key.tree /\ scan.manifest \in Trees
      BY <2>7, <3>1, <3>2 DEF FilesInv, UnitsInv, IInv, TornOK, StoreOK, StoreOfOneScan
    <3>4. manifest # None
      BY <3>3, TreesAreTrees, StoreAssumption
    <3>5. manifest[f] = tree[w][f]
      BY <2>7, <3>4 DEF Stage1, ManifestDelta
    <3>6. job[w].recorded = scan.key
      BY <1>1, <2>1, <2>7, <3>1 DEF Reckons
    <3> QED BY <2>7, <3>3, <3>4, <3>5, <3>6 DEF Reusable
  <2>8. Assembled(w)' /\ Reckons(w)'
    BY <1>2, <2>1, <2>2, <2>7 DEF Assembled, Saving, Reckons, Unmoved, Present
  <2> QED BY <1>1, <1>2, <2>1, <2>6, <2>8, JobFilesStep
<1> QED BY <1>3, <1>4 DEF Diff

LEMMA EmitFactsFiles ==
    ASSUME FilesInv, NEW w \in Worktree, EmitFacts(w)
    PROVE  FilesInv'
<1>1. /\ UNCHANGED <<head, tree, index, scan, state, torn, storeHurt, db>>
      /\ At(w, "emit", "assemble")
  BY DEF EmitFacts, Emits, repo, store, history
<1>2. /\ UnitsInv' /\ JobOK(w) /\ DOMAIN job = Worktree /\ pc \in [Worktree -> Steps]
      /\ JobFiles(w) /\ Reckons(w) /\ tree[w] \in Trees
  BY EmitFactsUnits DEF FilesInv, UnitsInv, IInv, JobsOK, RepoOK
<1> DEFINE stage1 == job[w].targets
           First(failed) == Spools(w, stage1, failed)
           Extra(failed) == IF job[w].full THEN {} ELSE Cascade(stage1, Ingested(Joined(First(failed))))
           All(one, two) == IF Extra(one) = {} THEN First(one)
                            ELSE SecondPass(w, First(one), stage1 \cup Extra(one), two)
<1>3. PICK one \in SUBSET Language, two \in SUBSET Language :
        job' = [job EXCEPT ![w].targets = stage1 \cup Extra(one),
                           ![w].candidates = @ \ (stage1 \cup Extra(one)),
                           ![w].graph = Ingested(Joined(All(one, two))),
                           ![w].hurt = one \cup two]
  BY DEF EmitFacts, Emits
<1> DEFINE targets == stage1 \cup Extra(one)
           spools  == All(one, two)
<1>4. \A l \in DOMAIN spools : l \in Language /\ \E emitted : spools[l] = Stream(tree[w], l, emitted)
  <2>1. ASSUME NEW asked, NEW failed, NEW l \in DOMAIN Spools(w, asked, failed)
        PROVE  l \in Language /\ \E emitted : Spools(w, asked, failed)[l] = Stream(tree[w], l, emitted)
    BY LanguagesOfFiles DEF Spools, Spawned, Detected
  <2>2. CASE Extra(one) = {}
    BY <2>1, <2>2
  <2>3. CASE Extra(one) # {}
    <3>1. spools = SecondPass(w, First(one), targets, two)
      BY <2>3
    <3> HIDE DEF targets, spools, Extra
    <3> QED BY <2>1, <3>1 DEF SecondPass
  <2> QED BY <2>2, <2>3
<1> HIDE DEF All, Extra
<1>5. Apart(w) /\ pc[w] = "emit" /\ pc'[w] = "assemble"
  BY <1>1, <1>2, <1>3 DEF Apart, At
<1>6. /\ job'[w].targets = targets /\ job'[w].candidates = job[w].candidates \ targets
      /\ job'[w].full = job[w].full /\ job'[w].recorded = job[w].recorded
      /\ job'[w].manifest = job[w].manifest /\ job'[w].removed = job[w].removed
      /\ job'[w].graph = Ingested(Joined(spools)) /\ job'[w].held = job[w].held
  BY <1>2, <1>3 DEF JobOK, JobFields
<1> HIDE DEF spools
<1>7. ShowsFiles(Ingested(Joined(spools)), tree[w])
  BY <1>2, <1>4, JoinedIsModest, IngestedShowsFiles
<1>8. JobFiles(w)' /\ Assembled(w)'
  BY <1>1, <1>2, <1>5, <1>6, <1>7 DEF JobFiles, Assembled, Saving, Before, Present
<1>9. Reckons(w)'
  BY <1>1, <1>2, <1>5, <1>6 DEF Reckons, Unmoved, Present
<1> QED BY <1>1, <1>2, <1>5, <1>8, <1>9, JobFilesStep

\* What the splice is given.
LEMMA CachedIsRight ==
    ASSUME FilesInv, NEW w \in Worktree, pc[w] = "assemble"
    PROVE  /\ \A i \in DOMAIN CachedUnits(w) :
                 /\ i \in Int /\ pathOrder[i] \in File /\ tree[w][pathOrder[i]] # Missing
                 /\ UnitRight(CachedUnits(w)[i], pathOrder[i], tree[w][pathOrder[i]])
           /\ \A i, j \in DOMAIN CachedUnits(w) : pathOrder[i] = pathOrder[j] => i = j
           /\ \A s \in {index.scaffolding[l] : l \in Skipped(w)} : ScaffoldingRight(s)
<1>1. /\ StoreFiles /\ job[w].manifest = tree[w]
      /\ \A f \in job[w].candidates : f \in Present(tree[w])
  BY DEF FilesInv, UnitsInv, IInv, JobsOK, JobOK, JobFiles
<1>2. \A i \in DOMAIN pathOrder : i \in Int /\ pathOrder[i] \in File
  BY NamesAssumption
<1>3. \A i \in DOMAIN CachedUnits(w) :
         /\ i \in DOMAIN pathOrder /\ pathOrder[i] \in job[w].candidates
         /\ <<pathOrder[i], tree[w][pathOrder[i]]>> \in DOMAIN index.units
         /\ CachedUnits(w)[i] = index.units[<<pathOrder[i], tree[w][pathOrder[i]]>>]
  BY <1>1 DEF CachedUnits
<1>4. Skipped(w) \subseteq Language
  <2>1. \A f \in job[w].candidates : langOf[f] \in Language
    BY <1>1, LanguagesOfFiles
  <2> QED BY <2>1, LanguagesOfFiles DEF Skipped, Detected
<1>5. ASSUME NEW i \in DOMAIN CachedUnits(w)
      PROVE  /\ i \in Int /\ pathOrder[i] \in File /\ tree[w][pathOrder[i]] # Missing
             /\ UnitRight(CachedUnits(w)[i], pathOrder[i], tree[w][pathOrder[i]])
  BY <1>1, <1>2, <1>3 DEF Present, StoreFiles, UnitsRight
<1>6. \A i, j \in DOMAIN CachedUnits(w) : pathOrder[i] = pathOrder[j] => i = j
  BY <1>3, NamesAssumption
<1>7. \A s \in {index.scaffolding[l] : l \in Skipped(w)} : ScaffoldingRight(s)
  BY <1>1, <1>4 DEF StoreFiles
<1> QED BY <1>5, <1>6, <1>7

LEMMA AssembleFiles ==
    ASSUME FilesInv, NEW w \in Worktree, Assemble(w)
    PROVE  FilesInv'
<1> DEFINE units  == CachedUnits(w)
           cached == WithCached(job[w].graph, units, {index.scaffolding[l] : l \in Skipped(w)})
           more   == IF job[w].full THEN {} ELSE IF torn[w] THEN Language ELSE storeHurt
<1>1. /\ UNCHANGED <<head, tree, index, scan, state, torn, storeHurt, db>>
      /\ At(w, "assemble", "index")
      /\ job' = [job EXCEPT ![w].graph = Finalized(IF job[w].full THEN @ ELSE cached),
                            ![w].held = index.units,
                            ![w].hurt = @ \cup more]
  BY DEF Assemble, StepKeeps, repo, store, history
<1>2. /\ UnitsInv' /\ UnitsInv /\ JobOK(w) /\ DOMAIN job = Worktree /\ pc \in [Worktree -> Steps]
      /\ JobFiles(w) /\ Reckons(w) /\ StoreFiles
  BY AssembleUnits DEF FilesInv, UnitsInv, IInv, JobsOK
<1>3. pc[w] = "assemble" /\ job[w].manifest = tree[w] /\ ShowsFiles(job[w].graph, tree[w])
  BY <1>1, <1>2 DEF At, JobOK, JobFiles
<1>4. /\ ShowsFiles(cached, tree[w])
      /\ \A i \in DOMAIN units : <<pathOrder[i]>> \in DOMAIN cached.nodes
      /\ \A x : Real(job[w].graph, x) => Real(cached, x)
  <2> DEFINE scaffolding == {index.scaffolding[l] : l \in Skipped(w)}
  <2>1. /\ \A i \in DOMAIN units :
              /\ i \in Int /\ pathOrder[i] \in File /\ tree[w][pathOrder[i]] # Missing
              /\ UnitRight(units[i], pathOrder[i], tree[w][pathOrder[i]])
        /\ \A i, j \in DOMAIN units : pathOrder[i] = pathOrder[j] => i = j
        /\ \A s \in scaffolding : ScaffoldingRight(s)
    BY <1>3, CachedIsRight
  <2>2. \A x : Real(job[w].graph, x) => Real(cached, x)
    BY SplicedKeeps
  <2>3. cached = WithCached(job[w].graph, units, scaffolding)
    OBVIOUS
  <2> HIDE DEF units, scaffolding, cached
  <2> QED BY <1>3, <2>1, <2>2, <2>3, SplicedShowsFiles
<1> HIDE DEF cached, units
<1>5. Apart(w) /\ pc'[w] = "index"
  BY <1>1, <1>2 DEF Apart, At
<1>6. /\ job'[w].hurt = job[w].hurt \cup more /\ job'[w].held = index.units
      /\ job'[w].full = job[w].full /\ job'[w].removed = job[w].removed
      /\ job'[w].recorded = job[w].recorded /\ job'[w].candidates = job[w].candidates
      /\ job'[w].manifest = job[w].manifest /\ job'[w].targets = job[w].targets
      /\ job'[w].graph = Finalized(IF job[w].full THEN job[w].graph ELSE cached)
  BY <1>1, <1>2 DEF JobOK, JobFields
<1>7. ShowsFiles(job'[w].graph, tree[w]) /\ Settled(job'[w].graph)
  BY <1>3, <1>4, <1>6, FinalizedShowsFiles, FinalizedIsSettled
<1>8. JobFiles(w)'
  BY <1>1, <1>2, <1>5, <1>6, <1>7 DEF JobFiles, StoreFiles, Before, Present
<1>9. \A x : x \in DOMAIN job'[w].graph.nodes
               <=> x \in DOMAIN (IF job[w].full THEN job[w].graph ELSE cached).nodes
  BY <1>6, FinalizedNodes
<1>10. ASSUME NEW f \in Present(job[w].manifest), langOf[f] \notin job[w].hurt \cup more
       PROVE  <<f>> \in DOMAIN job'[w].graph.nodes
  <2>1. CASE ~job[w].warm /\ (job[w].targets = {} \/ f \in job[w].targets)
    <3>1. Real(job[w].graph, <<f>>)
      BY <1>2, <1>3, <1>10, <2>1 DEF UnitsInv, OwnInv, EmitsFiles, Sure
    <3> QED BY <1>4, <1>9, <3>1 DEF Real
  <2>2. CASE job[w].warm \/ ~(job[w].targets = {} \/ f \in job[w].targets)
    <3>1. ~job[w].full /\ f \notin job[w].targets
      BY <1>2, <2>2 DEF UnitsInv, OwnInv, WarmOK, JobOK
    <3>2. ~torn[w] /\ langOf[f] \notin storeHurt /\ f \in File
      BY <1>10, <3>1, LanguagesOfFiles DEF Present
    <3>3. /\ <<f, job[w].manifest[f]>> \in DOMAIN index.units
          /\ f \in job[w].candidates
      BY <1>2, <1>3, <1>10, <3>1, <3>2 DEF UnitsInv, CountsOn, Reuses, Reckons
    <3>4. PICK i \in DOMAIN pathOrder : f = pathOrder[i]
      BY <3>2, StoreAssumption
    <3>5. i \in DOMAIN units
      BY <3>3, <3>4 DEF units, CachedUnits
    <3> QED BY <1>4, <1>9, <3>1, <3>4, <3>5
  <2> QED BY <2>1, <2>2
<1>11. ~job[w].full => \A f \in File \ job[w].targets : langOf[f] \notin job[w].hurt \cup more =>
                          (job[w].recorded # None => job[w].recorded.tree[f] = tree[w][f])
  <2> SUFFICES ASSUME ~job[w].full, NEW f \in File \ job[w].targets,
                      langOf[f] \notin job[w].hurt \cup more
               PROVE  job[w].recorded # None => job[w].recorded.tree[f] = tree[w][f]
    OBVIOUS
  <2>1. langOf[f] \in Language
    BY StoreAssumption
  <2>2. ~torn[w] /\ langOf[f] \notin storeHurt
    BY <2>1
  <2> QED BY <1>2, <1>3, <2>2 DEF Reckons, Unmoved
<1> HIDE DEF more
<1>12. Assembled(w)' /\ Reckons(w)'
  BY <1>1, <1>5, <1>6, <1>7, <1>10, <1>11 DEF Assembled, Reckons, Sure, Unmoved, Saving, Present
<1> QED BY <1>1, <1>2, <1>5, <1>8, <1>12, JobFilesStep

LEMMA SaveIndexFiles ==
    ASSUME FilesInv, NEW w \in Worktree, SaveIndex(w)
    PROVE  FilesInv'
<1> DEFINE G   == job[w].graph
           new == {<<f, job[w].manifest[f]>> : f \in NewUnits(w)}
<1>1. /\ At(w, "index", "manifest") /\ Overtakes(w) /\ UNCHANGED <<head, tree, state, job, db>>
      /\ index'.units = [u \in DOMAIN job[w].held \cup new |->
                           IF u \in new THEN UnitOf(G, u[1]) ELSE job[w].held[u]]
      /\ index'.scaffolding = [l \in Language |->
           IF ScaffoldingOf(G, l, langOf) = NoScaffolding THEN index.scaffolding[l]
           ELSE ScaffoldingOf(G, l, langOf)]
  BY DEF SaveIndex, repo
<1>2. /\ UnitsInv' /\ JobOK(w) /\ DOMAIN job = Worktree /\ pc \in [Worktree -> Steps]
      /\ JobFiles(w) /\ Assembled(w) /\ StoreFiles
  BY SaveIndexUnits DEF FilesInv, UnitsInv, IInv, JobsOK
<1>3. Apart(w) /\ pc[w] = "index" /\ pc'[w] = "manifest"
  BY <1>1, <1>2 DEF Apart, At
<1>4. job[w].manifest = tree[w] /\ ShowsFiles(G, tree[w]) /\ Settled(G) /\ UnitsRight(job[w].held)
  BY <1>2, <1>3 DEF JobOK, JobFiles, Assembled, Saving
<1> HIDE DEF G
<1>5. ASSUME NEW f \in File, NEW c, <<f, c>> \in DOMAIN index'.units
      PROVE  UnitRight(index'.units[<<f, c>>], f, c)
  <2>1. CASE <<f, c>> \in new
    <3>1. c = tree[w][f] /\ <<f>> \in DOMAIN G.nodes
      BY <1>4, <2>1 DEF NewUnits, G
    <3>2. index'.units[<<f, c>>] = UnitOf(G, f)
      BY <1>1, <2>1
    <3> QED BY <1>4, <3>1, <3>2, UnitOfIsRight
  <2>2. CASE <<f, c>> \notin new
    BY <1>1, <1>4, <1>5, <2>2 DEF UnitsRight
  <2> QED BY <2>1, <2>2
<1>6. \A l \in Language : ScaffoldingRight(index'.scaffolding[l])
  BY <1>1, <1>2, <1>4, ScaffoldingOfIsRight DEF StoreFiles
<1>7. StoreFiles'
  BY <1>1, <1>2, <1>5, <1>6 DEF StoreFiles, UnitsRight
<1> QED BY <1>1, <1>2, <1>3, <1>7, SavingFiles DEF Saving

LEMMA SaveManifestFiles ==
    ASSUME FilesInv, NEW w \in Worktree, SaveManifest(w) \/ SaveScanRecord(w)
    PROVE  FilesInv'
<1>1. /\ At(w, "manifest", "scan") \/ At(w, "scan", "state")
      /\ Overtakes(w) /\ UNCHANGED <<head, tree, job, db, index, state>>
  BY DEF SaveManifest, SaveScanRecord, repo
<1>2. /\ UnitsInv' /\ DOMAIN job = Worktree /\ pc \in [Worktree -> Steps] /\ StoreFiles
  BY SaveManifestUnits DEF FilesInv, UnitsInv, IInv, JobsOK
<1>3. Apart(w) /\ pc[w] \in Saving /\ pc'[w] \in Saving
  BY <1>1, <1>2 DEF Apart, At, Saving
<1>4. StoreFiles'
  BY <1>1, <1>2 DEF StoreFiles
<1> QED BY <1>1, <1>2, <1>3, <1>4, SavingFiles

LEMMA SaveStateFiles ==
    ASSUME FilesInv, NEW w \in Worktree, SaveState(w)
    PROVE  FilesInv'
<1>1. /\ At(w, "state", "build") /\ Overtakes(w) /\ UNCHANGED <<head, tree, job, db, index>>
      /\ state'.signatures = [f \in File |-> SignaturesOf(job[w].graph, f)]
  BY DEF SaveState, StateOf, repo
<1>2. /\ UnitsInv' /\ DOMAIN job = Worktree /\ pc \in [Worktree -> Steps]
      /\ JobFiles(w) /\ StoreFiles
  BY SaveStateUnits DEF FilesInv, UnitsInv, IInv, JobsOK
<1>3. Apart(w) /\ pc[w] \in Saving /\ pc'[w] \in Saving
  BY <1>1, <1>2 DEF Apart, At, Saving
<1>4. \A f \in File : \A s \in state'.signatures[f] : s[2] \notin FileFqns
  BY <1>1, <1>2, SignaturesNameNoFile DEF JobFiles
<1>5. StoreFiles'
  BY <1>1, <1>2, <1>4 DEF StoreFiles
<1> QED BY <1>1, <1>2, <1>3, <1>5, SavingFiles

\* The database a scan leaves shows the files of the tree it was for: a load
\* because the graph has them, a splice because what it leaves alone is as the
\* recorded scan -- the seed's -- found it.
LEMMA BuiltShows ==
    ASSUME FilesInv, NEW w \in Worktree, Build(w)
    PROVE  DbFiles(w)'
<1> DEFINE seed == db[w]
           G    == job[w].graph
           hurt == job[w].hurt
<1>1. /\ pc[w] = "build" /\ DOMAIN db = Worktree /\ JobOK(w)
      /\ JobFiles(w) /\ Assembled(w) /\ DbFiles(w)
  BY DEF Build, At, FilesInv, UnitsInv, IInv, DbsOK, JobsOK
<1>2. /\ job[w].key.tree = tree[w] /\ job[w].manifest = tree[w] /\ ShowsFiles(G, tree[w])
      /\ job[w].removed \cap FileFqns = {}
      /\ \A f \in Present(tree[w]) : langOf[f] \notin hurt => <<f>> \in DOMAIN G.nodes
  BY <1>1 DEF JobOK, JobFiles, Assembled, Sure, Saving, Idle, Key
<1>3. CASE Seedable(w)
  <2>1. /\ db'[w].key = job[w].key /\ db'[w].hurt = hurt \cup seed.hurt
        /\ db'[w].graph = Applied(seed.graph, G, job[w].targets, job[w].removed)
    BY <1>1, <1>3 DEF Build
  <2>2. /\ DbShows(seed.graph, seed.key.tree, seed.hurt)
        /\ job[w].recorded # None /\ ~job[w].full /\ seed.key = job[w].recorded
    BY <1>1, <1>3 DEF Seedable, DbFiles
  <2>3. \A f \in File : langOf[f] \notin hurt =>
           /\ tree[w][f] # Missing => <<f>> \in DOMAIN G.nodes
           /\ f \notin job[w].targets => seed.key.tree[f] = tree[w][f]
    BY <1>1, <1>2, <2>2 DEF Assembled, Unmoved, Saving, Present
  <2> DEFINE T       == tree[w]
             targets == job[w].targets
             removed == job[w].removed
  <2>4. DbShows(Applied(seed.graph, G, targets, removed), T, hurt \cup seed.hurt)
    <3> DEFINE D == seed.graph
               T0 == seed.key.tree
               spoilt == seed.hurt
    <3>1. /\ ShowsFiles(G, T) /\ DbShows(D, T0, spoilt) /\ removed \cap FileFqns = {}
          /\ \A f \in File : langOf[f] \notin hurt =>
                /\ T[f] # Missing => <<f>> \in DOMAIN G.nodes
                /\ f \notin targets => T0[f] = T[f]
      BY <1>2, <2>2, <2>3
    <3> HIDE DEF D, T0, spoilt, T, targets, removed, hurt, G
    <3>2. DbShows(Applied(D, G, targets, removed), T, hurt \cup spoilt)
      BY <3>1, AppliedShows
    <3> QED BY <3>2 DEF D, spoilt
  <2> QED BY <1>2, <2>1, <2>4 DEF DbFiles
<1>4. CASE ~Seedable(w)
  <2>1. /\ db'[w].key = job[w].key /\ db'[w].hurt = hurt /\ db'[w].graph = Loaded(G)
    BY <1>1, <1>4 DEF Build
  <2> HIDE DEF G, hurt
  <2>2. DbShows(db'[w].graph, tree[w], hurt)
    BY <1>2, <2>1, LoadedShows
  <2> QED BY <1>2, <2>1, <2>2 DEF DbFiles
<1> QED BY <1>3, <1>4

LEMMA EndFiles ==
    ASSUME FilesInv, NEW w \in Worktree, Build(w) \/ KillScan(w)
    PROVE  FilesInv'
<1>1. /\ pc' = [pc EXCEPT ![w] = "idle"] /\ job' = [job EXCEPT ![w] = NoJob]
      /\ torn' = [torn EXCEPT ![w] = FALSE]
      /\ storeHurt' = storeHurt \/ storeHurt' = Language
      /\ UNCHANGED <<head, tree, index, scan, state>>
  BY DEF Build, KillScan, At, Ends, repo, store
<1>2. /\ UnitsInv' /\ DOMAIN job = Worktree /\ pc \in [Worktree -> Steps]
      /\ torn \in [Worktree -> BOOLEAN] /\ DOMAIN db = Worktree
  BY EndUnits DEF FilesInv, UnitsInv, IInv, JobsOK, TornOK, DbsOK
<1>3. Apart(w) /\ pc'[w] = "idle" /\ job'[w] = NoJob
  BY <1>1, <1>2 DEF Apart
<1>4. JobFiles(w)' /\ Assembled(w)' /\ Reckons(w)'
  BY <1>3, NothingLeft DEF Idle
<1>5. \A v \in Worktree \ {w} : torn'[v] = torn[v] /\ db'[v] = db[v]
  BY <1>1, <1>2 DEF Build, KillScan
<1>6. DbFiles(w)'
  <2>1. CASE Build(w)
    BY <2>1, BuiltShows
  <2>2. CASE KillScan(w)
    BY <1>2, <2>2 DEF KillScan, FilesInv, DbFiles
  <2> QED BY <2>1, <2>2
<1> QED BY <1>1, <1>2, <1>3, <1>4, <1>5, <1>6, QuietFiles

LEMMA RecordFailsFiles ==
    ASSUME FilesInv, NEW w \in Worktree, RecordFails(w)
    PROVE  FilesInv'
<1>1. /\ pc[w] = "index" \/ MidSave(w)
      /\ pc' = [pc EXCEPT ![w] = "build"]
      /\ storeHurt' = storeHurt \/ storeHurt' = Language
      /\ UNCHANGED <<head, tree, index, scan, state, job, torn, db>>
  BY DEF RecordFails, repo, store
<1>2. /\ UnitsInv' /\ DOMAIN job = Worktree /\ pc \in [Worktree -> Steps]
      /\ JobFiles(w) /\ Assembled(w) /\ DbFiles(w)
  BY RecordFailsUnits DEF FilesInv, UnitsInv, IInv, JobsOK
<1>3. Apart(w) /\ pc'[w] = "build" /\ pc[w] \in Saving
  BY <1>1, <1>2 DEF Apart, Saving, MidSave
<1>4. JobFiles(w)' /\ Assembled(w)' /\ Reckons(w)' /\ DbFiles(w)'
  BY <1>1, <1>2, <1>3
     DEF JobFiles, Assembled, Reckons, DbFiles, Sure, Unmoved, Saving, Before
<1> QED BY <1>1, <1>2, <1>3, <1>4, QuietFiles

LEMMA InitFiles == Init => FilesInv
<1> SUFFICES ASSUME Init PROVE FilesInv
  OBVIOUS
<1>1. UnitsInv
  BY InitUnits
<1>2. StoreFiles
  <2>1. DOMAIN << >> = {}
    OBVIOUS
  <2>2. /\ index.units = << >> /\ index.scaffolding = [l \in Language |-> NoScaffolding]
        /\ state.signatures = [f \in File |-> {}]
    BY DEF Init
  <2> QED BY <2>1, <2>2, NoScaffoldingIsRight DEF StoreFiles, UnitsRight
<1>3. \A w \in Worktree : job[w] = NoJob /\ Idle(w) /\ db[w] = None
  BY DEF Init, Idle
<1>4. \A w \in Worktree : JobFiles(w) /\ Assembled(w) /\ Reckons(w)
  BY <1>3, NothingHeld
<1>5. \A w \in Worktree : DbFiles(w)
  BY <1>3 DEF DbFiles
<1> QED BY <1>1, <1>2, <1>4, <1>5 DEF FilesInv

LEMMA NextFiles == FilesInv /\ [Next]_vars => FilesInv'
<1> SUFFICES ASSUME FilesInv, [Next]_vars PROVE FilesInv'
  OBVIOUS
<1>1. UnitsInv'
  BY NextUnits DEF FilesInv
<1>2. CASE UNCHANGED vars
  BY <1>1, <1>2, SameFiles DEF vars, repo, store, history
<1>3. CASE \E w \in Worktree : \/ \E f \in File : \E c \in contentsOf[f] : EditFile(w, f, c)
                               \/ CommitTree(w)
                               \/ \E c \in 1..Len(commits) : Checkout(w, c)
  <2>1. Moves /\ UNCHANGED <<torn, storeHurt>>
    BY <1>3 DEF EditFile, CommitTree, Checkout, Moves, history
  <2> QED BY <1>1, <2>1, MovesFiles DEF Moves, store
<1>4. CASE \E w \in Worktree : Start(w) \/ StartForced(w)
  BY <1>4, StartFiles
<1>5. CASE \E w \in Worktree : ScanStep(w)
  BY <1>5, ProbeFiles, ReadRecordedKeyFiles, PlanFiles, DiffFiles, EmitFactsFiles, AssembleFiles,
     SaveIndexFiles, SaveManifestFiles, SaveStateFiles, EndFiles
     DEF ScanStep
<1>6. CASE \E w \in Worktree : KillScan(w) \/ RecordFails(w)
  BY <1>6, EndFiles, RecordFailsFiles
<1> QED BY <1>2, <1>3, <1>4, <1>5, <1>6 DEF Next

\* A fresh database shows exactly the files the working tree has, each under its
\* content, in every language no fault has touched: whichever worktrees scanned
\* in between, reused, spliced, were killed or failed to record.
THEOREM FreshHasTheFiles == Spec => []FreshFiles
<1>1. ASSUME FilesInv PROVE FreshFiles
  <2> SUFFICES ASSUME NEW w \in Worktree, Fresh(w), NEW f \in File, langOf[f] \notin db[w].hurt
               PROVE  LET row == <<"File", <<f>> >>
                      IN  /\ row \in DOMAIN db[w].graph.rows <=> f \in Present(tree[w])
                          /\ f \in Present(tree[w]) =>
                                db[w].graph.rows[row] = NodeOf("File", f, None, tree[w][f])
    BY DEF FreshFiles
  <2>1. DbShows(db[w].graph, db[w].key.tree, db[w].hurt) /\ db[w].key.tree = tree[w]
    BY <1>1 DEF FilesInv, DbFiles, Fresh, Key
  <2>2. f \in Present(tree[w]) <=> tree[w][f] # Missing
    BY DEF Present
  <2> QED BY <2>1, <2>2 DEF DbShows, FileRow
<1> QED BY <1>1, InitFiles, NextFiles, PTL DEF Spec

-----------------------------------------------------------------------------
(* What a relation leads to                                                  *)

\* A set of numbers that is not empty has a least.
LEMMA LeastOf ==
    ASSUME NEW N, N \subseteq Nat, N # {}
    PROVE  LET m == CHOOSE i \in N : \A j \in N : i <= j
           IN  m \in N /\ \A j \in N : m <= j
<1> DEFINE R == OpToRel(<, Nat)
<1>1. IsWellFoundedOn(R, Nat)
  BY NatLessThanWellFounded
<1> HIDE DEF R
<1>2. PICK i \in N : \A j \in N : <<j, i>> \notin R
  BY <1>1, WFMin
<1>3. \A j \in N : i <= j
  <2> SUFFICES ASSUME NEW j \in N, ~(i <= j) PROVE FALSE
    OBVIOUS
  <2>1. j < i /\ j \in Nat /\ i \in Nat
    OBVIOUS
  <2>2. <<j, i>> \in R
    BY <2>1 DEF R, OpToRel
  <2> QED BY <1>2, <2>2
<1> QED BY <1>3

OneStep(R, W) == W \cup {p[2] : p \in {q \in R : q[1] \in W}}
Layered(R, S, g) == g = [n \in Nat |-> IF n = 0 THEN S ELSE OneStep(R, g[n - 1])]

LEMMA ReachIsLayered ==
    ASSUME NEW R, NEW S
    PROVE  Reach(R, S) = (CHOOSE g : Layered(R, S, g))[Cardinality(R)]
BY Zenon DEF Reach, Layered, OneStep

\* The layers up to a depth.
Layers(R, S, n, h) ==
    /\ h[0] = S
    /\ \A i \in 1..n : h[i] = OneStep(R, h[i - 1])

LEMMA LayersExist == ASSUME NEW R, NEW S, NEW n \in Nat PROVE \E h : Layers(R, S, n, h)
<1> DEFINE bad == {m \in Nat : ~\E h : Layers(R, S, m, h)}
           m == CHOOSE i \in bad : \A j \in bad : i <= j
<1> SUFFICES ASSUME bad # {} PROVE FALSE
  OBVIOUS
<1>1. m \in bad /\ \A j \in bad : m <= j
  <2>1. bad \subseteq Nat
    OBVIOUS
  <2> HIDE DEF bad
  <2> QED BY <2>1, LeastOf
<1>2. m # 0
  <2> DEFINE h == [i \in {0} |-> S]
  <2>1. Layers(R, S, 0, h)
    BY DEF Layers
  <2> QED BY <1>1, <2>1
<1> HIDE DEF m
<1>3. m \in Nat /\ m - 1 \in Nat /\ m - 1 \notin bad
  BY <1>1, <1>2
<1>4. PICK h : Layers(R, S, m - 1, h)
  BY <1>3
<1> DEFINE k == [i \in 0..m |-> IF i = m THEN OneStep(R, h[m - 1]) ELSE h[i]]
<1>5. /\ k[0] = S
      /\ \A i \in 1..m : k[i] = OneStep(R, k[i - 1])
  <2>1. k[0] = S
    BY <1>2, <1>3, <1>4 DEF Layers
  <2>2. ASSUME NEW i \in 1..m PROVE k[i] = OneStep(R, k[i - 1])
    <3>1. k[i - 1] = h[i - 1]
      BY <1>3
    <3>2. CASE i = m
      BY <1>3, <3>1, <3>2
    <3>3. CASE i # m
      <4>1. i \in 1..(m - 1)
        BY <1>3, <3>3
      <4>2. h[i] = OneStep(R, h[i - 1]) /\ k[i] = h[i]
        BY <1>3, <1>4, <3>3, <4>1 DEF Layers
      <4> QED BY <3>1, <4>2
    <3> QED BY <3>2, <3>3
  <2> QED BY <2>1, <2>2
<1> HIDE DEF k
<1>6. Layers(R, S, m, k)
  BY <1>5 DEF Layers
<1> QED BY <1>1, <1>6

LEMMA LayersAgree ==
    ASSUME NEW R, NEW S, NEW n \in Nat, NEW h, NEW k, Layers(R, S, n, h), Layers(R, S, n, k)
    PROVE  \A i \in 0..n : h[i] = k[i]
<1> DEFINE bad == {i \in 0..n : h[i] # k[i]}
           m == CHOOSE i \in bad : \A j \in bad : i <= j
<1> SUFFICES ASSUME bad # {} PROVE FALSE
  OBVIOUS
<1>1. m \in bad /\ \A j \in bad : m <= j
  <2>1. bad \subseteq Nat
    OBVIOUS
  <2> HIDE DEF bad
  <2> QED BY <2>1, LeastOf
<1> HIDE DEF m
<1>2. m \in 1..n /\ m - 1 \in 0..n /\ ~(m <= m - 1)
  BY <1>1 DEF Layers
<1>3. h[m - 1] = k[m - 1]
  BY <1>1, <1>2
<1>4. h[m] = k[m]
  BY <1>2, <1>3 DEF Layers
<1> QED BY <1>1, <1>4

LEMMA LayeredExists == ASSUME NEW R, NEW S PROVE \E g : Layered(R, S, g)
<1> DEFINE Some(n) == CHOOSE h : Layers(R, S, n, h)
           g == [n \in Nat |-> Some(n)[n]]
<1>1. \A n \in Nat : Layers(R, S, n, Some(n))
  BY LayersExist
<1> HIDE DEF Some
<1>2. g[0] = S
  BY <1>1 DEF Layers
<1>3. ASSUME NEW n \in Nat, n # 0 PROVE g[n] = OneStep(R, g[n - 1])
  <2>1. n - 1 \in Nat /\ n \in 1..n /\ n - 1 \in 0..(n - 1)
    BY <1>3
  <2>2. Layers(R, S, n - 1, Some(n))
    BY <1>1, <2>1 DEF Layers
  <2>3. Some(n)[n - 1] = Some(n - 1)[n - 1]
    BY <1>1, <2>1, <2>2, LayersAgree
  <2>4. Some(n)[n] = OneStep(R, Some(n)[n - 1])
    BY <1>1, <2>1 DEF Layers
  <2> QED BY <2>1, <2>3, <2>4
<1>4. g = [n \in Nat |-> IF n = 0 THEN S ELSE OneStep(R, g[n - 1])]
  <2> DEFINE r == [n \in Nat |-> IF n = 0 THEN S ELSE OneStep(R, g[n - 1])]
  <2>1. DOMAIN g = Nat /\ DOMAIN r = Nat
    OBVIOUS
  <2>2. \A n \in Nat : r[n] = g[n]
    <3> HIDE DEF g
    <3> QED BY <1>2, <1>3
  <2>3. g = [n \in Nat |-> g[n]] /\ r = [n \in Nat |-> r[n]]
    OBVIOUS
  <2> HIDE DEF g, r
  <2>4. g = r
    BY <2>2, <2>3
  <2> QED BY <2>4 DEF r
<1> HIDE DEF g
<1> QED BY <1>4 DEF Layered

LEMMA ReachLayers ==
    ASSUME NEW R, NEW S
    PROVE  \E g : /\ Reach(R, S) = g[Cardinality(R)] /\ g[0] = S
                  /\ \A n \in Nat : n # 0 => g[n] = OneStep(R, g[n - 1])
<1> DEFINE g == CHOOSE g : Layered(R, S, g)
<1>1. Layered(R, S, g)
  BY LayeredExists
<1>2. Reach(R, S) = g[Cardinality(R)]
  BY ReachIsLayered
<1> HIDE DEF g
<1>3. g[0] = S /\ \A n \in Nat : n # 0 => g[n] = OneStep(R, g[n - 1])
  BY <1>1 DEF Layered
<1> QED BY <1>2, <1>3

\* It leads nowhere a closed set does not.
LEMMA ReachWithin ==
    ASSUME NEW R, IsFiniteSet(R), NEW S, NEW W, S \subseteq W, \A p \in R : p[1] \in W => p[2] \in W
    PROVE  Reach(R, S) \subseteq W
<1>1. PICK g : /\ Reach(R, S) = g[Cardinality(R)] /\ g[0] = S
               /\ \A n \in Nat : n # 0 => g[n] = OneStep(R, g[n - 1])
  BY ReachLayers
<1>2. Cardinality(R) \in Nat
  BY FS_CardinalityType
<1> DEFINE bad == {n \in Nat : ~(g[n] \subseteq W)}
           m == CHOOSE i \in bad : \A j \in bad : i <= j
<1>3. bad = {}
  <2> SUFFICES ASSUME bad # {} PROVE FALSE
    OBVIOUS
  <2>1. m \in bad /\ \A j \in bad : m <= j
    <3>1. bad \subseteq Nat
      OBVIOUS
    <3> HIDE DEF bad
    <3> QED BY <3>1, LeastOf
  <2> HIDE DEF m
  <2>2. m # 0 /\ m \in Nat /\ m - 1 \in Nat /\ ~(m <= m - 1)
    BY <1>1, <2>1
  <2>3. g[m - 1] \subseteq W /\ g[m] = OneStep(R, g[m - 1])
    BY <1>1, <2>1, <2>2
  <2>4. g[m] \subseteq W
    BY <2>3 DEF OneStep
  <2> QED BY <2>1, <2>4
<1> QED BY <1>1, <1>2, <1>3

-----------------------------------------------------------------------------
(* The names of a file                                                       *)

\* The contents a file can have, and the tree that has nothing else.
Contents(f) == (contentsOf[f] \cup {FirstTree[f]}) \ {Missing}
Alone(f, c) == [g \in File |-> IF g = f THEN c ELSE Missing]

StructsOf(f, c)   == Records(Alone(f, c), {f}, "Struct")
FunctionsOf(f, c) == Records(Alone(f, c), {f}, "Function")

\* What an ingest of the file alone declares: <<FQN, node>>.
StructPairs(f, c) == {<<StructFqn(s), NodeOf("Struct", f, None, c)>> : s \in StructsOf(f, c)}
FunctionPairs(f, c) ==
    {<<FunctionFqn(FunctionsOf(f, c), d), NodeOf("Function", f, d.params, c)>> :
        d \in {x \in FunctionsOf(f, c) :
                 \A s \in StructsOf(f, c) : StructFqn(s) # FunctionFqn(FunctionsOf(f, c), x)}}
Names(f, c) == StructPairs(f, c) \cup FunctionPairs(f, c)
NamesOf(f)  == {p[1] : p \in UNION {Names(f, c) : c \in Contents(f)}}

\* Each file has names of its own: no overload group crosses files (Go's init
\* functions carry their path), no FQN is declared by two files, by two
\* declarations of one file or as two kinds by two contents of one, and none is
\* a module's; a placeholder is realized as what it was planned.
OwnNames ==
    /\ \A f, g \in File : \A c \in Contents(f), e \in Contents(g) :
          /\ f # g => \A r \in FunctionsOf(f, c), s \in FunctionsOf(g, e) :
                r.parent = s.parent /\ r.name = s.name => r.name = "init" /\ r.lang = "go"
          /\ \A p \in Names(f, c), q \in Names(g, e) :
                p[1] = q[1] => f = g /\ p[2].kind = q[2].kind /\ (c = e => p = q)
    /\ \A f \in File : \A c \in Contents(f) : \A p \in Names(f, c) :
          /\ \A g \in File : p[1] \notin Prefixes(moduleOf[g])
          /\ \A q \in Placeholders : p[1] = q.fqn => p[2].kind = q.kind

IsDeclaration(n) == n.kind \in {"Struct", "Function"} /\ ~n.planned

LEMMA ContentsOfTrees ==
    ASSUME NEW T \in Trees, NEW f \in Present(T)
    PROVE  f \in File /\ T[f] \in Contents(f)
BY DEF Trees, Present, Contents

LEMMA FirstOfConcat ==
    ASSUME NEW S, NEW s \in Seq(S), s # << >>, NEW t \in Seq(S)
    PROVE  s \o t \in Seq(S) /\ s \o t # << >> /\ (s \o t)[1] = s[1]
<1>1. s \o t \in Seq(S) /\ Len(s \o t) = Len(s) + Len(t) /\ Len(s) \in Nat \ {0} /\ Len(t) \in Nat
  BY ConcatProperties, EmptySeq, LenProperties
<1>2. 1 \in 1..Len(s)
  BY <1>1
<1>3. (s \o t)[1] = s[1]
  BY <1>1, <1>2, ConcatProperties
<1> QED BY <1>1, <1>3

LEMMA FirstOfAppend ==
    ASSUME NEW S, NEW s \in Seq(S), s # << >>, NEW e
    PROVE  \E R : Append(s, e) \in Seq(R) /\ Append(s, e) # << >> /\ Append(s, e)[1] = s[1]
<1> DEFINE R == S \cup {e}
<1>1. s \in Seq(R) /\ e \in R
  BY SeqMonotonic
<1>2. Len(s) > 0 /\ Len(s) \in Nat
  BY EmptySeq, LenProperties
<1>3. /\ Append(s, e) \in Seq(R) /\ Len(Append(s, e)) = Len(s) + 1
      /\ \A i \in 1..Len(s) : Append(s, e)[i] = s[i]
  BY <1>1, AppendProperties
<1>4. 1 \in 1..Len(s)
  BY <1>2
<1>5. Append(s, e)[1] = s[1] /\ Append(s, e) # << >>
  BY <1>2, <1>3, <1>4
<1> HIDE DEF R
<1> QED BY <1>3, <1>5

\* A record of a file lies in a scope of the file's language.
LEMMA RecordsOf ==
    ASSUME NEW f \in File, NEW c \in Contents(f), NEW kind, NEW r \in Records(Alone(f, c), {f}, kind)
    PROVE  /\ r.parent \in Seq(STRING) /\ r.parent # << >> /\ r.parent[1] = langOf[f]
           /\ r.path = f /\ r.body = c /\ r.lang = langOf[f]
<1>1. PICK d \in DeclsOf(Alone(f, c), f) : r = Record(Alone(f, c), f, d)
  BY DEF Records
<1>2. Alone(f, c)[f] = c /\ c # Missing
  BY DEF Alone, Contents
<1>3. d \in declares[f][c]
  BY <1>1, <1>2 DEF DeclsOf
<1>4. d.within \in Seq(STRING) /\ moduleOf[f] \in Seq(STRING) /\ moduleOf[f] # << >>
  BY <1>3, NamesAssumption DEF Contents
<1>5. moduleOf[f][1] = langOf[f]
  BY StoreAssumption
<1>6. /\ r.parent = moduleOf[f] \o d.within /\ r.path = f /\ r.body = c /\ r.lang = langOf[f]
  BY <1>1, <1>2 DEF Record
<1> DEFINE m == moduleOf[f]
           v == d.within
<1> HIDE DEF m, v
<1>7. m \o v \in Seq(STRING) /\ m \o v # << >> /\ (m \o v)[1] = m[1]
  BY <1>4, FirstOfConcat DEF m, v
<1> QED BY <1>5, <1>6, <1>7 DEF m, v

\* A declaration's FQN begins as its scope does.
LEMMA FirstOfFunction ==
    ASSUME NEW decls, NEW d, NEW S, d.parent \in Seq(S), d.parent # << >>
    PROVE  FunctionFqn(decls, d)[1] = d.parent[1]
<1> DEFINE plain == Append(d.parent, d.name)
<1>1. PICK R : plain \in Seq(R) /\ plain # << >> /\ plain[1] = d.parent[1]
  BY FirstOfAppend
<1> HIDE DEF plain
<1>2. /\ Append(plain, d.path)[1] = plain[1]
      /\ Append(plain, d.params)[1] = plain[1]
  BY <1>1, FirstOfAppend
<1>3. (plain \o <<d.params, d.path>>)[1] = plain[1]
  <2> DEFINE Q == R \cup {d.params, d.path}
  <2>1. plain \in Seq(Q)
    BY <1>1, SeqMonotonic
  <2>2. <<d.params, d.path>> \in Seq(Q)
    OBVIOUS
  <2> HIDE DEF Q
  <2> QED BY <1>1, <2>1, <2>2, FirstOfConcat
<1>4. FunctionFqn(decls, d) \in {plain, Append(plain, d.path), Append(plain, d.params),
                                 plain \o <<d.params, d.path>>}
  BY DEF FunctionFqn, plain
<1> QED BY <1>1, <1>2, <1>3, <1>4

LEMMA NamesAreDeclarations ==
    ASSUME NEW f \in File, NEW c \in Contents(f), NEW p \in Names(f, c)
    PROVE  /\ IsDeclaration(p[2]) /\ p[2].path = f /\ p[2].body = c /\ Located(p[2])
           /\ p[2].kind = "Struct" => p[2].params = None
           /\ Deep(p[1]) /\ p[1][1] = langOf[f] /\ p[1] \in NamesOf(f)
           /\ p = <<p[1], p[2]>>
<1>1. f # None
  BY NamesAssumption
<1>2. \A kind \in {"Struct", "Function"} : \A params :
         LET n == NodeOf(kind, f, params, c)
         IN  /\ IsDeclaration(n) /\ n.path = f /\ n.body = c /\ Located(n)
             /\ n.kind = kind /\ n.params = params
  BY <1>1 DEF NodeOf, IsDeclaration, Located
<1>3. CASE p \in StructPairs(f, c)
  <2>1. PICK s \in StructsOf(f, c) : p = <<StructFqn(s), NodeOf("Struct", f, None, c)>>
    BY <1>3 DEF StructPairs
  <2>2. s.parent \in Seq(STRING) /\ s.parent # << >> /\ s.parent[1] = langOf[f]
    BY RecordsOf DEF StructsOf
  <2>3. Deep(StructFqn(s)) /\ StructFqn(s)[1] = langOf[f]
    BY <2>2, AppendedIsDeep, FirstOfAppend DEF StructFqn
  <2> QED BY <1>2, <2>1, <2>3 DEF NamesOf
<1>4. CASE p \in FunctionPairs(f, c)
  <2>1. PICK d \in FunctionsOf(f, c) :
           p = <<FunctionFqn(FunctionsOf(f, c), d), NodeOf("Function", f, d.params, c)>>
    BY <1>4 DEF FunctionPairs
  <2>2. d.parent \in Seq(STRING) /\ d.parent # << >> /\ d.parent[1] = langOf[f]
    BY RecordsOf DEF FunctionsOf
  <2>3. Deep(p[1]) /\ p[1][1] = langOf[f]
    BY <2>1, <2>2, FunctionIsDeep, FirstOfFunction
  <2> QED BY <1>2, <2>1, <2>3 DEF NamesOf
<1> QED BY <1>3, <1>4 DEF Names

\* Whose name it is, and as what.
LEMMA OneOwner ==
    ASSUME OwnNames, NEW f \in File, NEW g \in File, NEW c \in Contents(f), NEW e \in Contents(g),
           NEW p \in Names(f, c), NEW q \in Names(g, e), p[1] = q[1]
    PROVE  f = g /\ p[2].kind = q[2].kind /\ (c = e => p = q)
BY DEF OwnNames

-----------------------------------------------------------------------------
(* What is ingested tells the declarations of the tree                       *)

\* At a name stands what it is declared as; a declaration is one of its file.
RightKind(x, kind) == \A f \in File : \A c \in Contents(f) : \A p \in Names(f, c) : p[1] = x => kind = p[2].kind
RightNode(x, n) ==
    /\ RightKind(x, n.kind)
    /\ n.planned => n.path = None /\ n.kind # "Unresolved"
    /\ x[1] = "?" => ~n.planned
    /\ n.kind = "Unresolved" => x[1] = "?"
    /\ n.kind = "File" /\ x[1] \in File => x = <<x[1]>>

HasNames(nodes, f, c) == \A p \in Names(f, c) : p[1] \in DOMAIN nodes /\ nodes[p[1]] = p[2]

\* A graph that tells of a tree: right nodes, no declaration the tree lacks, and
\* every declaration of the files it has.
Tells(G, T) ==
    /\ \A x \in DOMAIN G.nodes :
          /\ RightNode(x, G.nodes[x])
          /\ IsDeclaration(G.nodes[x]) => \E f \in Present(T) : <<x, G.nodes[x]>> \in Names(f, T[f])
    /\ \A f \in Present(T) : <<f>> \in DOMAIN G.nodes => HasNames(G.nodes, f, T[f])

\* What the joined spools of a tree are, whichever frontends ran over which files.
FactsOf(S, T, files) ==
    /\ files \subseteq Present(T)
    /\ S.structs = Records(T, files, "Struct") /\ S.functions = Records(T, files, "Function")
    /\ S.files = {[path |-> f, parent |-> moduleOf[f], body |-> T[f]] : f \in files}
    /\ \A m \in S.modules : m[1] \in Language /\ \E g \in Present(T) : m[2] \in Prefixes(moduleOf[g])
    /\ \A x \in S.unresolved : x[1] = "?"

TreeStream(S, T, files) == FactsOf(S, T, files) /\ S.planned = Placeholders

LEMMA ForeignIsForeign ==
    ASSUME NEW T, NEW files, NEW e \in EdgesOf(T, files),
           e[1] \in {"UnresolvedCall", "UnresolvedUse"}
    PROVE  e[3][1] = "?"
<1>1. ASSUME NEW from, NEW ref, NEW to, NEW table \in {"Calls", "Uses"}, NEW unresolved,
             e \in RefersTo(from, ref, to, table, unresolved)
      PROVE  e[3] = Foreign(ref)
  BY <1>1 DEF RefersTo
<1>2. PICK f \in files : \/ e \in MemberEdges(T, f)
                         \/ \E d \in DeclsOf(T, f) : e \in RefEdges(T, files, f, d)
  BY DEF EdgesOf
<1>3. e \notin MemberEdges(T, f)
  BY DEF MemberEdges
<1>4. PICK d \in DeclsOf(T, f) : e \in RefEdges(T, files, f, d)
  BY <1>2, <1>3
<1>5. \/ \E ref \in d.calls :
            e \in RefersTo(Id(f, d), ref, Referents(T, files, ref, "Function"), "Calls", "UnresolvedCall")
      \/ \E ref \in d.uses :
            e \in RefersTo(Id(f, d), ref, Referents(T, files, ref, "Struct"), "Uses", "UnresolvedUse")
  BY <1>4 DEF RefEdges
<1>6. \E ref : e[3] = Foreign(ref)
  BY <1>1, <1>5
<1> QED BY <1>6 DEF Foreign

LEMMA StreamIsOfTree ==
    ASSUME NEW T, NEW l \in Language, NEW emitted
    PROVE  FactsOf(Stream(T, l, emitted), T, {f \in Present(T) : langOf[f] = l} \cap emitted)
<1> DEFINE walked  == {f \in Present(T) : langOf[f] = l}
           files   == walked \cap emitted
           modules == UNION {Prefixes(moduleOf[f]) : f \in walked}
           edges   == EdgesOf(T, files)
           S       == Stream(T, l, emitted)
<1>1. S = Spool(T, l, modules, files, edges)
  BY DEF Stream
<1>2. \A x \in modules : \E g \in Present(T) : x \in Prefixes(moduleOf[g])
  OBVIOUS
<1>3. \A e \in edges : e[1] \in {"UnresolvedCall", "UnresolvedUse"} => e[3][1] = "?"
  BY ForeignIsForeign
<1> HIDE DEF files, modules, edges, S
<1>4. /\ S.structs = Records(T, files, "Struct") /\ S.functions = Records(T, files, "Function")
      /\ S.modules = {<<l, m>> : m \in modules}
      /\ S.files = {[path |-> f, parent |-> moduleOf[f], body |-> T[f]] : f \in files}
      /\ S.unresolved = {e[3] : e \in {x \in edges : x[1] \in {"UnresolvedCall", "UnresolvedUse"}}}
  BY <1>1 DEF Spool
<1>5. \A m \in S.modules : m[1] \in Language /\ \E g \in Present(T) : m[2] \in Prefixes(moduleOf[g])
  BY <1>2, <1>4
<1>6. \A x \in S.unresolved : x[1] = "?"
  BY <1>3, <1>4
<1>7. files \subseteq Present(T)
  BY DEF files
<1>8. FactsOf(S, T, files)
  BY <1>4, <1>5, <1>6, <1>7 DEF FactsOf
<1> QED BY <1>8 DEF S, files

\* The files of a spool are those it has a record of.
LEMMA FilesOfFacts ==
    ASSUME NEW S, NEW T, NEW files, FactsOf(S, T, files)
    PROVE  {r.path : r \in S.files} = files
<1> DEFINE Rec(f) == [path |-> f, parent |-> moduleOf[f], body |-> T[f]]
<1>1. \A f : Rec(f).path = f
  OBVIOUS
<1>2. S.files = {Rec(f) : f \in files}
  BY DEF FactsOf
<1> HIDE DEF Rec
<1>3. \A x : x \in {r.path : r \in S.files} <=> x \in files
  BY <1>1, <1>2
<1> QED BY <1>3

\* Whatever the frontends that ran and the files they were asked for.
OfTree(spools, T) ==
    \A l \in DOMAIN spools : l \in Language /\ \E emitted : spools[l] = Stream(T, l, emitted)

LEMMA JoinedIsOfTree ==
    ASSUME NEW T, NEW spools, OfTree(spools, T)
    PROVE  TreeStream(Joined(spools), T, {r.path : r \in Joined(spools).files})
<1> DEFINE S == Joined(spools)
           files == {r.path : r \in S.files}
           All(field) == UNION {spools[l][field] : l \in DOMAIN spools}
           Of(l) == {r.path : r \in spools[l].files}
<1>1. /\ S.structs = All("structs") /\ S.functions = All("functions") /\ S.modules = All("modules")
      /\ S.files = All("files") /\ S.unresolved = All("unresolved") /\ S.planned = Placeholders
  BY DEF Joined, EmptyStream
<1> HIDE DEF S
<1>2. ASSUME NEW l \in DOMAIN spools
      PROVE  FactsOf(spools[l], T, Of(l))
  <2>1. PICK emitted : spools[l] = Stream(T, l, emitted)
    BY DEF OfTree
  <2> DEFINE asked == {f \in Present(T) : langOf[f] = l} \cap emitted
  <2>2. FactsOf(spools[l], T, asked)
    <3>1. l \in Language
      BY DEF OfTree
    <3> QED BY <2>1, <3>1, StreamIsOfTree
  <2> HIDE DEF asked
  <2> QED BY <2>2, FilesOfFacts
<1>3. files = UNION {Of(l) : l \in DOMAIN spools}
  BY <1>1
<1> HIDE DEF files, Of
<1>4. ASSUME NEW kind
      PROVE  Records(T, files, kind) = UNION {Records(T, Of(l), kind) : l \in DOMAIN spools}
  BY <1>3 DEF Records
<1>5. S.structs = Records(T, files, "Struct") /\ S.functions = Records(T, files, "Function")
  BY <1>1, <1>2, <1>4 DEF FactsOf
<1>6. S.files = {[path |-> f, parent |-> moduleOf[f], body |-> T[f]] : f \in files}
  BY <1>1, <1>2, <1>3 DEF FactsOf
<1>7. files \subseteq Present(T)
  BY <1>2, <1>3 DEF FactsOf
<1>8. \A m \in S.modules : m[1] \in Language /\ \E g \in Present(T) : m[2] \in Prefixes(moduleOf[g])
  BY <1>1, <1>2 DEF FactsOf
<1>9. \A x \in S.unresolved : x[1] = "?"
  BY <1>1, <1>2 DEF FactsOf
<1>10. TreeStream(S, T, files)
  BY <1>1, <1>5, <1>6, <1>7, <1>8, <1>9 DEF TreeStream, FactsOf
<1> QED BY <1>10 DEF files, S

LEMMA RecordsOfFiles ==
    ASSUME NEW T, NEW files, NEW kind
    PROVE  Records(T, files, kind) = UNION {Records(T, {f}, kind) : f \in files}
BY DEF Records

LEMMA RecordsAlone ==
    ASSUME NEW T, NEW f \in File, NEW kind
    PROVE  Records(T, {f}, kind) = Records(Alone(f, T[f]), {f}, kind)
<1>1. Alone(f, T[f])[f] = T[f]
  BY DEF Alone
<1>2. DeclsOf(Alone(f, T[f]), f) = DeclsOf(T, f)
  BY <1>1 DEF DeclsOf
<1>3. \A d : Record(Alone(f, T[f]), f, d) = Record(T, f, d)
  BY <1>1 DEF Record
<1> QED BY <1>2, <1>3 DEF Records

LEMMA InitFqn ==
    ASSUME NEW decls, NEW d \in decls, d.name = "init", d.lang = "go"
    PROVE  FunctionFqn(decls, d) = Append(Append(d.parent, d.name), d.path)
<1> DEFINE group == {e \in decls : e.parent = d.parent /\ e.name = d.name}
<1>1. \E e \in group : e.lang = "go"
  OBVIOUS
<1> HIDE DEF group
<1> QED BY <1>1 DEF FunctionFqn, group

\* A function is called the same in every stream that has its file.
LEMMA SameFqn ==
    ASSUME OwnNames, NEW T \in Trees, NEW files \in SUBSET Present(T), NEW f \in files,
           NEW d \in FunctionsOf(f, T[f])
    PROVE  /\ d \in Records(T, files, "Function")
           /\ FunctionFqn(Records(T, files, "Function"), d) = FunctionFqn(FunctionsOf(f, T[f]), d)
<1> DEFINE all == Records(T, files, "Function")
           own == FunctionsOf(f, T[f])
           Group(decls) == {e \in decls : e.parent = d.parent /\ e.name = d.name}
<1>1. \A g \in files : g \in File /\ T[g] \in Contents(g)
  BY ContentsOfTrees
<1>2. \A g \in files : FunctionsOf(g, T[g]) = Records(T, {g}, "Function")
  BY <1>1, RecordsAlone DEF FunctionsOf
<1>3. all = UNION {Records(T, {g}, "Function") : g \in files}
  BY RecordsOfFiles
<1>4. \A e : e \in all <=> \E g \in files : e \in FunctionsOf(g, T[g])
  BY <1>2, <1>3
<1> HIDE DEF all
<1>5. own \subseteq all /\ d \in own
  BY <1>4
<1>6. CASE d.name = "init" /\ d.lang = "go"
  <2> HIDE DEF own
  <2>1. FunctionFqn(all, d) = FunctionFqn(own, d)
    BY <1>5, <1>6, InitFqn
  <2> QED BY <1>5, <2>1 DEF all, own
<1>7. CASE ~(d.name = "init" /\ d.lang = "go")
  <2>1. ASSUME NEW e \in Group(all) PROVE e \in Group(own)
    <3>1. PICK g \in files : e \in FunctionsOf(g, T[g])
      BY <1>4
    <3>2. g # f => d.name = "init" /\ d.lang = "go"
      BY <1>1, <3>1 DEF OwnNames
    <3> QED BY <1>7, <3>1, <3>2
  <2>2. Group(all) = Group(own)
    BY <1>5, <2>1
  <2>3. FunctionFqn(all, d) = FunctionFqn(own, d)
    <3> HIDE DEF own
    <3> DEFINE plain == Append(d.parent, d.name)
               Twins(g) == {e \in g : e.params = d.params}
               FqnIn(g) == IF d.name = "init" /\ \E e \in g : e.lang = "go" THEN Append(plain, d.path)
                           ELSE IF Cardinality(g) = 1 THEN plain
                           ELSE IF (\A e \in g : e.lang = "py") /\ Cardinality(Twins(g)) > 1
                           THEN plain \o <<d.params, d.path>>
                           ELSE Append(plain, d.params)
    <3>1. FunctionFqn(all, d) = FqnIn(Group(all)) /\ FunctionFqn(own, d) = FqnIn(Group(own))
      BY Zenon DEF FunctionFqn
    <3> HIDE DEF FqnIn, Group
    <3> QED BY <2>2, <3>1
  <2> QED BY <1>5, <2>3 DEF all
<1> QED BY <1>6, <1>7

\* No module, file or language is at the name of a declaration, nor a foreign name.
LEMMA NoOtherName ==
    ASSUME OwnNames, NEW f \in File, NEW c \in Contents(f), NEW p \in Names(f, c)
    PROVE  /\ \A g \in File : p[1] \notin Prefixes(moduleOf[g])
           /\ \A y : p[1] # <<y>>
           /\ p[1][1] # "?"
           /\ p[2].kind \in {"Struct", "Function"}
<1>1. Deep(p[1]) /\ p[1][1] = langOf[f] /\ IsDeclaration(p[2])
  BY NamesAreDeclarations
<1>2. \A g \in File : p[1] \notin Prefixes(moduleOf[g])
  BY DEF OwnNames
<1>3. langOf[f] # "?"
  BY StoreAssumption, NamesAssumption
<1> QED BY <1>1, <1>2, <1>3, DeepIsNoFile DEF IsDeclaration

\* What the stream of a tree declares at an FQN.
DeclaredAs(x, n, T, files) ==
    \/ \E f \in files : <<x, n>> \in Names(f, T[f])
    \/ n = Bare("Module") /\ \E g \in Present(T) : x \in Prefixes(moduleOf[g])
    \/ n = Bare("Language") /\ \E l \in Language : x = <<l>>
    \/ \E f \in files : x = <<f>> /\ n = FileRow(f, T)

LEMMA DeclaredOfTree ==
    ASSUME OwnNames, NEW T \in Trees, NEW S, NEW files, TreeStream(S, T, files)
    PROVE  /\ \A x \in DOMAIN DeclaredNodes(S) : DeclaredAs(x, DeclaredNodes(S)[x], T, files)
           /\ \A f \in files : \A p \in Names(f, T[f]) : p[1] \in DOMAIN DeclaredNodes(S)
           /\ Shadowed(S) = {} /\ \A m \in S.modules : m[2] \in DOMAIN DeclaredNodes(S)
<1> DEFINE structs == {<<StructFqn(s), NodeOf("Struct", s.path, None, s.body)>> : s \in S.structs}
           functions == {<<FunctionFqn(S.functions, d), NodeOf("Function", d.path, d.params, d.body)>> :
                            d \in Admitted(S)}
           modules == {<<m[2], Bare("Module")>> : m \in {y \in S.modules : y[2] \notin Shadowed(S)}}
           roots == {<< <<m[1]>>, Bare("Language")>> : m \in S.modules}
           sources == {<< <<r.path>>, NodeOf("File", r.path, None, r.body)>> : r \in S.files}
           pairs == structs \cup functions \cup modules \cup roots \cup sources
<1>1. DeclaredNodes(S) = AsFunction(pairs)
  BY DEF DeclaredNodes
<1>2. /\ files \subseteq Present(T)
      /\ S.structs = Records(T, files, "Struct") /\ S.functions = Records(T, files, "Function")
      /\ S.files = {[path |-> f, parent |-> moduleOf[f], body |-> T[f]] : f \in files}
      /\ \A m \in S.modules : m[1] \in Language /\ \E g \in Present(T) : m[2] \in Prefixes(moduleOf[g])
  BY DEF TreeStream, FactsOf
<1>3. \A f \in files : f \in File /\ T[f] \in Contents(f)
  BY <1>2, ContentsOfTrees
<1>4. ASSUME NEW kind
      PROVE  \A s : s \in Records(T, files, kind) <=>
                      \E f \in files : s \in Records(Alone(f, T[f]), {f}, kind)
  <2>1. \A f \in files : Records(T, {f}, kind) = Records(Alone(f, T[f]), {f}, kind)
    BY <1>3, RecordsAlone
  <2>2. Records(T, files, kind) = UNION {Records(T, {f}, kind) : f \in files}
    BY RecordsOfFiles
  <2> QED BY <2>1, <2>2
<1>17. /\ \A s : s \in S.structs <=> \E f \in files : s \in StructsOf(f, T[f])
       /\ \A d : d \in S.functions <=> \E f \in files : d \in FunctionsOf(f, T[f])
  BY <1>2, <1>4 DEF StructsOf, FunctionsOf
<1>5. ASSUME NEW f \in files, NEW d \in FunctionsOf(f, T[f])
      PROVE  /\ d \in S.functions /\ d.path = f /\ d.body = T[f]
             /\ FunctionFqn(S.functions, d) = FunctionFqn(FunctionsOf(f, T[f]), d)
  <2>1. f \in File /\ T[f] \in Contents(f) /\ files \in SUBSET Present(T)
    BY <1>2, <1>3
  <2>2. d.path = f /\ d.body = T[f]
    <3>1. d \in Records(Alone(f, T[f]), {f}, "Function")
      BY DEF FunctionsOf
    <3> QED BY <2>1, <3>1, RecordsOf
  <2>3. /\ d \in Records(T, files, "Function")
        /\ FunctionFqn(Records(T, files, "Function"), d) = FunctionFqn(FunctionsOf(f, T[f]), d)
    BY <2>1, SameFqn
  <2> QED BY <1>2, <2>2, <2>3
<1>6. ASSUME NEW f \in files, NEW s \in StructsOf(f, T[f])
      PROVE  s \in S.structs /\ s.path = f /\ s.body = T[f]
  <2>1. f \in File /\ T[f] \in Contents(f) /\ s \in Records(Alone(f, T[f]), {f}, "Struct")
    BY <1>3 DEF StructsOf
  <2>2. s.path = f /\ s.body = T[f]
    BY <2>1, RecordsOf
  <2> QED BY <1>17, <2>2
<1>7. ASSUME NEW p \in structs PROVE \E f \in files : p \in Names(f, T[f])
  <2>1. PICK s \in S.structs : p = <<StructFqn(s), NodeOf("Struct", s.path, None, s.body)>>
    OBVIOUS
  <2>2. PICK f \in files : s \in StructsOf(f, T[f])
    BY <1>17
  <2>3. p = <<StructFqn(s), NodeOf("Struct", f, None, T[f])>>
    BY <1>6, <2>1, <2>2
  <2>4. p \in Names(f, T[f])
    BY <2>2, <2>3 DEF Names, StructPairs
  <2> QED BY <2>4
<1>8. ASSUME NEW p \in functions PROVE \E f \in files : p \in Names(f, T[f])
  <2>1. PICK d \in Admitted(S) :
           p = <<FunctionFqn(S.functions, d), NodeOf("Function", d.path, d.params, d.body)>>
    OBVIOUS
  <2>2. d \in S.functions /\ \A s \in S.structs : StructFqn(s) # FunctionFqn(S.functions, d)
    BY <2>1 DEF Admitted, StructNames
  <2>3. PICK f \in files : d \in FunctionsOf(f, T[f])
    BY <1>17, <2>2
  <2>4. p = <<FunctionFqn(FunctionsOf(f, T[f]), d), NodeOf("Function", f, d.params, T[f])>>
    BY <1>5, <2>1, <2>3
  <2>5. \A s \in StructsOf(f, T[f]) : StructFqn(s) # FunctionFqn(FunctionsOf(f, T[f]), d)
    BY <1>5, <1>6, <2>2, <2>3
  <2>6. p \in FunctionPairs(f, T[f])
    BY <2>3, <2>4, <2>5 DEF FunctionPairs
  <2> QED BY <2>6 DEF Names
<1>9. ASSUME NEW p \in modules \cup roots \cup sources PROVE DeclaredAs(p[1], p[2], T, files)
  <2>1. CASE p \in modules
    BY <1>2, <2>1 DEF DeclaredAs, Present
  <2>2. CASE p \in roots
    BY <1>2, <2>2 DEF DeclaredAs
  <2>3. CASE p \in sources
    BY <1>2, <2>3 DEF DeclaredAs, FileRow
  <2> QED BY <2>1, <2>2, <2>3
<1>10. \A p \in structs \cup functions : p = <<p[1], p[2]>>
  OBVIOUS
<1>11. ASSUME NEW f \in files, NEW p \in StructPairs(f, T[f]) PROVE p \in structs
  <2>1. PICK s \in StructsOf(f, T[f]) : p = <<StructFqn(s), NodeOf("Struct", f, None, T[f])>>
    BY DEF StructPairs
  <2>2. s \in S.structs /\ p = <<StructFqn(s), NodeOf("Struct", s.path, None, s.body)>>
    BY <1>6, <2>1
  <2> QED BY <2>2
<1>12. ASSUME NEW f \in files, NEW p \in FunctionPairs(f, T[f]) PROVE p \in functions
  <2>1. PICK d \in FunctionsOf(f, T[f]) :
           p = <<FunctionFqn(FunctionsOf(f, T[f]), d), NodeOf("Function", f, d.params, T[f])>>
    BY DEF FunctionPairs
  <2>2. p = <<FunctionFqn(S.functions, d), NodeOf("Function", d.path, d.params, d.body)>>
    BY <1>5, <2>1
  <2>3. FunctionFqn(S.functions, d) \notin StructNames(S)
    <3> SUFFICES ASSUME NEW s \in S.structs, StructFqn(s) = p[1] PROVE FALSE
      BY <2>2 DEF StructNames
    <3>1. PICK g \in files : s \in StructsOf(g, T[g])
      BY <1>17
    <3> DEFINE q == <<StructFqn(s), NodeOf("Struct", g, None, T[g])>>
    <3>2. q \in Names(g, T[g]) /\ p \in Names(f, T[f])
      BY <3>1 DEF Names, StructPairs
    <3>3. p[1] = q[1] /\ p[2].kind = "Function" /\ q[2].kind = "Struct"
      BY <2>1 DEF NodeOf
    <3> HIDE DEF q
    <3>4. p[2].kind = q[2].kind
      BY <1>3, <3>2, <3>3, OneOwner
    <3> QED BY <3>3, <3>4
  <2>4. d \in Admitted(S)
    BY <1>5, <2>3 DEF Admitted
  <2> QED BY <2>2, <2>4
<1>18. ASSUME NEW m \in S.modules PROVE m[2] \notin TypeNames(S)
  <2>1. \A p \in structs \cup functions : p[1] # m[2]
    <3> SUFFICES ASSUME NEW p \in structs \cup functions, p[1] = m[2] PROVE FALSE
      OBVIOUS
    <3>1. PICK f \in files : p \in Names(f, T[f])
      BY <1>7, <1>8
    <3>2. PICK g \in Present(T) : m[2] \in Prefixes(moduleOf[g])
      BY <1>2
    <3>3. f \in File /\ T[f] \in Contents(f) /\ g \in File
      BY <1>3 DEF Present
    <3> QED BY <3>1, <3>2, <3>3, NoOtherName
  <2>2. ASSUME NEW s \in S.structs PROVE StructFqn(s) # m[2]
    <3> DEFINE p == <<StructFqn(s), NodeOf("Struct", s.path, None, s.body)>>
    <3>1. p \in structs /\ p[1] = StructFqn(s)
      OBVIOUS
    <3> HIDE DEF p, structs
    <3> QED BY <2>1, <3>1
  <2>3. ASSUME NEW d \in Admitted(S) PROVE FunctionFqn(S.functions, d) # m[2]
    <3> DEFINE p == <<FunctionFqn(S.functions, d), NodeOf("Function", d.path, d.params, d.body)>>
    <3>1. p \in functions /\ p[1] = FunctionFqn(S.functions, d)
      OBVIOUS
    <3> HIDE DEF p, functions
    <3> QED BY <2>1, <3>1
  <2> QED BY <2>2, <2>3 DEF TypeNames, StructNames
<1>19. Shadowed(S) = {}
  BY <1>18 DEF Shadowed
<1>20. ASSUME NEW m \in S.modules PROVE \E p \in modules : p[1] = m[2]
  <2> DEFINE p == <<m[2], Bare("Module")>>
  <2>1. p \in modules /\ p[1] = m[2]
    BY <1>19
  <2> HIDE DEF p, modules
  <2> QED BY <2>1
<1> HIDE DEF structs, functions, modules, roots, sources
<1>13. \A p \in pairs : DeclaredAs(p[1], p[2], T, files)
  <2>1. \A p \in structs \cup functions : DeclaredAs(p[1], p[2], T, files)
    BY <1>7, <1>8, <1>10 DEF DeclaredAs
  <2> QED BY <1>9, <2>1
<1>14. \A f \in files : \A p \in Names(f, T[f]) : p \in pairs
  BY <1>11, <1>12 DEF Names
<1> HIDE DEF pairs
<1>15. \A x \in DOMAIN DeclaredNodes(S) : DeclaredAs(x, DeclaredNodes(S)[x], T, files)
  <2> SUFFICES ASSUME NEW x \in DOMAIN DeclaredNodes(S)
               PROVE  DeclaredAs(x, DeclaredNodes(S)[x], T, files)
    OBVIOUS
  <2>1. \E p \in pairs : p[1] = x /\ DeclaredNodes(S)[x] = p[2]
    BY <1>1, DescribedByPairs
  <2> QED BY <1>13, <2>1
<1>16. \A f \in files : \A p \in Names(f, T[f]) : p[1] \in DOMAIN DeclaredNodes(S)
  BY <1>1, <1>14 DEF AsFunction
<1>21. \A m \in S.modules : m[2] \in DOMAIN DeclaredNodes(S)
  <2>1. \A m \in S.modules : \E p \in pairs : p[1] = m[2]
    BY <1>20 DEF pairs
  <2> QED BY <1>1, <2>1 DEF AsFunction
<1> QED BY <1>15, <1>16, <1>19, <1>21

LEMMA FieldsOfANode ==
    /\ \A k, path, params, body :
          LET n == NodeOf(k, path, params, body)
          IN  n.kind = k /\ n.path = path /\ n.params = params /\ n.body = body /\ ~n.planned
    /\ \A k : /\ Bare(k).kind = k /\ ~Bare(k).planned /\ Bare(k).path = None
              /\ Planned(k).kind = k /\ Planned(k).planned /\ Planned(k).path = None
BY DEF NodeOf, Bare, Planned

\* What a graph has of modules, languages and files is right, and no declaration.
LEMMA OthersAreRight ==
    ASSUME OwnNames, NEW x, NEW n,
           \/ n = Bare("Module") /\ \E g \in File : x \in Prefixes(moduleOf[g])
           \/ n = Bare("Language") /\ \E l \in Language : x = <<l>>
           \/ \E f \in File : \E c : x = <<f>> /\ n = NodeOf("File", f, None, c)
    PROVE  RightNode(x, n) /\ ~IsDeclaration(n)
<1>1. RightKind(x, n.kind)
  BY NoOtherName DEF RightKind
<1>2. n.kind \in {"Module", "Language", "File"} /\ ~n.planned
  BY FieldsOfANode
<1>3. n.kind = "File" /\ x[1] \in File => x = <<x[1]>>
  BY FieldsOfANode
<1> QED BY <1>1, <1>2, <1>3 DEF RightNode, IsDeclaration

LEMMA NamesAreRight ==
    ASSUME OwnNames, NEW f \in File, NEW c \in Contents(f), NEW x, NEW n, <<x, n>> \in Names(f, c)
    PROVE  RightNode(x, n) /\ IsDeclaration(n)
<1> DEFINE p == <<x, n>>
<1>1. p \in Names(f, c) /\ p[1] = x /\ p[2] = n
  OBVIOUS
<1> HIDE DEF p
<1>2. RightKind(x, n.kind)
  BY <1>1, OneOwner DEF RightKind
<1>3. IsDeclaration(n) /\ n.kind \in {"Struct", "Function"} /\ x[1] # "?"
  BY <1>1, NamesAreDeclarations, NoOtherName
<1> QED BY <1>2, <1>3 DEF RightNode, IsDeclaration

LEMMA PlannedAreRight ==
    ASSUME OwnNames, NEW p \in Placeholders
    PROVE  RightNode(p.fqn, Planned(p.kind)) /\ ~IsDeclaration(Planned(p.kind))
<1>1. RightKind(p.fqn, p.kind)
  BY DEF OwnNames, RightKind
<1>2. p.kind # "Unresolved" /\ p.fqn[1] \notin File /\ p.fqn[1] # "?"
  BY NamesAssumption
<1> QED BY <1>1, <1>2, FieldsOfANode DEF RightNode, IsDeclaration

LEMMA UnresolvedIsRight ==
    ASSUME OwnNames, NEW x, x[1] = "?"
    PROVE  RightNode(x, Bare("Unresolved")) /\ ~IsDeclaration(Bare("Unresolved"))
<1>1. RightKind(x, "Unresolved")
  BY NoOtherName DEF RightKind
<1> QED BY <1>1, FieldsOfANode DEF RightNode, IsDeclaration

\* At each FQN of what is ingested stands what is declared there, or else what is
\* planned, or else an unresolved target.
LEMMA IngestedAre ==
    ASSUME NEW S, S.planned = Placeholders
    PROVE  /\ DOMAIN DeclaredNodes(S) \subseteq DOMAIN Ingested(S).nodes
           /\ \A x \in DOMAIN Ingested(S).nodes :
                 LET n == Ingested(S).nodes[x] IN
                 \/ x \in DOMAIN DeclaredNodes(S) /\ n = DeclaredNodes(S)[x]
                 \/ /\ x \notin DOMAIN DeclaredNodes(S)
                    /\ \/ \E p \in Placeholders : x = p.fqn /\ n = Planned(p.kind)
                       \/ x \in S.unresolved /\ n = Bare("Unresolved")
<1> DEFINE declared == DeclaredNodes(S)
           pairs == {<<p.fqn, Planned(p.kind)>> : p \in S.planned}
           planned == AsFunction(pairs)
           nodes == Overlaid(declared, planned, S.unresolved)
<1>1. Ingested(S).nodes = nodes
  BY DEF Ingested, WithEdges, IngestedNodes
<1>2. ASSUME NEW x \in DOMAIN planned
      PROVE  \E p \in Placeholders : x = p.fqn /\ planned[x] = Planned(p.kind)
  <2>1. \A q \in pairs : \E p \in Placeholders : q[1] = p.fqn /\ q[2] = Planned(p.kind)
    OBVIOUS
  <2> HIDE DEF pairs
  <2>2. PICK q \in pairs : q[1] = x /\ AsFunction(pairs)[x] = q[2]
    BY <1>2, DescribedByPairs
  <2> QED BY <2>1, <2>2
<1> HIDE DEF declared, planned
<1>3. /\ DOMAIN nodes = DOMAIN declared \cup DOMAIN planned \cup S.unresolved
      /\ \A x \in DOMAIN declared : nodes[x] = declared[x]
  BY DEF Overlaid
<1>4. \A x \in DOMAIN nodes \ DOMAIN declared :
         \/ x \in DOMAIN planned /\ nodes[x] = planned[x]
         \/ x \in S.unresolved /\ nodes[x] = Bare("Unresolved")
  BY DEF Overlaid
<1> HIDE DEF nodes
<1> QED BY <1>1, <1>2, <1>3, <1>4 DEF declared

\* It has the files whose records it was given, and no others.
LEMMA IngestedFiles ==
    ASSUME OwnNames, NEW T \in Trees, NEW S, NEW files, TreeStream(S, T, files), Modest(S, T),
           NEW f \in File, <<f>> \in DOMAIN Ingested(S).nodes
    PROVE  f \in files
<1>1. /\ S.planned = Placeholders
      /\ \A g \in files : g \in Present(T) /\ g \in File /\ T[g] \in Contents(g)
      /\ \A x \in S.unresolved : Deep(x)
  BY ContentsOfTrees DEF TreeStream, FactsOf, Modest
<1>2. <<f>> \in DOMAIN DeclaredNodes(S)
  <2>1. <<f>> \notin S.unresolved
    BY <1>1, DeepIsNoFile
  <2>2. \A p \in Placeholders : <<f>> # p.fqn
    <3>1. \A p \in Placeholders : p.fqn[1] # f
      BY NamesAssumption
    <3> QED BY <3>1
  <2> QED BY <1>1, <2>1, <2>2, IngestedAre
<1>3. DeclaredAs(<<f>>, DeclaredNodes(S)[<<f>>], T, files)
  BY <1>2, DeclaredOfTree
<1>4. \A g \in files : \A p \in Names(g, T[g]) : p[1] # <<f>>
  BY <1>1, NoOtherName
<1>5. \A g \in Present(T) : <<f>> \notin Prefixes(moduleOf[g])
  <2>1. \A g \in Present(T) : g \in File
    BY DEF Present
  <2> QED BY <2>1, PrefixesAreDeep, DeepIsNoFile
<1>6. \A l \in Language : <<f>> # <<l>>
  <2>1. \A l \in Language : f # l
    BY NamesAssumption
  <2> QED BY <2>1
<1>7. ~\E g \in files : <<(<<f>>), DeclaredNodes(S)[<<f>>]>> \in Names(g, T[g])
  <2> SUFFICES ASSUME NEW g \in files, NEW p \in Names(g, T[g]), p[1] = <<f>> PROVE FALSE
    OBVIOUS
  <2> QED BY <1>4
<1>8. \E g \in files : <<f>> = <<g>>
  BY <1>3, <1>5, <1>6, <1>7 DEF DeclaredAs
<1> QED BY <1>8

LEMMA IngestedTells ==
    ASSUME OwnNames, NEW T \in Trees, NEW S, NEW files, TreeStream(S, T, files), Modest(S, T)
    PROVE  Tells(Ingested(S), T)
<1> DEFINE declared == DeclaredNodes(S)
           nodes == Ingested(S).nodes
<1>1. \A g \in Present(T) : g \in File
  BY DEF Present
<1>2. /\ S.planned = Placeholders /\ files \subseteq Present(T)
      /\ \A x \in S.unresolved : x[1] = "?"
  BY DEF TreeStream, FactsOf
<1>3. \A f \in files : f \in Present(T) /\ f \in File /\ T[f] \in Contents(f)
  BY <1>2, ContentsOfTrees
<1>4. /\ \A x \in DOMAIN declared : DeclaredAs(x, declared[x], T, files)
      /\ \A f \in files : \A p \in Names(f, T[f]) : p[1] \in DOMAIN declared
  BY DeclaredOfTree
<1>5. ASSUME NEW x \in DOMAIN nodes, x \notin DOMAIN declared
      PROVE  RightNode(x, nodes[x]) /\ ~IsDeclaration(nodes[x])
  BY <1>2, <1>5, IngestedAre, PlannedAreRight, UnresolvedIsRight
<1>6. \A x \in DOMAIN declared : x \in DOMAIN nodes /\ nodes[x] = declared[x]
  BY <1>2, IngestedAre
<1> HIDE DEF declared, nodes
<1>7. ASSUME NEW x \in DOMAIN nodes
      PROVE  /\ RightNode(x, nodes[x])
             /\ IsDeclaration(nodes[x]) => \E f \in Present(T) : <<x, nodes[x]>> \in Names(f, T[f])
  <2>1. CASE x \in DOMAIN declared
    <3>1. DeclaredAs(x, nodes[x], T, files)
      BY <1>4, <1>6, <2>1
    <3>2. CASE \E f \in files : <<x, nodes[x]>> \in Names(f, T[f])
      BY <1>3, <3>2, NamesAreRight
    <3>3. CASE ~\E f \in files : <<x, nodes[x]>> \in Names(f, T[f])
      <4>1. RightNode(x, nodes[x]) /\ ~IsDeclaration(nodes[x])
        BY <1>1, <1>3, <3>1, <3>3, OthersAreRight DEF DeclaredAs, FileRow
      <4> QED BY <4>1
    <3> QED BY <3>2, <3>3
  <2> QED BY <1>5, <1>7, <2>1
<1>8. ASSUME NEW f \in files, NEW p \in Names(f, T[f])
      PROVE  p[1] \in DOMAIN nodes /\ nodes[p[1]] = p[2]
  <2>1. p[1] \in DOMAIN declared /\ p[1] \in DOMAIN nodes /\ nodes[p[1]] = declared[p[1]]
    BY <1>4, <1>6
  <2>2. DeclaredAs(p[1], nodes[p[1]], T, files)
    BY <1>4, <2>1
  <2>3. PICK g \in files : <<p[1], nodes[p[1]]>> \in Names(g, T[g])
    <3>1. /\ \A g \in File : p[1] \notin Prefixes(moduleOf[g])
          /\ \A y : p[1] # <<y>>
      BY <1>3, NoOtherName
    <3> QED BY <1>1, <2>2, <3>1 DEF DeclaredAs
  <2> DEFINE q == <<p[1], nodes[p[1]]>>
  <2>4. q \in Names(g, T[g]) /\ q[1] = p[1] /\ q[2] = nodes[p[1]]
    BY <2>3
  <2> HIDE DEF q
  <2>5. f = g
    BY <1>3, <2>4, OneOwner
  <2>6. p = q
    BY <1>3, <2>4, <2>5, OneOwner
  <2> QED BY <2>1, <2>4, <2>6
<1>9. ASSUME NEW f \in Present(T), <<f>> \in DOMAIN nodes PROVE HasNames(nodes, f, T[f])
  <2>1. f \in files
    BY <1>1, <1>9, IngestedFiles DEF nodes
  <2> QED BY <1>8, <2>1 DEF HasNames
<1> QED BY <1>7, <1>9 DEF Tells, nodes

-----------------------------------------------------------------------------
(* Units, scaffolding and signatures tell the declarations of their file     *)

NoName(x) == \A f \in File : \A c \in Contents(f) : \A p \in Names(f, c) : p[1] # x

\* A call or a use is of a declaration of the file, and of a kind with what it
\* names, which is no file and no foreign name.
LinkTells(e, f, c) ==
    /\ e[3][1] # "?" /\ e[3] \notin FileFqns
    /\ \E p \in Names(f, c) :
          /\ p[1] = e[2]
          /\ \A g \in File : \A d \in Contents(g) : \A q \in Names(g, d) :
                q[1] = e[3] => ValidPair(e[1], p[2].kind, q[2].kind)

\* A unit has the declarations of its file under its content, and no others.
UnitTells(u, f, c) ==
    /\ c \in Contents(f) /\ HasNames(u.nodes, f, c)
    /\ \A x \in DOMAIN u.nodes :
          /\ RightNode(x, u.nodes[x])
          /\ u.nodes[x].kind \in {"Struct", "Function"} => <<x, u.nodes[x]>> \in Names(f, c)
          /\ u.nodes[x].kind \in {"Struct", "Function", "Unresolved"} \/ x = <<f>>
    /\ \A x \in u.modules : NoName(x)
    /\ \A e \in u.edges : e[1] \in {"Calls", "Uses"} => LinkTells(e, f, c)

UnitsTell(units) == \A f \in File : \A c : <<f, c>> \in DOMAIN units => UnitTells(units[<<f, c>>], f, c)

ScaffoldingTells(s) == \A x \in s.modules \cup s.languages : NoName(x)

\* Of another kind than a declaration's, it stands at no name.
LEMMA OtherKind ==
    ASSUME OwnNames, NEW x, NEW kind, RightKind(x, kind), kind \notin {"Struct", "Function"}
    PROVE  NoName(x)
BY NoOtherName DEF RightKind, NoName

\* What is located is a declaration of the tree.
LEMMA LocatedIsDeclared ==
    ASSUME NEW T \in Trees, NEW G, Tells(G, T), NEW x \in DOMAIN G.nodes, Located(G.nodes[x])
    PROVE  \E f \in Present(T) : <<x, G.nodes[x]>> \in Names(f, T[f]) /\ G.nodes[x].path = f
<1>1. IsDeclaration(G.nodes[x])
  BY DEF Tells, RightNode, Located, IsDeclaration
<1>2. PICK f \in Present(T) : <<x, G.nodes[x]>> \in Names(f, T[f])
  BY <1>1 DEF Tells
<1>3. \A p \in Names(f, T[f]) : p[2].path = f
  BY ContentsOfTrees, NamesAreDeclarations
<1>4. G.nodes[x].path = f
  BY <1>2, <1>3
<1> QED BY <1>2, <1>4

LEMMA UnitOfTells ==
    ASSUME OwnNames, NEW T \in Trees, NEW G, Tells(G, T), Settled(G), ShowsFiles(G, T),
           NEW f \in Present(T), <<f>> \in DOMAIN G.nodes
    PROVE  UnitTells(UnitOf(G, f), f, T[f])
<1> DEFINE modules == ModuleEdgesOf(G, f)
           carried == {e[3] : e \in {x \in FileEdges(G, f) : x[1] \in {"UnresolvedCall", "UnresolvedUse"}}}
           rows    == FileRows(G, f) \cup (carried \cap DOMAIN G.nodes)
           u       == UnitOf(G, f)
<1>1. u.modules = {e[2] : e \in modules} /\ u.nodes = [x \in rows |-> G.nodes[x]]
  BY DEF UnitOf
<1>2. f \in File /\ T[f] \in Contents(f) /\ f # None
  BY ContentsOfTrees, NamesAssumption
<1>3. /\ \A x \in DOMAIN G.nodes : RightNode(x, G.nodes[x])
      /\ HasNames(G.nodes, f, T[f])
  BY <1>2 DEF Tells
<1>4. \A x \in carried : G.nodes[x].kind = "Unresolved"
  BY DEF Settled, ValidPair, FileEdges
<1>5. ASSUME NEW x \in FileRows(G, f), G.nodes[x].kind \in {"Struct", "Function"}
      PROVE  <<x, G.nodes[x]>> \in Names(f, T[f])
  <2>1. x \in DOMAIN G.nodes /\ FileKeyOf(G, x) = f
    BY DEF FileRows
  <2>2. Located(G.nodes[x]) /\ G.nodes[x].path = f
    BY <1>2, <1>5, <2>1 DEF FileKeyOf, IsKind
  <2> QED BY <2>1, <2>2, LocatedIsDeclared
<1>6. ASSUME NEW p \in Names(f, T[f]) PROVE p[1] \in rows /\ G.nodes[p[1]] = p[2]
  <2>1. p[1] \in DOMAIN G.nodes /\ G.nodes[p[1]] = p[2]
    BY <1>3 DEF HasNames
  <2>2. p[2].path = f /\ Located(p[2]) /\ p[2].kind # "File"
    BY <1>2, NamesAreDeclarations DEF Located
  <2>3. FileKeyOf(G, p[1]) = f
    BY <2>1, <2>2 DEF FileKeyOf, IsKind
  <2> QED BY <2>1, <2>3 DEF FileRows
<1>7. \A e \in modules : IsKind(G, e[2], "Module")
  BY DEF ModuleEdgesOf
<1> HIDE DEF modules
<1>8. ASSUME NEW x \in u.modules PROVE NoName(x)
  <2>1. IsKind(G, x, "Module")
    BY <1>1, <1>7
  <2>2. RightKind(x, "Module")
    BY <1>3, <2>1 DEF RightNode, IsKind
  <2> QED BY <2>2, OtherKind
<1>9. \A x \in rows : x \in DOMAIN G.nodes /\ (x \in FileRows(G, f) \/ G.nodes[x].kind = "Unresolved")
  BY <1>4 DEF FileRows
<1> HIDE DEF rows, u
<1>10. HasNames(u.nodes, f, T[f])
  BY <1>1, <1>6 DEF HasNames
<1>11. \A x \in DOMAIN u.nodes :
          /\ RightNode(x, u.nodes[x])
          /\ u.nodes[x].kind \in {"Struct", "Function"} => <<x, u.nodes[x]>> \in Names(f, T[f])
  BY <1>1, <1>3, <1>5, <1>9
<1>12. \A x \in DOMAIN u.nodes : u.nodes[x].kind \in {"Struct", "Function", "Unresolved"} \/ x = <<f>>
  <2> SUFFICES ASSUME NEW x \in rows PROVE G.nodes[x].kind \in {"Struct", "Function", "Unresolved"} \/ x = <<f>>
    BY <1>1
  <2>1. CASE x \in FileRows(G, f)
    <3>1. x \in DOMAIN G.nodes /\ FileKeyOf(G, x) = f
      BY <2>1 DEF FileRows
    <3>2. Located(G.nodes[x]) \/ (G.nodes[x].kind = "File" /\ x[1] = f)
      BY <1>2, <3>1 DEF FileKeyOf, IsKind
    <3> QED BY <1>2, <1>3, <3>1, <3>2 DEF Located, RightNode
  <2>2. CASE x \notin FileRows(G, f)
    BY <1>9, <2>2
  <2> QED BY <2>1, <2>2
<1>13. ASSUME NEW e \in FileEdges(G, f), e[1] \in {"Calls", "Uses"} PROVE LinkTells(e, f, T[f])
  <2>1. /\ e \in G.edges /\ FileKeyOf(G, e[2]) = f
        /\ ValidPair(e[1], G.nodes[e[2]].kind, G.nodes[e[3]].kind)
        /\ G.nodes[e[2]].kind \in {"Struct", "Function"}
    BY <1>13 DEF FileEdges, Settled, ValidPair
  <2>2. e[2] \in DOMAIN G.nodes /\ e[3] \in DOMAIN G.nodes
    BY <2>1 DEF Settled
  <2> DEFINE p == <<e[2], G.nodes[e[2]]>>
  <2>3. p \in Names(f, T[f]) /\ p[1] = e[2] /\ p[2] = G.nodes[e[2]]
    BY <1>5, <2>1, <2>2 DEF FileRows
  <2> HIDE DEF p
  <2>4. G.nodes[e[3]].kind \in {"Struct", "Function"}
    BY <1>13, <2>1 DEF ValidPair
  <2>5. e[3][1] # "?"
    <3>1. CASE G.nodes[e[3]].planned
      BY <1>3, <2>2, <3>1 DEF RightNode
    <3>2. CASE ~G.nodes[e[3]].planned
      <4> DEFINE q == <<e[3], G.nodes[e[3]]>>
      <4>1. PICK g \in Present(T) : q \in Names(g, T[g])
        BY <2>2, <2>4, <3>2 DEF Tells, IsDeclaration
      <4>2. q[1] = e[3]
        OBVIOUS
      <4> HIDE DEF q
      <4> QED BY <4>1, <4>2, ContentsOfTrees, NoOtherName
    <3> QED BY <3>1, <3>2
  <2>6. e[3] \notin FileFqns
    <3> SUFFICES ASSUME NEW g \in File, e[3] = <<g>> PROVE FALSE
      BY DEF FileFqns
    <3>1. G.nodes[e[3]] = FileRow(g, T)
      BY <2>2 DEF ShowsFiles
    <3> QED BY <2>4, <3>1, FieldsOfANode DEF FileRow
  <2> QED BY <1>3, <2>1, <2>2, <2>3, <2>5, <2>6 DEF LinkTells, RightNode, RightKind
<1>14. ASSUME NEW e \in u.edges, e[1] \in {"Calls", "Uses"} PROVE LinkTells(e, f, T[f])
  <2>1. e \in FileEdges(G, f)
    BY <1>14 DEF u, UnitOf, ModuleEdgesOf
  <2> QED BY <1>13, <1>14, <2>1
<1>15. UnitTells(u, f, T[f])
  BY <1>2, <1>8, <1>10, <1>11, <1>12, <1>14 DEF UnitTells
<1> QED BY <1>15 DEF u

LEMMA ScaffoldingOfTells ==
    ASSUME OwnNames, NEW T, NEW G, Tells(G, T), NEW l
    PROVE  ScaffoldingTells(ScaffoldingOf(G, l, langOf))
<1>1. \A x \in ScaffoldingOf(G, l, langOf).modules : IsKind(G, x, "Module")
  BY DEF ScaffoldingOf
<1>2. \A x \in ScaffoldingOf(G, l, langOf).languages : IsKind(G, x, "Language")
  BY DEF ScaffoldingOf
<1>3. \A x : IsKind(G, x, "Module") \/ IsKind(G, x, "Language") => NoName(x)
  BY OtherKind DEF IsKind, Tells, RightNode
<1> QED BY <1>1, <1>2, <1>3 DEF ScaffoldingTells

\* What a file signs under a content.
NameSigs(f, c) == {<<p[2].kind, p[1], p[2].params>> : p \in Names(f, c)}

LEMMA SignaturesOfATree ==
    ASSUME OwnNames, NEW T \in Trees, NEW G, Tells(G, T), NEW f \in File
    PROVE  /\ \A s \in SignaturesOf(G, f) : s[2] \in NamesOf(f)
           /\ <<f>> \in DOMAIN G.nodes /\ f \in Present(T) => SignaturesOf(G, f) = NameSigs(f, T[f])
<1> DEFINE Sig(x) == <<G.nodes[x].kind, x, G.nodes[x].params>>
           signed == {y \in DOMAIN G.nodes : Located(G.nodes[y]) /\ G.nodes[y].path = f}
<1>1. SignaturesOf(G, f) = {Sig(x) : x \in signed}
  BY DEF SignaturesOf
<1>2. ASSUME NEW x \in signed
      PROVE  f \in Present(T) /\ <<x, G.nodes[x]>> \in Names(f, T[f])
  BY LocatedIsDeclared
<1>3. ASSUME NEW x \in signed PROVE Sig(x) \in NameSigs(f, T[f]) /\ Sig(x)[2] \in NamesOf(f)
  <2> DEFINE p == <<x, G.nodes[x]>>
  <2>1. p \in Names(f, T[f]) /\ p[1] = x /\ p[2] = G.nodes[x]
    BY <1>2
  <2>2. p[1] \in NamesOf(f)
    BY <1>2, <2>1, ContentsOfTrees, NamesAreDeclarations
  <2> HIDE DEF p
  <2> QED BY <2>1, <2>2 DEF NameSigs
<1>4. ASSUME <<f>> \in DOMAIN G.nodes, f \in Present(T), NEW p \in Names(f, T[f])
      PROVE  p[1] \in signed /\ Sig(p[1]) = <<p[2].kind, p[1], p[2].params>>
  <2>1. p[1] \in DOMAIN G.nodes /\ G.nodes[p[1]] = p[2]
    BY <1>4 DEF Tells, HasNames
  <2>2. Located(p[2]) /\ p[2].path = f
    BY <1>4, ContentsOfTrees, NamesAreDeclarations
  <2> QED BY <2>1, <2>2
<1> HIDE DEF Sig, signed
<1>5. <<f>> \in DOMAIN G.nodes /\ f \in Present(T) => NameSigs(f, T[f]) \subseteq {Sig(x) : x \in signed}
  BY <1>4 DEF NameSigs
<1> QED BY <1>1, <1>3, <1>5

LEMMA SignaturesOfAUnit ==
    ASSUME OwnNames, NEW f \in File, NEW c, NEW u, UnitTells(u, f, c)
    PROVE  SignaturesOf(u, f) = NameSigs(f, c)
<1> DEFINE Sig(x) == <<u.nodes[x].kind, x, u.nodes[x].params>>
           signed == {y \in DOMAIN u.nodes : Located(u.nodes[y]) /\ u.nodes[y].path = f}
<1>1. SignaturesOf(u, f) = {Sig(x) : x \in signed}
  BY DEF SignaturesOf
<1>2. ASSUME NEW x \in signed PROVE Sig(x) \in NameSigs(f, c)
  <2> DEFINE p == <<x, u.nodes[x]>>
  <2>1. p \in Names(f, c) /\ p[1] = x /\ p[2] = u.nodes[x]
    BY DEF UnitTells, Located
  <2> HIDE DEF p
  <2> QED BY <2>1 DEF NameSigs
<1>3. ASSUME NEW p \in Names(f, c)
      PROVE  p[1] \in signed /\ Sig(p[1]) = <<p[2].kind, p[1], p[2].params>>
  <2>1. p[1] \in DOMAIN u.nodes /\ u.nodes[p[1]] = p[2]
    BY DEF UnitTells, HasNames
  <2>2. Located(p[2]) /\ p[2].path = f
    BY NamesAreDeclarations DEF UnitTells
  <2> QED BY <2>1, <2>2
<1> HIDE DEF Sig, signed
<1> QED BY <1>1, <1>2, <1>3 DEF NameSigs

-----------------------------------------------------------------------------
(* What a splice of cached units tells                                       *)

\* It is a node of one of the units, and an unresolved target only where all are.
LEMMA CachedNodeIsCached ==
    ASSUME NEW units, DOMAIN units \subseteq Nat, NEW i \in DOMAIN units, NEW x \in DOMAIN units[i].nodes
    PROVE  \E j \in DOMAIN units :
              /\ x \in DOMAIN units[j].nodes /\ CachedNode(units, x) = units[j].nodes[x]
              /\ units[i].nodes[x].kind # "Unresolved" => units[j].nodes[x].kind # "Unresolved"
<1> DEFINE holders == {j \in DOMAIN units : x \in DOMAIN units[j].nodes}
           real    == {j \in holders : units[j].nodes[x].kind # "Unresolved"}
           chosen  == IF real = {} THEN holders ELSE real
           first   == CHOOSE j \in chosen : \A k \in chosen : j <= k
<1>1. CachedNode(units, x) = units[first].nodes[x]
  BY DEF CachedNode
<1>2. chosen \subseteq Nat /\ chosen # {} /\ chosen \subseteq holders
  OBVIOUS
<1>3. units[i].nodes[x].kind # "Unresolved" => chosen = real
  OBVIOUS
<1> HIDE DEF chosen
<1>4. first \in chosen
  BY <1>2, LeastOf
<1> HIDE DEF first
<1> QED BY <1>1, <1>2, <1>3, <1>4

\* The units a splice is given: of files of the tree, one each, under its content.
UnitsOf(units, T) ==
    /\ DOMAIN units \subseteq Nat
    /\ \A i \in DOMAIN units :
          /\ pathOrder[i] \in Present(T)
          /\ UnitRight(units[i], pathOrder[i], T[pathOrder[i]])
          /\ UnitTells(units[i], pathOrder[i], T[pathOrder[i]])
    /\ \A i, j \in DOMAIN units : pathOrder[i] = pathOrder[j] => i = j

LEMMA CachedTells ==
    ASSUME OwnNames, NEW T \in Trees, NEW units, UnitsOf(units, T),
           NEW i \in DOMAIN units, NEW x \in DOMAIN units[i].nodes
    PROVE  LET n == CachedNode(units, x)
           IN  /\ RightNode(x, n)
               /\ IsDeclaration(n) => \E f \in Present(T) : <<x, n>> \in Names(f, T[f])
<1>1. PICK j \in DOMAIN units : x \in DOMAIN units[j].nodes /\ CachedNode(units, x) = units[j].nodes[x]
  BY CachedNodeIsCached DEF UnitsOf
<1> QED BY <1>1 DEF UnitsOf, UnitTells, IsDeclaration

\* At a name of one of its files it is that declaration.
LEMMA CachedName ==
    ASSUME OwnNames, NEW T \in Trees, NEW units, UnitsOf(units, T), NEW i \in DOMAIN units,
           NEW p \in Names(pathOrder[i], T[pathOrder[i]])
    PROVE  p[1] \in DOMAIN units[i].nodes /\ CachedNode(units, p[1]) = p[2]
<1> DEFINE f == pathOrder[i]
           x == p[1]
<1>1. f \in File /\ T[f] \in Contents(f)
  BY ContentsOfTrees DEF UnitsOf
<1>2. x \in DOMAIN units[i].nodes /\ units[i].nodes[x] = p[2]
  BY DEF UnitsOf, UnitTells, HasNames
<1>3. p[2].kind \in {"Struct", "Function"}
  BY <1>1, NoOtherName
<1>4. PICK j \in DOMAIN units :
        /\ x \in DOMAIN units[j].nodes /\ CachedNode(units, x) = units[j].nodes[x]
        /\ units[j].nodes[x].kind # "Unresolved"
  BY <1>2, <1>3, CachedNodeIsCached DEF UnitsOf
<1> DEFINE g == pathOrder[j]
           n == units[j].nodes[x]
<1>5. g \in File /\ T[g] \in Contents(g)
  BY ContentsOfTrees DEF UnitsOf
<1>6. n.kind = p[2].kind
  <2>1. RightKind(x, n.kind)
    BY <1>4 DEF UnitsOf, UnitTells, RightNode
  <2> QED BY <1>1, <2>1 DEF RightKind
<1>7. <<x, n>> \in Names(g, T[g])
  BY <1>3, <1>4, <1>6 DEF UnitsOf, UnitTells
<1> DEFINE q == <<x, n>>
<1>8. q \in Names(g, T[g]) /\ q[1] = p[1] /\ q[2] = n
  BY <1>7
<1> HIDE DEF q
<1>9. g = f
  BY <1>1, <1>5, <1>8, OneOwner
<1>10. p = q
  BY <1>1, <1>5, <1>8, <1>9, OneOwner
<1> QED BY <1>2, <1>4, <1>8, <1>10

LEMMA SplicedTells ==
    ASSUME OwnNames, NEW T \in Trees, NEW G, Tells(G, T), NEW units, UnitsOf(units, T),
           NEW scaffolding, \A s \in scaffolding : ScaffoldingTells(s) /\ ScaffoldingRight(s)
    PROVE  Tells(WithCached(G, units, scaffolding), T)
<1> DEFINE merged  == MergedNodes(G.nodes, units)
           modules == (UNION {units[i].modules : i \in DOMAIN units})
                        \cup (UNION {s.modules : s \in scaffolding})
           roots   == UNION {s.languages : s \in scaffolding}
           nodes   == WithModules(merged, modules, roots)
           W       == WithCached(G, units, scaffolding)
           Told(x, n) == /\ RightNode(x, n)
                         /\ IsDeclaration(n) => \E f \in Present(T) : <<x, n>> \in Names(f, T[f])
<1>1. \A x \in modules \cup roots : NoName(x)
  BY DEF UnitsOf, UnitTells, ScaffoldingTells
<1>2. \A f \in File : <<f>> \notin modules \cup roots
  <2>1. \A f \in File : <<f>> \in FileFqns
    BY DEF FileFqns
  <2>2. \A i \in DOMAIN units : units[i].modules \cap FileFqns = {}
    BY DEF UnitsOf, UnitRight
  <2>3. \A s \in scaffolding : s.modules \cap FileFqns = {} /\ s.languages \cap FileFqns = {}
    BY DEF ScaffoldingRight
  <2>4. (modules \cup roots) \cap FileFqns = {}
    BY <2>2, <2>3
  <2> HIDE DEF modules, roots
  <2> QED BY <2>1, <2>4
<1>3. \A i \in DOMAIN units : \A x \in DOMAIN units[i].nodes : Told(x, CachedNode(units, x))
  BY CachedTells
<1>4. \A x \in DOMAIN G.nodes : Told(x, G.nodes[x])
  BY DEF Tells
<1>5. /\ DOMAIN merged = DOMAIN G.nodes \cup UNION {DOMAIN units[i].nodes : i \in DOMAIN units}
      /\ \A x \in DOMAIN merged : Told(x, merged[x])
  <2> HIDE DEF Told
  <2> QED BY <1>3, <1>4 DEF MergedNodes
<1>6. ASSUME NEW f \in Present(T), <<f>> \in DOMAIN merged, NEW p \in Names(f, T[f])
      PROVE  p[1] \in DOMAIN merged /\ merged[p[1]] = p[2]
  <2> DEFINE x == p[1]
             n == G.nodes[x]
  <2>1. f \in File /\ T[f] \in Contents(f)
    BY ContentsOfTrees
  <2>2. IsDeclaration(p[2]) /\ p[2].kind # "Unresolved" /\ p = <<x, p[2]>>
    BY <2>1, NamesAreDeclarations DEF IsDeclaration
  <2>3. CASE <<f>> \in DOMAIN G.nodes
    <3>1. x \in DOMAIN G.nodes /\ n = p[2]
      BY <2>3 DEF Tells, HasNames
    <3> QED BY <2>2, <3>1 DEF MergedNodes, Yields, IsDeclaration
  <2>4. CASE <<f>> \notin DOMAIN G.nodes
    <3>1. PICK i \in DOMAIN units : <<f>> \in DOMAIN units[i].nodes
      BY <1>5, <1>6, <2>4
    <3>2. pathOrder[i] = f
      BY <2>1, <3>1 DEF UnitsOf, UnitRight
    <3>3. x \in DOMAIN units[i].nodes /\ CachedNode(units, x) = p[2]
      BY <3>2, CachedName
    <3>4. CASE x \notin DOMAIN G.nodes
      BY <3>3, <3>4 DEF MergedNodes
    <3>5. CASE x \in DOMAIN G.nodes /\ n.planned
      BY <2>2, <3>3, <3>5 DEF MergedNodes, Yields, IsDeclaration
    <3>6. CASE x \in DOMAIN G.nodes /\ ~n.planned
      <4>1. RightKind(x, n.kind)
        BY <3>6 DEF Tells, RightNode
      <4>2. n.kind = p[2].kind
        BY <2>1, <4>1 DEF RightKind
      <4>3. PICK g \in Present(T) : <<x, n>> \in Names(g, T[g])
        BY <2>2, <3>6, <4>2 DEF Tells, IsDeclaration
      <4>4. g \in File /\ T[g] \in Contents(g)
        BY ContentsOfTrees
      <4> DEFINE q == <<x, n>>
      <4>5. q \in Names(g, T[g]) /\ q[1] = p[1] /\ q[2] = n
        BY <4>3
      <4> HIDE DEF q
      <4>6. p = q
        BY <2>1, <4>4, <4>5, OneOwner
      <4> QED BY <3>3, <3>6, <4>5, <4>6 DEF MergedNodes
    <3> QED BY <3>4, <3>5, <3>6
  <2> QED BY <2>3, <2>4
<1> HIDE DEF merged, modules, roots
<1>7. /\ DOMAIN nodes = DOMAIN merged \cup modules \cup roots
      /\ \A x \in DOMAIN nodes :
            \/ x \in DOMAIN merged /\ nodes[x] = merged[x]
            \/ x \in modules /\ nodes[x] = Bare("Module")
            \/ x \in roots /\ nodes[x] = Bare("Language")
      /\ \A x \in DOMAIN merged : ~merged[x].planned => nodes[x] = merged[x]
  BY DEF WithModules
<1>8. ASSUME NEW x, NoName(x), NEW kind \in {"Module", "Language"}
      PROVE  Told(x, Bare(kind))
  BY <1>8, FieldsOfANode DEF NoName, RightNode, RightKind, IsDeclaration
<1> HIDE DEF Told
<1>9. \A x \in DOMAIN nodes : Told(x, nodes[x])
  BY <1>1, <1>5, <1>7, <1>8
<1>10. ASSUME NEW f \in Present(T), <<f>> \in DOMAIN nodes, NEW p \in Names(f, T[f])
       PROVE  p[1] \in DOMAIN nodes /\ nodes[p[1]] = p[2] /\ p[2].kind # "Unresolved"
  <2>1. <<f>> \in DOMAIN merged
    BY <1>2, <1>7, <1>10 DEF Present
  <2>2. p[1] \in DOMAIN merged /\ merged[p[1]] = p[2]
    BY <1>6, <2>1
  <2>3. ~p[2].planned /\ p[2].kind # "Unresolved"
    BY ContentsOfTrees, NamesAreDeclarations DEF IsDeclaration
  <2> QED BY <1>7, <2>2, <2>3
<1> HIDE DEF nodes
<1>11. PICK edges : W = Resolved([nodes |-> nodes, edges |-> edges])
  BY DEF WithCached, nodes, merged, modules, roots
<1>12. /\ DOMAIN W.nodes \subseteq DOMAIN nodes
       /\ \A x \in DOMAIN nodes : nodes[x].kind # "Unresolved" => x \in DOMAIN W.nodes
       /\ \A x \in DOMAIN W.nodes : W.nodes[x] = nodes[x]
  BY <1>11 DEF Resolved
<1> HIDE DEF W
<1>13. \A x \in DOMAIN W.nodes : Told(x, W.nodes[x])
  BY <1>9, <1>12
<1>14. \A f \in Present(T) : <<f>> \in DOMAIN W.nodes => HasNames(W.nodes, f, T[f])
  BY <1>10, <1>12 DEF HasNames
<1>15. Tells(W, T)
  BY <1>13, <1>14 DEF Tells, Told
<1> QED BY <1>15 DEF W

LEMMA FinalizedTells ==
    ASSUME NEW T, NEW G, Tells(G, T)
    PROVE  Tells(Finalized(G), T)
BY FinalizedNodes DEF Tells

-----------------------------------------------------------------------------
(* What a database tells                                                     *)

\* Right rows, no declaration the tree lacks and every one it has, but for the
\* languages a fault has spoilt.
DbTells(D, T, hurt) ==
    /\ \A k \in DOMAIN D.rows :
          /\ k = <<k[1], k[2]>> /\ D.rows[k].kind = k[1] /\ RightNode(k[2], D.rows[k])
          /\ IsDeclaration(D.rows[k]) => \E f \in File : \E c \in Contents(f) :
                /\ <<k[2], D.rows[k]>> \in Names(f, c)
                /\ langOf[f] \notin hurt => f \in Present(T) /\ c = T[f]
    /\ \A f \in Present(T) : langOf[f] \notin hurt => \A p \in Names(f, T[f]) :
          LET k == <<p[2].kind, p[1]>> IN k \in DOMAIN D.rows /\ D.rows[k] = p[2]

LEMMA RowsLoaded ==
    ASSUME NEW G
    PROVE  /\ DOMAIN Loaded(G).rows = {Row(G, x) : x \in DOMAIN G.nodes}
           /\ \A x \in DOMAIN G.nodes : Loaded(G).rows[Row(G, x)] = G.nodes[x]
<1> DEFINE pairs == {<<Row(G, x), G.nodes[x]>> : x \in DOMAIN G.nodes}
<1>1. Loaded(G).rows = AsFunction(pairs)
  BY DEF Loaded
<1>2. \A p \in pairs : \E x \in DOMAIN G.nodes : p[1] = Row(G, x) /\ p[2] = G.nodes[x]
  OBVIOUS
<1>3. \A x \in DOMAIN G.nodes : \E p \in pairs : p[1] = Row(G, x)
  <2> SUFFICES ASSUME NEW x \in DOMAIN G.nodes PROVE \E p \in pairs : p[1] = Row(G, x)
    OBVIOUS
  <2>1. <<Row(G, x), G.nodes[x]>> \in pairs
    OBVIOUS
  <2>2. <<Row(G, x), G.nodes[x]>>[1] = Row(G, x)
    OBVIOUS
  <2> HIDE DEF pairs
  <2> QED BY <2>1, <2>2
<1> HIDE DEF pairs
<1>4. \A k : k \in DOMAIN AsFunction(pairs) <=> \E p \in pairs : p[1] = k
  BY DEF AsFunction
<1>5. ASSUME NEW x \in DOMAIN G.nodes PROVE AsFunction(pairs)[Row(G, x)] = G.nodes[x]
  <2>1. PICK p \in pairs : p[1] = Row(G, x) /\ AsFunction(pairs)[Row(G, x)] = p[2]
    BY <1>3, <1>4, DescribedByPairs
  <2>2. PICK y \in DOMAIN G.nodes : p[1] = Row(G, y) /\ p[2] = G.nodes[y]
    BY <1>2
  <2>3. x = y
    BY <2>1, <2>2 DEF Row
  <2> QED BY <2>1, <2>2, <2>3
<1>6. DOMAIN AsFunction(pairs) = {Row(G, x) : x \in DOMAIN G.nodes}
  <2>1. \A k : k \in DOMAIN AsFunction(pairs) <=> \E x \in DOMAIN G.nodes : k = Row(G, x)
    BY <1>2, <1>3, <1>4
  <2> HIDE DEF Row
  <2> QED BY <2>1
<1> QED BY <1>1, <1>5, <1>6

LEMMA LoadedTells ==
    ASSUME OwnNames, NEW T \in Trees, NEW G, Tells(G, T), NEW hurt,
           \A f \in Present(T) : langOf[f] \notin hurt => <<f>> \in DOMAIN G.nodes
    PROVE  DbTells(Loaded(G), T, hurt)
<1> DEFINE rows == Loaded(G).rows
<1>1. /\ DOMAIN rows = {Row(G, x) : x \in DOMAIN G.nodes}
      /\ \A x \in DOMAIN G.nodes : rows[Row(G, x)] = G.nodes[x]
  BY RowsLoaded
<1> HIDE DEF rows
<1>2. ASSUME NEW x \in DOMAIN G.nodes, NEW k, k = Row(G, x)
      PROVE  /\ k = <<k[1], k[2]>> /\ k[2] = x /\ rows[k].kind = k[1] /\ RightNode(k[2], rows[k])
             /\ IsDeclaration(rows[k]) => \E f \in File : \E c \in Contents(f) :
                   /\ <<k[2], rows[k]>> \in Names(f, c)
                   /\ langOf[f] \notin hurt => f \in Present(T) /\ c = T[f]
  <2>1. k = <<k[1], k[2]>> /\ k[2] = x /\ rows[k] = G.nodes[x] /\ rows[k].kind = k[1]
    BY <1>1, <1>2 DEF Row
  <2>2. RightNode(x, G.nodes[x])
    BY DEF Tells
  <2>3. IsDeclaration(G.nodes[x]) => \E f \in Present(T) : <<x, G.nodes[x]>> \in Names(f, T[f])
    BY DEF Tells
  <2> QED BY <2>1, <2>2, <2>3, ContentsOfTrees
<1>3. ASSUME NEW f \in Present(T), langOf[f] \notin hurt, NEW p \in Names(f, T[f])
      PROVE  <<p[2].kind, p[1]>> \in DOMAIN rows /\ rows[<<p[2].kind, p[1]>>] = p[2]
  <2>1. p[1] \in DOMAIN G.nodes /\ G.nodes[p[1]] = p[2]
    BY <1>3 DEF Tells, HasNames
  <2>2. Row(G, p[1]) = <<p[2].kind, p[1]>>
    BY <2>1 DEF Row
  <2> QED BY <1>1, <2>1, <2>2
<1> QED BY <1>1, <1>2, <1>3 DEF DbTells, rows

\* What a rebuild of a tree puts in a database.
LEMMA RebuildTells ==
    ASSUME OwnNames, NEW T \in Trees
    PROVE  DbTells(Rebuild(T), T, {})
<1> DEFINE spools == [l \in Language |-> Stream(T, l, File)]
           S == Joined(spools)
           files == {r.path : r \in S.files}
<1>1. /\ OfTree(spools, T)
      /\ \A l \in DOMAIN spools : l \in Language /\ \E emitted : spools[l] = Stream(T, l, emitted)
  BY DEF OfTree
<1>2. WholeStream(T) = S
  BY DEF WholeStream
<1>3. ASSUME NEW f \in Present(T) PROVE <<f>> \in DOMAIN Ingested(S).nodes
  <2>1. langOf[f] \in Language /\ f \in File
    BY LanguagesOfFiles DEF Present
  <2>2. spools[langOf[f]] = Stream(T, langOf[f], File) /\ langOf[f] \in DOMAIN spools
    BY <2>1
  <2> HIDE DEF spools
  <2>3. Real(Ingested(Joined(spools)), <<f>>)
    BY <2>1, <2>2, EmittedFile
  <2> QED BY <2>3 DEF Real
<1> HIDE DEF spools
<1>4. TreeStream(S, T, files)
  BY <1>1, JoinedIsOfTree
<1>5. Modest(S, T)
  BY <1>1, JoinedIsModest
<1> HIDE DEF S, files
<1>6. Tells(Ingested(S), T)
  BY <1>4, <1>5, IngestedTells
<1>7. /\ Tells(Finalized(Ingested(S)), T)
      /\ \A f \in Present(T) : <<f>> \in DOMAIN Finalized(Ingested(S)).nodes
  BY <1>3, <1>6, FinalizedTells, FinalizedNodes
<1> QED BY <1>2, <1>7, LoadedTells DEF Rebuild

\* A splice brings the declarations of its targets up to date, deletes none that
\* another file has, and leaves those of the others as the seed has them.
LEMMA AppliedTells ==
    ASSUME OwnNames, NEW T \in Trees, NEW T0, NEW D, NEW G, NEW hurt, NEW spoilt,
           NEW targets \in SUBSET File, NEW removed, Tells(G, T), DbTells(D, T0, spoilt),
           \A x \in removed : \E f \in File \ Present(T) : x \in NamesOf(f),
           \A f \in File : langOf[f] \notin hurt =>
              /\ T[f] # Missing => <<f>> \in DOMAIN G.nodes
              /\ f \notin targets => T0[f] = T[f]
    PROVE  DbTells(Applied(D, G, targets, removed), T, hurt \cup spoilt)
<1> DEFINE delta    == {Row(G, x) : x \in DeltaNodes(D, G, targets)}
           gone     == Disappearing(D, G, targets, removed)
           merged   == MergedRels(D, G, targets, removed)
           targeted == {r[3] : r \in {x \in merged : x[1] \in {"UnresolvedCall", "UnresolvedUse"}}}
           rows     == (DOMAIN D.rows \cup delta \cup targeted) \ gone
           A        == Applied(D, G, targets, removed)
           Told(k, row) ==
              /\ k = <<k[1], k[2]>> /\ row.kind = k[1] /\ RightNode(k[2], row)
              /\ IsDeclaration(row) => \E f \in File : \E c \in Contents(f) :
                    /\ <<k[2], row>> \in Names(f, c)
                    /\ langOf[f] \notin hurt \cup spoilt => f \in Present(T) /\ c = T[f]
<1>1. PICK named : A.rows = [k \in {y \in rows : y[1] # "Unresolved" \/ y \in named} |->
                              IF k \in delta \cup targeted THEN Upserted(D, G.nodes[k[2]], k) ELSE D.rows[k]]
  BY DEF Applied
<1>2. None \notin targets
  BY NamesAssumption
<1>3. ASSUME NEW k \in targeted
      PROVE  k[1] = "Unresolved" /\ \E x \in DOMAIN G.nodes : k = Row(G, x)
  <2>1. PICK r \in merged : r[1] \in {"UnresolvedCall", "UnresolvedUse"} /\ k = r[3]
    OBVIOUS
  <2>2. /\ ValidPair(r[1], r[2][1], r[3][1])
        /\ \E e \in G.edges : \E a \in LabelledEnd(D, G, e[2]), b \in LabelledEnd(D, G, e[3]) :
              r = <<e[1], a, b>>
    BY DEF MergedRels
  <2>3. k[1] = "Unresolved"
    BY <2>1, <2>2 DEF ValidPair
  <2>4. \E x : k \in LabelledEnd(D, G, x)
    BY <2>1, <2>2
  <2> QED BY <2>3, <2>4 DEF LabelledEnd
<1>4. ASSUME NEW k \in delta
      PROVE  /\ k[2] \in DeltaNodes(D, G, targets) /\ k[2] \in DOMAIN G.nodes /\ k = Row(G, k[2])
             /\ G.nodes[k[2]].kind \in {"Struct", "Function"} => ~G.nodes[k[2]].planned
  <2>1. PICK x \in DeltaNodes(D, G, targets) : k = Row(G, x)
    OBVIOUS
  <2>2. k[2] = x /\ x \in DOMAIN G.nodes
    BY <2>1 DEF Row, DeltaNodes
  <2>3. G.nodes[x].kind \in {"Struct", "Function"} => G.nodes[x].path \in targets \/ ~G.nodes[x].planned
    BY <2>1 DEF DeltaNodes, Heals
  <2>4. G.nodes[x].planned => G.nodes[x].path = None
    BY <2>2 DEF Tells, RightNode
  <2> QED BY <1>2, <2>1, <2>2, <2>3, <2>4
<1>5. ASSUME NEW x \in DOMAIN G.nodes, NEW k, k = Row(G, x)
      PROVE  /\ k = <<k[1], k[2]>> /\ k[2] = x
             /\ Upserted(D, G.nodes[x], k).kind = k[1] /\ RightNode(x, Upserted(D, G.nodes[x], k))
             /\ ~G.nodes[x].planned => Upserted(D, G.nodes[x], k) = G.nodes[x]
  <2> DEFINE n == G.nodes[x]
             m == [n EXCEPT !.planned = FALSE]
  <2>1. k = <<k[1], k[2]>> /\ k[2] = x /\ k[1] = n.kind
    BY <1>5 DEF Row
  <2>2. RightNode(x, n)
    BY DEF Tells
  <2>3. m.kind = n.kind /\ (~m.planned \/ m = n)
    OBVIOUS
  <2>4. RightNode(x, m)
    BY <2>2, <2>3 DEF RightNode
  <2>5. Upserted(D, n, k) \in {n, m} /\ (~n.planned => Upserted(D, n, k) = n)
    BY DEF Upserted
  <2> HIDE DEF m
  <2> QED BY <2>1, <2>2, <2>3, <2>4, <2>5
<1>6. ASSUME NEW x \in DOMAIN G.nodes, IsDeclaration(G.nodes[x])
      PROVE  \E f \in File : \E c \in Contents(f) :
                 <<x, G.nodes[x]>> \in Names(f, c) /\ f \in Present(T) /\ c = T[f]
  BY <1>6, ContentsOfTrees DEF Tells
<1>7. ASSUME NEW k \in delta \cup targeted
      PROVE  Told(k, Upserted(D, G.nodes[k[2]], k))
  <2> DEFINE x == k[2]
             n == G.nodes[x]
  <2>1. x \in DOMAIN G.nodes /\ k = Row(G, x)
    BY <1>3, <1>4 DEF Row
  <2>2. n.kind \in {"Struct", "Function"} => ~n.planned
    <3>1. k[1] = n.kind
      BY <2>1 DEF Row
    <3> QED BY <1>3, <1>4, <3>1
  <2>3. /\ k = <<k[1], k[2]>> /\ Upserted(D, n, k).kind = k[1] /\ RightNode(x, Upserted(D, n, k))
        /\ k[1] = n.kind
        /\ ~n.planned => Upserted(D, n, k) = n
    BY <1>5, <2>1 DEF Row
  <2>4. IsDeclaration(Upserted(D, n, k)) => Upserted(D, n, k) = n
    BY <2>2, <2>3 DEF IsDeclaration
  <2> QED BY <1>6, <2>1, <2>3, <2>4
<1>8. ASSUME NEW k \in DOMAIN D.rows
      PROVE  /\ k = <<k[1], k[2]>> /\ D.rows[k].kind = k[1] /\ RightNode(k[2], D.rows[k])
             /\ IsDeclaration(D.rows[k]) => \E f \in File : \E c \in Contents(f) :
                   /\ <<k[2], D.rows[k]>> \in Names(f, c)
                   /\ langOf[f] \notin spoilt => f \in Present(T0) /\ c = T0[f]
  BY DEF DbTells
<1>9. ASSUME NEW k \in DOMAIN D.rows, k \notin delta, k \notin gone
      PROVE  Told(k, D.rows[k])
  <2> DEFINE row == D.rows[k]
             x == k[2]
  <2> SUFFICES ASSUME IsDeclaration(row)
               PROVE  \E f \in File : \E c \in Contents(f) :
                         /\ <<x, row>> \in Names(f, c)
                         /\ langOf[f] \notin hurt \cup spoilt => f \in Present(T) /\ c = T[f]
    BY <1>8
  <2>0. PICK f \in File : \E c \in Contents(f) :
           /\ <<x, row>> \in Names(f, c)
           /\ langOf[f] \notin spoilt => f \in Present(T0) /\ c = T0[f]
    BY <1>8
  <2>1. PICK c \in Contents(f) :
           /\ <<x, row>> \in Names(f, c)
           /\ langOf[f] \notin spoilt => f \in Present(T0) /\ c = T0[f]
    BY <2>0
  <2>2. ASSUME langOf[f] \notin hurt \cup spoilt PROVE f \in Present(T) /\ c = T[f]
    <3>1. CASE f \notin targets
      BY <2>1, <2>2, <3>1 DEF Present
    <3>2. CASE f \in targets
      <4> DEFINE p == <<x, row>>
      <4>1. p \in Names(f, c) /\ p[1] = x /\ p[2] = row
        BY <2>1
      <4> HIDE DEF p
      <4>2. row.path = f /\ k[1] \in {"Struct", "Function"} /\ k[1] = row.kind
        BY <1>8, <4>1, NamesAreDeclarations DEF IsDeclaration
      <4>3. k \in DeleteScope(D, targets, removed)
        BY <3>2, <4>2 DEF DeleteScope
      <4>4. x \in DeltaNodes(D, G, targets)
        BY <1>9, <4>3 DEF Disappearing
      <4>5. x \in DOMAIN G.nodes
        BY <4>4 DEF DeltaNodes
      <4>6. RightKind(x, G.nodes[x].kind)
        BY <4>5 DEF Tells, RightNode
      <4>7. G.nodes[x].kind = k[1]
        BY <4>1, <4>2, <4>6 DEF RightKind
      <4>8. k = Row(G, x)
        BY <1>8, <4>7 DEF Row
      <4> QED BY <1>9, <4>4, <4>8
    <3> QED BY <3>1, <3>2
  <2> QED BY <2>1, <2>2
<1>10. ASSUME NEW f \in Present(T), langOf[f] \notin hurt \cup spoilt, NEW p \in Names(f, T[f]),
              NEW k, k = <<p[2].kind, p[1]>>
       PROVE  /\ k \in rows /\ k[1] # "Unresolved"
              /\ k \in delta \cup targeted => Upserted(D, G.nodes[k[2]], k) = p[2]
              /\ k \notin delta \cup targeted => D.rows[k] = p[2]
  <2>1. f \in File /\ T[f] \in Contents(f) /\ T[f] # Missing
    BY ContentsOfTrees DEF Present
  <2>2. /\ p[2].kind \in {"Struct", "Function"} /\ ~p[2].planned /\ p[2].path = f
        /\ p = <<p[1], p[2]>> /\ k[2] = p[1] /\ k[1] = p[2].kind
    BY <1>10, <2>1, NamesAreDeclarations DEF IsDeclaration
  <2>3. k \notin targeted /\ k[1] # "Unresolved"
    <3>1. k[1] # "Unresolved"
      BY <2>2
    <3> QED BY <1>3, <3>1
  <2>4. ASSUME k \in delta PROVE G.nodes[p[1]] = p[2]
    <3> DEFINE n == G.nodes[p[1]]
    <3>1. p[1] \in DOMAIN G.nodes /\ k = Row(G, p[1]) /\ (n.kind \in {"Struct", "Function"} => ~n.planned)
      BY <1>4, <2>2, <2>4
    <3>2. n.kind = p[2].kind
      BY <2>2, <3>1 DEF Row
    <3>3. PICK g \in File : \E c \in Contents(g) : <<p[1], n>> \in Names(g, c) /\ g \in Present(T) /\ c = T[g]
      BY <1>6, <2>2, <3>1, <3>2 DEF IsDeclaration
    <3> DEFINE q == <<p[1], n>>
    <3>4. q \in Names(g, T[g]) /\ T[g] \in Contents(g) /\ q[1] = p[1] /\ q[2] = n
      BY <3>3
    <3> HIDE DEF q, n
    <3>5. p = q
      BY <2>1, <3>4, OneOwner
    <3> QED BY <3>4, <3>5 DEF n
  <2>5. k \in delta => Upserted(D, G.nodes[k[2]], k) = p[2]
    BY <2>2, <2>4 DEF Upserted
  <2>6. CASE f \in targets
    <3>1. <<f>> \in DOMAIN G.nodes
      BY <1>10, <2>1
    <3>2. p[1] \in DOMAIN G.nodes /\ G.nodes[p[1]] = p[2]
      BY <3>1 DEF Tells, HasNames
    <3>3. p[1] \in DeltaNodes(D, G, targets)
      BY <2>2, <2>6, <3>2 DEF DeltaNodes
    <3>4. k = Row(G, p[1])
      BY <1>10, <3>2 DEF Row
    <3>5. k \in delta
      BY <3>3, <3>4
    <3>6. k \notin gone
      BY <2>2, <3>3 DEF Disappearing
    <3> HIDE DEF delta, gone, targeted
    <3> QED BY <2>3, <2>5, <3>5, <3>6
  <2>7. CASE f \notin targets
    <3>1. T0[f] = T[f] /\ f \in Present(T0)
      BY <1>10, <2>1, <2>7 DEF Present
    <3>2. k \in DOMAIN D.rows /\ D.rows[k] = p[2]
      BY <1>10, <3>1 DEF DbTells
    <3>3. k[2] \notin removed
      <4> SUFFICES ASSUME NEW g \in File \ Present(T), p[1] \in NamesOf(g) PROVE FALSE
        BY <2>2
      <4>1. PICK c \in Contents(g) : \E q \in Names(g, c) : q[1] = p[1]
        BY DEF NamesOf
      <4> QED BY <2>1, <4>1, OneOwner
    <3>4. k \notin DeleteScope(D, targets, removed)
      BY <2>2, <2>7, <3>2, <3>3 DEF DeleteScope
    <3>5. k \notin gone
      BY <3>4 DEF Disappearing
    <3> HIDE DEF delta, gone, targeted
    <3> QED BY <2>3, <2>5, <3>2, <3>5
  <2> QED BY <2>6, <2>7
<1> HIDE DEF A, delta, gone, merged, targeted, Told
<1>11. ASSUME NEW k \in DOMAIN A.rows PROVE Told(k, A.rows[k])
  <2>1. k \in rows /\ A.rows[k] = IF k \in delta \cup targeted THEN Upserted(D, G.nodes[k[2]], k) ELSE D.rows[k]
    BY <1>1
  <2> QED BY <1>7, <1>9, <2>1
<1>12. ASSUME NEW f \in Present(T), langOf[f] \notin hurt \cup spoilt, NEW p \in Names(f, T[f]),
              NEW k, k = <<p[2].kind, p[1]>>
       PROVE  k \in DOMAIN A.rows /\ A.rows[k] = p[2]
  <2>1. /\ k \in rows /\ k[1] # "Unresolved"
        /\ k \in delta \cup targeted => Upserted(D, G.nodes[k[2]], k) = p[2]
        /\ k \notin delta \cup targeted => D.rows[k] = p[2]
    BY <1>10, <1>12
  <2> HIDE DEF rows
  <2> QED BY <1>1, <2>1
<1> QED BY <1>11, <1>12 DEF DbTells, A, Told

-----------------------------------------------------------------------------
(* The declarations of the store, the scans and the databases                *)

StoreDecls ==
    /\ UnitsTell(index.units)
    /\ \A l \in Language : ScaffoldingTells(index.scaffolding[l])
    /\ \A f \in File : \A s \in state.signatures[f] : s[2] \in NamesOf(f)
    /\ state.deps \subseteq File \X File

JobDecls(w) ==
    /\ Tells(job[w].graph, tree[w])
    /\ UnitsTell(job[w].held)
    /\ job[w].targets \subseteq File
    /\ \A x \in job[w].removed : \E f \in File \ Present(tree[w]) : x \in NamesOf(f)

DbDecls(w) == db[w] # None => DbTells(db[w].graph, db[w].key.tree, db[w].hurt)

DeclsInv == FilesInv /\ StoreDecls /\ \A w \in Worktree : JobDecls(w) /\ DbDecls(w)

\* What a scan that has done nothing yet holds.
LEMMA NothingTells ==
    ASSUME NEW j, j.graph = EmptyGraph, j.held = << >>, j.targets = {}, j.removed = {}
    PROVE  \A T : /\ Tells(j.graph, T) /\ UnitsTell(j.held) /\ j.targets \subseteq File
                  /\ \A x \in j.removed : \E f \in File \ Present(T) : x \in NamesOf(f)
<1>1. EmptyGraph.nodes = << >> /\ DOMAIN << >> = {}
  BY DEF EmptyGraph
<1> QED BY <1>1 DEF Tells, UnitsTell

LEMMA NoJobTells ==
    /\ NoJob.graph = EmptyGraph /\ NoJob.held = << >> /\ NoJob.targets = {} /\ NoJob.removed = {}
BY DEF NoJob

\* A step of w, by what it leaves of the store, of its job and of its database.
LEMMA DeclsStep ==
    ASSUME DeclsInv, FilesInv', NEW w \in Worktree, Apart(w),
           \A v \in Worktree \ {w} : db'[v] = db[v],
           StoreDecls', JobDecls(w)', DbDecls(w)'
    PROVE  DeclsInv'
<1>1. ASSUME NEW v \in Worktree \ {w} PROVE JobDecls(v)' /\ DbDecls(v)'
  <2>1. /\ job'[v] = job[v] /\ tree'[v] = tree[v] /\ db'[v] = db[v]
        /\ JobDecls(v) /\ DbDecls(v)
    BY DEF Apart, DeclsInv
  <2> QED BY <2>1 DEF JobDecls, DbDecls
<1> QED BY <1>1 DEF DeclsInv

\* One that writes neither the store nor a database.
LEMMA JobDeclsStep ==
    ASSUME DeclsInv, FilesInv', NEW w \in Worktree, Apart(w), UNCHANGED <<index, state, db>>, JobDecls(w)'
    PROVE  DeclsInv'
BY DeclsStep DEF DeclsInv, StoreDecls, DbDecls

\* Nor anything of the job these are about.
LEMMA SameJobDecls ==
    ASSUME DeclsInv, FilesInv', NEW w \in Worktree, Apart(w), UNCHANGED <<index, state, db>>,
           job'[w].graph = job[w].graph, job'[w].held = job[w].held,
           job'[w].targets \subseteq File, job'[w].removed \in {job[w].removed, {}}
    PROVE  DeclsInv'
<1>1. tree'[w] = tree[w] /\ JobDecls(w)
  BY DEF Apart, DeclsInv
<1>2. JobDecls(w)'
  BY <1>1 DEF JobDecls
<1> QED BY <1>2, JobDeclsStep

LEMMA StartDecls ==
    ASSUME DeclsInv, FilesInv', NEW w \in Worktree, Start(w) \/ StartForced(w)
    PROVE  DeclsInv'
<1> DEFINE probe == [NoJob EXCEPT !.key = Key(w)]
           emit  == [NoJob EXCEPT !.key = Key(w), !.full = TRUE, !.manifest = tree[w]]
<1>1. \/ At(w, "idle", "probe") /\ job' = [job EXCEPT ![w] = probe] /\ UNCHANGED db
      \/ At(w, "idle", "emit") /\ job' = [job EXCEPT ![w] = emit] /\ db' = [db EXCEPT ![w] = None]
  BY DEF Start, StartForced, Takes
<1>2. UNCHANGED <<head, tree, index, state>>
  BY DEF Start, StartForced, Takes, repo, store
<1>3. IInv /\ DOMAIN db = Worktree
  BY DEF DeclsInv, FilesInv, UnitsInv, IInv, DbsOK
<1>4. \A j \in {probe, emit} : /\ j.graph = EmptyGraph /\ j.held = << >>
                               /\ j.targets = {} /\ j.removed = {}
  BY NoJobTells DEF NoJob
<1> HIDE DEF probe, emit
<1>5. Apart(w) /\ job'[w] \in {probe, emit}
  BY <1>1, <1>2, <1>3, StepApart DEF Steps, Before
<1>6. JobDecls(w)'
  BY <1>4, <1>5, NothingTells DEF JobDecls
<1>7. DbDecls(w)' /\ \A v \in Worktree \ {w} : db'[v] = db[v]
  BY <1>1, <1>3 DEF DbDecls, DeclsInv
<1>8. StoreDecls'
  BY <1>2 DEF DeclsInv, StoreDecls
<1> QED BY <1>5, <1>6, <1>7, <1>8, DeclsStep

LEMMA ProbeDecls ==
    ASSUME DeclsInv, FilesInv', OwnNames, NEW w \in Worktree, Probe(w) \/ ReadRecordedKey(w)
    PROVE  DeclsInv'
<1>1. JobOK(w) /\ JobDecls(w) /\ DOMAIN job = Worktree /\ pc \in [Worktree -> Steps]
  BY DEF DeclsInv, FilesInv, UnitsInv, IInv, JobsOK
<1>2. UNCHANGED <<head, tree, index, state, db>>
  BY DEF Probe, ReadRecordedKey, StepKeeps, repo, store
<1> DEFINE Same == /\ job'[w].graph = job[w].graph /\ job'[w].held = job[w].held
                   /\ job'[w].targets = job[w].targets /\ job'[w].removed = job[w].removed
<1>3. CASE At(w, "probe", "assemble")
           /\ job' = [job EXCEPT ![w].warm = TRUE, ![w].recorded = scan.key,
                         ![w].manifest = scan.manifest, ![w].candidates = Present(scan.manifest),
                         ![w].graph = Ingested(Joined(<< >>))]
  <2>1. Apart(w)
    BY <1>1, <1>2, <1>3 DEF Apart, At
  <2>2. /\ job'[w].graph = Ingested(Joined(<< >>)) /\ job'[w].held = job[w].held
        /\ job'[w].targets = job[w].targets /\ job'[w].removed = job[w].removed
    BY <1>1, <1>3 DEF JobOK, JobFields
  <2>3. Tells(job'[w].graph, tree[w])
    <3>1. tree[w] \in Trees
      BY DEF DeclsInv, FilesInv, UnitsInv, IInv, RepoOK
    <3>2. OfTree(<< >>, tree[w])
      BY DEF OfTree
    <3> DEFINE S == Joined(<< >>)
    <3>3. TreeStream(S, tree[w], {r.path : r \in S.files}) /\ Modest(S, tree[w])
      BY <3>1, <3>2, JoinedIsOfTree, JoinedIsModest
    <3> HIDE DEF S
    <3>4. Tells(Ingested(S), tree[w])
      BY <3>1, <3>3, IngestedTells
    <3> QED BY <2>2, <3>4 DEF S
  <2>4. JobDecls(w)'
    BY <1>1, <2>1, <2>2, <2>3 DEF JobDecls, Apart
  <2> QED BY <1>2, <2>1, <2>4, JobDeclsStep
<1>4. CASE At(w, "probe", "recorded") /\ UNCHANGED job
  <2>1. Apart(w) /\ Same
    BY <1>1, <1>2, <1>4 DEF Apart, At
  <2> QED BY <1>1, <1>2, <2>1, SameJobDecls DEF JobDecls
<1>5. CASE At(w, "recorded", "plan")
           /\ job' = [job EXCEPT ![w].recorded = IF scan = None THEN None ELSE scan.key]
  <2>1. Apart(w)
    BY <1>1, <1>2, <1>5 DEF Apart, At
  <2>2. Same
    BY <1>1, <1>5 DEF JobOK, JobFields
  <2> QED BY <1>1, <1>2, <2>1, <2>2, SameJobDecls DEF JobDecls
<1> QED BY <1>3, <1>4, <1>5 DEF Probe, ReadRecordedKey

LEMMA FullDecls ==
    ASSUME DeclsInv, FilesInv', NEW w \in Worktree, NEW here, At(w, here, "emit"), GoesFull(w),
           UNCHANGED <<head, tree, index, state, db>>
    PROVE  DeclsInv'
<1>1. JobOK(w) /\ DOMAIN job = Worktree /\ pc \in [Worktree -> Steps]
  BY DEF DeclsInv, FilesInv, UnitsInv, IInv, JobsOK
<1>2. Apart(w)
  BY <1>1 DEF Apart, At, GoesFull
<1>3. /\ job'[w].graph = job[w].graph /\ job'[w].held = job[w].held
      /\ job'[w].targets = {} /\ job'[w].removed = {}
  BY <1>1 DEF GoesFull, JobOK, JobFields
<1> QED BY <1>2, <1>3, SameJobDecls

LEMMA PlanDecls ==
    ASSUME DeclsInv, FilesInv', NEW w \in Worktree, Plan(w)
    PROVE  DeclsInv'
<1>1. JobOK(w) /\ DOMAIN job = Worktree /\ pc \in [Worktree -> Steps]
  BY DEF DeclsInv, FilesInv, UnitsInv, IInv, JobsOK
<1>2. UNCHANGED <<head, tree, index, state, db>>
  BY DEF Plan, StepKeeps, repo, store
<1>3. CASE At(w, "plan", "emit") /\ GoesFull(w)
  BY <1>2, <1>3, FullDecls
<1>4. CASE /\ At(w, "plan", "diff")
           /\ job' = [job EXCEPT ![w].manifest = tree[w],
                 ![w].targets = IF scan.sha = head[w] THEN {} ELSE GitDelta(w, scan.sha)]
  <2>1. Apart(w)
    BY <1>1, <1>2, <1>4 DEF Apart, At
  <2>2. /\ job'[w].targets = IF scan.sha = head[w] THEN {} ELSE GitDelta(w, scan.sha)
        /\ job'[w].graph = job[w].graph /\ job'[w].held = job[w].held
        /\ job'[w].removed = job[w].removed
    BY <1>1, <1>4 DEF JobOK, JobFields
  <2>3. job'[w].targets \subseteq File
    BY <2>2 DEF GitDelta
  <2> QED BY <1>2, <2>1, <2>2, <2>3, SameJobDecls
<1> QED BY <1>3, <1>4 DEF Plan

\* What is deleted as removed was signed by a file that is gone.
LEMMA DiffDecls ==
    ASSUME DeclsInv, FilesInv', NEW w \in Worktree, Diff(w)
    PROVE  DeclsInv'
<1>1. /\ JobOK(w) /\ DOMAIN job = Worktree /\ pc \in [Worktree -> Steps]
      /\ JobDecls(w) /\ StoreDecls
  BY DEF DeclsInv, FilesInv, UnitsInv, IInv, JobsOK
<1>2. UNCHANGED <<head, tree, index, state, db>> /\ At(w, "diff", "emit")
  BY DEF Diff, StepKeeps, repo, store
<1>3. CASE GoesFull(w)
  BY <1>2, <1>3, FullDecls
<1>4. CASE job' = [job EXCEPT ![w].targets = Stage1(w), ![w].removed = RemovedFqns(w),
                              ![w].candidates = Reusable(w, Stage1(w))]
  <2>1. Apart(w)
    BY <1>1, <1>2, <1>4 DEF Apart, At
  <2>2. /\ job'[w].targets = Stage1(w) /\ job'[w].removed = RemovedFqns(w)
        /\ job'[w].graph = job[w].graph /\ job'[w].held = job[w].held
    BY <1>1, <1>4 DEF JobOK, JobFields
  <2>3. Stage1(w) \subseteq File
    BY <1>1 DEF JobDecls, Stage1, ManifestDelta, Peers
  <2>4. \A x \in RemovedFqns(w) : \E f \in File \ Present(tree[w]) : x \in NamesOf(f)
    BY <1>1, <2>3 DEF RemovedFqns, StoreDecls
  <2>5. JobDecls(w)'
    BY <1>1, <1>2, <2>2, <2>3, <2>4 DEF JobDecls, Present
  <2> QED BY <1>2, <2>1, <2>5, JobDeclsStep
<1> QED BY <1>3, <1>4 DEF Diff

\* There are as many files as paths; what a change reaches is a file.
LEMMA FilesAreFinite == IsFiniteSet(File)
<1> DEFINE I == DOMAIN pathOrder
           P == {pathOrder[i] : i \in I}
<1>1. IsFiniteSet(I)
  <2>1. I = 1..Len(pathOrder) /\ Len(pathOrder) \in Nat
    BY NamesAssumption, LenProperties
  <2> QED BY <2>1, FS_Interval
<1> HIDE DEF I
<1>2. IsFiniteSet(P)
  <2> DEFINE h == [i \in I |-> pathOrder[i]]
  <2>1. h \in Surjection(I, P)
    BY DEF Surjection
  <2> HIDE DEF h, P
  <2> QED BY <1>1, <2>1, FS_Surjection
<1>3. File \subseteq P
  BY StoreAssumption DEF I
<1> QED BY <1>2, <1>3, FS_Subset

LEMMA CascadeIsOfFiles ==
    ASSUME state.deps \subseteq File \X File, NEW stage1 \in SUBSET File, NEW G
    PROVE  Cascade(stage1, G) \subseteq File
<1> DEFINE R == {<<d[2], d[1]>> : d \in state.deps}
           S == {f \in stage1 : state.signatures[f] # SignaturesOf(G, f)}
<1>1. IsFiniteSet(R)
  <2>1. R \subseteq File \X File
    OBVIOUS
  <2> QED BY <2>1, FilesAreFinite, FS_Product, FS_Subset
<1>2. \A p \in R : p[2] \in File
  OBVIOUS
<1>3. S \subseteq File
  OBVIOUS
<1>4. Cascade(stage1, G) = Reach(R, S) \ stage1
  BY DEF Cascade, ReverseClosure
<1> HIDE DEF R, S
<1> QED BY <1>1, <1>2, <1>3, <1>4, ReachWithin

\* The second pass is of the same tree.
LEMMA EmitFactsDecls ==
    ASSUME DeclsInv, FilesInv', OwnNames, NEW w \in Worktree, EmitFacts(w)
    PROVE  DeclsInv'
<1>1. UNCHANGED <<head, tree, index, state, db>> /\ At(w, "emit", "assemble")
  BY DEF EmitFacts, Emits, repo, store
<1>2. /\ JobOK(w) /\ DOMAIN job = Worktree /\ JobDecls(w) /\ tree[w] \in Trees
      /\ state.deps \subseteq File \X File
  BY DEF DeclsInv, StoreDecls, FilesInv, UnitsInv, IInv, JobsOK, RepoOK
<1> DEFINE stage1 == job[w].targets
           First(failed) == Spools(w, stage1, failed)
           Extra(failed) == IF job[w].full THEN {} ELSE Cascade(stage1, Ingested(Joined(First(failed))))
           All(one, two) == IF Extra(one) = {} THEN First(one)
                            ELSE SecondPass(w, First(one), stage1 \cup Extra(one), two)
<1>3. PICK one \in SUBSET Language, two \in SUBSET Language :
        job' = [job EXCEPT ![w].targets = stage1 \cup Extra(one),
                           ![w].candidates = @ \ (stage1 \cup Extra(one)),
                           ![w].graph = Ingested(Joined(All(one, two))),
                           ![w].hurt = one \cup two]
  BY DEF EmitFacts, Emits
<1> DEFINE targets == stage1 \cup Extra(one)
           spools  == All(one, two)
           S       == Joined(spools)
           files   == {r.path : r \in S.files}
<1>4. OfTree(spools, tree[w])
  <2>1. ASSUME NEW asked, NEW failed, NEW l \in DOMAIN Spools(w, asked, failed)
        PROVE  l \in Language /\ \E emitted : Spools(w, asked, failed)[l] = Stream(tree[w], l, emitted)
    BY LanguagesOfFiles DEF Spools, Spawned, Detected
  <2>2. CASE Extra(one) = {}
    BY <2>1, <2>2 DEF OfTree
  <2>3. CASE Extra(one) # {}
    <3>1. spools = SecondPass(w, First(one), targets, two)
      BY <2>3
    <3> HIDE DEF targets, spools, Extra
    <3> QED BY <2>1, <3>1 DEF SecondPass, OfTree
  <2> QED BY <2>2, <2>3
<1>5. targets \subseteq File
  <2>1. stage1 \in SUBSET File
    BY <1>2 DEF JobDecls
  <2> HIDE DEF stage1, First
  <2> QED BY <1>2, <2>1, CascadeIsOfFiles
<1> HIDE DEF All, Extra
<1>6. Apart(w)
  BY <1>1, <1>2, <1>3 DEF Apart, At
<1>7. /\ job'[w].targets = targets /\ job'[w].removed = job[w].removed
      /\ job'[w].graph = Ingested(S) /\ job'[w].held = job[w].held
  BY <1>2, <1>3 DEF JobOK, JobFields
<1> HIDE DEF spools, targets
<1>8. Tells(Ingested(S), tree[w])
  <2>1. TreeStream(S, tree[w], files)
    BY <1>4, JoinedIsOfTree
  <2>2. Modest(S, tree[w])
    BY <1>2, <1>4, JoinedIsModest DEF OfTree
  <2> HIDE DEF S, files
  <2> QED BY <1>2, <2>1, <2>2, IngestedTells
<1>9. JobDecls(w)'
  BY <1>1, <1>2, <1>5, <1>7, <1>8 DEF JobDecls, Present
<1> QED BY <1>1, <1>6, <1>9, JobDeclsStep

\* What the splice is given.
LEMMA CachedAreUnits ==
    ASSUME DeclsInv, NEW w \in Worktree, pc[w] = "assemble"
    PROVE  /\ UnitsOf(CachedUnits(w), tree[w])
           /\ \A s \in {index.scaffolding[l] : l \in Skipped(w)} : ScaffoldingTells(s) /\ ScaffoldingRight(s)
<1>1. /\ StoreDecls /\ FilesInv /\ job[w].manifest = tree[w]
      /\ \A f \in job[w].candidates : f \in Present(tree[w])
  BY DEF DeclsInv, FilesInv, UnitsInv, IInv, JobsOK, JobOK, JobFiles
<1>2. \A i \in DOMAIN pathOrder : i \in Nat /\ pathOrder[i] \in File
  BY NamesAssumption
<1>3. \A i \in DOMAIN CachedUnits(w) :
         /\ i \in DOMAIN pathOrder /\ pathOrder[i] \in job[w].candidates
         /\ <<pathOrder[i], tree[w][pathOrder[i]]>> \in DOMAIN index.units
         /\ CachedUnits(w)[i] = index.units[<<pathOrder[i], tree[w][pathOrder[i]]>>]
  BY <1>1 DEF CachedUnits
<1>4. Skipped(w) \subseteq Language
  <2>1. \A f \in job[w].candidates : langOf[f] \in Language
    BY <1>1, LanguagesOfFiles
  <2> QED BY <2>1, LanguagesOfFiles DEF Skipped, Detected
<1>5. \A i \in DOMAIN CachedUnits(w) :
         UnitTells(CachedUnits(w)[i], pathOrder[i], tree[w][pathOrder[i]])
  BY <1>1, <1>2, <1>3 DEF StoreDecls, UnitsTell
<1>6. /\ \A i \in DOMAIN CachedUnits(w) :
            UnitRight(CachedUnits(w)[i], pathOrder[i], tree[w][pathOrder[i]])
      /\ \A i, j \in DOMAIN CachedUnits(w) : pathOrder[i] = pathOrder[j] => i = j
      /\ \A s \in {index.scaffolding[l] : l \in Skipped(w)} : ScaffoldingRight(s)
  BY <1>1, CachedIsRight
<1>7. \A s \in {index.scaffolding[l] : l \in Skipped(w)} : ScaffoldingTells(s)
  BY <1>1, <1>4 DEF StoreDecls
<1>8. \A i \in DOMAIN CachedUnits(w) : i \in Nat /\ pathOrder[i] \in Present(tree[w])
  BY <1>1, <1>2, <1>3
<1> QED BY <1>5, <1>6, <1>7, <1>8 DEF UnitsOf

LEMMA AssembleDecls ==
    ASSUME DeclsInv, FilesInv', OwnNames, NEW w \in Worktree, Assemble(w)
    PROVE  DeclsInv'
<1> DEFINE units  == CachedUnits(w)
           scaffolding == {index.scaffolding[l] : l \in Skipped(w)}
           cached == WithCached(job[w].graph, units, scaffolding)
           more   == IF job[w].full THEN {} ELSE IF torn[w] THEN Language ELSE storeHurt
<1>1. /\ UNCHANGED <<head, tree, index, state, db>>
      /\ At(w, "assemble", "index")
      /\ job' = [job EXCEPT ![w].graph = Finalized(IF job[w].full THEN @ ELSE cached),
                            ![w].held = index.units,
                            ![w].hurt = @ \cup more]
  BY DEF Assemble, StepKeeps, repo, store
<1>2. /\ JobOK(w) /\ DOMAIN job = Worktree /\ pc \in [Worktree -> Steps]
      /\ JobDecls(w) /\ StoreDecls /\ tree[w] \in Trees
  BY DEF DeclsInv, FilesInv, UnitsInv, IInv, JobsOK, RepoOK
<1>3. Tells(job[w].graph, tree[w]) /\ pc[w] = "assemble"
  BY <1>1, <1>2 DEF JobDecls, At
<1>4. Tells(cached, tree[w])
  <2>1. UnitsOf(units, tree[w]) /\ \A s \in scaffolding : ScaffoldingTells(s) /\ ScaffoldingRight(s)
    BY <1>3, CachedAreUnits
  <2> HIDE DEF units, scaffolding
  <2> QED BY <1>2, <1>3, <2>1, SplicedTells
<1> HIDE DEF cached, units, more
<1>5. Apart(w)
  BY <1>1, <1>2 DEF Apart, At
<1>6. /\ job'[w].held = index.units
      /\ job'[w].removed = job[w].removed /\ job'[w].targets = job[w].targets
      /\ job'[w].graph = Finalized(IF job[w].full THEN job[w].graph ELSE cached)
  BY <1>1, <1>2 DEF JobOK, JobFields
<1>7. Tells(job'[w].graph, tree[w])
  BY <1>3, <1>4, <1>6, FinalizedTells
<1>8. JobDecls(w)'
  BY <1>1, <1>2, <1>6, <1>7 DEF JobDecls, StoreDecls, Present
<1> QED BY <1>1, <1>5, <1>8, JobDeclsStep

LEMMA SaveIndexDecls ==
    ASSUME DeclsInv, FilesInv', OwnNames, NEW w \in Worktree, SaveIndex(w)
    PROVE  DeclsInv'
<1> DEFINE G   == job[w].graph
           new == {<<f, job[w].manifest[f]>> : f \in NewUnits(w)}
<1>1. /\ At(w, "index", "manifest") /\ UNCHANGED <<head, tree, state, job, db>>
      /\ index'.units = [u \in DOMAIN job[w].held \cup new |->
                           IF u \in new THEN UnitOf(G, u[1]) ELSE job[w].held[u]]
      /\ index'.scaffolding = [l \in Language |->
           IF ScaffoldingOf(G, l, langOf) = NoScaffolding THEN index.scaffolding[l]
           ELSE ScaffoldingOf(G, l, langOf)]
  BY DEF SaveIndex, repo
<1>2. /\ JobOK(w) /\ DOMAIN job = Worktree /\ pc \in [Worktree -> Steps]
      /\ JobDecls(w) /\ DbDecls(w) /\ Assembled(w) /\ StoreDecls /\ tree[w] \in Trees
  BY DEF DeclsInv, FilesInv, UnitsInv, IInv, JobsOK, RepoOK
<1>3. Apart(w) /\ pc[w] = "index"
  BY <1>1, <1>2 DEF Apart, At
<1>4. job[w].manifest = tree[w] /\ Tells(G, tree[w]) /\ Settled(G) /\ UnitsTell(job[w].held)
  BY <1>2, <1>3 DEF JobOK, JobDecls, Assembled, Saving
<1> HIDE DEF G
<1>5. ASSUME NEW f \in File, NEW c, <<f, c>> \in DOMAIN index'.units
      PROVE  UnitTells(index'.units[<<f, c>>], f, c)
  <2>1. CASE <<f, c>> \in new
    <3>1. c = tree[w][f] /\ <<f>> \in DOMAIN G.nodes /\ f \in Present(tree[w])
      BY <1>4, <2>1 DEF NewUnits, G
    <3>2. index'.units[<<f, c>>] = UnitOf(G, f)
      BY <1>1, <2>1
    <3>3. ShowsFiles(G, tree[w])
      BY DEF DeclsInv, FilesInv, JobFiles, G
    <3> QED BY <1>2, <1>4, <3>1, <3>2, <3>3, UnitOfTells
  <2>2. CASE <<f, c>> \notin new
    BY <1>1, <1>4, <1>5, <2>2 DEF UnitsTell
  <2> QED BY <2>1, <2>2
<1>6. \A l \in Language : ScaffoldingTells(index'.scaffolding[l])
  BY <1>1, <1>2, <1>4, ScaffoldingOfTells DEF StoreDecls
<1>7. StoreDecls'
  BY <1>1, <1>2, <1>5, <1>6 DEF StoreDecls, UnitsTell
<1>8. JobDecls(w)' /\ DbDecls(w)'
  BY <1>1, <1>2 DEF JobDecls, DbDecls, Present
<1> QED BY <1>1, <1>3, <1>7, <1>8, DeclsStep

LEMMA SaveManifestDecls ==
    ASSUME DeclsInv, FilesInv', NEW w \in Worktree, SaveManifest(w) \/ SaveScanRecord(w)
    PROVE  DeclsInv'
<1>1. /\ At(w, "manifest", "scan") \/ At(w, "scan", "state")
      /\ UNCHANGED <<head, tree, job, db, index, state>>
  BY DEF SaveManifest, SaveScanRecord, repo
<1>2. DOMAIN job = Worktree /\ JobDecls(w) /\ pc \in [Worktree -> Steps]
  BY DEF DeclsInv, FilesInv, UnitsInv, IInv, JobsOK
<1>3. Apart(w)
  BY <1>1, <1>2 DEF Apart, At
<1> QED BY <1>1, <1>2, <1>3, SameJobDecls DEF JobDecls

\* A dependency is of a file on a file.
LEMMA DependenciesAreOfFiles ==
    ASSUME NEW T \in Trees, NEW G, Tells(G, T), Settled(G)
    PROVE  DependsOn(G) \subseteq File \X File
<1> SUFFICES ASSUME NEW d \in DependsOn(G) PROVE d \in File \X File
  OBVIOUS
<1>1. PICK e \in G.edges : /\ e[1] # "Contains" /\ d = <<FileKeyOf(G, e[2]), FileKeyOf(G, e[3])>>
                           /\ d[1] # None /\ d[2] # None
  BY DEF DependsOn
<1>2. /\ e[2] \in DOMAIN G.nodes /\ e[3] \in DOMAIN G.nodes
      /\ G.nodes[e[2]].kind # "File" /\ G.nodes[e[3]].kind # "File"
  BY <1>1 DEF Settled, ValidPair
<1>3. ASSUME NEW x \in DOMAIN G.nodes, G.nodes[x].kind # "File", FileKeyOf(G, x) # None
      PROVE  FileKeyOf(G, x) \in File
  <2>1. Located(G.nodes[x]) /\ FileKeyOf(G, x) = G.nodes[x].path
    BY <1>3 DEF FileKeyOf, IsKind
  <2>2. \E f \in Present(T) : G.nodes[x].path = f
    BY <2>1, LocatedIsDeclared
  <2> QED BY <2>1, <2>2 DEF Present
<1> QED BY <1>1, <1>2, <1>3

LEMMA SaveStateDecls ==
    ASSUME DeclsInv, FilesInv', OwnNames, NEW w \in Worktree, SaveState(w)
    PROVE  DeclsInv'
<1>1. /\ At(w, "state", "build") /\ UNCHANGED <<head, tree, job, db, index>>
      /\ state'.signatures = [f \in File |-> SignaturesOf(job[w].graph, f)]
      /\ state'.deps = DependsOn(job[w].graph)
  BY DEF SaveState, StateOf, repo
<1>2. /\ DOMAIN job = Worktree /\ JobDecls(w) /\ DbDecls(w) /\ Assembled(w) /\ StoreDecls /\ tree[w] \in Trees
  BY DEF DeclsInv, FilesInv, UnitsInv, IInv, JobsOK, RepoOK
<1>3. Apart(w) /\ pc[w] = "state"
  BY <1>1, <1>2 DEF Apart, At
<1>4. Tells(job[w].graph, tree[w]) /\ Settled(job[w].graph)
  BY <1>2, <1>3 DEF JobDecls, Assembled, Saving
<1>5. \A f \in File : \A s \in state'.signatures[f] : s[2] \in NamesOf(f)
  <2> SUFFICES ASSUME NEW f \in File PROVE \A s \in SignaturesOf(job[w].graph, f) : s[2] \in NamesOf(f)
    BY <1>1
  <2> QED BY <1>2, <1>4, SignaturesOfATree
<1>6. state'.deps \subseteq File \X File
  BY <1>1, <1>2, <1>4, DependenciesAreOfFiles
<1>7. StoreDecls'
  BY <1>1, <1>2, <1>5, <1>6 DEF StoreDecls
<1>8. JobDecls(w)' /\ DbDecls(w)'
  BY <1>1, <1>2 DEF JobDecls, DbDecls, Present
<1> QED BY <1>1, <1>3, <1>7, <1>8, DeclsStep

\* The database a scan leaves has the declarations of the tree it was for.
LEMMA BuiltTells ==
    ASSUME DeclsInv, OwnNames, NEW w \in Worktree, Build(w)
    PROVE  DbDecls(w)'
<1> DEFINE seed == db[w]
           G    == job[w].graph
           hurt == job[w].hurt
<1>1. /\ pc[w] = "build" /\ DOMAIN db = Worktree /\ JobOK(w) /\ tree[w] \in Trees
      /\ JobDecls(w) /\ Assembled(w) /\ DbDecls(w)
  BY DEF Build, At, DeclsInv, FilesInv, UnitsInv, IInv, DbsOK, JobsOK, RepoOK
<1>2. /\ job[w].key.tree = tree[w] /\ job[w].manifest = tree[w] /\ Tells(G, tree[w])
      /\ job[w].targets \subseteq File
      /\ \A x \in job[w].removed : \E f \in File \ Present(tree[w]) : x \in NamesOf(f)
      /\ \A f \in Present(tree[w]) : langOf[f] \notin hurt => <<f>> \in DOMAIN G.nodes
  BY <1>1 DEF JobOK, JobDecls, Assembled, Sure, Saving, Idle, Key
<1>3. CASE Seedable(w)
  <2>1. /\ db'[w].key = job[w].key /\ db'[w].hurt = hurt \cup seed.hurt
        /\ db'[w].graph = Applied(seed.graph, G, job[w].targets, job[w].removed)
    BY <1>1, <1>3 DEF Build
  <2>2. /\ DbTells(seed.graph, seed.key.tree, seed.hurt)
        /\ job[w].recorded # None /\ ~job[w].full /\ seed.key = job[w].recorded
    BY <1>1, <1>3 DEF Seedable, DbDecls
  <2>3. \A f \in File : langOf[f] \notin hurt =>
           /\ tree[w][f] # Missing => <<f>> \in DOMAIN G.nodes
           /\ f \notin job[w].targets => seed.key.tree[f] = tree[w][f]
    BY <1>1, <1>2, <2>2 DEF Assembled, Unmoved, Saving, Present
  <2> DEFINE T       == tree[w]
             targets == job[w].targets
             removed == job[w].removed
  <2>4. DbTells(Applied(seed.graph, G, targets, removed), T, hurt \cup seed.hurt)
    <3> DEFINE D == seed.graph
               T0 == seed.key.tree
               spoilt == seed.hurt
    <3>1. /\ Tells(G, T) /\ DbTells(D, T0, spoilt) /\ targets \in SUBSET File /\ T \in Trees
          /\ \A x \in removed : \E f \in File \ Present(T) : x \in NamesOf(f)
          /\ \A f \in File : langOf[f] \notin hurt =>
                /\ T[f] # Missing => <<f>> \in DOMAIN G.nodes
                /\ f \notin targets => T0[f] = T[f]
      BY <1>1, <1>2, <2>2, <2>3
    <3> HIDE DEF D, T0, spoilt, T, targets, removed, hurt, G
    <3>2. DbTells(Applied(D, G, targets, removed), T, hurt \cup spoilt)
      BY <3>1, AppliedTells
    <3> QED BY <3>2 DEF D, spoilt
  <2> QED BY <1>2, <2>1, <2>4 DEF DbDecls
<1>4. CASE ~Seedable(w)
  <2>1. /\ db'[w].key = job[w].key /\ db'[w].hurt = hurt /\ db'[w].graph = Loaded(G)
    BY <1>1, <1>4 DEF Build
  <2> HIDE DEF G, hurt
  <2>2. DbTells(db'[w].graph, tree[w], hurt)
    BY <1>1, <1>2, <2>1, LoadedTells
  <2> QED BY <1>2, <2>1, <2>2 DEF DbDecls
<1> QED BY <1>3, <1>4

LEMMA EndDecls ==
    ASSUME DeclsInv, FilesInv', OwnNames, NEW w \in Worktree, Build(w) \/ KillScan(w)
    PROVE  DeclsInv'
<1>1. /\ pc' = [pc EXCEPT ![w] = "idle"] /\ job' = [job EXCEPT ![w] = NoJob]
      /\ UNCHANGED <<head, tree, index, state>>
  BY DEF Build, KillScan, At, Ends, repo, store
<1>2. DOMAIN job = Worktree /\ DOMAIN db = Worktree
  BY DEF DeclsInv, FilesInv, UnitsInv, IInv, JobsOK, DbsOK
<1>3. Apart(w) /\ job'[w] = NoJob
  BY <1>1, <1>2 DEF Apart
<1>4. JobDecls(w)'
  BY <1>3, NoJobTells, NothingTells DEF JobDecls
<1>5. \A v \in Worktree \ {w} : db'[v] = db[v]
  BY <1>1, <1>2 DEF Build, KillScan
<1>6. DbDecls(w)'
  <2>1. CASE Build(w)
    BY <2>1, BuiltTells
  <2>2. CASE KillScan(w)
    BY <1>2, <2>2 DEF KillScan, DeclsInv, DbDecls
  <2> QED BY <2>1, <2>2
<1>7. StoreDecls'
  BY <1>1 DEF DeclsInv, StoreDecls
<1> QED BY <1>3, <1>4, <1>5, <1>6, <1>7, DeclsStep

LEMMA RecordFailsDecls ==
    ASSUME DeclsInv, FilesInv', NEW w \in Worktree, RecordFails(w)
    PROVE  DeclsInv'
<1>1. pc' = [pc EXCEPT ![w] = "build"] /\ UNCHANGED <<head, tree, index, state, job, db>>
  BY DEF RecordFails, repo, store
<1>2. DOMAIN job = Worktree /\ JobDecls(w) /\ pc \in [Worktree -> Steps]
  BY DEF DeclsInv, FilesInv, UnitsInv, IInv, JobsOK
<1>3. Apart(w)
  BY <1>1, <1>2 DEF Apart
<1> QED BY <1>1, <1>2, <1>3, SameJobDecls DEF JobDecls

LEMMA MovesDecls ==
    ASSUME DeclsInv, FilesInv', \A v \in Worktree : Idle(v), UNCHANGED <<index, state, job, db>>
    PROVE  DeclsInv'
<1>1. ASSUME NEW v \in Worktree PROVE JobDecls(v)'
  <2>1. job[v] = NoJob
    BY DEF DeclsInv, FilesInv, UnitsInv, IInv, JobsOK, JobOK
  <2>2. job'[v] = NoJob
    BY <2>1
  <2> QED BY <2>2, NoJobTells, NothingTells DEF JobDecls
<1> QED BY <1>1 DEF DeclsInv, StoreDecls, DbDecls

LEMMA InitDecls == Init => DeclsInv
<1> SUFFICES ASSUME Init PROVE DeclsInv
  OBVIOUS
<1>1. FilesInv
  BY InitFiles
<1>2. StoreDecls
  <2>1. DOMAIN << >> = {}
    OBVIOUS
  <2>2. /\ index.units = << >> /\ index.scaffolding = [l \in Language |-> NoScaffolding]
        /\ state.signatures = [f \in File |-> {}] /\ state.deps = {}
    BY DEF Init
  <2>3. ScaffoldingTells(NoScaffolding)
    BY DEF ScaffoldingTells, NoScaffolding
  <2> QED BY <2>1, <2>2, <2>3 DEF StoreDecls, UnitsTell
<1>3. \A w \in Worktree : job[w] = NoJob /\ db[w] = None
  BY DEF Init
<1>4. \A w \in Worktree : JobDecls(w) /\ DbDecls(w)
  BY <1>3, NoJobTells, NothingTells DEF JobDecls, DbDecls
<1> QED BY <1>1, <1>2, <1>4 DEF DeclsInv

LEMMA NextDecls == ASSUME OwnNames PROVE DeclsInv /\ [Next]_vars => DeclsInv'
<1> SUFFICES ASSUME DeclsInv, [Next]_vars PROVE DeclsInv'
  OBVIOUS
<1>1. FilesInv'
  BY NextFiles DEF DeclsInv
<1>2. CASE UNCHANGED vars
  <2>1. UNCHANGED <<tree, index, state, job, db>>
    BY <1>2 DEF vars, repo, store
  <2> QED BY <1>1, <2>1 DEF DeclsInv, StoreDecls, JobDecls, DbDecls, Present
<1>3. CASE \E w \in Worktree : \/ \E f \in File : \E c \in contentsOf[f] : EditFile(w, f, c)
                               \/ CommitTree(w)
                               \/ \E c \in 1..Len(commits) : Checkout(w, c)
  <2>1. Moves
    BY <1>3 DEF EditFile, CommitTree, Checkout
  <2> QED BY <1>1, <2>1, MovesDecls DEF Moves, store
<1>4. CASE \E w \in Worktree : Start(w) \/ StartForced(w)
  BY <1>1, <1>4, StartDecls
<1>5. CASE \E w \in Worktree : ScanStep(w)
  BY <1>1, <1>5, ProbeDecls, PlanDecls, DiffDecls, EmitFactsDecls, AssembleDecls,
     SaveIndexDecls, SaveManifestDecls, SaveStateDecls, EndDecls
     DEF ScanStep
<1>6. CASE \E w \in Worktree : KillScan(w) \/ RecordFails(w)
  BY <1>1, <1>6, EndDecls, RecordFailsDecls
<1> QED BY <1>2, <1>3, <1>4, <1>5, <1>6 DEF Next

LEMMA DeclsAlways == ASSUME OwnNames PROVE Spec => []DeclsInv
<1>1. DeclsInv /\ [Next]_vars => DeclsInv'
  BY NextDecls
<1> QED BY <1>1, InitDecls, PTL DEF Spec

-----------------------------------------------------------------------------
(* What a fresh database and the stored units show                           *)

LEMMA RebuiltRows ==
    ASSUME NEW T \in Trees
    PROVE  Rebuilt(T).rows = ShownRows(Rebuild(T))
<1>1. \A U, D : Described(U, D).tree = U /\ Described(U, D).rows = ShownRows(D)
  BY DEF Described
<1>2. \E r \in Rebuilds : r.tree = T
  BY <1>1 DEF Rebuilds
<1>3. \A r \in Rebuilds : r.tree = T => r.rows = ShownRows(Rebuild(T))
  BY <1>1 DEF Rebuilds
<1>4. Rebuilt(T) \in Rebuilds /\ Rebuilt(T).tree = T
  BY <1>2 DEF Rebuilt
<1> QED BY <1>3, <1>4

LEMMA RebuildShows ==
    ASSUME NEW T \in Trees
    PROVE  DbShows(Rebuild(T), T, {})
<1> DEFINE spools == [l \in Language |-> Stream(T, l, File)]
           S == Joined(spools)
           G == Finalized(Ingested(S))
<1>1. \A l \in DOMAIN spools : l \in Language /\ \E emitted : spools[l] = Stream(T, l, emitted)
  OBVIOUS
<1>2. WholeStream(T) = S
  BY DEF WholeStream
<1>3. ASSUME NEW f \in Present(T) PROVE <<f>> \in DOMAIN Ingested(S).nodes
  <2>1. langOf[f] \in Language /\ f \in File
    BY LanguagesOfFiles DEF Present
  <2>2. spools[langOf[f]] = Stream(T, langOf[f], File) /\ langOf[f] \in DOMAIN spools
    BY <2>1
  <2> HIDE DEF spools
  <2>3. Real(Ingested(Joined(spools)), <<f>>)
    BY <2>1, <2>2, EmittedFile
  <2> QED BY <2>3 DEF Real
<1> HIDE DEF spools
<1>4. Modest(S, T) /\ S.planned = Placeholders
  BY <1>1, JoinedIsModest
<1> HIDE DEF S
<1>5. ShowsFiles(Ingested(S), T)
  BY <1>4, IngestedShowsFiles
<1>6. ShowsFiles(G, T) /\ \A f \in Present(T) : <<f>> \in DOMAIN G.nodes
  BY <1>3, <1>5, FinalizedShowsFiles, FinalizedNodes
<1>7. Rebuild(T) = Loaded(G)
  BY <1>2 DEF Rebuild
<1> HIDE DEF G
<1>8. DbShows(Loaded(G), T, {})
  BY <1>6, LoadedShows
<1> QED BY <1>7, <1>8

\* A declaration's FQN is of the language of its file.
LEMMA LangOfName ==
    ASSUME NEW f \in File, NEW c \in Contents(f), NEW p \in Names(f, c)
    PROVE  LangOfFqn(p[1]) = langOf[f]
<1>1. Deep(p[1]) /\ p[1][1] = langOf[f]
  BY NamesAreDeclarations
<1>2. Len(p[1]) # 1
  <2>1. PICK S : p[1] \in Seq(S) /\ Len(p[1]) > 1
    BY <1>1 DEF Deep
  <2> DEFINE n == Len(p[1])
  <2>2. n \in Nat /\ n > 1
    BY <2>1, LenProperties
  <2> HIDE DEF n
  <2>3. n # 1
    BY <2>2
  <2> QED BY <2>3 DEF n
<1> QED BY <1>1, <1>2 DEF LangOfFqn

\* Two databases that tell of one tree show the same declarations of it.
LEMMA SameDeclarations ==
    ASSUME OwnNames, NEW T \in Trees, NEW D, NEW E, NEW hurt, NEW spoilt,
           DbTells(D, T, hurt), DbTells(E, T, spoilt),
           NEW r \in Declared(ShownRows(D)), LangOfFqn(r[1][2]) \notin hurt \cup spoilt
    PROVE  r \in Declared(ShownRows(E))
<1> DEFINE k == r[1]
           row == r[2]
<1>1. /\ r = <<k, row>> /\ k \in DOMAIN D.rows /\ row = D.rows[k] /\ ~row.planned
      /\ k[1] \in {"Struct", "Function"}
  BY DEF Declared, ShownRows, Shown
<1>2. k = <<k[1], k[2]>> /\ row.kind = k[1]
  BY <1>1 DEF DbTells
<1>3. PICK f \in File : \E c \in Contents(f) :
         <<k[2], row>> \in Names(f, c) /\ (langOf[f] \notin hurt => f \in Present(T) /\ c = T[f])
  BY <1>1, <1>2 DEF DbTells, IsDeclaration
<1>4. PICK c \in Contents(f) :
         <<k[2], row>> \in Names(f, c) /\ (langOf[f] \notin hurt => f \in Present(T) /\ c = T[f])
  BY <1>3
<1> DEFINE p == <<k[2], row>>
<1>5. p \in Names(f, c) /\ p[1] = k[2] /\ p[2] = row
  BY <1>4
<1> HIDE DEF p, k, row
<1>6. LangOfFqn(k[2]) = langOf[f]
  BY <1>5, LangOfName
<1>7. f \in Present(T) /\ c = T[f] /\ langOf[f] \notin spoilt
  BY <1>4, <1>6 DEF k
<1>8. <<p[2].kind, p[1]>> \in DOMAIN E.rows /\ E.rows[<<p[2].kind, p[1]>>] = p[2]
  BY <1>5, <1>7 DEF DbTells
<1>9. k \in DOMAIN E.rows /\ E.rows[k] = row
  BY <1>2, <1>5, <1>8
<1>10. <<k, E.rows[k]>> \in ShownRows(E)
  <2>1. k \in Shown(E)
    BY <1>1, <1>9 DEF Shown
  <2> QED BY <2>1 DEF ShownRows
<1> QED BY <1>1, <1>9, <1>10 DEF Declared

\* Where each file has names of its own, a fresh database shows exactly the
\* declarations of its tree, with their contents and parameters, in every language
\* no fault has touched -- whatever was reused, spliced, moved from file to file,
\* killed or overtaken in between.
THEOREM FreshHasTheDeclarations == ASSUME OwnNames PROVE Spec => []FreshDeclarations
<1>1. ASSUME DeclsInv PROVE FreshDeclarations
  <2> SUFFICES ASSUME NEW w \in Worktree, Fresh(w)
               PROVE  Declared(Rows(db[w].graph, Sound(w)))
                        = Declared({r \in Rebuilt(tree[w]).rows : LangOfFqn(r[1][2]) \in Sound(w)})
    BY DEF FreshDeclarations
  <2> DEFINE T == tree[w]
             D == db[w].graph
             hurt == db[w].hurt
  <2>1. DbTells(D, T, hurt) /\ T \in Trees
    BY <1>1 DEF DeclsInv, DbDecls, Fresh, Key, FilesInv, UnitsInv, IInv, RepoOK
  <2>2. DbTells(Rebuild(T), T, {}) /\ Rebuilt(T).rows = ShownRows(Rebuild(T))
    BY <2>1, RebuildTells, RebuiltRows
  <2>3. Sound(w) = {l \in Language : l \notin hurt}
    BY DEF Sound
  <2> HIDE DEF T, D, hurt
  <2>4. ASSUME NEW r \in Declared(Rows(D, Sound(w)))
        PROVE  r \in Declared({x \in ShownRows(Rebuild(T)) : LangOfFqn(x[1][2]) \in Sound(w)})
    <3>1. r \in Declared(ShownRows(D)) /\ LangOfFqn(r[1][2]) \in Sound(w)
      BY DEF Declared, Rows
    <3>2. r \in Declared(ShownRows(Rebuild(T)))
      BY <2>1, <2>2, <2>3, <3>1, SameDeclarations
    <3> QED BY <3>1, <3>2 DEF Declared
  <2>5. ASSUME NEW r \in Declared({x \in ShownRows(Rebuild(T)) : LangOfFqn(x[1][2]) \in Sound(w)})
        PROVE  r \in Declared(Rows(D, Sound(w)))
    <3>1. r \in Declared(ShownRows(Rebuild(T))) /\ LangOfFqn(r[1][2]) \in Sound(w)
      BY DEF Declared
    <3>2. r \in Declared(ShownRows(D))
      BY <2>1, <2>2, <2>3, <3>1, SameDeclarations
    <3> QED BY <3>1, <3>2 DEF Declared, Rows
  <2>6. Declared(Rows(D, Sound(w))) = Declared({x \in Rebuilt(T).rows : LangOfFqn(x[1][2]) \in Sound(w)})
    BY <2>2, <2>4, <2>5
  <2> QED BY <2>6 DEF T, D
<1> QED BY <1>1, DeclsAlways, PTL

\* At rest every stored unit a scan can reuse has the rows a rebuild of the recorded
\* tree has, its file's and its declarations', under the content it is stored for.
THEOREM StoredUnitsAreTheTrees == ASSUME OwnNames PROVE Spec => []UnitsOfTheTree
<1>1. ASSUME DeclsInv PROVE UnitsOfTheTree
  <2>1. UnitsHeld
    BY <1>1 DEF DeclsInv, FilesInv, UnitsInv
  <2> SUFFICES ASSUME AtRest, scan # None, NEW f \in Stored
               PROVE  Rows(Loaded([UnitIn(f) EXCEPT !.edges = {}]), {langOf[f]}) \subseteq Rebuilt(manifest).rows
    BY <2>1 DEF UnitsOfTheTree
  <2> DEFINE T == manifest
             u == UnitIn(f)
             v == [u EXCEPT !.edges = {}]
  <2>2. f \in Present(T) /\ f \in File /\ langOf[f] \notin storeHurt
    BY DEF Stored, Present
  <2>3. T \in Trees
    <3>1. storeHurt # Language
      BY <2>2, LanguagesOfFiles
    <3> QED BY <1>1, <3>1 DEF DeclsInv, FilesInv, UnitsInv, IInv, TornOK, StoreOK, StoreOfOneScan
  <2>4. <<f, T[f]>> \in DOMAIN index.units /\ u = index.units[<<f, T[f]>>]
    BY <2>1 DEF UnitsHeld, UnitIn
  <2>5. UnitTells(u, f, T[f]) /\ UnitRight(u, f, T[f])
    BY <1>1, <2>2, <2>4 DEF DeclsInv, StoreDecls, UnitsTell, FilesInv, StoreFiles, UnitsRight
  <2>6. /\ DbTells(Rebuild(T), T, {}) /\ DbShows(Rebuild(T), T, {})
        /\ Rebuilt(T).rows = ShownRows(Rebuild(T))
    BY <2>3, RebuildTells, RebuildShows, RebuiltRows
  <2>7. v.nodes = u.nodes
    OBVIOUS
  <2> HIDE DEF T, u, v
  <2>8. ASSUME NEW r \in Rows(Loaded(v), {langOf[f]}) PROVE r \in ShownRows(Rebuild(T))
    <3> DEFINE k == r[1]
    <3>1. /\ r = <<k, Loaded(v).rows[k]>> /\ k \in DOMAIN Loaded(v).rows
          /\ k[1] # "Unresolved" /\ ~Loaded(v).rows[k].planned
      BY <2>8 DEF Rows, ShownRows, Shown
    <3>2. PICK x \in DOMAIN u.nodes : k = Row(v, x) /\ Loaded(v).rows[k] = u.nodes[x]
      BY <2>7, <3>1, RowsLoaded
    <3> DEFINE n == u.nodes[x]
    <3>3. k = <<n.kind, x>> /\ r = <<k, n>> /\ n.kind # "Unresolved" /\ ~n.planned
      BY <2>7, <3>1, <3>2 DEF Row
    <3> HIDE DEF k, n
    <3>4. k \in DOMAIN Rebuild(T).rows /\ Rebuild(T).rows[k] = n
      <4>1. CASE x = <<f>>
        <5>1. n = NodeOf("File", f, None, T[f]) /\ T[f] # Missing
          BY <2>2, <2>5, <4>1 DEF UnitRight, n, Present
        <5>2. k = <<"File", <<f>> >>
          BY <3>3, <4>1, <5>1, FieldsOfAFile
        <5> QED BY <2>2, <2>6, <5>1, <5>2 DEF DbShows, FileRow
      <4>2. CASE x # <<f>>
        <5> DEFINE p == <<x, n>>
        <5>1. p \in Names(f, T[f]) /\ p[1] = x /\ p[2] = n
          BY <2>5, <3>3, <4>2 DEF UnitTells, n
        <5> HIDE DEF p
        <5> QED BY <2>2, <2>6, <3>3, <5>1 DEF DbTells
      <4> QED BY <4>1, <4>2
    <3>5. k \in Shown(Rebuild(T))
      BY <3>3, <3>4 DEF Shown
    <3> QED BY <3>3, <3>4, <3>5 DEF ShownRows
  <2>9. Rows(Loaded(v), {langOf[f]}) \subseteq Rebuilt(T).rows
    BY <2>6, <2>8
  <2> QED BY <2>9 DEF T, u, v
<1> QED BY <1>1, DeclsAlways, PTL

-----------------------------------------------------------------------------
(* What the cascade is taken from                                            *)

\* What is resolved stays, and no node comes of it.
LEMMA ResolvedKeeps ==
    ASSUME NEW G
    PROVE  /\ \A e \in G.edges : e[1] \in {"Calls", "Uses", "Contains"} => e \in Resolved(G).edges
           /\ DOMAIN Resolved(G).nodes \subseteq DOMAIN G.nodes
           /\ \A x \in DOMAIN Resolved(G).nodes : Resolved(G).nodes[x] = G.nodes[x]
           /\ \A x \in DOMAIN G.nodes : G.nodes[x].kind # "Unresolved" => x \in DOMAIN Resolved(G).nodes
<1> DEFINE Real2(e) == CASE e[1] = "UnresolvedCall" -> IsKind(G, e[2], "Function") /\ IsKind(G, e[3], "Function")
                         [] e[1] = "UnresolvedUse"  -> Located(G.nodes[e[2]]) /\ IsKind(G, e[3], "Struct")
                         [] OTHER -> FALSE
           New(e) == IF Real2(e) THEN <<IF e[1] = "UnresolvedCall" THEN "Calls" ELSE "Uses", e[2], e[3]>> ELSE e
<1>1. Resolved(G).edges = {New(e) : e \in G.edges}
  BY DEF Resolved
<1>2. \A e : e[1] \in {"Calls", "Uses", "Contains"} => New(e) = e
  OBVIOUS
<1>3. /\ DOMAIN Resolved(G).nodes \subseteq DOMAIN G.nodes
      /\ \A x \in DOMAIN Resolved(G).nodes : Resolved(G).nodes[x] = G.nodes[x]
      /\ \A x \in DOMAIN G.nodes : G.nodes[x].kind # "Unresolved" => x \in DOMAIN Resolved(G).nodes
  BY DEF Resolved
<1> HIDE DEF New
<1> QED BY <1>1, <1>2, <1>3

\* A call or a use of a reused unit, into a file the splice has, is an edge of it.
LEMMA LinkKept ==
    ASSUME OwnNames, NEW T \in Trees, NEW G, NEW units, UnitsOf(units, T), NEW scaffolding,
           NEW H, H = Finalized(WithCached(G, units, scaffolding)), Tells(H, T),
           NEW i \in DOMAIN units, <<pathOrder[i]>> \in DOMAIN H.nodes,
           NEW g \in Present(T), <<g>> \in DOMAIN H.nodes,
           NEW e \in units[i].edges, e[1] \in {"Calls", "Uses"},
           NEW q \in Names(g, T[g]), q[1] = e[3]
    PROVE  e \in H.edges
<1> DEFINE f == pathOrder[i]
           cached  == WithCached(G, units, scaffolding)
           modules == (UNION {units[j].modules : j \in DOMAIN units})
                        \cup (UNION {s.modules : s \in scaffolding})
           nodes   == WithModules(MergedNodes(G.nodes, units), modules,
                                  UNION {s.languages : s \in scaffolding})
           replay  == {<<"Contains", x[1], x[2]>> :
                          x \in UNION {s.edges \cup s.languageEdges : s \in scaffolding}}
           taken   == {x \in UNION {units[j].edges : j \in DOMAIN units} :
                          x[2] \in DOMAIN nodes /\ x[3] \in DOMAIN nodes}
           S       == [nodes |-> nodes, edges |-> G.edges \cup replay \cup taken]
<1>1. cached = Resolved(S)
  BY DEF WithCached
<1>2. f \in Present(T) /\ LinkTells(e, f, T[f])
  BY DEF UnitsOf, UnitTells
<1>3. PICK p \in Names(f, T[f]) :
        /\ p[1] = e[2]
        /\ \A k \in File : \A d \in Contents(k) : \A r \in Names(k, d) :
              r[1] = e[3] => ValidPair(e[1], p[2].kind, r[2].kind)
  BY <1>2 DEF LinkTells
<1>4. g \in File /\ T[g] \in Contents(g)
  BY ContentsOfTrees
<1>5. ValidPair(e[1], p[2].kind, q[2].kind)
  BY <1>3, <1>4
<1>6. /\ e[2] \in DOMAIN H.nodes /\ H.nodes[e[2]] = p[2]
      /\ e[3] \in DOMAIN H.nodes /\ H.nodes[e[3]] = q[2]
  BY <1>2, <1>3 DEF Tells, HasNames
<1>7. H.nodes = cached.nodes /\ H.edges =
        {x \in cached.edges : /\ x[2] \in DOMAIN cached.nodes /\ x[3] \in DOMAIN cached.nodes
                              /\ ValidPair(x[1], cached.nodes[x[2]].kind, cached.nodes[x[3]].kind)}
  BY DEF Finalized
<1>8. S.edges = G.edges \cup replay \cup taken /\ S.nodes = nodes
  OBVIOUS
<1> HIDE DEF cached, S, nodes, replay
<1>9. e \in taken
  <2>1. DOMAIN cached.nodes \subseteq DOMAIN nodes
    BY <1>1, <1>8, ResolvedKeeps
  <2> QED BY <1>6, <1>7, <2>1
<1> HIDE DEF taken
<1>10. e \in cached.edges
  <2>1. e \in S.edges
    BY <1>8, <1>9
  <2> QED BY <1>1, <2>1, ResolvedKeeps
<1> QED BY <1>5, <1>6, <1>7, <1>10

\* What a scan reuses without emitting it keeps its calls and uses in the graph.
HeldLinks(w) ==
    pc[w] \in Saving => \A f \in Sure(w) \ NewUnits(w) : \A g \in Sure(w) :
        \A e \in job[w].held[<<f, job[w].manifest[f]>>].edges :
            /\ e[1] \in {"Calls", "Uses"}
            /\ \E q \in Names(g, job[w].manifest[g]) : q[1] = e[3]
            => e \in job[w].graph.edges

\* And the store, while the scan saves to it alone, has either that or the new unit.
WritesUnits(w) ==
    MidSave(w) => \A f \in Sure(w) :
        index.units[<<f, job[w].manifest[f]>>] =
            IF f \in NewUnits(w) THEN UnitOf(job[w].graph, f) ELSE job[w].held[<<f, job[w].manifest[f]>>]

SeenInv ==
    /\ DeclsInv /\ CascadeSeesUnits
    /\ \A w \in Worktree : HeldLinks(w) /\ (~torn[w] => WritesUnits(w))

LEMMA SeenStep ==
    ASSUME SeenInv, DeclsInv', NEW w \in Worktree, Apart(w),
           \/ UNCHANGED index /\ \A v \in Worktree \ {w} : torn'[v] = torn[v]
           \/ Overtakes(w),
           CascadeSeesUnits', HeldLinks(w)', ~torn'[w] => WritesUnits(w)'
    PROVE  SeenInv'
<1>1. ASSUME NEW v \in Worktree \ {w} PROVE HeldLinks(v)' /\ (~torn'[v] => WritesUnits(v)')
  <2>1. /\ job'[v] = job[v] /\ pc'[v] = pc[v]
        /\ HeldLinks(v) /\ (~torn[v] => WritesUnits(v))
    BY DEF Apart, SeenInv
  <2>2. HeldLinks(v)'
    BY <2>1 DEF HeldLinks, Sure, NewUnits
  <2>3. CASE UNCHANGED index /\ torn'[v] = torn[v]
    <3>1. WritesUnits(v) => WritesUnits(v)'
      BY <2>1, <2>3 DEF WritesUnits, MidSave, Sure, NewUnits
    <3> QED BY <2>1, <2>2, <2>3, <3>1
  <2>4. CASE Overtakes(w)
    <3>1. torn'[v] = (torn[v] \/ ~Idle(v))
      BY <2>4 DEF Overtakes
    <3>2. ~Idle(v) => torn'[v]
      <4>1. torn \in [Worktree -> BOOLEAN]
        BY DEF SeenInv, DeclsInv, FilesInv, UnitsInv, IInv, TornOK
      <4> QED BY <3>1, <4>1
    <3>3. Idle(v) => WritesUnits(v)'
      BY <2>1 DEF Idle, WritesUnits, MidSave
    <3> QED BY <2>2, <3>2, <3>3
  <2> QED BY <2>2, <2>3, <2>4
<1> QED BY <1>1 DEF SeenInv

\* A step that writes no file of the store.
LEMMA QuietSeen ==
    ASSUME SeenInv, DeclsInv', NEW w \in Worktree, Apart(w), UNCHANGED <<index, manifest, scan, state>>,
           \A v \in Worktree \ {w} : torn'[v] = torn[v],
           storeHurt' = storeHurt \/ storeHurt' = Language,
           MidSave(w) => storeHurt' = Language, ~MidSave(w)', HeldLinks(w)'
    PROVE  SeenInv'
<1>1. CascadeSeesUnits'
  <2>1. CASE storeHurt' = Language
    BY <2>1, LanguagesOfFiles DEF CascadeSeesUnits, Stored
  <2>2. CASE storeHurt' = storeHurt /\ ~MidSave(w)
    <3>1. AtRest' => AtRest
      BY <2>2 DEF AtRest, Apart, MidSave
    <3>2. Stored' = Stored /\ \A f \in Stored : UnitIn(f)' = UnitIn(f)
      BY <2>2 DEF Stored, Present, UnitIn
    <3>3. CascadeSeesUnits
      BY DEF SeenInv
    <3> QED BY <3>1, <3>2, <3>3 DEF CascadeSeesUnits
  <2> QED BY <2>1, <2>2
<1>2. WritesUnits(w)'
  BY DEF WritesUnits
<1> QED BY <1>1, <1>2, SeenStep

\* One of a scan that has not assembled its graph, or is over.
LEMMA EarlySeen ==
    ASSUME SeenInv, DeclsInv', NEW w \in Worktree, Apart(w), UNCHANGED <<index, manifest, scan, state>>,
           \A v \in Worktree \ {w} : torn'[v] = torn[v],
           storeHurt' = storeHurt \/ storeHurt' = Language,
           MidSave(w) => storeHurt' = Language, pc'[w] \notin Saving
    PROVE  SeenInv'
<1>1. HeldLinks(w)' /\ ~MidSave(w)'
  BY DEF HeldLinks, MidSave, Saving
<1> QED BY <1>1, QuietSeen

\* What a step leaves alone before there is a graph to save.
LEMMA UnsavedApart ==
    ASSUME DeclsInv, DeclsInv', NEW w \in Worktree,
           \/ Start(w) \/ StartForced(w) \/ Probe(w) \/ ReadRecordedKey(w)
           \/ Plan(w) \/ Diff(w) \/ EmitFacts(w)
    PROVE  /\ Apart(w) /\ UNCHANGED <<head, tree, index, manifest, scan, state, storeHurt>>
           /\ \A v \in Worktree \ {w} : torn'[v] = torn[v]
           /\ pc[w] \notin Saving /\ pc'[w] \notin Saving /\ ~MidSave(w)
<1>1. /\ DOMAIN job = Worktree /\ pc \in [Worktree -> Steps] /\ torn \in [Worktree -> BOOLEAN] /\ DOMAIN job' = Worktree
  BY DEF DeclsInv, FilesInv, UnitsInv, IInv, JobsOK, TornOK
<1>2. /\ UNCHANGED <<head, tree, index, manifest, scan, state, storeHurt>>
      /\ \A v \in Worktree \ {w} : torn'[v] = torn[v]
  <2>1. CASE Start(w) \/ StartForced(w)
    <3>1. /\ UNCHANGED <<head, tree, index, manifest, scan, state, storeHurt>>
          /\ torn' = [torn EXCEPT ![w] = \E v \in Worktree \ {w} : MidSave(v)]
      BY <2>1 DEF Start, StartForced, Takes, repo, store
    <3> QED BY <1>1, <3>1
  <2>2. CASE Probe(w) \/ ReadRecordedKey(w) \/ Plan(w) \/ Diff(w) \/ EmitFacts(w)
    BY <2>2 DEF Probe, ReadRecordedKey, Plan, Diff, EmitFacts, Emits, StepKeeps, repo, store, history
  <2> QED BY <2>1, <2>2
<1>3. /\ pc[w] \notin Saving /\ pc'[w] \notin Saving
      /\ \A v \in Worktree \ {w} : pc'[v] = pc[v]
  <2>1. \E here \in {"idle", "probe", "recorded", "plan", "diff", "emit"} :
          \E next \in {"probe", "recorded", "plan", "diff", "emit", "assemble"} : At(w, here, next)
    BY DEF Start, StartForced, Takes, Probe, ReadRecordedKey, Plan, Diff, EmitFacts
  <2> QED BY <1>1, <2>1 DEF At, Saving
<1>4. \A v \in Worktree \ {w} : job'[v] = job[v]
  <2>1. (\E j : job' = [job EXCEPT ![w] = j]) \/ job' = job
    <3>1. CASE Start(w) \/ StartForced(w)
      BY <3>1 DEF Start, StartForced, Takes
    <3>2. CASE Probe(w)
      BY <1>1, <3>2 DEF Probe
    <3>3. CASE ReadRecordedKey(w)
      BY <1>1, <3>3 DEF ReadRecordedKey
    <3>4. CASE Plan(w)
      BY <1>1, <3>4 DEF Plan, GoesFull
    <3>5. CASE Diff(w)
      BY <1>1, <3>5 DEF Diff, GoesFull
    <3>6. CASE EmitFacts(w)
      <4>1. ASSUME NEW first, NEW extra, NEW one, NEW two, Emits(w, first, extra, one, two)
            PROVE  \E j : job' = [job EXCEPT ![w] = j]
        BY <4>1, Zenon DEF Emits
      <4>2. \E first, extra, one, two : Emits(w, first, extra, one, two)
        BY <3>6, Zenon DEF EmitFacts
      <4> QED BY <4>1, <4>2
    <3> QED BY <3>1, <3>2, <3>3, <3>4, <3>5, <3>6
  <2> QED BY <1>1, <2>1
<1>5. Apart(w)
  BY <1>1, <1>2, <1>3, <1>4 DEF Apart
<1>6. ~MidSave(w)
  BY <1>3 DEF MidSave, Saving
<1> QED BY <1>2, <1>3, <1>5, <1>6

LEMMA UnsavedSeen ==
    ASSUME SeenInv, DeclsInv', NEW w \in Worktree,
           \/ Start(w) \/ StartForced(w) \/ Probe(w) \/ ReadRecordedKey(w)
           \/ Plan(w) \/ Diff(w) \/ EmitFacts(w)
    PROVE  SeenInv'
<1>1. DeclsInv
  BY DEF SeenInv
<1> QED BY <1>1, UnsavedApart, EarlySeen

\* A file that is no target of an assembled scan was spliced from its unit.
LEMMA ReusedOrNew ==
    ASSUME FilesInv, NEW w \in Worktree, pc[w] = "assemble", NEW f \in Present(job[w].manifest),
           langOf[f] \notin job[w].hurt \cup (IF job[w].full THEN {} ELSE IF torn[w] THEN Language ELSE storeHurt),
           job[w].targets # {} \/ job[w].warm, f \notin job[w].targets
    PROVE  /\ ~job[w].full
           /\ \E i \in DOMAIN CachedUnits(w) :
                 pathOrder[i] = f /\ CachedUnits(w)[i] = index.units[<<f, job[w].manifest[f]>>]
<1>1. UnitsInv /\ JobOK(w) /\ Reckons(w)
  BY DEF FilesInv, UnitsInv, IInv, JobsOK
<1>2. ~job[w].full /\ f \in File
  BY <1>1 DEF JobOK, Present, UnitsInv, OwnInv, WarmOK
<1>3. ~torn[w] /\ langOf[f] \notin storeHurt
  BY <1>2, LanguagesOfFiles
<1>4. /\ <<f, job[w].manifest[f]>> \in DOMAIN index.units
      /\ f \in job[w].candidates
  BY <1>1, <1>2, <1>3 DEF UnitsInv, CountsOn, Reuses, Reckons
<1>5. PICK i \in DOMAIN pathOrder : f = pathOrder[i]
  BY <1>2, StoreAssumption
<1>6. i \in DOMAIN CachedUnits(w) /\ CachedUnits(w)[i] = index.units[<<f, job[w].manifest[f]>>]
  BY <1>4, <1>5 DEF CachedUnits
<1> QED BY <1>2, <1>5, <1>6

LEMMA AssembleSeen ==
    ASSUME SeenInv, DeclsInv', OwnNames, NEW w \in Worktree, Assemble(w)
    PROVE  SeenInv'
<1> DEFINE units  == CachedUnits(w)
           scaffolding == {index.scaffolding[l] : l \in Skipped(w)}
           cached == WithCached(job[w].graph, units, scaffolding)
           more   == IF job[w].full THEN {} ELSE IF torn[w] THEN Language ELSE storeHurt
           H      == job'[w].graph
           T      == tree[w]
<1>1. /\ UNCHANGED <<head, tree, index, manifest, scan, state, torn, storeHurt>>
      /\ At(w, "assemble", "index")
      /\ job' = [job EXCEPT ![w].graph = Finalized(IF job[w].full THEN @ ELSE cached),
                            ![w].held = index.units,
                            ![w].hurt = @ \cup more]
  BY DEF Assemble, StepKeeps, repo, store, history
<1>2. /\ FilesInv /\ JobOK(w) /\ DOMAIN job = Worktree /\ pc \in [Worktree -> Steps] /\ T \in Trees
      /\ JobDecls(w)' /\ Assembled(w)'
  BY DEF SeenInv, DeclsInv, FilesInv, UnitsInv, IInv, JobsOK, RepoOK
<1>3. Apart(w) /\ pc[w] = "assemble" /\ pc'[w] = "index"
  BY <1>1, <1>2 DEF Apart, At
<1>4. UnitsOf(units, T)
  BY <1>3, CachedAreUnits DEF SeenInv
<1>5. /\ job'[w].hurt = job[w].hurt \cup more /\ job'[w].held = index.units
      /\ job'[w].manifest = job[w].manifest /\ job'[w].targets = job[w].targets
      /\ H = Finalized(IF job[w].full THEN job[w].graph ELSE cached)
  BY <1>1, <1>2 DEF JobOK, JobFields
<1>6. job[w].manifest = T /\ Tells(H, T) /\ \A f \in Sure(w)' : <<f>> \in DOMAIN H.nodes
  BY <1>1, <1>2, <1>3 DEF JobOK, JobDecls, Assembled, Saving
<1>7. ASSUME NEW f \in Sure(w)', f \notin NewUnits(w)', NEW g \in Sure(w)',
             NEW e \in index.units[<<f, T[f]>>].edges, e[1] \in {"Calls", "Uses"},
             NEW q \in Names(g, T[g]), q[1] = e[3]
      PROVE  e \in H.edges
  <2>1. /\ f \in Present(T) /\ langOf[f] \notin job[w].hurt \cup more
        /\ job[w].targets # {} /\ f \notin job[w].targets
    BY <1>5, <1>6, <1>7 DEF Sure, NewUnits
  <2>2. PICK i \in DOMAIN units : pathOrder[i] = f /\ units[i] = index.units[<<f, T[f]>>]
    BY <1>2, <1>3, <1>6, <2>1, ReusedOrNew
  <2>3. ~job[w].full
    BY <1>2, <1>3, <1>6, <2>1, ReusedOrNew
  <2>4. H = Finalized(WithCached(job[w].graph, units, scaffolding))
    BY <1>5, <2>3
  <2>5. g \in Present(T) /\ <<g>> \in DOMAIN H.nodes /\ <<f>> \in DOMAIN H.nodes
    BY <1>5, <1>6 DEF Sure
  <2> HIDE DEF units, scaffolding, H, T
  <2>6. /\ T \in Trees /\ UnitsOf(units, T) /\ Tells(H, T)
        /\ <<pathOrder[i]>> \in DOMAIN H.nodes
    BY <1>2, <1>4, <1>6, <2>2, <2>5
  <2>7. /\ e \in units[i].edges /\ e[1] \in {"Calls", "Uses"}
        /\ q \in Names(g, T[g]) /\ q[1] = e[3]
    BY <1>7, <2>2
  <2>8. ASSUME NEW K, NEW X, H = Finalized(WithCached(K, units, X)) PROVE e \in H.edges
    BY <2>2, <2>5, <2>6, <2>7, <2>8, LinkKept
  <2> QED BY <2>4, <2>8
<1> HIDE DEF cached, units, more, scaffolding
<1>8. HeldLinks(w)'
  BY <1>5, <1>6, <1>7 DEF HeldLinks
<1>9. ~MidSave(w) /\ ~MidSave(w)'
  BY <1>3 DEF MidSave
<1> QED BY <1>1, <1>3, <1>8, <1>9, QuietSeen

\* A save, before the last.
LEMMA SavingSeen ==
    ASSUME SeenInv, DeclsInv', NEW w \in Worktree,
           SaveIndex(w) \/ SaveManifest(w) \/ SaveScanRecord(w)
    PROVE  SeenInv'
<1>1. /\ At(w, "index", "manifest") \/ At(w, "manifest", "scan") \/ At(w, "scan", "state")
      /\ Overtakes(w) /\ UNCHANGED <<head, tree, job>>
  BY DEF SaveIndex, SaveManifest, SaveScanRecord, repo
<1>2. /\ DOMAIN job = Worktree /\ pc \in [Worktree -> Steps] /\ torn \in [Worktree -> BOOLEAN]
      /\ HeldLinks(w) /\ HoldsUnits(w) /\ (~torn[w] => WritesUnits(w))
  BY DEF SeenInv, DeclsInv, FilesInv, UnitsInv, OwnInv, IInv, JobsOK, TornOK
<1>3. Apart(w) /\ pc[w] \in Saving /\ MidSave(w)' /\ pc'[w] \in Saving
  BY <1>1, <1>2 DEF Apart, At, MidSave, Saving
<1>4. HeldLinks(w)'
  BY <1>1, <1>2, <1>3 DEF HeldLinks, Sure, NewUnits
<1>5. CascadeSeesUnits'
  BY <1>3 DEF CascadeSeesUnits, AtRest
<1>6. torn'[w] = torn[w]
  BY <1>1, <1>2 DEF Overtakes
<1>7. CASE SaveIndex(w)
  <2> DEFINE new == {<<f, job[w].manifest[f]>> : f \in NewUnits(w)}
  <2>1. index'.units = [u \in DOMAIN job[w].held \cup new |->
                          IF u \in new THEN UnitOf(job[w].graph, u[1]) ELSE job[w].held[u]]
    BY <1>7 DEF SaveIndex
  <2>2. \A f : <<f, job[w].manifest[f]>> \in new <=> f \in NewUnits(w)
    OBVIOUS
  <2> HIDE DEF new
  <2>3. ASSUME NEW f \in Sure(w)
        PROVE  index'.units[<<f, job[w].manifest[f]>>] =
                  IF f \in NewUnits(w) THEN UnitOf(job[w].graph, f)
                  ELSE job[w].held[<<f, job[w].manifest[f]>>]
    <3> DEFINE u == <<f, job[w].manifest[f]>>
    <3>1. u \in DOMAIN job[w].held \cup new
      BY <1>2, <1>3, <2>2 DEF HoldsUnits
    <3>2. u[1] = f /\ (u \in new <=> f \in NewUnits(w))
      BY <2>2
    <3> HIDE DEF u
    <3>3. index'.units[u] = IF f \in NewUnits(w) THEN UnitOf(job[w].graph, f) ELSE job[w].held[u]
      BY <2>1, <3>1, <3>2
    <3> QED BY <3>3 DEF u
  <2>4. WritesUnits(w)'
    BY <1>1, <2>3 DEF WritesUnits, Sure, NewUnits
  <2> QED BY <1>1, <1>3, <1>4, <1>5, <2>4, SeenStep
<1>8. CASE SaveManifest(w) \/ SaveScanRecord(w)
  <2>1. UNCHANGED index /\ MidSave(w)
    BY <1>8 DEF SaveManifest, SaveScanRecord, At, MidSave
  <2>2. ~torn'[w] => WritesUnits(w)'
    BY <1>1, <1>2, <1>6, <2>1 DEF WritesUnits, Sure, NewUnits
  <2> QED BY <1>1, <1>3, <1>4, <1>5, <2>2, SeenStep
<1> QED BY <1>7, <1>8

\* A call or a use of one file's declaration, of another's, is a dependency.
LEMMA LinkIsDependency ==
    ASSUME OwnNames, NEW T \in Trees, NEW G, Tells(G, T),
           NEW f \in Present(T), <<f>> \in DOMAIN G.nodes,
           NEW g \in Present(T), <<g>> \in DOMAIN G.nodes, f # g,
           NEW e \in G.edges, e[1] \in {"Calls", "Uses"}, LinkTells(e, f, T[f]),
           NEW q \in Names(g, T[g]), q[1] = e[3]
    PROVE  <<f, g>> \in DependsOn(G)
<1>1. ASSUME NEW k \in Present(T), <<k>> \in DOMAIN G.nodes, NEW p \in Names(k, T[k])
      PROVE  FileKeyOf(G, p[1]) = k /\ k # None
  <2>1. p[1] \in DOMAIN G.nodes /\ G.nodes[p[1]] = p[2]
    BY <1>1 DEF Tells, HasNames
  <2>2. p[2].path = k /\ Located(p[2]) /\ p[2].kind # "File" /\ k \in File
    BY <1>1, ContentsOfTrees, NamesAreDeclarations DEF Located
  <2> QED BY <2>1, <2>2, NamesAssumption DEF FileKeyOf, IsKind
<1>2. PICK p \in Names(f, T[f]) : p[1] = e[2]
  BY DEF LinkTells
<1>3. FileKeyOf(G, e[2]) = f /\ FileKeyOf(G, e[3]) = g /\ f # None /\ g # None
  BY <1>1, <1>2
<1>4. e[1] # "Contains"
  OBVIOUS
<1> DEFINE d == <<FileKeyOf(G, e[2]), FileKeyOf(G, e[3])>>
<1>5. d = <<f, g>> /\ d[1] # d[2] /\ d[1] # None /\ d[2] # None
  BY <1>3
<1>6. d \in DependsOn(G)
  BY <1>4, <1>5 DEF DependsOn
<1> QED BY <1>5, <1>6

\* The last save: what the store says of the cascade is what its units have.
LEMMA SaveStateSees ==
    ASSUME SeenInv, DeclsInv', OwnNames, NEW w \in Worktree, SaveState(w), ~torn[w]
    PROVE  CascadeSeesUnits'
<1> DEFINE G == job[w].graph
           T == tree[w]
<1>1. /\ At(w, "state", "build") /\ UNCHANGED <<tree, job, index, manifest, scan>>
      /\ storeHurt' = job[w].hurt
      /\ state'.signatures = [f \in File |-> SignaturesOf(G, f)]
      /\ state'.deps = DependsOn(G)
  BY DEF SaveState, StateOf, repo
<1>2. /\ FilesInv /\ JobOK(w) /\ JobDecls(w) /\ Assembled(w) /\ Untorn(w) /\ T \in Trees
      /\ HeldLinks(w) /\ WritesUnits(w) /\ ShowsFiles(G, T)
      /\ UnitsTell(index.units)
      /\ UnitsRight(index.units) /\ SavesUnits(w)
  BY DEF SeenInv, DeclsInv, StoreDecls, FilesInv, StoreFiles, JobFiles, UnitsInv, CountsOn, IInv, JobsOK,
         TornOK, RepoOK
<1>3. pc[w] = "state" /\ job[w].manifest = T /\ manifest = T /\ MidSave(w) /\ pc[w] \in Saving
  BY <1>1, <1>2 DEF At, JobOK, Untorn, MidSave, Saving
<1>4. Tells(G, T) /\ Settled(G) /\ \A f \in Sure(w) : <<f>> \in DOMAIN G.nodes
  BY <1>2, <1>3 DEF JobDecls, Assembled
<1>5. Stored' = Sure(w) /\ \A f : UnitIn(f)' = index.units[<<f, T[f]>>]
  BY <1>1, <1>3 DEF Stored, Sure, Present, UnitIn
<1>6. \A f \in Sure(w) : f \in Present(T) /\ f \in File
  BY <1>3 DEF Sure, Present
<1> HIDE DEF G, T
<1>7. ASSUME NEW f \in Sure(w)
      PROVE  UnitTells(index.units[<<f, T[f]>>], f, T[f]) /\ UnitRight(index.units[<<f, T[f]>>], f, T[f])
  <2>1. <<f, T[f]>> \in DOMAIN index.units
    BY <1>2, <1>3 DEF SavesUnits
  <2> QED BY <1>2, <1>6, <2>1 DEF UnitsTell, UnitsRight
<1>8. ASSUME NEW f \in Sure(w)
      PROVE  state'.signatures[f] = SignaturesOf(index.units[<<f, T[f]>>], f)
  <2>1. SignaturesOf(G, f) = NameSigs(f, T[f])
    BY <1>2, <1>4, <1>6, SignaturesOfATree
  <2>2. SignaturesOf(index.units[<<f, T[f]>>], f) = NameSigs(f, T[f])
    BY <1>6, <1>7, SignaturesOfAUnit
  <2> QED BY <1>1, <1>6, <2>1, <2>2
<1>9. ASSUME NEW f \in Sure(w), NEW g \in Sure(w) \ {f}, NEW e \in index.units[<<f, T[f]>>].edges,
             e[1] \in {"Calls", "Uses"}, e[3] \in DOMAIN index.units[<<g, T[g]>>].nodes
      PROVE  <<f, g>> \in state'.deps
  <2> DEFINE v == index.units[<<g, T[g]>>]
  <2>1. LinkTells(e, f, T[f])
    BY <1>7, <1>9 DEF UnitTells
  <2>2. e[3][1] # "?" /\ e[3] # <<g>>
    BY <1>6, <2>1 DEF LinkTells, FileFqns
  <2>3. <<e[3], v.nodes[e[3]]>> \in Names(g, T[g])
    <3>1. UnitTells(v, g, T[g])
      BY <1>7
    <3> HIDE DEF v
    <3>2. e[3] \in DOMAIN v.nodes
      BY <1>9 DEF v
    <3> QED BY <2>2, <3>1, <3>2 DEF UnitTells, RightNode
  <2> DEFINE q == <<e[3], v.nodes[e[3]]>>
  <2>4. q \in Names(g, T[g]) /\ q[1] = e[3]
    BY <2>3
  <2> HIDE DEF q
  <2>5. e \in G.edges
    <3>1. CASE f \in NewUnits(w)
      <4>1. index.units[<<f, T[f]>>] = UnitOf(G, f)
        BY <1>2, <1>3, <3>1 DEF WritesUnits, G
      <4>2. e \in UnitOf(G, f).edges
        BY <1>9, <4>1
      <4> QED BY <4>2 DEF UnitOf, FileEdges, ModuleEdgesOf
    <3>2. CASE f \notin NewUnits(w)
      <4>1. index.units[<<f, T[f]>>] = job[w].held[<<f, T[f]>>]
        BY <1>2, <1>3, <3>2 DEF WritesUnits
      <4> QED BY <1>2, <1>3, <1>9, <2>4, <3>2, <4>1 DEF HeldLinks, G
    <3> QED BY <3>1, <3>2
  <2>6. <<f, g>> \in DependsOn(G)
    BY <1>2, <1>4, <1>6, <1>9, <2>1, <2>4, <2>5, LinkIsDependency
  <2> QED BY <1>1, <2>6
<1>10. ASSUME NEW f \in Stored'
       PROVE  /\ state'.signatures[f] = SignaturesOf(UnitIn(f)', f)
              /\ \A g \in Stored' \ {f} : \A e \in UnitIn(f)'.edges :
                    e[1] \in {"Calls", "Uses"} /\ e[3] \in DOMAIN UnitIn(g)'.nodes => <<f, g>> \in state'.deps
  BY <1>5, <1>8, <1>9
<1> QED BY <1>10 DEF CascadeSeesUnits

LEMMA SaveStateSeen ==
    ASSUME SeenInv, DeclsInv', OwnNames, NEW w \in Worktree, SaveState(w)
    PROVE  SeenInv'
<1>1. /\ At(w, "state", "build") /\ Overtakes(w) /\ UNCHANGED <<head, tree, job>>
      /\ storeHurt' = IF torn[w] THEN Language ELSE job[w].hurt
  BY DEF SaveState, repo
<1>2. DOMAIN job = Worktree /\ pc \in [Worktree -> Steps] /\ HeldLinks(w)
  BY DEF SeenInv, DeclsInv, FilesInv, UnitsInv, IInv, JobsOK
<1>3. Apart(w) /\ pc[w] \in Saving /\ pc'[w] = "build"
  BY <1>1, <1>2 DEF Apart, At, Saving
<1>4. HeldLinks(w)'
  BY <1>1, <1>2, <1>3 DEF HeldLinks, Sure, NewUnits
<1>5. WritesUnits(w)'
  BY <1>3 DEF WritesUnits, MidSave
<1>6. CascadeSeesUnits'
  <2>1. CASE torn[w]
    BY <1>1, <2>1, LanguagesOfFiles DEF CascadeSeesUnits, Stored
  <2>2. CASE ~torn[w]
    BY <2>2, SaveStateSees
  <2> QED BY <2>1, <2>2
<1> QED BY <1>1, <1>3, <1>4, <1>5, <1>6, SeenStep

LEMMA EndSeen ==
    ASSUME SeenInv, DeclsInv', NEW w \in Worktree, Build(w) \/ KillScan(w)
    PROVE  SeenInv'
<1>1. /\ pc' = [pc EXCEPT ![w] = "idle"] /\ job' = [job EXCEPT ![w] = NoJob]
      /\ torn' = [torn EXCEPT ![w] = FALSE]
      /\ storeHurt' = IF MidSave(w) THEN Language ELSE storeHurt
      /\ UNCHANGED <<head, tree, index, manifest, scan, state>>
  BY DEF Build, KillScan, At, Ends, MidSave, repo, store
<1>2. /\ DOMAIN job = Worktree /\ pc \in [Worktree -> Steps] /\ torn \in [Worktree -> BOOLEAN]
  BY DEF SeenInv, DeclsInv, FilesInv, UnitsInv, IInv, JobsOK, TornOK
<1>3. Apart(w) /\ pc'[w] = "idle" /\ pc'[w] \notin Saving
  BY <1>1, <1>2 DEF Apart, Saving
<1>4. \A v \in Worktree \ {w} : torn'[v] = torn[v]
  BY <1>1, <1>2
<1> QED BY <1>1, <1>3, <1>4, EarlySeen

LEMMA RecordFailsSeen ==
    ASSUME SeenInv, DeclsInv', NEW w \in Worktree, RecordFails(w)
    PROVE  SeenInv'
<1>1. /\ pc[w] = "index" \/ MidSave(w)
      /\ pc' = [pc EXCEPT ![w] = "build"]
      /\ storeHurt' = IF MidSave(w) THEN Language ELSE storeHurt
      /\ UNCHANGED <<head, tree, index, manifest, scan, state, job, torn>>
  BY DEF RecordFails, repo, store
<1>2. DOMAIN job = Worktree /\ pc \in [Worktree -> Steps] /\ HeldLinks(w)
  BY DEF SeenInv, DeclsInv, FilesInv, UnitsInv, IInv, JobsOK
<1>3. Apart(w) /\ pc'[w] = "build" /\ pc[w] \in Saving /\ ~MidSave(w)'
  BY <1>1, <1>2 DEF Apart, Saving, MidSave
<1>4. HeldLinks(w)'
  BY <1>1, <1>2, <1>3 DEF HeldLinks, Sure, NewUnits
<1> QED BY <1>1, <1>3, <1>4, QuietSeen

LEMMA SameSeen ==
    ASSUME SeenInv, DeclsInv', UNCHANGED <<index, manifest, scan, state, storeHurt, pc, job, torn>>
    PROVE  SeenInv'
<1>1. CascadeSeesUnits'
  <2>1. AtRest' = AtRest
    BY DEF AtRest, MidSave
  <2>2. Stored' = Stored /\ \A f \in Stored : UnitIn(f)' = UnitIn(f)
    BY DEF Stored, Present, UnitIn
  <2>3. CascadeSeesUnits
    BY DEF SeenInv
  <2> QED BY <2>1, <2>2, <2>3 DEF CascadeSeesUnits
<1>2. ASSUME NEW w \in Worktree PROVE HeldLinks(w)' /\ (~torn'[w] => WritesUnits(w)')
  <2>1. HeldLinks(w) /\ (~torn[w] => WritesUnits(w))
    BY DEF SeenInv
  <2>2. HeldLinks(w)'
    BY <2>1 DEF HeldLinks, Sure, NewUnits
  <2>3. WritesUnits(w) => WritesUnits(w)'
    BY DEF WritesUnits, MidSave, Sure, NewUnits
  <2> QED BY <2>1, <2>2, <2>3
<1> QED BY <1>1, <1>2 DEF SeenInv

LEMMA InitSeen == Init => SeenInv
<1> SUFFICES ASSUME Init PROVE SeenInv
  OBVIOUS
<1>1. DeclsInv
  BY InitDecls
<1>2. scan = None /\ \A w \in Worktree : pc[w] = "idle"
  BY DEF Init
<1> QED BY <1>1, <1>2 DEF SeenInv, CascadeSeesUnits, HeldLinks, WritesUnits, MidSave, Saving

LEMMA NextSeen == ASSUME OwnNames PROVE SeenInv /\ [Next]_vars => SeenInv'
<1> SUFFICES ASSUME SeenInv, [Next]_vars PROVE SeenInv'
  OBVIOUS
<1>1. DeclsInv'
  BY NextDecls DEF SeenInv
<1>2. CASE UNCHANGED vars
  BY <1>1, <1>2, SameSeen DEF vars, store, history
<1>3. CASE \E w \in Worktree : \/ \E f \in File : \E c \in contentsOf[f] : EditFile(w, f, c)
                               \/ CommitTree(w)
                               \/ \E c \in 1..Len(commits) : Checkout(w, c)
  <2>1. Moves
    BY <1>3 DEF EditFile, CommitTree, Checkout
  <2> QED BY <1>1, <2>1, SameSeen DEF Moves, store, history
<1>4. CASE \E w \in Worktree : Start(w) \/ StartForced(w)
  BY <1>1, <1>4, UnsavedSeen
<1>5. CASE \E w \in Worktree : ScanStep(w)
  BY <1>1, <1>5, UnsavedSeen, AssembleSeen, SavingSeen, SaveStateSeen, EndSeen DEF ScanStep
<1>6. CASE \E w \in Worktree : KillScan(w) \/ RecordFails(w)
  BY <1>1, <1>6, EndSeen, RecordFailsSeen
<1> QED BY <1>2, <1>3, <1>4, <1>5, <1>6 DEF Next

LEMMA SeenAlways == ASSUME OwnNames PROVE Spec => []SeenInv
<1>1. SeenInv /\ [Next]_vars => SeenInv'
  BY NextSeen
<1> QED BY <1>1, InitSeen, PTL DEF Spec

\* Where each file has names of its own, the store's signatures are those of the
\* units a scan will reuse, and a call or a use from one unit into another is a
\* recorded dependency, whichever worktrees scanned, were overtaken or failed to
\* record between: a change is followed to every unit that refers to what changed.
THEOREM CascadesSeeTheUnits == ASSUME OwnNames PROVE Spec => []CascadeSeesUnits
<1>1. SeenInv => CascadeSeesUnits
  BY DEF SeenInv
<1> QED BY <1>1, SeenAlways, PTL

=============================================================================
