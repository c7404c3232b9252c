# apg in TLA+

`apg` keeps a graph of a repository: the code, which scans put there, and the
*authored graph* (requirements, domain, solution, notes), which people and agents
edit. The authored graph lives twice: as node files under `apg/layers/**`, committed to
git, and as rows of a derived database, `apg/.trans/db.lbug`. An `apg session` is the
process that owns the database, admits edits into it, and writes node files on `save`.
These modules say what that machinery promises, model-check it on small instances, and
prove the central parts for every size. Paths below are of the crate: `src/session.rs`
and so on; README, docs and node files are at the repository's root.

## Inventory

| Part | State | Operations | Talks to |
|---|---|---|---|
| node-file vocabulary and rules (`layers/validate, node_file, tree, catalog, code_refs`) | none | validate a node, an edge, an assembled set, the pairing of halves; ingest a tree | everything that admits, saves or scans |
| session coordinator (`session.rs`, `node_cmd.rs`, `artifacts/*`) | rows, rel rows, `updated` marks, `PendingRemoval` ledger, pending-identity list, reply ledger | node/edge add, update, rm; query; save; end; abort | node files through the write path; clients through the socket |
| durable write path (`layers/write.rs`, `git/commit.rs`) | node files, git index, HEAD | validate, snapshot, write and delete, commit, roll back | git |
| routed client (`node_cmd.rs`, `session.rs`) | a client id, one connection at a time | send, time out, retry once, report | the coordinator's backlog |
| session lifecycle (`session.rs`, `scan.rs`, `query.rs`, `git/state.rs`) | socket file, `specs.lock` flock, database file, open handles | start, end, abort, recovery of what a dead process left, scan, query | other processes, only through those four |
| scan pipeline (`pipeline.rs`, `frontends.rs`, `ingest/*`, `load/*`, `cleanup`, `classify`) | a graph in memory, then the database | run frontends, ingest JSONL, assemble, full load | fact store, splice, layers |
| splice (`splice/seed, apply, publish`) | a temporary copy of the database | seed, apply a delta, publish by rename | database file |
| shared fact store and preparation (`cache/*`, `incremental/*`, `delta.rs`, `warm.rs`, `impact/*`) | units, `index.json`, `manifest.json`, `scan.json`, dependency indexes in the git common directory | prepare, reuse, record | every worktree of the repository |
| plan and review (`plan_cmd/*`, `review_cmd.rs`, `specs.rs`) | JSONL records under `apg/.trans/{plans,<tier>}` | phases, tasks, planned nodes, done/undone, complete, verify; feedback add/action/resolve/reject | database, through `write_jsonl_and_reingest` |
| project lifecycle (`project_cmd/*`, `git/identity.rs`) | branch, worktree, default branch | start, merge, delete | git, verify gate, scan |
| spec lint, install, version gate, logging, progress, timing, agent suite, packaging | files or nothing | reports, scaffolding | - |

What is hard in this code:

- **Three marks for one difference.** What a save must write is told by a flag on rows, by
  a ledger, and by a list in memory. An edit touches rows, rel rows and all three, for the
  node and for its neighbours; add, save, remove, re-add, remove is a legal sequence.
- **Two validations.** Admission judges a change over the working state and leaves pairing
  to the save; the save judges structure over dirty rows only. Nothing may pass the first
  and be refused by the second.
- **A save is many writes**: node files one by one, then git's index, then a commit, then
  the marks; any of them may fail, and the process may be killed between any two.
- **Processes meet in files**: a socket path that outlives its owner, a flock that does
  not, a database that may be unlinked under an open handle, and a recovery that decides
  first and acts later.
- **Retries**: a command whose reply was lost sends its mutation again.
- **Shared between worktrees**: the fact store has no lock of its own.

What makes each part correct: the marks are exact and a save writes the whole working
graph (coordinator); a failed save is no save and the tree can always be ingested (write
path); one admission per command and no false refusal (client); one owner of the database,
who serves the file at the path and nobody else's unsaved work, and no command that waits
for ever (lifecycle); a spliced database equals a rebuilt one (splice, store); verify passes
only what is done, reviewed and covered (plan, review); a project's branch and worktree
go together, and the default branch keeps its commits (project).

## Modules

| Module | What it is |
|---|---|
| `SpecGraph` | constants and pure vocabulary: identities, edges, node files, `TreesValid`, `EventTargetsValid`, `Paired`, `Ingestible` |
| `AuthoredGraph` | abstract: a durable graph, a working graph, edits, save, start, end, abort, crash |
| `SessionStore` | the coordinator's store, one action per request |
| `SaveThrough` | extends `SessionStore`: the save in pieces, with failures and kills |
| `RoutedClient` | clients, connection backlog, reply ledger, coordinators one after another |
| `SessionLifecycle` | several processes on one worktree |
| `PlanStore` | plan and review records in their files, the database's copy of them, scans and the verify gate |
| `CodeGraph` | the code graph, pure: ingest of a record stream, units and scaffolding of cached files, their splice into an ingested graph, the full load, the delta applied to a seeded database |
| `SharedStore` | extends `CodeGraph`: worktrees that edit, commit, check out and scan through one fact store |
| `ProjectLifecycle` | `apg project start`, `merge`, `delete`, step by step, beside people, sessions and one another |
| `MC*` | the instances TLC checks |
| `SessionStoreProofs`, `SaveThroughProofs`, `SessionLifecycleProofs`, `RoutedClientProofs`, `PlanStoreProofs`, `SharedStoreProofs`, `SharedStoreTrees`, `ProjectLifecycleProofs` | the proofs |

`SaveThrough` implements `SessionStore`, which implements `AuthoredGraph`. `RoutedClient`,
`SessionLifecycle` and `PlanStore` stand beside them: each keeps of a request only what it needs (was it
admitted; does the database carry unsaved work), and the store keeps the rest. `SharedStore`
is what a scan does inside the two steps `SessionLifecycle` gives it, and `ProjectLifecycle`
takes a scan and a session's save as one step each.

### SpecGraph and SessionStore

`Edge` is the set of triples the edge-kind matrix of `validate.rs` admits, so a triple
with a wrong shape is no input. A node's body and properties are one value (`Body`); an
edge's property map is one value (`Prop`). A node file has the out-halves and the
in-halves of its edges; in the database one rel row stands for both (`links`). `dirty`,
`ledger` and `list` are the `updated` flag, the `PendingRemoval` rows and
`Coordinator.buffer`. `Base` is `node_files_from_db`, what every builder, validation and
save reads.

Every request is `Admit` of a `Change` that the builder of `node_cmd.rs` computes: the
files it rewrites, with their bodies and out-halves, and those it deletes. `Admit` is the
whole of `apply_mutation`: validation, projection (detach and re-merge, with the in-edges
read back from the database, `ProjectedLinks`), marks, ledger, list. `merge_edge` drops an
edge whose endpoint has no row; so does `ProjectedLinks`. `Save` is atomic here, and is
`SaveBegins`, `WriteOrDelete`, `StageIndex`, `Commit`, `ClearMarks` in `SaveThrough`, with
`SaveFails`, `ClearFails` and `Kill`. `SaveFails` is the rollback as it is: file by file, each
of which may resist, and without git's index. `ClearFails` is `clear_pending_state` failing
between two of its statements: the save is committed, the reply is an error, and the session
lives on over some of the marks, the whole ledger and the whole list (`uncleared`). `lapses` is
history, what has gone wrong that the code does not undo: a commit that failed over a written index, a
file a rollback left, a request admitted over marks a failed clear left. A file is written or
not; a torn one is not told apart from one that was left. `index` and
`head` are external: what git2 does with them is taken from `commit_files`.

### RoutedClient

A client's program counter is `cmd_node` / `cmd_edge` followed by `send_with_retry`: connect
or not, wait, take the reply, or stop waiting (sixty seconds, or an end of file when the
coordinator stops), and once more. `backlog` is what the listener has accepted; `serve`
takes one connection to its end before the next (`Handle`). `admitted` counts per
coordinator, `landed` in the working state, `saved` in the node files.

### SessionLifecycle

One action per step another process can come between: ping, unlink of a dead socket,
probe, discard, the scan's guard, its flock, its build, the load's copy, the start's wait,
open and bind, and the release, unlink and close that follow the serve loop. `Db` are inodes:
a discard or a load leaves open handles on the old one. `Stalls` lets a coordinator be too
busy to answer a ping within two seconds; `Overlap` lets a command begin in the middle of
another; `Killed` is where a process may die. What a database holds is reduced to whose
unsaved work it carries (`unsaved`) and whether a killed load left it half copied (`torn`).

### PlanStore

Plan and review commands are one flock apart, so each is one action; it ends in
`WriteThrough`, which is all of `write_jsonl_and_reingest`: the freshness test, the file, and
the projection of the difference (`Delta`, `Project`). With `ProjectionMayBeCut` the command
may die or fail after the file. `rows`, `real`, `links` and `recorded` are what the database
has of placeholders, code, edges and the content it was scanned at; `code` and `claims` are
the checkout, which `EditCode` changes at any time and a session's save changes one
`implemented-by` claim at a time. `Fresh` is `is_fresh`, a conjunct for each digest it
compares: planned rows are in none. `VerifyPasses` is `plan verify`, a judgement over all
of it and no action. A feedback item's `reviews` edge is the record that says what it is
about; its file is the plan store for plan nodes, and one mirror stands for the five.

The database exists (without one a command writes its file and nothing else); a code identity
has a kind of its own, so the limit of one operation per kind and verb does not bite; the
merge base is the tree the project began with. Left out: titles, notes, agents, `Satisfies`
edges, and three verbs: `deletes` is judged as `modifies` is, `renames` and `moves` judge a
source as `modifies` does and a destination as `creates` does.

### CodeGraph and SharedStore

A graph is `nodes` by FQN and `edges`, triples of a table and two FQNs. `Ingested` is
`ingest::ingest` of a stream: FQNs as `render.rs` gives them (an overloaded function has its
parameters, a Go `init` its file), a type over a module of the same name, a declaration over
a placeholder. `WithCached` is `splice_cached`, `Finalized` the last pass, `UnitOf` and
`ScaffoldingOf` what `record` stores, `SignaturesOf`, `ScopesOf` and `DependsOn` the three
dependency indexes. `Loaded` is the full load and `Applied` is `splice/apply.rs`: the rows
written (over a row that stands a placeholder leaves the status, `Upserted`), the delete scope, the edges lost with a node and those put back.

`SharedStore` runs this once for each worktree and step: `Start`, `Probe` (the warm cache),
`ReadRecordedKey`, `Plan`, `Diff`, `EmitFacts` (both frontend passes and the signature
cascade between them), `Assemble`, the four saves of `record`, and `Build`. Each read or
write of a store file is a step because no lock covers the store: the flock is of one
worktree. `tree` and `commits` are git; a content hash is the content itself, and `Key` is
`content_key`. `Stream` is what a frontend says of the files it is asked for: the module
chain of everything it walks, declarations and edges of the files it emits, an edge to a
declaration outside them by its canonical FQN. `hurt`, `storeHurt` and `torn` are history:
the languages a failure touched, and the scans whose store was rewritten under them.

A working tree moves (`EditFile`, `CommitTree`, `Checkout`) only while no scan runs: what a
scan reads is its own tree, and a tree that changes under a running scan is the scan of a
moment nobody can name. `Faults` says which of overlapping scans, kills, failed records and
failed frontends may happen.

### ProjectLifecycle

A tree is three facts: its code, its specification, which claims the code of its own
version, and whether `.gitignore` covers `apg/.trans`. A commit has its ancestors and its tree; `Merged` is git's
three-way merge, field by field. A command is a record in `cmd`, with the step it is at
(`at`), the project's commit as it was resolved before the gates (`their`), the commit a merge read
HEAD at (`mine`), the one it then looked the default branch up at (`seen`), and whether
anybody else changed what it has read (`touched`). The move of the default branch is what
libgit2 makes of it: `MergeRead` (HEAD, merge base, the merge in memory), then `MergeLook` (`find_reference`) and
`MergeSet` (`set_target`, which compares with what was looked up, not with `mine`) or `MergeCommit` (which
compares HEAD with its first parent), then `MergeSync` (`checkout_head`). No lock covers them; `lost` is
history, what a fast-forward overtaken between the first two threw out of the default branch. Between any two steps people edit,
commit, switch branches, scan, start and save sessions, review, and repair by hand;
`Fails` ends a command at any step. `RemoveWorktree` and `DeleteBranch` are of `merge` and
`delete` both. With the directory goes `apg/.trans`: what a live session has not saved, plan and feedback
are destroyed by a `delete`, which asks for no session; of that the state has only that the
session lives (`live`), so no property speaks of it. `Fresh` is `is_fresh`, and `SessionSave` re-anchors the `Scan` row as
`Coordinator::save` does, over whatever code is there.

What is taken for granted: nobody switches the main checkout while a project command runs
in it, and worktrees stay on their branch; `MergeRead` is one step (what it reads twice, HEAD and the
merge base, it reads by the commit it holds); so are the making of a worktree (`start.rs:150-156`: add, set HEAD, check out) and
its removal, one call of libgit2; node files are not edited by hand; the repository has an origin and a default branch. With two
versions no merge conflicts.

## Runs

| Run | Instance | Question | Answer |
|---|---|---|---|
| `session_store` | 3 nodes, 1 code identity, 4 edges (a tree edge each way, an event edge, a code edge), 2 bodies, 2 property maps: 138,746 states | does any sequence of requests, kills and restarts make a mark wrong, break a rule, strand a save, or leave `AuthoredGraph`? | no |
| `save_through` | 2 nodes, 1 edge, failures of files, staging, commit, rollback and clear, kills between saves, followed up to a lapse: 275,476 states | is a save in pieces the atomic save? | yes, until a rollback leaves a file or a request is admitted over marks a failed clear left |
| `routed_client` | 3 commands, 2 coordinators: 23,237 states | is a command admitted twice, or told it was refused when it was not? | no, by one coordinator |
| `lifecycle` | 2 processes, everything allowed to stall, overlap and die: 11,282 states | two owners? a command that waits for ever on no session? | no |
| `lifecycle_apart` | 3 processes, no stall, no overlap, kills anywhere but in the copy: 65,488 states | is a serving session always reached, over the file at the path, with its own work only? does a query read the last save? | yes |
| `plan_store` | 2 phases, 1 task, 2 feedback items, no code, commands that die or fail after the file: 48,879 states | is feedback lost, renumbered or detached? do gates close a cycle, is a task without its phase? | no |
| `plan_verify` | 1 phase, 1 task, 2 code identities, 2 kinds, feedback on code: 165,840 states | does the database, brought up to date by differences, agree with the files? does verify pass only what is built? | yes |
| `store_order` | as `session_store` | is an acknowledged edge in the working state? | not when its target is added later |
| `shared_store` | 2 interchangeable worktrees, 4 files of 2 languages, 2 contents, 3 events of which 1 fault: 186,802 states | is a database the fast path trusts of its tree? is the store of one scan, its units reusable, its indexes and its universe complete? | yes, in the languages no fault touched |
| `projects` | 2 projects, none or both started, 2 commands at once, 4 commits, 1 edit, 1 fault: 913,484 states | does the default branch lose a commit? is a worktree or branch removed before its work is elsewhere? is half a project left? | no, but by a fast-forward that another merge overtakes, which the run reaches and the properties name |
| `shared_lost` | 2 worktrees, 2 files, 4 edits, no fault: found within 115,000 states | is every reference of the tree in a spliced database? | not after the other worktree left a unit that resolves it to nothing |
| `projects_masked` | as `projects`, from none | does a fresh database show the tree? | not after a save over code that was not scanned |

`shared_lost`, `projects_masked` and `store_order` are disagreements between the code and what its documents or
comments say; `PROJECT.json` quotes both sides. Each is stated beside the property a passing
run checks where the promise does hold, so that the pair shows how much of it is kept:
`FreshIsTheTree` and `FreshNeverMasks` differ in nothing but `masked`.

`DefaultOnlyGrows`, `RebuiltBeforeCleanup` and `MergedBeforeDropped` name the one exception the code has, a fast-forward overtaken
between two reads of the default branch; without `Overtakes` and `lost` the run `projects` finds it.

Type invariants are theorems (below) and not run, except that of `PlanStore`.

**Conditions worth knowing.** `ServesOwnWork` does not hold
with `Overlap`: a start that waited for the flock of a session being aborted opens the
database before the abort discards it. `ReadsLastSaved` does not hold when a process may be
killed in the load's copy: `db.lbug` is created at its final path. `StaysFreshUnlessClaimed`
excepts claims on planned code: `plan rm planned` and `plan update planned` detach the
placeholder with everybody's edges, and re-merge only the transient ones, so a claim on it
leaves the database until the next scan. `plan_verify` has no cuts, because a planned
node removed by a command that dies leaves a placeholder in a database judged fresh.
`FreshShowsTree` and `FreshMissesNothing` leave out the languages a fault has hit,
and `FreshMissesNothing` speaks of containment only: the references a database lacks are the next paragraph's.

**`shared_lost`, step by step.** Worktree A scans; in its database f's use of g's struct T is a rel. Worktree
B, at the same HEAD, drops T and scans: the shared unit of f now ends at an unresolved name. B takes the change back and
scans: g is emitted, f is not, its unit stays as it is, and the record's key is that of A's tree again. A
drops T and scans: its database has the recorded key, so it is spliced; T and the rel go, and f, which no recorded
dependency names and which is no target, authors nothing. A takes the change back and scans: T returns, and f's use
is neither a rel nor an unresolved one until f changes. `seed_checked` compares keys
(`splice/seed.rs:111-138`), and the key is of HEAD and contents (`git/state.rs:197-236`): it cannot tell two scans of one
tree apart, and their edges differ.

### Where the code keeps less than it could

Modelling met these. Some are what a condition of a property excepts; the others are in no
instance of a passing run, and a run that adds them fails.

| Where | What happens | In the modules |
|---|---|---|
| `layers/write.rs:163` | a rollback that cannot put a file back says nothing: the tree is between two saves until the next one, and a kill before it may leave half an edge, over which recovery is refused | `lapses`, `"unrestored"` |
| `session.rs:703` | the clear fails after the commit, and the session goes on with its list: a node that was created and saved is taken for never durable, so its removal leaves the file, whose half edge makes a later recovery refuse the tree | `lapses`, `"undrained"`; without the exception `RecoveryNeverRefused` fails |
| `layers/write.rs:556` | a kill between two node-file writes leaves a tree no scan ingests | `KillPoints` with `"files"`: `RecoveryNeverRefused` fails |
| `git/commit.rs:87` | the index is written before the commit and not rolled back: a failed commit's files are in the next one | `HeadIsTreeUnlessUncommitted` excepts it |
| `session.rs:213` | a coordinator busy for two seconds is taken for dead and its socket unlinked | `Stalls`: `NoOrphan` fails with a third process |
| `session.rs:267, 993` | the reply ledger is one session's; a retry that reaches the next session is admitted again | `AtMostOnce` counts per coordinator |
| `incremental/prepare.rs:316` | overload peers come from the recorded index, which does not know a new file | no content of the passing instance does it; with one, `FreshShowsTree` fails |
| `incremental/prepare.rs:412-450` | a file pulled in by the cascade does not bring overload peers of its own | no content of the passing instance does it |
| `incremental/prepare.rs:350-368` | the removed FQNs are those of files that are gone; a declaration dropped from a file that stays is still in the drift universe, and a reference to it is refused only by a later scan | `PreviousCode` |
| `splice/apply.rs:214-220` | no splice deletes a language root | `FreshShowsTree` leaves `Language` rows out |
| `splice/apply.rs:244, 915` | a planned module that was built and loses its only file goes on as built until a full load: the constraint `db-splice-equivalence` says a spliced database equals a rebuild | `Upserted`; no plan of the passing instance names a file's module |
| `splice/apply.rs:226` | a placeholder that was realised and is deleted again stays away until a full load | placeholders are not in `Shown` |
| `splice/apply.rs:287-292` | a declaration that changes its kind under the same FQN leaves the old row | no content does it |
| `ingest/mod.rs:332` | a type that shadows a module of a reused file | no content does it |
| `impact/depindex.rs:25` | an unresolved target lies in no file, so a definition that comes later re-emits nobody | a database may have the reference as an unresolved one only (`FreshMentions` accepts it) |
| `scan.rs:765` | a frontend failed: the partial graph is stamped with the key of the tree, then the command reports failure | `hurt` |
| `review_cmd.rs:66` | feedback on actors, roles, agents and languages is accepted; `load/tables.rs:1078` has no `Reviews` pair for them | the target is no subject of a run |
| `session.rs:711` | a save re-anchors the `Scan` row over code that was edited since | run `projects_masked`; a merge then brings claims whose code nobody scanned (`MergedClaimsAreCode` excepts `masked`) |
| `project_cmd/merge.rs:120` | the probe for a live session is made once, before the gates, and the worktree's uncommitted files are not asked for at all: what a session started meanwhile has not saved, or an edit, is removed with the worktree, although the requirement `cli-session-lifecycle-exclusivity` says "a project merge run only with the session closed" | `cmd.touched` |
| `project_cmd/merge.rs:147-160` | a fast-forward reads HEAD, then looks the reference up again and sets it: another merge between the two is compared away, its commits leave the default branch, and it goes on to delete its worktree and branch | `Overtakes`, `lost`: `DefaultOnlyGrows`, `RebuiltBeforeCleanup`, `MergedBeforeDropped` except it |
| `project_cmd/merge.rs:160` | a kill, or a failing checkout, after the reference is set leaves main's files behind its HEAD: every project command then refuses a main checkout that is not clean | `MergeSync` |
| `project_cmd/delete.rs:112` | a live session is not asked for: its unsaved work goes with the worktree | `RemoveWorktree` |
| `project_cmd/merge.rs:148` | the branch is resolved before the gates; what is committed while they wait is deleted with it, "by definition merged" (`:194`) | `MergedBeforeDropped` excepts `touched` |
| `git/identity.rs:178` | after a cleanup that failed, the command run again is refused: nothing to merge | `MergeRead`, `their = mine` |
| `project_cmd/start.rs:165` | the copy goes over a database somebody scanned in the new worktree | `StartCopy` |

**Why these bounds.** Every rule of the graph relates at most two nodes and an edge, or a
cycle, for which two nodes are enough; the third node gives every edit a neighbour that is
not its subject, and a second property map makes a stale half visible. Two property maps
are interchangeable, which is the symmetry used. `SaveThrough` needs a save with two files, of
which one may be deleted; the search stops at a lapse (`NoLapse`), after which only
`HeadIsTreeUnlessUncommitted` still says something, and what it says is proved. A retry has two tries, so three clients give every order of a
late first try, a second one, and somebody else's; two coordinators are what a retry can
reach. Two processes are what any race of the lifecycle is between; the third is the one
that finds what they left. All of these safety
properties are proved for every size (below). `plan_store` needs two phases for a cycle of gates and two
items for a number given twice; what code adds is `plan_verify`'s, where a second identity is
the parent, or the neighbour, of the first. `Reviewable` and `MaxFeedback` bound the items. `Db` has one identity more than there are processes, so
a load always finds a fresh one (`UnusedExists`). No counter of these needs a cap but `MaxSessions` and `MaxFeedback`.

`shared_store` needs a file that refers (`f`), one it refers to whose signature changes (`g`,
which also drops a struct and realises a placeholder), a peer that overloads (`k`), and another language
(`h`), which is skipped when nothing of it changes. Three events are an edit, a commit or
checkout that takes it away from the record, and one fault or forced scan; scans are free, so every
worktree scans after each. A store race needs two scans and no more. `projects` needs two
projects for a merge that finds the default branch moved, and two commands for every
overlap; four commits are the first, one on each side, and the merge.
One edit and one fault at any moment are what each gate has to see. A second initial state has both projects started, with a commit
each, one of code and one of the specification (`Started`), so that two commands are enough for two merges that overlap.

**Deadlock** is checked for the store and the save. It is too for `PlanStore`. It is not for
`RoutedClient`, `SessionLifecycle`, `SharedStore` and `ProjectLifecycle`: commands and events
are finite and may all be over.

**Fairness.** Only `Settles` needs any. `LiveSpec` has weak fairness of `Step(p)`, what a
process does on its own once its command has begun: the code runs straight through, its
pings time out, and the kernel hands a free flock to a waiter. A waiter may be overtaken, and
weak fairness allows that. Users, clients and kills (`Request`) have none: nobody has to
type `end`.

## Proofs

All theorems are checked by TLAPS for arbitrary constants, from the assumptions of the
modules: authored and code identities are disjoint, an edge starts at an authored identity,
`Absent` and `NoProp` are no values, there are more database identities than processes,
branches and checkouts have names of their own, every file has a language and an order, no FQN is a file's path
(`NamesAssumption`: a frontend's FQNs are the language, the module's segments, of which there is at
least one (`ingest/identity.rs:137`), and a name; none is an id; a foreign name is of no language; a frontend
resolves references to files of its own language; what is planned is finite, neither foreign nor a file of
the repository), and an identity of a plan says whether it names the plan, a phase, a task,
code, an authored node or a feedback item (`IdentityAssumption`: `<project>/feedback-<n>` is nothing else's name).
Three of the modules have switches for what the runs show to go wrong; a theorem that needs
one off has it as a hypothesis, named below, and the run that finds the violation, or the
hazard that describes it, is what lies on the other side.

*SessionStoreProofs.* The properties of `session_store` are nearly inductive together. `IInv`
adds four facts: a marked row exists (`DirtyHasRow`); a rel row's endpoints exist
(`LinksResolve`), which is why a removal leaves nothing dangling; a node file has halves of
its own edges only (`FilesHoldOwnHalves`), without which a rebuild could invent an edge; and
the list is empty when no session lives. The argument for admission is made once, for any
`Change` that is *well built* (`AdmitPreserves`: it rewrites every file whose halves it
moves), and each of the request builders is shown to be. `SaveNeverRefused` follows from
`IInv`: dropping edges breaks no rule (`RulesMonotone`), and one rel row feeds both halves.
`SavesAreComplete` follows because an unmarked node already has the file it would be given.

Its last part is the refinement of `AuthoredGraph`: each admission is one edit of the abstract
working graph, a save is a save, and a start over marks left by a dead session serves the durable
graph.

*SaveThroughProofs.* `SavesAreAtomic` is the refinement of `SessionStore` by the save in
pieces: while files are written the abstract store is still before its save (the tree is the
snapshot `prior`, `FilesDone` says which files differ from it), the commit is the save, and a
rollback that puts everything back is nothing. Marks a failed clear or a dying session left are of rows whose
files are committed (`LeftMarks`), so to the abstract store there are none: saved again they write what is
there (`LeftMarksAreSaved`), a start or an abort rebuilds what is there (`LeftMarksAreDropped`), and an end
that finds them drained is an end. `SaveInv` keeps two things apart: what holds of the pieces
whatever has gone wrong (`PiecesInv`: `SaveIsLive`, `FilesDone`, `IndexFollows`), from which
`HeadFollowsTheTree`, and the invariant of `SessionStore` under the mapping, which holds until a step
lapses (`MappedInv`), from which `RecoveryAlwaysGoes` (`TreeIngests` of the mapped store).
The refinement allows any step that ends in a lapse (`Lapsed`), since after one the code keeps no promise:
the table above says what happens. Hypothesis:
`KillsAreClean`, kills fall where the run has them, before the first file or after the commit.
Between two files a kill does leave half an edge, which is the hazard at `write.rs:556`.

*SessionLifecycleProofs.* `OneOwner` because every owning stage holds the flock
(`OwnerHoldsLock`) and a kill drops it; the rest of `IInv` (`HandleIsOpened`, `AbortedIsDone`)
is what type correctness needs, since a load must find an unused identity. The properties of
`lifecycle_apart` hold when commands take turns and sessions answer (`~Overlap`, `~Stalls`,
the setting of that run; the other run and the findings show what happens otherwise):
`SerialInv` says that one command at a time is past its question (`OneBetween`), that it asked when
nobody served (`AsksFirst`), that a session serves the database at `db.lbug` with its own work
in it (`ServesTheFile`), and that a command finds it without anyone's (`FoundClean`).
`QueriesReadSaved` also needs that no load is killed half way through its copy
(`TornIsLoading`).

*RoutedClientProofs.* `LedgerCounts` (the ledger and the admissions are two views of one
fact) gives `AtMostOnce`; `RefusedIsNotAdmitted` needs to know that a client that was refused
by an earlier coordinator has nothing left in the backlog (`RefusedIsSettled`), which holds
because a coordinator that stops takes its backlog with it (`DownIsEmpty`).

*PlanStoreProofs.* Two layers. `RecordsInv` holds however commands are cut short. Every command
is shown to be one write of a well-made file (`CommandWrites`, `WellMade`), and such a write
keeps the records (`WrittenKeeps`); what well-made needs beyond the properties is that a mirror
holds feedback only, that a reviews edge lies beside its item, and that there are no plan
records without a plan store. `GatesStayAcyclic`: a cycle after a new gate, cut down to the
phases the search of `cycle_closing_path` visits, would have been one before (`GuardedGates`).
The search is therefore written as what it computes, the least set closed under the gates:
`q` reaches `p` if every closed set that holds `q` holds `p`. `FeedbackIsKept` needs that the
greatest number of a bounded set exists; `SmallestIn` takes it from well-foundedness, stated of
a set, since induction over a predicate is out of the provers' reach. `DbInv` holds when no
command is cut between its file and its projection (`~ProjectionMayBeCut`, the setting of
`plan_verify`): the rows are exactly the records code has not replaced, and the authored edges
those of the files the database was made from, but for claims on code that is still planned.
`ProjectedLinks` is why the delta is enough: an edge whose end goes is detached with it, and one
that goes alone brings its source into the delta, which rewrites all its edges.

*SharedStoreProofs.* `Inductive` proves `IInv`: what a scan holds in memory at each step
(`JobsOK`: a full scan's graph is the whole stream's, whichever languages were spawned,
unless a frontend failed), what the store is (`StoreOK`), what every database was
built from (`DbsOK`), and who has been overtaken (`TornOK`: a scan in the middle of its
saves that is not torn has the store to itself). `FullScansRebuild` follows because a full scan
reads nothing of the store; `StoreNamesOneScan` because a scan that finishes its saves
untorn wrote all of them, and a torn one marks the store hurt. Both are for any number of
worktrees, files, contents and languages.

`EveryFileHasItsUnit` proves the first half of `UnitsOfTheTree`, `UnitsHeld`: at rest every file of
the manifest has a unit under its content. `UnitsInv` says why. A scan owns some of the units by
itself (`OwnInv`: what it was to emit is in its graph, and once assembled it emitted or
holds every file) and counts on the store for the others as long as nobody saves
over it (`CountsOn`: no other scan is in the middle of its saves, what is no target
has its unit, and from its index save on so has every file). What the manifest diff leaves out has
its unit because manifest and units were left by one scan (`StoreOfOneScan`); what a scan that is
torn, killed or cut short leaves is given up with its languages (`storeHurt`).

`FreshHasTheFiles` proves the part of `FreshShowsTree` about files (`FreshFiles`): a fresh database has
a row for exactly the files of the tree, each under its content, though it may be a splice over a
splice of units other worktrees left. `FilesInv` carries it from the streams to the rows. What is ingested
shows the files of the tree and no others, since no declaration's FQN is a file's (`Modest`,
`ShowsFiles`); a unit under a file's content has that file and no other (`UnitRight`, kept
by `record`); an assembled graph has every file, emitted or reused (`Assembled`); what is no target is
as the recorded scan found it (`Unmoved`, which before assembly rests on the store not having been
saved over, `Reckons`); and a splice brings the files of its targets up to date and leaves
the rest as the seed has them, whose key is that of the recorded scan (`DbShows`).

*SharedStoreProofs* then goes on to the declarations, under one hypothesis, `OwnNames`: each file has
names of its own. No overload group crosses files, no FQN is declared by two files, or as two kinds, or is a
module's, and a placeholder is realised as what it was planned. A repository of Rust files (a module each)
is like that, and so are most of Go, Python and TypeScript; the instance of `shared_store` is not, since `k`
overloads `g`, and with `k` in a module of its own it is, which TLC was asked of first. On the
other side of it lie the overload peers (`prepare.rs:412-450`; TLC covers them), a new file that overloads the name of an old one (`prepare.rs:316`),
and the hazards at `apply.rs:287-292` (a change of kind under one FQN) and `ingest/mod.rs:332` (a type
that shadows a module). Under it a declaration's FQN is a function of its file and content alone
(`SameFqn`), and a graph can be said to *tell* a file: it has exactly the declarations the content gives, as
an ingest of the file alone would name them (`Tells`, `UnitTells`, `DbTells`). Ingest, reuse, the
strip of what dangles, the load and the splice are each shown to keep that
(`IngestedTells`, `SplicedTells`, `FinalizedTells`, `LoadedTells`, `AppliedTells`), and `DeclsInv` carries it through the
steps of all scans: `FreshHasTheDeclarations` (`FreshDeclarations`, the part of `FreshShowsTree` about structs and functions:
exactly a rebuild's) and `StoredUnitsAreTheTrees` (`UnitsOfTheTree`).

`CascadesSeeTheUnits` proves `CascadeSeesUnits`. A dependency is recorded from the assembled graph, a unit's
edges were written by some earlier scan, so the invariant (`SeenInv`) says of every unit a scan holds and of the graph it
assembles that they agree: an edge of a reused unit into another file survives the splice and the strip,
because what it names is declared under the same FQN by the unit or emission that replaces it, or the file was
re-emitted (`HeldLinks`, `WritesUnits`). Closures in the model are CHOSEN least sets, not recursive operators: that
there is one, and that it stays within what its relation reaches, is proved in layers (`ReachIsLayered`,
`ReachWithin`), by the least number at which two layerings would differ.

*SharedStoreTrees* has the modules and the edges. `ScansSeeTheCode` proves `DriftSeesCode`. Files and declarations follow from what was emitted and what will be
reused; the modules do not, since a language without a target is not walked and its hierarchy comes from the
scaffolding an earlier scan saved. `ModulesInv` follows them there and back. What stands at a module's FQN is a module
(`ModulesRight`), every file lies in its own (`HasParents`), and a scan has the whole chain of modules of each file it
is sure of (`HasChain`); the scaffolding it saves has that chain too, because what is linked to a file's own module is
finite, so the walk that collects it covers it (`ReachClosed`, by counting: while it grows it has as many members as
steps; `ScaffoldingOfModules`); and at rest the store replays the chain of every recorded file (`Recorded`), as does a
scan nobody saved over for what it will not emit (`CountsModules`). One scan's walk, save and record, a later one's
skip and splice, and the strip of what dangles are each shown to keep that.

`FreshShowsTheTree` and `FreshMissesNothingOfTheTree` prove the rest of `FreshShowsTree` and `FreshMissesNothing`: that the
rows, the containment and the references of a fresh database are a rebuild's, and no module, no
declaration and no containment is missing. `TreesInv` says of every graph a scan holds what it *draws* of a
tree: each row is what its FQN says (`Plain`), each edge is one of a file of the tree, of the hierarchy of modules, or of what
is planned (`Drawn`), the edges from a file through its declarations are there (`HasBodies`), the references of what was
emitted are exactly the content's (`Exact`), modules hang below their language (`HasRoots`) and planned
parents hold their children (`HasPlans`). Of units, scaffolding and databases it says the same in their terms
(`UnitDraws`, `ScaffoldingDraws`, `DbDraws`). One lemma for each operation of `CodeGraph` shows that what it makes draws the tree if what it
is made of does (`IngestedDraws`, `SplicedDraws`, `FinalizedDraws`, `UnitOfDraws`, `ScaffoldingOfDraws`, `LoadedDraws`,
`AppliedDraws`). The longest is the last: a splice draws the new tree because the seed draws the one it was recorded
for, what is no target did not change between the two, and a target's rels are deleted and merged as
one. Then two databases that draw one tree show the same of it, the scanned one and the rebuilt (`SeenRow`,
`SeenContains`, `SeenReference`). TLC was asked first, for the parts of `TreesInv`, on an instance with `k` in a module of its own, with a
planned struct and a planned module, and with every kind of fault, in which both hypotheses hold.

Beside `OwnNames` these two theorems need `Legible`: an FQN is read as one name, no file is planned, nothing is planned at the
FQN of a module or language of the code, and what is planned lies in the language of its parent. On the other side of it lies the hazard at `apply.rs:244, 915`: a
planned module that was built goes on as built after its last file is gone (`apply.rs:288-293`,
`module_file_subtrees`, `:654`), so a spliced database would show a row a rebuild does not.

*ProjectLifecycleProofs.* The invariant adds to `TypeOK` that a commit's ancestors contain
their own (`PastClosed`), that the branches and databases the commands rely on exist (`Anchored`),
and what a command counts on (`CommandOK`). `DefaultKeepsCommits` follows: a
commit's ancestors contain its parents', a merge commit is refused when HEAD is not its first parent, and a
fast-forward is to a commit that has behind it the one HEAD was read at (`mine`), which is the default
branch's unless it was overtaken (`Overtakes`). `RebuiltFirst` and `DropsMerged` need `CommandOK`:
past its move a merge has the project's commit in the default branch or among what an overtaken
fast-forward has thrown out since (`lost`); past its rebuild, in main's
database; and as long as nobody touched the project, its branch is at that commit.

`CheckoutInv` adds what the content of the checkouts takes: no checkout but main's is at main's
branch (`HeadsApart`); a database that is not masked shows the files its key names
(`DatabasesShow`), hence `FreshIsOfTheTree`; and every command that nobody touched may still
rely on what its gates saw (`Promises`): a merge, that
its claims are on code if its worktree's database is not masked, a start, what it copied. Each step of anybody either leaves a checkout as
it was or marks the commands that read it (`Bystander`), which is how
`ClaimsMerged` and `StartsFresh` survive every interleaving. `WholeProjects` has an invariant of its own (`Whole`),
for runs without a fault: main stays on the default branch, registered and existing worktrees are the same,
and a branch has its worktree unless a command is about to delete it.

**Only model-checked:** liveness (`Settles`: fairness and ENABLED). Every other property of the passing runs is
stated by a theorem; those of `SharedStoreTrees`, and of `SharedStoreProofs` from the declarations on, under the
hypotheses named above, so what `OwnNames` leaves out TLC has in its run, in which `k` overloads `g`. What `Legible`
leaves out is in no run but by its hazard.

## Not modelled

- Inside the store: the name allowlist, the cardinality rules, drift of code references,
  constraint rules, and node files that somebody edits by hand while no session lives.
- A failure of one database statement in the middle of an admission: requests are all or
  nothing. The code's own note `admission-marks-after-projection-limits` describes the case.
- `write_project_with`, the write path without a session, which no command takes.
- The statements of a splice and the order of backup, rename and directory fsync in its
  publish: `Build` is one step (`SessionLifecycle` has the copy of a full load in two).
- Of the ingest: record syntax, the blacklist, layer records but placeholders; of the frontends:
  parsing and name resolution. `declares` is what they would find, and `Stream` what they emit of it.
- The tool versions, options and configuration hashed into a store's location: two scans that differ
  in them have two stores.
- Detached and unborn heads, a repository without `origin`, merge conflicts,
  submodules.
- Schema and column layouts, classification, cleanup of names, lint, install, logging, the agent suite, packaging: parsing,
  formatting or output, with no state that outlives a call.

## Plan

In order of what can go wrong and is hardest to test:

1. *(done)* The store, its abstract promise, the save in pieces, the client, the lifecycle.
2. *(done, proved)* `CodeGraph`, `SharedStore`: several worktrees and one store. To model: layer records beside placeholders.
3. *(done, proved)* `ProjectLifecycle`. To model: what a delete destroys in `apg/.trans`.
4. *(done, proved)* `PlanStore`.
5. `AdmitThrough`: an admission statement by statement, a failure or a kill at each, as
   `SaveThrough` does for the save.
6. Algorithms: the three-colour search of `validate_trees_acyclic` against `Acyclic`, the
   impact closure with its signature cut-off against plain reachability, cardinalities.
