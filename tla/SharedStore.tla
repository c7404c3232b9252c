----------------------------- MODULE SharedStore -----------------------------
(***************************************************************************)
(* apg scan over several worktrees of one repository.  Each worktree has   *)
(* its own database under its own lock; the fact store -- units, manifest, *)
(* scan record, indexes -- lives in the common git directory, is shared by *)
(* all of them and is locked by nothing.  A scan reads it file by file,    *)
(* re-emits the files its delta reaches, reuses stored units for the rest, *)
(* writes it back file by file, and splices or reloads the database.       *)
(***************************************************************************)
EXTENDS CodeGraph

CONSTANTS
    Worktree, File, Content,
    Missing,    \* no file
    Language,
    pathOrder,  \* the files, in path order
    langOf,     \* language_of, by file
    moduleOf,   \* the module a file belongs to, rooted in its language
    declares,   \* what a file declares under a content: records of a kind, the
                \* structs it lies within, a name, parameters and what it
                \* refers to, as <<file, name>>
    Placeholders, \* the planned nodes of the authored layer
    contentsOf, \* bound: the contents a file may be given, Missing to delete it
    FirstTree,  \* the tree of the first commit
    Faults,     \* which of "overlap", "kill", "skip" and "frontend" may happen
    MaxEvents,  \* bound: edits, commits, checkouts, forced scans and faults
    MaxFaults   \* bound: the faults among them

Tree == [File -> Content \cup {Missing}]

ASSUME StoreAssumption ==
    /\ langOf \in [File -> Language]
    /\ \A f \in File : moduleOf[f][1] = langOf[f] /\ f \in {pathOrder[i] : i \in DOMAIN pathOrder}
    /\ Missing \notin Content /\ None \notin Tree
    /\ FirstTree \in Tree /\ contentsOf \in [File -> SUBSET (Content \cup {Missing})]
    /\ Faults \subseteq {"overlap", "kill", "skip", "frontend"}
    /\ MaxEvents \in Nat /\ MaxFaults \in Nat

\* An FQN is the language, the module's segments, at least one, and a name: none
\* is a path, none an id.  A foreign name is of no language; what is planned is
\* finite, neither foreign nor a file of the repository.  Paths are ordered, the
\* files of a tree have their declarations, which refer to files of their language.
ASSUME NamesAssumption ==
    /\ pathOrder \in Seq(File)
    /\ \A i, j \in DOMAIN pathOrder : pathOrder[i] = pathOrder[j] => i = j
    /\ File \cap Language = {} /\ None \notin File /\ {"?", "id"} \cap Language = {} /\ "id" \notin File
    /\ IsFiniteSet(Placeholders)
    /\ \A p \in Placeholders : /\ p.kind \in {"Module", "File", "Struct", "Function"}
                               /\ p.fqn[1] \notin File \cup {"?", "id"}
    /\ \A f \in File :
          /\ moduleOf[f] \in Seq(STRING) /\ Len(moduleOf[f]) > 1
          /\ \A c \in (contentsOf[f] \cup {FirstTree[f]}) \ {Missing} :
                \A d \in declares[f][c] :
                    /\ d.within \in Seq(STRING)
                    /\ \A r \in d.calls \cup d.uses : r[1] \in File /\ langOf[r[1]] = langOf[f]

VARIABLES
    commits,   \* the repository: sequence of [tree, ancestors]
    head,      \* HEAD of each worktree
    tree,      \* the working tree of each worktree
    db,        \* db.lbug of each worktree
    index,     \* index.json, with the units and the scaffolding beside it
    manifest,  \* manifest.json
    scan,      \* scan.json
    state,     \* index/{deps,signatures,overloads}.json
    pc,        \* the step the scan of a worktree is at
    job,       \* what that scan holds in memory
    torn,      \* history: another scan saved during this one
    storeHurt, \* history: languages whose stored facts a fault may have spoilt
    moves, faults

repo    == <<commits, head, tree>>
store   == <<index, manifest, scan, state>>
history == <<torn, storeHurt>>
budget  == <<moves, faults>>
vars    == <<repo, db, store, pc, job, history, budget>>

-----------------------------------------------------------------------------
(* What the frontends say of a tree.                                       *)

Present(T) == {f \in File : T[f] # Missing}

DeclsOf(T, f) == IF T[f] = Missing THEN {} ELSE declares[f][T[f]]

Id(f, d) == <<"id", f, d.kind, d.within, d.name, d.params>>

Record(T, f, d) ==
    [id |-> Id(f, d), lang |-> langOf[f], parent |-> moduleOf[f] \o d.within, name |-> d.name,
     params |-> d.params, path |-> f, body |-> T[f]]

Records(T, files, kind) ==
    UNION {{Record(T, f, d) : d \in {x \in DeclsOf(T, f) : x.kind = kind}} : f \in files}

\* A reference: the id of what is emitted with it, the canonical FQN -- of the
\* whole tree's overload groups -- of what is not, a foreign name of what is not
\* there.
Referents(T, emitted, ref, kind) ==
    LET file == ref[1]
        all  == Records(T, {f \in Present(T) : langOf[f] = langOf[file]}, "Function")
    IN  {IF file \in emitted THEN Id(file, d)
         ELSE IF kind = "Struct" THEN StructFqn(Record(T, file, d))
         ELSE FunctionFqn(all, Record(T, file, d)) :
            d \in {x \in DeclsOf(T, file) : x.kind = kind /\ x.name = ref[2]}}

Foreign(ref) == <<"?", ref[2]>>

\* A reference as edges: to what it resolves to, or to the foreign name.
RefersTo(from, ref, to, table, unresolved) ==
    IF to = {} THEN {<<unresolved, from, Foreign(ref)>>} ELSE {<<table, from, x>> : x \in to}

\* The call and use edges of one declaration.
RefEdges(T, emitted, f, d) ==
    (UNION {RefersTo(Id(f, d), r, Referents(T, emitted, r, "Function"), "Calls", "UnresolvedCall") :
               r \in d.calls})
      \cup (UNION {RefersTo(Id(f, d), r, Referents(T, emitted, r, "Struct"), "Uses", "UnresolvedUse") :
               r \in d.uses})

\* Struct to member, for members of a struct of the same file.
MemberEdges(T, f) ==
    {<<"Contains", Id(f, p[1]), Id(f, p[2])>> :
        p \in {q \in DeclsOf(T, f) \X DeclsOf(T, f) :
                  q[1].kind = "Struct" /\ q[2].within = Append(q[1].within, q[1].name)}}

Prefixes(m) == {SubSeq(m, 1, n) : n \in 2..Len(m)}

EdgesOf(T, files) ==
    UNION {MemberEdges(T, f) \cup (UNION {RefEdges(T, files, f, d) : d \in DeclsOf(T, f)}) : f \in files}

Spool(T, lang, modules, files, edges) ==
    [modules |-> {<<lang, m>> : m \in modules},
     moduleEdges |-> {<<SubSeq(m, 1, Len(m) - 1), m>> : m \in {x \in modules : Len(x) > 2}},
     structs |-> Records(T, files, "Struct"), functions |-> Records(T, files, "Function"),
     files |-> {[path |-> f, parent |-> moduleOf[f], body |-> T[f]] : f \in files},
     unresolved |-> {e[3] : e \in {x \in edges : x[1] \in {"UnresolvedCall", "UnresolvedUse"}}},
     planned |-> {}, edges |-> edges]

\* The stream of one frontend: the module hierarchy of everything it walks, the
\* facts of the files it is asked for.
Stream(T, lang, emitted) ==
    LET walked == {f \in Present(T) : langOf[f] = lang}
        files  == walked \cap emitted
    IN  Spool(T, lang, UNION {Prefixes(moduleOf[f]) : f \in walked}, files, EdgesOf(T, files))

\* The record stream of a scan: the spools, then the authored layer.
Joined(spools) ==
    LET All(field) == UNION {spools[l][field] : l \in DOMAIN spools}
    IN  [k \in DOMAIN EmptyStream |-> IF k = "planned" THEN Placeholders ELSE All(k)]

WholeStream(T) == Joined([l \in Language |-> Stream(T, l, File)])

\* What a rebuild of the tree puts in a database.
Rebuild(T) == Loaded(Finalized(Ingested(WholeStream(T))))

\* What a database shows of the code: placeholders and unresolved targets are none.
Shown(D) == {k \in DOMAIN D.rows : k[1] # "Unresolved" /\ ~D.rows[k].planned}

\* content_key folds the HEAD sha with the content of everything that differs.
Key(w) == [head |-> head[w], tree |-> tree[w]]

\* is_fresh, for a database no session holds.
Fresh(w) == db[w] # None /\ db[w].key = Key(w)

\* The stored units of the reuse candidates, in path order; a candidate the
\* index lacks is skipped.
CachedUnits(w) ==
    LET key(i) == <<pathOrder[i], job[w].manifest[pathOrder[i]]>>
        held   == {i \in DOMAIN pathOrder : /\ pathOrder[i] \in job[w].candidates
                                           /\ key(i) \in DOMAIN index.units}
    IN  [i \in held |-> index.units[key(i)]]

-----------------------------------------------------------------------------
(* Impact: which files a delta makes a scan re-emit.                       *)

\* Mutant: a changed file brings no peers.
NoPeers(f) == {}
\* overloads.peer_files: the files that declare a function in a scope of f's.
Peers(f) == {g \in File : state.scopes[f] \cap state.scopes[g] # {}}

\* dep_index_rel(..).reverse_closure over the stored edges.
ReverseClosure(seeds) == Reach({<<d[2], d[1]>> : d \in state.deps}, seeds)

\* extra_cascade_targets: dependents of the stage-1 files whose stored and
\* emitted signatures differ.
Cascade(stage1, G) ==
    ReverseClosure({f \in stage1 : state.signatures[f] # SignaturesOf(G, f)}) \ stage1

\* delta::compute: recorded commit to HEAD, and HEAD to the working tree.
GitDelta(w, from) ==
    {f \in File : \/ commits[from].tree[f] # commits[head[w]].tree[f]
                  \/ commits[head[w]].tree[f] # tree[w][f]}

IsAncestor(c, d) == c = d \/ c \in commits[d].ancestors

\* Manifest::diff, either way round.
ManifestDelta(recorded, T) == IF recorded = None THEN {} ELSE {f \in File : recorded[f] # T[f]}

-----------------------------------------------------------------------------
(* The repository, while no scan runs.  A move of one worktree commutes    *)
(* with the steps of another's scan, which reads nothing a move writes.    *)

Idle(w) == pc[w] = "idle"

Moves == (\A v \in Worktree : Idle(v)) /\ moves + faults < MaxEvents /\ moves' = moves + 1
            /\ UNCHANGED <<db, store, pc, job, history, faults>>

EditFile(w, f, c) ==
    /\ Moves
    /\ c # tree[w][f]
    /\ tree' = [tree EXCEPT ![w][f] = c]
    /\ UNCHANGED <<commits, head>>

\* The whole working tree, an empty commit included.
CommitTree(w) ==
    /\ Moves
    /\ commits' = Append(commits, [tree |-> tree[w],
                                   ancestors |-> commits[head[w]].ancestors \cup {head[w]}])
    /\ head' = [head EXCEPT ![w] = Len(commits) + 1]
    /\ UNCHANGED tree

Checkout(w, c) ==
    /\ Moves
    /\ tree[w] = commits[head[w]].tree /\ c # head[w]
    /\ head' = [head EXCEPT ![w] = c]
    /\ tree' = [tree EXCEPT ![w] = commits[c].tree]
    /\ UNCHANGED commits

-----------------------------------------------------------------------------
(* The scan.                                                               *)

Faulty(kind) == kind \in Faults /\ faults < MaxFaults /\ moves + faults < MaxEvents
                /\ faults' = faults + 1

NoJob == [key |-> None, recorded |-> None, full |-> FALSE, warm |-> FALSE, targets |-> {},
          removed |-> {}, candidates |-> {}, manifest |-> None, graph |-> EmptyGraph,
          held |-> << >>, hurt |-> {}]

\* Between the index save and the last index file the store is not one scan's.
MidSave(w) == pc[w] \in {"manifest", "scan", "state"}

\* A save by w: every other scan under way has been overtaken.
Overtakes(w) == torn' = [v \in Worktree |-> torn[v] \/ (v # w /\ ~Idle(v))]

At(w, here, next) == pc[w] = here /\ pc' = [pc EXCEPT ![w] = next]

\* No lock keeps one worktree's scan from starting during another's.
Takes(w, next, j) ==
    /\ At(w, "idle", next)
    /\ job' = [job EXCEPT ![w] = j]
    /\ torn' = [torn EXCEPT ![w] = \E v \in Worktree \ {w} : MidSave(v)]
    /\ IF \A v \in Worktree \ {w} : Idle(v) THEN UNCHANGED faults ELSE Faulty("overlap")
    /\ UNCHANGED <<repo, store, storeHurt>>

\* The lock, the fast path not taken, then the warm probe.
Start(w) ==
    /\ ~Fresh(w)
    /\ Takes(w, "probe", [NoJob EXCEPT !.key = Key(w)])
    /\ UNCHANGED <<db, moves>>

\* --force: the derived index is discarded, the store is not consulted.
StartForced(w) ==
    /\ moves + faults < MaxEvents /\ moves' = moves + 1
    /\ Takes(w, "emit", [NoJob EXCEPT !.key = Key(w), !.full = TRUE, !.manifest = tree[w]])
    /\ db' = [db EXCEPT ![w] = None]

StepKeeps(w) == UNCHANGED <<repo, db, store, history, budget>>

\* Mutant: the recorded content key is not compared.
WarmAtSha(w) ==
    /\ scan # None /\ scan.sha = head[w]
    /\ \A f \in Present(scan.manifest) : <<f, scan.manifest[f]>> \in DOMAIN index.units

\* A complete record of exactly this HEAD and this content.
Warm(w) ==
    /\ scan # None /\ scan.sha = head[w] /\ scan.key = job[w].key
    /\ Present(scan.manifest) # {}
    /\ \A f \in Present(scan.manifest) : <<f, scan.manifest[f]>> \in DOMAIN index.units

\* warm_prepared: no walk, no frontend, every file a candidate; the spool is empty,
\* the authored layer is ingested as ever.
Probe(w) ==
    /\ \/ /\ Warm(w)
          /\ At(w, "probe", "assemble")
          /\ job' = [job EXCEPT ![w].warm = TRUE, ![w].recorded = scan.key, ![w].manifest = scan.manifest,
                                ![w].candidates = Present(scan.manifest),
                                ![w].graph = Ingested(Joined(<< >>))]
       \/ /\ ~Warm(w)
          /\ At(w, "probe", "recorded")
          /\ UNCHANGED job
    /\ StepKeeps(w)

\* prepare, first read of scan.json: the key the splice will be held to.
ReadRecordedKey(w) ==
    /\ At(w, "recorded", "plan")
    /\ job' = [job EXCEPT ![w].recorded = IF scan = None THEN None ELSE scan.key]
    /\ StepKeeps(w)

\* Mutant: the targets found so far are kept.
GoesFullFiltered(w) == job' = [job EXCEPT ![w].full = TRUE, ![w].recorded = None,
                                          ![w].candidates = {}, ![w].manifest = tree[w]]
GoesFull(w) == job' = [job EXCEPT ![w].full = TRUE, ![w].recorded = None,
                                  ![w].candidates = {}, ![w].targets = {}, ![w].removed = {},
                                  ![w].manifest = tree[w]]

\* scan_verdict, the git part: the recorded commit is HEAD or an ancestor of it.
Usable(w) == scan # None /\ IsAncestor(scan.sha, head[w])

\* delta::plan, second read of scan.json, and Manifest::build.
Plan(w) ==
    /\ \/ /\ ~Usable(w)
          /\ At(w, "plan", "emit")
          /\ GoesFull(w)
       \/ /\ Usable(w)
          /\ At(w, "plan", "diff")
          /\ job' = [job EXCEPT ![w].manifest = tree[w],
                 ![w].targets = IF scan.sha = head[w] THEN {} ELSE GitDelta(w, scan.sha)]
    /\ StepKeeps(w)

\* The stage-1 targets: the changed files and their overload peers.
Stage1(w) ==
    LET changed == job[w].targets \cup ManifestDelta(manifest, tree[w])
    IN  changed \cup UNION {Peers(f) : f \in changed}

\* Byte-identical to the recorded manifest and outside the targets.
Reusable(w, targets) ==
    IF manifest = None THEN {}
    ELSE {f \in Present(tree[w]) \ targets : manifest[f] = tree[w][f]}

\* The FQNs the store attributes to the files that are gone.
RemovedFqns(w) ==
    UNION {{s[2] : s \in state.signatures[f]} : f \in Stage1(w) \ Present(tree[w])}

\* prepare, from the manifest and the overload index read to the verdict.
Diff(w) ==
    /\ At(w, "diff", "emit")
    /\ IF Stage1(w) # {} /\ db[w] = None
       THEN GoesFull(w)
       ELSE job' = [job EXCEPT ![w].targets = Stage1(w), ![w].removed = RemovedFqns(w),
                               ![w].candidates = Reusable(w, Stage1(w))]
    /\ StepKeeps(w)

\* auto_detect_languages; with no source at all, every frontend there is.
Detected(T) == IF Present(T) = {} THEN Language ELSE {langOf[f] : f \in Present(T)}

\* should_spawn_language.
Spawned(w, targets) == Detected(tree[w]) \cap
    (IF targets = {} THEN Language ELSE {langOf[f] : f \in targets})

\* The spools of a pass; a language that is not spawned or fails leaves none,
\* and an empty target set filters nothing.
Spools(w, targets, failed) ==
    [l \in Spawned(w, targets) \ failed |-> Stream(tree[w], l, IF targets = {} THEN File ELSE targets)]

\* A phase-2 stream replaces the language's first one, unless it fails.
SecondPass(w, first, targets, failed) ==
    LET second == Spools(w, targets, failed)
    IN  [l \in DOMAIN first \cup DOMAIN second |->
            IF l \in DOMAIN second THEN second[l] ELSE first[l]]

Failing(n) == /\ n # {} => "frontend" \in Faults /\ faults < MaxFaults /\ moves + faults < MaxEvents
              /\ faults' = IF n = {} THEN faults ELSE faults + 1

\* The second pass over the cascade's files, unless there are none.  The assembled
\* stream is ingested when the pipeline reads it.
Emits(w, first, extra, failed1, failed2) ==
    LET stage1 == job[w].targets
        spools == IF extra = {} THEN first ELSE SecondPass(w, first, stage1 \cup extra, failed2)
    IN /\ failed1 \subseteq Spawned(w, stage1)
       /\ failed2 \subseteq (IF extra = {} THEN {} ELSE Spawned(w, stage1 \cup extra))
       /\ Failing(failed1 \cup failed2)
       /\ job' = [job EXCEPT
            ![w].targets = stage1 \cup extra,
            ![w].candidates = @ \ (stage1 \cup extra),
            ![w].graph = Ingested(Joined(spools)),
            ![w].hurt = failed1 \cup failed2]

\* The spawn loop: the stage-1 pass, the signature cascade, the second pass.
EmitFacts(w) ==
    /\ At(w, "emit", "assemble")
    /\ \E failed1, failed2 \in SUBSET Language :
        LET first == Spools(w, job[w].targets, failed1) IN
        Emits(w, first, IF job[w].full THEN {} ELSE Cascade(job[w].targets, Ingested(Joined(first))),
              failed1, failed2)
    /\ UNCHANGED <<repo, db, store, history, moves>>

\* The languages whose scaffolding is replayed: all there are of a warm cache's, else those
\* with reused files and no target.
Skipped(w) == IF job[w].warm THEN Detected(tree[w])
              ELSE IF job[w].targets = {} THEN {}
              ELSE {langOf[f] : f \in job[w].candidates} \ {langOf[f] : f \in job[w].targets}

\* The code the layer tree's references are checked against while the scan has no
\* assembled graph yet: what was emitted, what will be reused, and, for a delta,
\* what the previous database has outside the removed files.
CodeNames(G) == {x \in DOMAIN G.nodes : /\ G.nodes[x].kind \in {"Module", "File", "Struct", "Function"}
                                        /\ ~G.nodes[x].planned}
ReusedCode(w) == (UNION {CachedUnits(w)[i].modules \cup CodeNames(CachedUnits(w)[i]) :
                              i \in DOMAIN CachedUnits(w)})
                   \cup (UNION {index.scaffolding[l].modules : l \in Skipped(w)})
PreviousCode(w) == IF db[w] = None \/ job[w].full \/ job[w].warm THEN {}
                   ELSE CodeNames([nodes |-> AsFunction({<<k[2], db[w].graph.rows[k]>> :
                                                k \in Shown(db[w].graph)})]) \ job[w].removed
\* Mutant: the reused facts are taken to be in the previous database.
UniverseOfDatabase(w) == CodeNames(job[w].graph) \cup PreviousCode(w)
Universe(w) == CodeNames(job[w].graph) \cup ReusedCode(w) \cup PreviousCode(w)

\* ingest_with_reuse, or ingest alone; record loads the index it will add to.
Assemble(w) ==
    /\ At(w, "assemble", "index")
    /\ job' = [job EXCEPT
         ![w].graph = Finalized(
            IF job[w].full THEN @
            ELSE WithCached(@, CachedUnits(w), {index.scaffolding[l] : l \in Skipped(w)})),
         ![w].held = index.units,
         ![w].hurt = @ \cup (IF job[w].full THEN {} ELSE IF torn[w] THEN Language ELSE storeHurt)]
    /\ StepKeeps(w)

\* Mutant: only the targets' units are written, on every path.
NewUnitsTargetsOnly(w) == {f \in Present(job[w].manifest) \cap job[w].targets :
                              <<f>> \in DOMAIN job[w].graph.nodes}

\* record: the targets' units, or every file's when there is no target set.
NewUnits(w) == {f \in Present(job[w].manifest) : /\ <<f>> \in DOMAIN job[w].graph.nodes
                                                 /\ job[w].targets = {} \/ f \in job[w].targets}

\* record, first half: units under content-addressed names, the scaffolding of
\* every language the graph has modules of, then index.json.
SaveIndex(w) ==
    /\ At(w, "index", "manifest")
    /\ LET new == {<<f, job[w].manifest[f]>> : f \in NewUnits(w)}
           Scaffolding(l) == ScaffoldingOf(job[w].graph, l, langOf)
       IN  index' = [units |-> [u \in DOMAIN job[w].held \cup new |->
                         IF u \in new THEN UnitOf(job[w].graph, u[1]) ELSE job[w].held[u]],
                     scaffolding |-> [l \in Language |->
                         IF Scaffolding(l) = NoScaffolding THEN index.scaffolding[l] ELSE Scaffolding(l)]]
    /\ Overtakes(w)
    /\ UNCHANGED <<repo, db, manifest, scan, state, job, storeHurt, budget>>

SaveManifest(w) ==
    /\ At(w, "manifest", "scan")
    /\ manifest' = job[w].manifest
    /\ Overtakes(w)
    /\ UNCHANGED <<repo, db, index, scan, state, job, storeHurt, budget>>

SaveScanRecord(w) ==
    /\ At(w, "scan", "state")
    /\ scan' = [sha |-> job[w].key.head, key |-> job[w].key, manifest |-> job[w].manifest]
    /\ Overtakes(w)
    /\ UNCHANGED <<repo, db, index, manifest, state, job, storeHurt, budget>>

\* Mutant: the indexes are taken from the re-emitted files only.
StateOfTargets(w) ==
    LET G == job[w].graph IN
    [signatures |-> [f \in File |-> IF f \in job[w].targets THEN SignaturesOf(G, f) ELSE {}],
     scopes |-> [f \in File |-> ScopesOf(G, f)],
     deps |-> DependsOn(G)]
\* State::from_graph.
StateOf(w) ==
    LET G == job[w].graph IN
    [signatures |-> [f \in File |-> SignaturesOf(G, f)],
     scopes |-> [f \in File |-> ScopesOf(G, f)],
     deps |-> DependsOn(G)]

SaveState(w) ==
    /\ At(w, "state", "build")
    /\ state' = StateOf(w)
    /\ Overtakes(w)
    /\ storeHurt' = IF torn[w] THEN Language ELSE job[w].hurt
    /\ UNCHANGED <<repo, db, index, manifest, scan, job, budget>>

\* Mutant: the seed's own key is not compared with the recorded one.
SeedableUnchecked(w) == ~job[w].full /\ db[w] # None
\* seed_checked: the local database is of the tree the delta was taken from.
Seedable(w) == /\ ~job[w].full /\ db[w] # None
               /\ job[w].recorded # None /\ db[w].key = job[w].recorded

Ends(w) == job' = [job EXCEPT ![w] = NoJob]

\* The splice and its publish, or the full load of the assembled graph.
Build(w) ==
    /\ At(w, "build", "idle")
    /\ db' = [db EXCEPT ![w] =
         IF Seedable(w)
         THEN [key |-> job[w].key, full |-> FALSE, hurt |-> job[w].hurt \cup @.hurt,
               graph |-> Applied(@.graph, job[w].graph, job[w].targets, job[w].removed)]
         ELSE [key |-> job[w].key, full |-> job[w].full, hurt |-> job[w].hurt,
               graph |-> Loaded(job[w].graph)]]
    /\ Ends(w)
    /\ torn' = [torn EXCEPT ![w] = FALSE]
    /\ UNCHANGED <<repo, store, storeHurt, budget>>

\* The scan is killed, or refuses a drifted layer tree.  A full load that is
\* cut short leaves no database anyone trusts; a splice leaves the old one.
KillScan(w) ==
    /\ ~Idle(w) /\ Faulty("kill")
    /\ pc' = [pc EXCEPT ![w] = "idle"]
    /\ Ends(w)
    /\ \/ UNCHANGED db
       \/ pc[w] = "build" /\ ~Seedable(w) /\ db' = [db EXCEPT ![w] = None]
    /\ storeHurt' = IF MidSave(w) THEN Language ELSE storeHurt
    /\ torn' = [torn EXCEPT ![w] = FALSE]
    /\ UNCHANGED <<repo, store, moves>>

\* A write of record fails: what is written stays, the build goes on.
RecordFails(w) ==
    /\ pc[w] = "index" \/ MidSave(w)
    /\ Faulty("skip")
    /\ pc' = [pc EXCEPT ![w] = "build"]
    /\ storeHurt' = IF MidSave(w) THEN Language ELSE storeHurt
    /\ UNCHANGED <<repo, db, store, job, torn, moves>>

ScanStep(w) ==
    \/ Probe(w) \/ ReadRecordedKey(w) \/ Plan(w) \/ Diff(w) \/ EmitFacts(w) \/ Assemble(w)
    \/ SaveIndex(w) \/ SaveManifest(w) \/ SaveScanRecord(w) \/ SaveState(w) \/ Build(w)

Init ==
    /\ commits = <<[tree |-> FirstTree, ancestors |-> {}]>>
    /\ head = [w \in Worktree |-> 1] /\ tree = [w \in Worktree |-> FirstTree]
    /\ db = [w \in Worktree |-> None]
    /\ index = [units |-> << >>, scaffolding |-> [l \in Language |-> NoScaffolding]]
    /\ manifest = None /\ scan = None
    /\ state = [signatures |-> [f \in File |-> {}], scopes |-> [f \in File |-> {}], deps |-> {}]
    /\ pc = [w \in Worktree |-> "idle"] /\ job = [w \in Worktree |-> NoJob]
    /\ torn = [w \in Worktree |-> FALSE] /\ storeHurt = {}
    /\ moves = 0 /\ faults = 0

Next == \E w \in Worktree :
    \/ \E f \in File : \E c \in contentsOf[f] : EditFile(w, f, c)
    \/ CommitTree(w)
    \/ \E c \in 1..Len(commits) : Checkout(w, c)
    \/ Start(w) \/ StartForced(w)
    \/ ScanStep(w)
    \/ KillScan(w) \/ RecordFails(w)

Spec == Init /\ [][Next]_vars

-----------------------------------------------------------------------------
(* Properties.                                                             *)

\* The variables keep their types, and a scan that is over holds nothing.
TypeOK ==
    /\ \A c \in 1..Len(commits) : /\ commits[c].tree \in Tree
                                  /\ commits[c].ancestors \subseteq 1..(c - 1)
    /\ head \in [Worktree -> 1..Len(commits)] /\ tree \in [Worktree -> Tree]
    /\ \A w \in Worktree : db[w] # None => db[w].hurt \subseteq Language
    /\ DOMAIN index.units \subseteq File \X Content
    /\ manifest \in Tree \cup {None}
    /\ scan # None => scan.manifest \in Tree /\ scan.sha \in 1..Len(commits)
    /\ \A w \in Worktree : Idle(w) => job[w] = NoJob

-----------------------------------------------------------------------------
ShownRows(D) == {<<k, D.rows[k]>> : k \in Shown(D)}
ShownRels(D) == {r \in D.rels : {r[2], r[3]} \subseteq Shown(D)}

\* The rows and rels of some languages; a fault spoils those of the languages it hit.
LangOfFqn(x) == IF Len(x) = 1 /\ x[1] \in File THEN langOf[x[1]] ELSE x[1]
Sound(w) == {l \in Language : l \notin db[w].hurt}
Rows(D, langs) == {r \in ShownRows(D) : LangOfFqn(r[1][2]) \in langs}
Rels(D, langs) == {r \in ShownRels(D) : LangOfFqn(r[2][2]) \in langs}

\* References by source and the name referred to: resolved ones, and all.
NameIn(D, k) == LET x == IF k[2][Len(k[2])] = D.rows[k].params THEN Len(k[2]) - 1 ELSE Len(k[2])
                IN  k[2][x]
Refers(D)   == {<<r[2], NameIn(D, r[3])>> : r \in {x \in ShownRels(D) : x[1] \in {"Calls", "Uses"}}}
Mentions(D) == Refers(D) \cup {<<r[2], r[3][2][2]>> : r \in {x \in D.rels : x[3][1] = "Unresolved"}}

\* What a rebuild of each tree shows.
Trees == {T \in Tree : \A f \in File : T[f] \in contentsOf[f] \cup {FirstTree[f]}}
Described(T, D) ==
    [tree |-> T, db |-> D, rows |-> ShownRows(D), rels |-> ShownRels(D), refers |-> Refers(D)]
Rebuilds == {Described(T, Rebuild(T)) : T \in Trees}
Rebuilt(T) == CHOOSE r \in Rebuilds : r.tree = T

\* A fresh database shows exactly the files of the tree, each under its content.
FreshFiles ==
    \A w \in Worktree : Fresh(w) =>
        \A f \in {x \in File : langOf[x] \notin db[w].hurt} :
            LET row == <<"File", <<f>> >>
            IN  /\ row \in DOMAIN db[w].graph.rows <=> f \in Present(tree[w])
                /\ f \in Present(tree[w]) => db[w].graph.rows[row] = NodeOf("File", f, None, tree[w][f])

\* It shows exactly the declarations of the tree, as a rebuild has them.
Declared(rows) == {r \in rows : r[1][1] \in {"Struct", "Function"}}
FreshDeclarations ==
    \A w \in Worktree : Fresh(w) =>
        Declared(Rows(db[w].graph, Sound(w)))
          = Declared({r \in Rebuilt(tree[w]).rows : LangOfFqn(r[1][2]) \in Sound(w)})

\* Safety: a database the fast path would call fresh shows no file, declaration,
\* content or edge the tree does not have, in any language no fault has touched
\* -- whichever worktrees scanned in between, and whatever the store was reused
\* for.  is_fresh compares keys only; that the rows behind the key are of the
\* same tree rests on the whole of prepare, cascade, record and splice.  The root
\* of a language outlives its last file: no splice deletes it; nor does one unmake
\* a planned module that was built and undone, which no plan of the runs does.
FreshShowsTree ==
    /\ FreshFiles /\ FreshDeclarations
    /\ \A w \in Worktree : Fresh(w) =>
           LET now == Rebuilt(tree[w]) IN
           /\ {r \in Rows(db[w].graph, Sound(w)) : r[1][1] # "Language"} \subseteq now.rows
           /\ Rels(db[w].graph, Sound(w)) \subseteq now.rels

\* Safety: it shows every file, module and declaration the tree has, with its
\* containment.
FreshMissesNothing ==
    \A w \in Worktree : Fresh(w) =>
        LET now == Rebuilt(tree[w])
            D   == db[w].graph
        IN  /\ {x \in now.rows : LangOfFqn(x[1][2]) \in Sound(w)} \subseteq ShownRows(D)
            /\ {r \in now.rels : r[1] = "Contains" /\ LangOfFqn(r[2][2]) \in Sound(w)}
                  \subseteq ShownRels(D)

\* Safety: a full scan's database is the rebuild of its tree, whatever state
\* killed, overtaken or half-failed scans of any worktree left the store in.
FullScanIsRebuild ==
    \A w \in Worktree : db[w] # None /\ db[w].full /\ db[w].hurt = {} =>
        db[w].graph = Rebuilt(db[w].key.tree).db

\* Safety: at rest the four files of the store are of one scan and one tree --
\* what the next scan of any worktree takes its delta from.  Their saves are
\* separate writes under no lock.
AtRest == \A w \in Worktree : ~MidSave(w)

StoreOfOneScan ==
    AtRest /\ scan # None /\ storeHurt # Language =>
        manifest = scan.manifest /\ manifest = scan.key.tree

\* Safety: at rest every file of the manifest has a unit under its content, and
\* the unit's rows are a rebuild's -- what the next scan of any worktree reuses.
Stored == {f \in Present(manifest) : langOf[f] \notin storeHurt}
UnitIn(f) == index.units[<<f, manifest[f]>>]

UnitsHeld ==
    AtRest /\ scan # None => \A f \in Stored : <<f, manifest[f]>> \in DOMAIN index.units

UnitsOfTheTree ==
    /\ UnitsHeld
    /\ AtRest /\ scan # None => \A f \in Stored :
          Rows(Loaded([UnitIn(f) EXCEPT !.edges = {}]), {langOf[f]}) \subseteq Rebuilt(manifest).rows

\* Safety: what the next scan takes its cascade from agrees with the units it
\* reuses: a file's stored signature is its unit's, and every edge of a unit
\* into another unit is a dependency.  One unrecorded, and a change is not
\* followed to a file that is then reused stale.
CascadeSeesUnits ==
    AtRest /\ scan # None => \A f \in Stored :
        /\ state.signatures[f] = SignaturesOf(UnitIn(f), f)
        /\ \A g \in Stored \ {f} : \A e \in UnitIn(f).edges :
              e[1] \in {"Calls", "Uses"} /\ e[3] \in DOMAIN UnitIn(g).nodes => <<f, g>> \in state.deps

\* Safety: a scan refuses no layer tree for code the tree has: whatever worktree
\* scanned ahead of this one's database, each file, module and declaration of a
\* language no fault touched is in the universe references are checked against.
DriftSeesCode ==
    \A w \in Worktree : pc[w] = "assemble" /\ ~torn[w] =>
        LET spoilt == job[w].hurt \cup (IF job[w].full THEN {} ELSE storeHurt)
        IN  {r[1][2] : r \in {x \in Rebuilt(job[w].manifest).rows :
                                 x[1][1] # "Language" /\ LangOfFqn(x[1][2]) \notin spoilt}}
               \subseteq Universe(w)

\* That a spliced database equals a rebuild on every table (the repository's own
\* constraint, db-splice-equivalence), for references and no more than this: each
\* one of the tree is there, if only to an unresolved name.
FreshMentions ==
    \A w \in Worktree : Fresh(w) =>
        {x \in Rebuilt(tree[w]).refers : LangOfFqn(x[1][2]) \in Sound(w)} \subseteq Mentions(db[w].graph)

=============================================================================
