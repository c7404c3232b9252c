----------------------------- MODULE SessionStore -----------------------------
(***************************************************************************)
(* The durable-graph store of a session (src/src/session.rs): the node     *)
(* files of `apg/layers/**`, the rows of the database the coordinator      *)
(* holds, and the three marks that tell the two apart - the dirty flag of  *)
(* a row, the pending-removal ledger, and the coordinator's in-memory list *)
(* of pending identities.  One action per request the single-threaded      *)
(* serve loop handles, plus the loss of the process between two requests.  *)
(* Here a request succeeds or is refused as a whole: a save in pieces is   *)
(* SaveThrough, a request that is sent twice is RoutedClient, and several  *)
(* processes are SessionLifecycle.                                         *)
(***************************************************************************)
EXTENDS SpecGraph

VARIABLES
    live,    \* a coordinator serves the worktree
    disk,    \* the node files of apg/layers/**, as committed
    rows,    \* the durable node rows of db.lbug
    links,   \* its authored rel rows; one row stands for both halves
    dirty,   \* the rows carrying  updated = 1
    ledger,  \* the PendingRemoval rows
    list     \* Coordinator.buffer: the pending-identity list, in memory

vars  == <<live, disk, rows, links, dirty, ledger, list>>
db    == <<rows, links, dirty, ledger>>

TypeOK ==
    /\ live \in BOOLEAN
    /\ disk \in [Node -> Files]
    /\ rows \in [Node -> Bodies]
    /\ links \in [Edge -> Props]
    /\ dirty \subseteq Node /\ ledger \subseteq Node /\ list \subseteq Node

\* A scanned worktree whose apg/layers/** is still empty.
Init ==
    /\ live = FALSE
    /\ disk = [n \in Node |-> Absent]
    /\ rows = [n \in Node |-> Absent]
    /\ links = [e \in Edge |-> NoProp]
    /\ dirty = {} /\ ledger = {} /\ list = {}

-----------------------------------------------------------------------------
(* Reading the held database *)

\* node_files_from_db: the working state, every ledger-held identity left out.
Base == [n \in Node |-> IF n \in ledger THEN Absent ELSE rows[n]]

\* dirty_node_files_from_db: the exact write set of a save.
WriteSet == {n \in dirty : Base[n] # Absent}

HasPending == WriteSet # {} \/ ledger # {}

-----------------------------------------------------------------------------
(* The change builders of node_cmd.rs.  A change carries the node files it *)
(* rewrites - for each its body and its out-halves - and the identities    *)
(* whose files it deletes.  In-halves are never read from a change: the    *)
(* projection re-derives them from the rel rows.                           *)

Change(writes, deletes, bodies, outs) ==
    [writes |-> writes, deletes |-> deletes, bodies |-> bodies, outs |-> outs]

\* Mutant: an edge mutation rewrites the source's file alone.
EndpointsSourceOnly(e) == {e.from}

\* read_endpoint: an authored target the base carries is rewritten beside the
\* source; a code target or an absent one is not.
Endpoints(e) == {e.from} \cup {n \in Node : n = e.to /\ Base[n] # Absent}

Neighbours(n) ==
    {m \in Node \ {n} : /\ Base[m] # Absent
                        /\ \E e \in Holds(links) : {e.from, e.to} = {m, n}}

NodeAddChange(n, b) ==
    Change({n}, {}, [Base EXCEPT ![n] = b],
           [e \in Edge |-> IF e.from = n THEN NoProp ELSE links[e]])

\* Mutant: an update that rebuilds the node from its arguments, out edges gone.
NodeUpdateChangeFromScratch(n, b) ==
    Change({n} \cup Neighbours(n), {}, [Base EXCEPT ![n] = b],
           [e \in Edge |-> IF e.from = n THEN NoProp ELSE links[e]])
NodeUpdateChange(n, b) == Change({n}, {}, [Base EXCEPT ![n] = b], links)

\* Mutant: a removal that forgets the neighbours naming the node.
NodeRmChangeAlone(n) == Change({}, {n}, Base, links)
NodeRmChange(n) ==
    Change(Neighbours(n), {n}, Base,
           [e \in Edge |-> IF e.to = n THEN NoProp ELSE links[e]])

EdgeChange(e, p) == Change(Endpoints(e), {}, Base, [links EXCEPT ![e] = p])

-----------------------------------------------------------------------------
(* Admission: validate_change_over, the projection, then the marks.        *)

Touched(c) == c.writes \cup c.deletes

\* The assembled post-mutation set: the base, overwritten by the writes.
AfterNodes(c) ==
    [n \in Node |-> IF n \in c.deletes THEN Absent
                    ELSE IF n \in c.writes THEN c.bodies[n] ELSE Base[n]]
AfterOuts(c) ==
    [e \in Edge |-> IF AfterNodes(c)[e.from] = Absent THEN NoProp
                    ELSE IF e.from \in c.writes THEN c.outs[e] ELSE links[e]]

\* Mutant: the rules judged over the edges as they were before the change.
ChangeValidStaleEdges(c) == AssembledRules(AfterNodes(c), links)

\* validate_change_over.  Pairing is left to the save boundary.
ChangeValid(c) == AssembledRules(AfterNodes(c), AfterOuts(c))

\* reingest_layers_on: detach what the change touched, merge its node records,
\* then the out-edges of the written files and the in-edges read back for the
\* touched identities.  merge_edge skips an edge one of whose endpoints has no
\* row.
ProjectedRows(c) ==
    [n \in Node |-> IF n \in c.deletes THEN Absent
                    ELSE IF n \in c.writes THEN c.bodies[n] ELSE rows[n]]
ProjectedLinks(c) ==
    LET after   == ProjectedRows(c)
        resolves(e) == after[e.from] # Absent /\ (e.to \in Node => after[e.to] # Absent)
        withheld(e) == e.to \in Touched(c) /\ {e.from, e.to} \cap ledger # {}
    IN [e \in Edge |-> IF ~resolves(e) THEN NoProp
                       ELSE IF e.from \in c.writes THEN c.outs[e]
                       ELSE IF withheld(e) THEN NoProp ELSE links[e]]

\* Mutant: a re-add of a ledger-held identity taken for a create.
DurableWriteIgnoringLedger(n) == n \notin list /\ Base[n] # Absent
\* Mutant: every removal taken for one of a node this run created.
CreatedThisRunAlways(n) == n \notin ledger

\* apply_mutation step (8).  A written identity is durable when the ledger held
\* it, or when this run did not create it and the base already carried it; a
\* deleted one was created by this run when it is listed and not ledger-held.
DurableWrite(n)   == n \in ledger \/ (n \notin list /\ Base[n] # Absent)
CreatedThisRun(n) == n \in list \ ledger

Admit(c) ==
    /\ live
    /\ ChangeValid(c)
    /\ rows' = ProjectedRows(c)
    /\ links' = ProjectedLinks(c)
    /\ dirty' = (dirty \ c.deletes) \cup c.writes
    /\ ledger' = (ledger \ c.writes) \cup {n \in c.deletes : ~CreatedThisRun(n)}
    /\ list' = (list \ (c.deletes \cup {n \in c.writes : DurableWrite(n)}))
               \cup {n \in c.writes : ~DurableWrite(n)}
               \cup {n \in c.deletes : ~CreatedThisRun(n)}
    /\ UNCHANGED <<live, disk>>

-----------------------------------------------------------------------------
(* The requests *)

NodeAdd(n, b)    == Base[n] = Absent /\ Admit(NodeAddChange(n, b))
NodeUpdate(n, b) == Base[n] # Absent /\ Admit(NodeUpdateChange(n, b))
NodeRm(n)        == Base[n] # Absent /\ Admit(NodeRmChange(n))

\* One logical change may not write one node file twice, so an edge from a
\* node to itself is refused by the per-node uniqueness rule.
EdgeAdd(e, p) ==
    /\ Base[e.from] # Absent /\ e.from # e.to
    /\ links[e] = NoProp
    /\ Admit(EdgeChange(e, p))

EdgeUpdate(e, p) ==
    /\ Base[e.from] # Absent /\ e.from # e.to
    /\ links[e] # NoProp
    /\ Admit(EdgeChange(e, p))

\* Removing an edge the source does not hold is not refused.
EdgeRm(e) ==
    /\ Base[e.from] # Absent /\ e.from # e.to
    /\ Admit(EdgeChange(e, NoProp))

\* The held model: one rel row feeds both halves, but a half whose other
\* endpoint is ledger-held stays behind, and fails to pair.
HeldFiles == [n \in Node |-> FileOf(n, Base, links)]

\* Mutant: tree edges resolved within the dirty rows, not the whole row set.
SaveValidDirtyOnly ==
    LET nodes == [n \in Node |-> IF n \in WriteSet THEN Base[n] ELSE Absent]
        outs  == [e \in Edge |-> IF e.from \in WriteSet THEN links[e] ELSE NoProp]
    IN AssembledRules(nodes, outs) /\ Paired(HeldFiles)

\* validate_save_model: structure over the dirty rows, pairing over all of them.
SaveValid ==
    LET nodes == [n \in Node |-> IF n \in WriteSet THEN Base[n] ELSE Absent]
        outs  == [e \in Edge |-> IF e.from \in WriteSet THEN links[e] ELSE NoProp]
    IN /\ TreesValid(Present(Base), outs)
       /\ EventTargetsValid(nodes, outs)
       /\ Paired(HeldFiles)

\* Mutant: the pending removals not handed to the write.
WrittenTreeNoDeletes ==
    [n \in Node |-> IF n \in WriteSet THEN HeldFiles[n] ELSE disk[n]]

\* write_through_with_deletes: the marked rows and the ledger's identities only.
WrittenTree ==
    [n \in Node |-> IF n \in WriteSet THEN HeldFiles[n]
                    ELSE IF n \in ledger THEN Absent ELSE disk[n]]

Save ==
    /\ live /\ HasPending /\ SaveValid
    /\ disk' = WrittenTree
    /\ dirty' = {} /\ ledger' = {} /\ list' = {}
    /\ UNCHANGED <<live, rows, links>>

\* The End arm refuses while the held database carries pending state.
End ==
    /\ live /\ ~HasPending
    /\ live' = FALSE /\ list' = {}
    /\ UNCHANGED <<disk, db>>

\* force_full_scan: discard the derived index and rebuild it from the node files.
Rebuild ==
    /\ Ingestible(disk)
    /\ rows' = BodyIn(disk)
    /\ links' = EdgesIn(disk)
    /\ dirty' = {} /\ ledger' = {}

Abort ==
    /\ live
    /\ live' = FALSE /\ list' = {}
    /\ IF HasPending THEN Rebuild ELSE UNCHANGED db
    /\ UNCHANGED disk

\* The process is killed: memory is gone, the database and the tree stay.
Crash ==
    /\ live
    /\ live' = FALSE /\ list' = {}
    /\ UNCHANGED <<disk, db>>

\* reclaim_stale_socket, then start: pending state no session holds is an
\* unclean exit, and is discarded before the session opens the database.
Start ==
    /\ ~live
    /\ live' = TRUE
    /\ IF HasPending THEN Rebuild ELSE UNCHANGED db
    /\ UNCHANGED <<disk, list>>

Next ==
    \/ \E n \in Node, b \in Body : NodeAdd(n, b) \/ NodeUpdate(n, b)
    \/ \E n \in Node : NodeRm(n)
    \/ \E e \in Edge, p \in Prop : EdgeAdd(e, p) \/ EdgeUpdate(e, p)
    \/ \E e \in Edge : EdgeRm(e)
    \/ Save \/ End \/ Abort \/ Crash \/ Start

Spec == Init /\ [][Next]_vars

-----------------------------------------------------------------------------
(* Properties *)

\* The marks are exact: a node outside the dirty set and the ledger has, byte
\* for byte, the node file its row and rel rows would serialise to - also after
\* a kill, and whichever neighbour's edit rewrote its edges.  What a save skips
\* (dirty_node_files_from_db, pending_removals) needs no write.
UnmarkedMatchesFile ==
    \A n \in Node \ (dirty \cup ledger) : disk[n] = FileOf(n, rows, links)

\* The ledger holds exactly the removals a save owes: an identity with no row
\* whose node file is still in the tree.
LedgerOwesAFile ==
    \A n \in Node : n \in ledger <=> rows[n] = Absent /\ disk[n] # Absent

\* The list tells a never-durable node from a durable one: while a session is
\* live, an identity listed and not ledger-held is one that has a row and no
\* node file, so `node rm` of it may forget it (apply_mutation step 8).
ListedIsNeverDurable ==
    live => list = ledger \cup {n \in Node : rows[n] # Absent /\ disk[n] = Absent}

\* Admission never lets a sequence of edits, removals and re-adds break the
\* rules of the authored graph in the working state: no dangling or cyclic
\* tree, no event edge onto a node that is not an event.
WorkingKeepsRules == AssembledRules(rows, links)

\* The committed tree can always be scanned: every half paired with identical
\* properties and the rules kept, although a save rewrites only marked files.
TreeIngests == Ingestible(disk)

\* No sequence of admitted edits strands a session: whatever it holds, the save
\* boundary accepts it (pairing over the held model, structure over dirty rows).
SaveNeverRefused == live => SaveValid

\* Only a save moves the tree, and it moves it to the whole working state.
SaveIsTheWholeWorkingState ==
    [][disk' # disk => disk' = [n \in Node |-> FileOf(n, rows', links')]]_vars

\* An edge a session acknowledges is in the working state, in whichever order
\* the edge and its endpoints are added (admission-checks-the-model).
EdgeAddIsHeld ==
    [][\A e \in Edge, p \in Prop : EdgeAdd(e, p) => links'[e] = p]_vars

\* The session serves what it promises: the store, seen as a working graph and
\* a durable one, behaves as AuthoredGraph.
Authored == INSTANCE AuthoredGraph WITH
    nodes <- rows, edges <- links,
    savedNodes <- BodyIn(disk), savedEdges <- EdgesIn(disk)
ImplementsAuthoredGraph == Authored!Spec
=============================================================================
