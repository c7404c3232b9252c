-------------------------- MODULE SessionStoreProofs --------------------------
(***************************************************************************)
(* For every set of identities, edges, bodies and property maps, the marks *)
(* of a session stay exact, the authored rules stay kept, and the store    *)
(* implements AuthoredGraph.                                               *)
(***************************************************************************)
EXTENDS SessionStore, TLAPS

(* The strengthening.  A dirty flag lives on a row, a rel row on two rows,  *)
(* and a node file carries halves of its own edges only.                    *)
DirtyHasRow == \A n \in dirty : rows[n] # Absent

LinksResolve ==
    \A e \in Edge : links[e] # NoProp =>
        /\ rows[e.from] # Absent
        /\ e.to \in Node => rows[e.to] # Absent

FilesHoldOwnHalves ==
    \A n \in Node, e \in Edge : disk[n] # Absent =>
        /\ disk[n].out[e] # NoProp => e.from = n
        /\ disk[n].in[e] # NoProp => e.to = n

\* The list is the memory of a live coordinator.
ListIsMemory == ~live => list = {}

IInv ==
    /\ TypeOK /\ ListIsMemory
    /\ DirtyHasRow /\ LinksResolve /\ FilesHoldOwnHalves
    /\ UnmarkedMatchesFile /\ LedgerOwesAFile /\ ListedIsNeverDurable
    /\ WorkingKeepsRules /\ TreeIngests

-----------------------------------------------------------------------------
(* The graph vocabulary *)

LEMMA EdgeEndpoints ==
    ASSUME NEW e \in Edge
    PROVE  e.from \in Node /\ e.to \in Node \cup Code
BY EdgeAssumption

\* Dropping edges never makes a cycle.
LEMMA AcyclicMonotone ==
    ASSUME NEW T, NEW U, T \subseteq U, Acyclic(U)
    PROVE  Acyclic(T)
BY DEF Acyclic

\* Dropping edges never breaks the authored rules.
LEMMA RulesMonotone ==
    ASSUME NEW nodes, NEW more, NEW fewer,
           AssembledRules(nodes, more),
           \A e \in Edge : fewer[e] # NoProp => more[e] # NoProp
    PROVE  AssembledRules(nodes, fewer)
<1>1. Holds(fewer) \subseteq Holds(more)
  BY DEF Holds
<1>2. EventTargetsValid(nodes, fewer)
  BY <1>1 DEF AssembledRules, EventTargetsValid
<1>3. {e \in Holds(fewer) : TreeEdge(e)} \subseteq {e \in Holds(more) : TreeEdge(e)}
  BY <1>1
<1>4. TreesValid(Present(nodes), fewer)
  BY <1>3, AcyclicMonotone DEF AssembledRules, TreesValid
<1> QED BY <1>2, <1>4 DEF AssembledRules

LEMMA FileOfType ==
    ASSUME NEW nodes \in [Node -> Bodies], NEW edges \in [Edge -> Props],
           NEW n \in Node
    PROVE  /\ FileOf(n, nodes, edges) \in Files
           /\ FileOf(n, nodes, edges) = Absent <=> nodes[n] = Absent
BY FileAssumption DEF FileOf, Files, File, Bodies, Props

\* A node file depends on nothing but its own row and its own edges.
LEMMA FileOfFrame ==
    ASSUME NEW nodes, NEW edges, NEW nodes2, NEW edges2, NEW n \in Node,
           nodes2[n] = nodes[n],
           \A e \in Edge : n \in {e.from, e.to} => edges2[e] = edges[e]
    PROVE  FileOf(n, nodes2, edges2) = FileOf(n, nodes, edges)
BY DEF FileOf

\* A tree written out of rows whose edges resolve reads back as those rows,
\* and its halves pair.
LEMMA WrittenTreeReadsBack ==
    ASSUME NEW nodes \in [Node -> Bodies], NEW edges \in [Edge -> Props],
           NEW files \in [Node -> Files],
           \A n \in Node : files[n] = FileOf(n, nodes, edges),
           \A e \in Edge : edges[e] # NoProp =>
               /\ nodes[e.from] # Absent
               /\ e.to \in Node => nodes[e.to] # Absent
    PROVE  /\ BodyIn(files) = nodes
           /\ EdgesIn(files) = edges
           /\ Paired(files)
<1>1. \A n \in Node : files[n] = Absent <=> nodes[n] = Absent
  BY FileOfType
<1>2. ASSUME NEW n \in Node, files[n] # Absent
      PROVE  /\ files[n].body = nodes[n]
             /\ \A e \in Edge : /\ files[n].out[e] = IF e.from = n THEN edges[e] ELSE NoProp
                                /\ files[n].in[e] = IF e.to = n THEN edges[e] ELSE NoProp
  BY <1>1, <1>2 DEF FileOf
<1>3. BodyIn(files) = nodes
  BY <1>1, <1>2 DEF BodyIn
<1>4. EdgesIn(files) = edges
  BY <1>1, <1>2, EdgeEndpoints DEF EdgesIn
<1>5. Paired(files)
  BY <1>1, <1>2, EdgeEndpoints DEF Paired
<1> QED BY <1>3, <1>4, <1>5

\* The converse: rows rebuilt from an ingestible tree serialise to that tree.
LEMMA RebuiltRowsSerialise ==
    ASSUME NEW files \in [Node -> Files], Paired(files),
           \A n \in Node, e \in Edge : files[n] # Absent =>
               /\ files[n].out[e] # NoProp => e.from = n
               /\ files[n].in[e] # NoProp => e.to = n
    PROVE  \A n \in Node : files[n] = FileOf(n, BodyIn(files), EdgesIn(files))
<1> SUFFICES ASSUME NEW n \in Node
             PROVE  files[n] = FileOf(n, BodyIn(files), EdgesIn(files))
  OBVIOUS
<1>1. CASE files[n] = Absent
  BY <1>1 DEF FileOf, BodyIn
<1>2. CASE files[n] # Absent
  <2>1. files[n] \in File
    BY <1>2 DEF Files
  <2>2. BodyIn(files)[n] = files[n].body /\ files[n].body # Absent
    BY <1>2, <2>1, BodyAssumption DEF BodyIn, File
  <2>3. \A e \in Edge : files[n].out[e] = IF e.from = n THEN EdgesIn(files)[e] ELSE NoProp
    BY <1>2 DEF EdgesIn
  <2>4. \A e \in Edge : files[n].in[e] = IF e.to = n THEN EdgesIn(files)[e] ELSE NoProp
    BY <1>2, EdgeEndpoints DEF EdgesIn, Paired
  <2>5. files[n].out = [e \in Edge |-> IF e.from = n THEN EdgesIn(files)[e] ELSE NoProp]
    BY <2>1, <2>3 DEF File
  <2>6. files[n].in = [e \in Edge |-> IF e.to = n THEN EdgesIn(files)[e] ELSE NoProp]
    BY <2>1, <2>4 DEF File
  <2> QED BY <2>1, <2>2, <2>5, <2>6 DEF FileOf, File
<1> QED BY <1>1, <1>2

-----------------------------------------------------------------------------
(* Admission *)

LEMMA BaseIsRows ==
    ASSUME IInv
    PROVE  Base = rows /\ WriteSet = dirty
BY DEF IInv, TypeOK, LedgerOwesAFile, DirtyHasRow, Base, WriteSet

\* What the proofs need of a built change: it writes nodes it has bodies for,
\* deletes nodes that have rows, and changes no edge whose other authored
\* endpoint it does not touch - a neighbour's file is always in the change.
WellBuilt(c) ==
    /\ c.writes \subseteq Node /\ c.deletes \subseteq Node
    /\ c.writes \cap c.deletes = {}
    /\ c.bodies \in [Node -> Bodies] /\ c.outs \in [Edge -> Props]
    /\ \A n \in c.writes : c.bodies[n] # Absent
    /\ \A n \in c.deletes : rows[n] # Absent
    /\ \A e \in Edge : ProjectedLinks(c)[e] # links[e] =>
          {e.from, e.to} \cap Node \subseteq Touched(c)

\* The projection yields well-typed rows whose edges resolve, and never more
\* edges than the assembled set validation saw.
LEMMA ProjectionSound ==
    ASSUME IInv, NEW c, WellBuilt(c), ChangeValid(c)
    PROVE  /\ ProjectedRows(c) \in [Node -> Bodies]
           /\ ProjectedLinks(c) \in [Edge -> Props]
           /\ \A e \in Edge : ProjectedLinks(c)[e] # NoProp =>
                /\ ProjectedRows(c)[e.from] # Absent
                /\ e.to \in Node => ProjectedRows(c)[e.to] # Absent
           /\ AssembledRules(ProjectedRows(c), ProjectedLinks(c))
<1>1. rows \in [Node -> Bodies] /\ links \in [Edge -> Props]
  BY DEF IInv, TypeOK
<1>2. ProjectedRows(c) \in [Node -> Bodies]
  BY <1>1 DEF ProjectedRows, WellBuilt, Bodies
<1>3. ProjectedLinks(c) \in [Edge -> Props]
  BY <1>1 DEF ProjectedLinks, WellBuilt, Props
<1>4. \A e \in Edge : ProjectedLinks(c)[e] # NoProp =>
         /\ ProjectedRows(c)[e.from] # Absent
         /\ e.to \in Node => ProjectedRows(c)[e.to] # Absent
  BY DEF ProjectedLinks
<1>5. ProjectedRows(c) = AfterNodes(c)
  BY BaseIsRows DEF ProjectedRows, AfterNodes
<1>6. \A e \in Edge : ProjectedLinks(c)[e] # NoProp => AfterOuts(c)[e] # NoProp
  <2> SUFFICES ASSUME NEW e \in Edge, ProjectedLinks(c)[e] # NoProp
               PROVE  AfterOuts(c)[e] # NoProp
    OBVIOUS
  <2>1. ProjectedRows(c)[e.from] # Absent /\ e.from \in Node
    BY <1>4, EdgeEndpoints
  <2>2. CASE e.from \in c.writes
    BY <2>1, <2>2, <1>5 DEF ProjectedLinks, AfterOuts
  <2>3. CASE e.from \notin c.writes
    <3>1. links[e] # NoProp
      BY <2>3 DEF ProjectedLinks
    <3> QED BY <2>1, <2>3, <3>1, <1>5 DEF AfterOuts
  <2> QED BY <2>2, <2>3
<1>7. AssembledRules(ProjectedRows(c), ProjectedLinks(c))
  BY <1>5, <1>6, RulesMonotone DEF ChangeValid
<1> QED BY <1>2, <1>3, <1>4, <1>7

LEMMA AdmitPreserves ==
    ASSUME IInv, NEW c, WellBuilt(c), Admit(c)
    PROVE  IInv'
<1>1. /\ rows' = ProjectedRows(c) /\ links' = ProjectedLinks(c)
      /\ dirty' = (dirty \ c.deletes) \cup c.writes
      /\ live /\ live' = live /\ disk' = disk /\ ChangeValid(c)
  BY DEF Admit
<1>2. ledger' = (ledger \ c.writes) \cup {n \in c.deletes : ~CreatedThisRun(n)}
  BY DEF Admit
<1>3. list' = (list \ (c.deletes \cup {n \in c.writes : DurableWrite(n)}))
              \cup {n \in c.writes : ~DurableWrite(n)}
              \cup {n \in c.deletes : ~CreatedThisRun(n)}
  BY DEF Admit
<1>4. Base = rows
  BY BaseIsRows
<1>5. TypeOK' /\ ListIsMemory'
  BY <1>1, <1>2, <1>3, ProjectionSound DEF IInv, TypeOK, ListIsMemory, WellBuilt
<1>6. DirtyHasRow'
  BY <1>1 DEF IInv, TypeOK, DirtyHasRow, WellBuilt, ProjectedRows
<1>7. LinksResolve'
  BY <1>1, ProjectionSound DEF LinksResolve
<1>8. FilesHoldOwnHalves'
  BY <1>1 DEF IInv, FilesHoldOwnHalves
<1>9. LedgerOwesAFile'
  <2> SUFFICES ASSUME NEW n \in Node
               PROVE  n \in ledger' <=> rows'[n] = Absent /\ disk[n] # Absent
    BY <1>1 DEF LedgerOwesAFile
  <2>1. CASE n \in c.deletes
    BY <1>1, <1>2, <2>1 DEF IInv, TypeOK, WellBuilt, CreatedThisRun, LedgerOwesAFile,
                            ListedIsNeverDurable, ProjectedRows
  <2>2. CASE n \in c.writes
    BY <1>1, <1>2, <2>2 DEF WellBuilt, ProjectedRows
  <2>3. CASE n \notin c.deletes /\ n \notin c.writes
    BY <1>1, <1>2, <2>3 DEF IInv, LedgerOwesAFile, ProjectedRows
  <2> QED BY <2>1, <2>2, <2>3
<1>10. ListedIsNeverDurable'
  <2> SUFFICES ASSUME NEW n \in Node
               PROVE  n \in list' <=> n \in ledger' \/ (rows'[n] # Absent /\ disk[n] = Absent)
    BY <1>1, <1>5 DEF ListedIsNeverDurable, TypeOK
  <2>1. CASE n \in c.deletes
    BY <1>1, <1>2, <1>3, <2>1 DEF WellBuilt, ProjectedRows, CreatedThisRun
  <2>2. CASE n \in c.writes
    <3>1. rows'[n] # Absent /\ n \notin ledger' /\ n \notin c.deletes
      BY <1>1, <1>2, <2>2 DEF WellBuilt, ProjectedRows
    <3>2. n \in list' <=> ~DurableWrite(n)
      BY <1>3, <2>2, <3>1
    <3>3. DurableWrite(n) <=> disk[n] # Absent
      BY <1>1, <1>4 DEF IInv, DurableWrite, LedgerOwesAFile, ListedIsNeverDurable
    <3> QED BY <3>1, <3>2, <3>3
  <2>3. CASE n \notin c.deletes /\ n \notin c.writes
    BY <1>1, <1>2, <1>3, <2>3 DEF IInv, ListedIsNeverDurable, ProjectedRows
  <2> QED BY <2>1, <2>2, <2>3
<1>11. UnmarkedMatchesFile'
  <2> SUFFICES ASSUME NEW n \in Node, n \notin dirty', n \notin ledger'
               PROVE  disk[n] = FileOf(n, rows', links')
    BY <1>1 DEF UnmarkedMatchesFile
  <2>1. n \notin c.writes
    BY <1>1
  <2>2. CASE n \in c.deletes
    <3>1. rows'[n] = Absent
      BY <1>1, <2>2 DEF ProjectedRows
    <3>2. disk[n] = Absent
      BY <3>1, <1>9, <1>1 DEF LedgerOwesAFile
    <3> QED BY <3>1, <3>2 DEF FileOf
  <2>3. CASE n \notin c.deletes
    <3>1. n \notin dirty /\ n \notin ledger
      BY <1>1, <1>2, <2>1, <2>3
    <3>2. disk[n] = FileOf(n, rows, links)
      BY <3>1 DEF IInv, UnmarkedMatchesFile
    <3>3. rows'[n] = rows[n]
      BY <1>1, <2>1, <2>3 DEF ProjectedRows
    <3>4. \A e \in Edge : n \in {e.from, e.to} => links'[e] = links[e]
      BY <1>1, <2>1, <2>3 DEF WellBuilt, Touched
    <3> QED BY <3>2, <3>3, <3>4, FileOfFrame
  <2> QED BY <2>2, <2>3
<1>12. WorkingKeepsRules'
  BY <1>1, ProjectionSound DEF WorkingKeepsRules
<1>13. TreeIngests'
  BY <1>1 DEF IInv, TreeIngests
<1> QED BY <1>5, <1>6, <1>7, <1>8, <1>9, <1>10, <1>11, <1>12, <1>13 DEF IInv

-----------------------------------------------------------------------------
(* The change builders *)

\* Away from the written out-halves, a projection that keeps every row keeps
\* every edge: an edge names no ledger-held identity.
LEMMA KeptEdges ==
    ASSUME IInv, NEW c, NEW e \in Edge,
           \A n \in Node : rows[n] # Absent => ProjectedRows(c)[n] # Absent,
           e.from \in c.writes => c.outs[e] = links[e]
    PROVE  ProjectedLinks(c)[e] = links[e]
<1>1. e.from \in Node /\ e.to \in Node \cup Code
  BY EdgeEndpoints
<1>2. CASE links[e] = NoProp
  BY <1>2 DEF ProjectedLinks
<1>3. CASE links[e] # NoProp
  <2>1. rows[e.from] # Absent /\ (e.to \in Node => rows[e.to] # Absent)
    BY <1>3 DEF IInv, LinksResolve
  <2>2. e.from \notin ledger /\ e.to \notin ledger
    BY <1>1, <2>1 DEF IInv, TypeOK, LedgerOwesAFile
  <2> QED BY <1>1, <2>1, <2>2 DEF ProjectedLinks
<1> QED BY <1>2, <1>3

LEMMA NodeAddWellBuilt ==
    ASSUME IInv, NEW n \in Node, NEW b \in Body, Base[n] = Absent
    PROVE  WellBuilt(NodeAddChange(n, b))
<1> DEFINE c == NodeAddChange(n, b)
<1>1. Base = rows /\ rows \in [Node -> Bodies] /\ links \in [Edge -> Props]
  BY BaseIsRows DEF IInv, TypeOK
<1>2. /\ c.writes = {n} /\ c.deletes = {} /\ c.bodies = [Base EXCEPT ![n] = b]
      /\ c.outs = [e \in Edge |-> IF e.from = n THEN NoProp ELSE links[e]]
  BY DEF NodeAddChange, Change
<1>3. b \in Bodies /\ b # Absent
  BY BodyAssumption DEF Bodies
<1>4. \A e \in Edge : e.from = n => links[e] = NoProp
  BY <1>1 DEF IInv, LinksResolve
<1>5. \A m \in Node : rows[m] # Absent => ProjectedRows(c)[m] # Absent
  BY <1>1, <1>2, <1>3 DEF ProjectedRows
<1>6. \A e \in Edge : ProjectedLinks(c)[e] = links[e]
  BY <1>2, <1>4, <1>5, KeptEdges
<1>7. c.outs \in [Edge -> Props]
  BY <1>1, <1>2 DEF Props
<1>8. c.bodies \in [Node -> Bodies] /\ c.bodies[n] # Absent
  BY <1>1, <1>2, <1>3
<1> QED BY <1>2, <1>6, <1>7, <1>8 DEF WellBuilt

LEMMA NodeUpdateWellBuilt ==
    ASSUME IInv, NEW n \in Node, NEW b \in Body, Base[n] # Absent
    PROVE  WellBuilt(NodeUpdateChange(n, b))
<1> DEFINE c == NodeUpdateChange(n, b)
<1>1. Base = rows /\ rows \in [Node -> Bodies] /\ links \in [Edge -> Props]
  BY BaseIsRows DEF IInv, TypeOK
<1>2. /\ c.writes = {n} /\ c.deletes = {} /\ c.outs = links
      /\ c.bodies = [Base EXCEPT ![n] = b]
  BY DEF NodeUpdateChange, Change
<1>3. b \in Bodies /\ b # Absent
  BY BodyAssumption DEF Bodies
<1>4. c.bodies \in [Node -> Bodies] /\ c.bodies[n] # Absent
  BY <1>1, <1>2, <1>3
<1>5. \A m \in Node : rows[m] # Absent => ProjectedRows(c)[m] # Absent
  BY <1>1, <1>2, <1>3 DEF ProjectedRows
<1>6. \A e \in Edge : ProjectedLinks(c)[e] = links[e]
  BY <1>2, <1>5, KeptEdges
<1> QED BY <1>1, <1>2, <1>4, <1>6 DEF WellBuilt

LEMMA NodeRmWellBuilt ==
    ASSUME IInv, NEW n \in Node, Base[n] # Absent
    PROVE  WellBuilt(NodeRmChange(n))
<1> DEFINE c == NodeRmChange(n)
<1>1. Base = rows /\ rows \in [Node -> Bodies] /\ links \in [Edge -> Props]
  BY BaseIsRows DEF IInv, TypeOK
<1>2. /\ c.writes = Neighbours(n) /\ c.deletes = {n} /\ c.bodies = Base
      /\ c.outs = [e \in Edge |-> IF e.to = n THEN NoProp ELSE links[e]]
  BY DEF NodeRmChange, Change
<1>3. Neighbours(n) \subseteq Node \ {n} /\ \A m \in Neighbours(n) : Base[m] # Absent
  BY DEF Neighbours
<1>4. c.outs \in [Edge -> Props]
  BY <1>1, <1>2 DEF Props
<1>5. ASSUME NEW e \in Edge, ProjectedLinks(c)[e] # links[e]
      PROVE  {e.from, e.to} \cap Node \subseteq Touched(c)
  <2>1. e.from \in Node /\ e.to \in Node \cup Code
    BY EdgeEndpoints
  <2>2. links[e] # NoProp
    BY <1>2, <1>5 DEF ProjectedLinks
  <2>3. rows[e.from] # Absent /\ (e.to \in Node => rows[e.to] # Absent)
    BY <2>2 DEF IInv, LinksResolve
  <2>4. e.from = n \/ e.to = n
    <3> SUFFICES ASSUME e.from # n, e.to # n PROVE FALSE
      OBVIOUS
    <3>1. ProjectedRows(c)[e.from] # Absent
      BY <1>1, <1>2, <2>1, <2>3 DEF ProjectedRows
    <3>2. e.to \in Node => ProjectedRows(c)[e.to] # Absent
      BY <1>1, <1>2, <2>1, <2>3 DEF ProjectedRows
    <3>3. e.from \notin ledger /\ (e.to \in Node => e.to \notin ledger) /\ ledger \subseteq Node
      BY <2>1, <2>3 DEF IInv, TypeOK, LedgerOwesAFile
    <3> QED BY <1>2, <1>5, <3>1, <3>2, <3>3 DEF ProjectedLinks
  <2>5. \A m \in {e.from, e.to} \cap Node : m = n \/ m \in Neighbours(n)
    BY <1>1, <2>1, <2>2, <2>3, <2>4 DEF Neighbours, Holds
  <2> QED BY <1>2, <2>5 DEF Touched
<1> QED BY <1>1, <1>2, <1>3, <1>4, <1>5 DEF WellBuilt

LEMMA EdgeWellBuilt ==
    ASSUME IInv, NEW e \in Edge, NEW p \in Props, Base[e.from] # Absent
    PROVE  WellBuilt(EdgeChange(e, p))
<1> DEFINE c == EdgeChange(e, p)
<1>1. Base = rows /\ rows \in [Node -> Bodies] /\ links \in [Edge -> Props]
  BY BaseIsRows DEF IInv, TypeOK
<1>2. /\ c.writes = Endpoints(e) /\ c.deletes = {} /\ c.bodies = Base
      /\ c.outs = [links EXCEPT ![e] = p]
  BY DEF EdgeChange, Change
<1>3. e.from \in Node /\ e.to \in Node \cup Code
  BY EdgeEndpoints
<1>4. Endpoints(e) \subseteq Node /\ \A m \in Endpoints(e) : Base[m] # Absent
  BY <1>3 DEF Endpoints
<1>5. c.outs \in [Edge -> Props]
  BY <1>1, <1>2
<1>6. \A m \in Node : ProjectedRows(c)[m] = rows[m]
  BY <1>1, <1>2 DEF ProjectedRows
<1>7. ASSUME NEW f \in Edge, ProjectedLinks(c)[f] # links[f]
      PROVE  {f.from, f.to} \cap Node \subseteq Touched(c)
  <2>1. f = e
    <3> SUFFICES ASSUME f # e PROVE FALSE
      OBVIOUS
    <3>1. c.outs[f] = links[f]
      BY <1>1, <1>2
    <3>2. ProjectedLinks(c)[f] = links[f]
      BY <1>6, <3>1, KeptEdges
    <3> QED BY <1>7, <3>2
  <2>2. e.to \in Node => rows[e.to] # Absent
    <3> SUFFICES ASSUME e.to \in Node, rows[e.to] = Absent PROVE FALSE
      OBVIOUS
    <3>1. links[e] = NoProp
      BY DEF IInv, LinksResolve
    <3>2. ProjectedRows(c)[e.to] = Absent
      BY <1>6
    <3>3. ProjectedLinks(c)[e] = NoProp
      BY <3>2 DEF ProjectedLinks
    <3> QED BY <1>7, <2>1, <3>1, <3>3
  <2> QED BY <1>1, <1>2, <2>1, <2>2 DEF Touched, Endpoints
<1> QED BY <1>1, <1>2, <1>4, <1>5, <1>7 DEF WellBuilt

-----------------------------------------------------------------------------
(* The requests and the loss of the process *)

LEMMA InitInv == Init => IInv
<1> SUFFICES ASSUME Init PROVE IInv
  OBVIOUS
<1> USE DEF Init
<1>1. TypeOK /\ ListIsMemory
  BY DEF TypeOK, ListIsMemory, Files, Bodies, Props
<1>2. DirtyHasRow /\ LinksResolve /\ FilesHoldOwnHalves
  BY DEF DirtyHasRow, LinksResolve, FilesHoldOwnHalves
<1>3. UnmarkedMatchesFile /\ LedgerOwesAFile /\ ListedIsNeverDurable
  BY DEF UnmarkedMatchesFile, FileOf, LedgerOwesAFile, ListedIsNeverDurable
<1>4. \A nodes : AssembledRules(nodes, [e \in Edge |-> NoProp])
  BY DEF AssembledRules, TreesValid, Acyclic, EventTargetsValid, Holds
<1>5. WorkingKeepsRules
  BY <1>4 DEF WorkingKeepsRules
<1>6. Paired(disk) /\ EdgesIn(disk) = [e \in Edge |-> NoProp]
  BY EdgeEndpoints DEF Paired, EdgesIn
<1>7. TreeIngests
  BY <1>4, <1>6 DEF TreeIngests, Ingestible
<1> QED BY <1>1, <1>2, <1>3, <1>5, <1>7 DEF IInv

\* Any write of the whole working state leaves a tree that reads back.
LEMMA SaveWritesWorkingState ==
    ASSUME IInv, Save
    PROVE  \A n \in Node : disk'[n] = FileOf(n, rows, links)
<1> SUFFICES ASSUME NEW n \in Node PROVE disk'[n] = FileOf(n, rows, links)
  OBVIOUS
<1>1. Base = rows /\ WriteSet = dirty
  BY BaseIsRows
<1>2. disk'[n] = IF n \in dirty THEN FileOf(n, rows, links)
                 ELSE IF n \in ledger THEN Absent ELSE disk[n]
  BY <1>1 DEF Save, WrittenTree, HeldFiles
<1>3. n \in ledger => rows[n] = Absent
  BY DEF IInv, LedgerOwesAFile
<1>4. n \notin dirty \cup ledger => disk[n] = FileOf(n, rows, links)
  BY DEF IInv, UnmarkedMatchesFile
<1> QED BY <1>2, <1>3, <1>4 DEF FileOf

LEMMA SavePreserves ==
    ASSUME IInv, Save
    PROVE  IInv'
<1>1. /\ rows' = rows /\ links' = links /\ live' = live /\ live
      /\ dirty' = {} /\ ledger' = {} /\ list' = {}
  BY DEF Save
<1>2. \A n \in Node : disk'[n] = FileOf(n, rows, links)
  BY SaveWritesWorkingState
<1>3. rows \in [Node -> Bodies] /\ links \in [Edge -> Props]
  BY DEF IInv, TypeOK
<1>4. disk' \in [Node -> Files]
  <2>1. disk' = [n \in Node |-> disk'[n]]
    BY DEF Save, WrittenTree
  <2> QED BY <1>2, <1>3, <2>1, FileOfType
<1>5. \A n \in Node : disk'[n] = Absent <=> rows[n] = Absent
  BY <1>2, <1>3, FileOfType
<1>6. TypeOK' /\ ListIsMemory' /\ DirtyHasRow' /\ LinksResolve'
  BY <1>1, <1>4 DEF IInv, TypeOK, ListIsMemory, DirtyHasRow, LinksResolve
<1>7. FilesHoldOwnHalves'
  <2> SUFFICES ASSUME NEW n \in Node, NEW e \in Edge, disk'[n] # Absent
               PROVE  /\ disk'[n].out[e] # NoProp => e.from = n
                      /\ disk'[n].in[e] # NoProp => e.to = n
    BY DEF FilesHoldOwnHalves
  <2>1. /\ disk'[n].out = [f \in Edge |-> IF f.from = n THEN links[f] ELSE NoProp]
        /\ disk'[n].in = [f \in Edge |-> IF f.to = n THEN links[f] ELSE NoProp]
    <3>1. rows[n] # Absent /\ disk'[n] = FileOf(n, rows, links)
      BY <1>2, <1>5
    <3> QED BY <3>1 DEF FileOf
  <2> QED BY <2>1
<1>8. UnmarkedMatchesFile' /\ LedgerOwesAFile' /\ ListedIsNeverDurable'
  BY <1>1, <1>2, <1>5 DEF UnmarkedMatchesFile, LedgerOwesAFile, ListedIsNeverDurable
<1>9. BodyIn(disk') = rows /\ EdgesIn(disk') = links /\ Paired(disk')
  BY <1>2, <1>3, <1>4, WrittenTreeReadsBack DEF IInv, LinksResolve
<1>10. WorkingKeepsRules' /\ TreeIngests'
  BY <1>1, <1>9 DEF IInv, WorkingKeepsRules, TreeIngests, Ingestible
<1> QED BY <1>6, <1>7, <1>8, <1>10 DEF IInv

LEMMA RebuildPreserves ==
    ASSUME IInv, Rebuild, disk' = disk, list' = {}, live' \in BOOLEAN
    PROVE  IInv'
<1>1. /\ rows' = BodyIn(disk) /\ links' = EdgesIn(disk)
      /\ dirty' = {} /\ ledger' = {} /\ Ingestible(disk)
  BY DEF Rebuild
<1>2. disk \in [Node -> Files] /\ FilesHoldOwnHalves
  BY DEF IInv, TypeOK
<1>3. \A n \in Node : disk[n] = FileOf(n, rows', links')
  BY <1>1, <1>2, RebuiltRowsSerialise DEF Ingestible, FilesHoldOwnHalves
<1>4. ASSUME NEW n \in Node
      PROVE  rows'[n] \in Bodies /\ (rows'[n] = Absent <=> disk[n] = Absent)
  <2>1. rows'[n] = IF disk[n] = Absent THEN Absent ELSE disk[n].body
    BY <1>1 DEF BodyIn
  <2>2. disk[n] # Absent => disk[n].body \in Body
    BY <1>2 DEF Files, File
  <2> QED BY <2>1, <2>2, BodyAssumption DEF Bodies
<1>5. rows' \in [Node -> Bodies]
  BY <1>1, <1>4 DEF BodyIn
<1>6. links' \in [Edge -> Props]
  BY <1>1, <1>2, EdgeEndpoints DEF EdgesIn, Files, File, Props
<1>7. TypeOK' /\ ListIsMemory' /\ DirtyHasRow' /\ FilesHoldOwnHalves'
  BY <1>1, <1>2, <1>5, <1>6 DEF TypeOK, ListIsMemory, DirtyHasRow, FilesHoldOwnHalves
<1>8. LinksResolve'
  BY <1>1, <1>2, <1>4, EdgeEndpoints DEF LinksResolve, EdgesIn, Ingestible, Paired
<1>9. UnmarkedMatchesFile' /\ LedgerOwesAFile' /\ ListedIsNeverDurable'
  BY <1>1, <1>3, <1>4 DEF UnmarkedMatchesFile, LedgerOwesAFile, ListedIsNeverDurable
<1>10. WorkingKeepsRules' /\ TreeIngests'
  BY <1>1 DEF IInv, WorkingKeepsRules, TreeIngests, Ingestible
<1> QED BY <1>7, <1>8, <1>9, <1>10 DEF IInv

\* A step that keeps the database and the tree, and drops the list of a session
\* it closes or opens one over nothing pending.
LEMMA KeptPreserves ==
    ASSUME IInv, UNCHANGED <<disk, db>>, list' = {}, live' \in BOOLEAN,
           live' => ~HasPending
    PROVE  IInv'
<1>1. /\ disk' = disk /\ rows' = rows /\ links' = links
      /\ dirty' = dirty /\ ledger' = ledger
  BY DEF db
<1>2. TypeOK' /\ ListIsMemory' /\ DirtyHasRow' /\ LinksResolve' /\ FilesHoldOwnHalves'
  BY <1>1 DEF IInv, TypeOK, ListIsMemory, DirtyHasRow, LinksResolve, FilesHoldOwnHalves
<1>3. UnmarkedMatchesFile' /\ LedgerOwesAFile' /\ WorkingKeepsRules' /\ TreeIngests'
  BY <1>1 DEF IInv, UnmarkedMatchesFile, LedgerOwesAFile, WorkingKeepsRules, TreeIngests
<1>4. ListedIsNeverDurable'
  <2>1. live' => dirty = {} /\ ledger = {}
    BY BaseIsRows DEF HasPending
  <2>2. ASSUME live', NEW n \in Node PROVE ~(rows[n] # Absent /\ disk[n] = Absent)
    BY <2>1, <2>2, FileOfType DEF IInv, TypeOK, UnmarkedMatchesFile
  <2> QED BY <1>1, <2>1, <2>2 DEF ListedIsNeverDurable
<1> QED BY <1>2, <1>3, <1>4 DEF IInv

LEMMA NextPreserves == IInv /\ [Next]_vars => IInv'
<1> SUFFICES ASSUME IInv, [Next]_vars PROVE IInv'
  OBVIOUS
<1>1. ASSUME NEW n \in Node, NEW b \in Body, NodeAdd(n, b) PROVE IInv'
  BY <1>1, NodeAddWellBuilt, AdmitPreserves DEF NodeAdd
<1>2. ASSUME NEW n \in Node, NEW b \in Body, NodeUpdate(n, b) PROVE IInv'
  BY <1>2, NodeUpdateWellBuilt, AdmitPreserves DEF NodeUpdate
<1>3. ASSUME NEW n \in Node, NodeRm(n) PROVE IInv'
  BY <1>3, NodeRmWellBuilt, AdmitPreserves DEF NodeRm
<1>4. ASSUME NEW e \in Edge, NEW p \in Prop, EdgeAdd(e, p) \/ EdgeUpdate(e, p)
      PROVE  IInv'
  BY <1>4, EdgeWellBuilt, AdmitPreserves DEF EdgeAdd, EdgeUpdate, Props
<1>5. ASSUME NEW e \in Edge, EdgeRm(e) PROVE IInv'
  BY <1>5, EdgeWellBuilt, AdmitPreserves DEF EdgeRm, Props
<1>6. CASE Save
  BY <1>6, SavePreserves
<1>7. CASE End
  BY <1>7, KeptPreserves DEF End
<1>8. CASE Abort
  BY <1>8, RebuildPreserves, KeptPreserves DEF Abort
<1>9. CASE Crash
  BY <1>9, KeptPreserves DEF Crash
<1>10. CASE Start
  <2>1. list' = {}
    BY <1>10 DEF Start, IInv, ListIsMemory
  <2> QED BY <1>10, <2>1, RebuildPreserves, KeptPreserves DEF Start
<1>11. CASE UNCHANGED vars
  BY <1>11 DEF vars, IInv, TypeOK, ListIsMemory, DirtyHasRow, LinksResolve, FilesHoldOwnHalves,
               UnmarkedMatchesFile, LedgerOwesAFile, ListedIsNeverDurable,
               WorkingKeepsRules, TreeIngests
<1> QED BY <1>1, <1>2, <1>3, <1>4, <1>5, <1>6, <1>7, <1>8, <1>9, <1>10, <1>11 DEF Next

-----------------------------------------------------------------------------
(* The theorems *)

LEMMA Invariant == Spec => []IInv
<1>1. Init => IInv
  BY InitInv
<1>2. IInv /\ [Next]_vars => IInv'
  BY NextPreserves
<1> QED BY <1>1, <1>2, PTL DEF Spec

\* Every variable keeps its type (a database row always has a known shape).
THEOREM TypeCorrect == Spec => []TypeOK
<1>1. IInv => TypeOK
  BY DEF IInv
<1> QED BY <1>1, Invariant, PTL

\* The dirty set and the ledger name every node whose file is out of date
\* (apply_mutation steps 6-7, save, reclaim_stale_socket).
THEOREM MarksAreExact == Spec => []UnmarkedMatchesFile
<1>1. IInv => UnmarkedMatchesFile
  BY DEF IInv
<1> QED BY <1>1, Invariant, PTL

\* The ledger holds exactly the removals a save owes: of a file that is there, of a
\* node that is not (record_pending_removal, mark_dirty).
THEOREM LedgerIsExact == Spec => []LedgerOwesAFile
<1>1. IInv => LedgerOwesAFile
  BY DEF IInv
<1> QED BY <1>1, Invariant, PTL

\* The pending-identity list always tells a created-this-run node from a
\* durable one (apply_mutation step 8).
THEOREM ListIsExact == Spec => []ListedIsNeverDurable
<1>1. IInv => ListedIsNeverDurable
  BY DEF IInv
<1> QED BY <1>1, Invariant, PTL

\* The working state keeps the authored rules, although admission looks at one
\* change at a time.
THEOREM RulesKept == Spec => []WorkingKeepsRules
<1>1. IInv => WorkingKeepsRules
  BY DEF IInv
<1> QED BY <1>1, Invariant, PTL

\* The committed tree pairs and keeps the rules at every moment, so a recovery
\* scan is never refused.
THEOREM TreeAlwaysIngests == Spec => []TreeIngests
<1>1. IInv => TreeIngests
  BY DEF IInv
<1> QED BY <1>1, Invariant, PTL

\* The save boundary accepts whatever a session's admissions produced.
THEOREM SavesAreNeverRefused == Spec => []SaveNeverRefused
<1>1. IInv => SaveNeverRefused
  <2> SUFFICES ASSUME IInv PROVE SaveValid
    BY DEF SaveNeverRefused
  <2>1. Base = rows /\ WriteSet = dirty
    BY BaseIsRows
  <2> DEFINE nodes == [n \in Node |-> IF n \in WriteSet THEN Base[n] ELSE Absent]
             outs  == [e \in Edge |-> IF e.from \in WriteSet THEN links[e] ELSE NoProp]
  <2>2. AssembledRules(rows, outs)
    BY RulesMonotone DEF IInv, WorkingKeepsRules
  <2>3. TreesValid(Present(Base), outs)
    BY <2>1, <2>2 DEF AssembledRules
  <2>4. EventTargetsValid(nodes, outs)
    <3>1. \A n \in Present(nodes) : n \in Present(rows) /\ nodes[n] = rows[n]
      BY <2>1 DEF Present, IInv, TypeOK
    <3> QED BY <2>2, <3>1 DEF AssembledRules, EventTargetsValid
  <2>5. Paired(HeldFiles)
    <3>1. rows \in [Node -> Bodies] /\ links \in [Edge -> Props]
      BY DEF IInv, TypeOK
    <3>2. HeldFiles = [n \in Node |-> FileOf(n, rows, links)]
      BY <2>1 DEF HeldFiles
    <3>3. HeldFiles \in [Node -> Files]
      BY <3>1, <3>2, FileOfType
    <3> QED BY <3>1, <3>2, <3>3, WrittenTreeReadsBack DEF IInv, LinksResolve
  <2> QED BY <2>3, <2>4, <2>5 DEF SaveValid
<1> QED BY <1>1, Invariant, PTL

\* The tree moves only in a save, and then to the whole working state, although
\* a save writes only the marked files and deletes only the ledger's.
THEOREM SavesAreComplete == Spec => SaveIsTheWholeWorkingState
<1>1. IInv /\ [Next]_vars =>
        [disk' # disk => disk' = [n \in Node |-> FileOf(n, rows', links')]]_vars
  <2> SUFFICES ASSUME IInv, Next, disk' # disk
               PROVE  disk' = [n \in Node |-> FileOf(n, rows', links')]
    BY DEF vars
  <2>1. Save
    BY DEF Next, NodeAdd, NodeUpdate, NodeRm, EdgeAdd, EdgeUpdate, EdgeRm, Admit,
           End, Abort, Crash, Start
  <2>2. disk' = [n \in Node |-> disk'[n]] /\ rows' = rows /\ links' = links
    BY <2>1 DEF Save, WrittenTree
  <2> QED BY <2>1, <2>2, SaveWritesWorkingState
<1> QED BY <1>1, Invariant, PTL DEF Spec, SaveIsTheWholeWorkingState

-----------------------------------------------------------------------------
(* The store implements AuthoredGraph: every admission is one edit of the   *)
(* working graph, a save is a save although it writes marked files only,    *)
(* and a start over what a killed session left serves the durable graph.    *)


(* What each admitted change does to the working graph. *)

LEMMA AdmitEffect ==
    ASSUME NEW c, Admit(c)
    PROVE  /\ rows' = ProjectedRows(c) /\ links' = ProjectedLinks(c)
           /\ live /\ live' = live /\ disk' = disk
BY DEF Admit

LEMMA NodeAddEffect ==
    ASSUME IInv, NEW n \in Node, NEW b \in Body, NodeAdd(n, b)
    PROVE  rows' = [rows EXCEPT ![n] = b] /\ links' = links
<1> DEFINE c == NodeAddChange(n, b)
<1>1. /\ Base = rows /\ rows \in [Node -> Bodies] /\ links \in [Edge -> Props]
      /\ Base[n] = Absent
  BY BaseIsRows DEF IInv, TypeOK, NodeAdd
<1>2. /\ c.writes = {n} /\ c.deletes = {} /\ c.bodies = [Base EXCEPT ![n] = b]
      /\ c.outs = [e \in Edge |-> IF e.from = n THEN NoProp ELSE links[e]]
  BY DEF NodeAddChange, Change
<1>3. ProjectedRows(c) = [rows EXCEPT ![n] = b]
  BY <1>1, <1>2 DEF ProjectedRows
<1>4. \A e \in Edge : e.from = n => links[e] = NoProp
  BY <1>1 DEF IInv, LinksResolve
<1>5. \A m \in Node : rows[m] # Absent => ProjectedRows(c)[m] # Absent
  BY <1>1, <1>3, BodyAssumption
<1>6. \A e \in Edge : ProjectedLinks(c)[e] = links[e]
  BY <1>2, <1>4, <1>5, KeptEdges
<1>7. ProjectedLinks(c) = links
  BY <1>1, <1>6 DEF ProjectedLinks
<1> QED BY <1>3, <1>7, AdmitEffect DEF NodeAdd

LEMMA NodeUpdateEffect ==
    ASSUME IInv, NEW n \in Node, NEW b \in Body, NodeUpdate(n, b)
    PROVE  rows' = [rows EXCEPT ![n] = b] /\ links' = links
<1> DEFINE c == NodeUpdateChange(n, b)
<1>1. Base = rows /\ rows \in [Node -> Bodies] /\ links \in [Edge -> Props]
  BY BaseIsRows DEF IInv, TypeOK
<1>2. /\ c.writes = {n} /\ c.deletes = {} /\ c.bodies = [Base EXCEPT ![n] = b]
      /\ c.outs = links
  BY DEF NodeUpdateChange, Change
<1>3. ProjectedRows(c) = [rows EXCEPT ![n] = b]
  BY <1>1, <1>2 DEF ProjectedRows
<1>4. \A m \in Node : rows[m] # Absent => ProjectedRows(c)[m] # Absent
  BY <1>1, <1>3, BodyAssumption
<1>5. \A e \in Edge : ProjectedLinks(c)[e] = links[e]
  BY <1>2, <1>4, KeptEdges
<1>6. ProjectedLinks(c) = links
  BY <1>1, <1>5 DEF ProjectedLinks
<1> QED BY <1>3, <1>6, AdmitEffect DEF NodeUpdate

LEMMA NodeRmEffect ==
    ASSUME IInv, NEW n \in Node, NodeRm(n)
    PROVE  /\ rows[n] # Absent
           /\ rows' = [rows EXCEPT ![n] = Absent]
           /\ links' = [e \in Edge |-> IF e.from = n \/ e.to = n THEN NoProp ELSE links[e]]
<1> DEFINE c == NodeRmChange(n)
<1>1. /\ Base = rows /\ rows \in [Node -> Bodies] /\ links \in [Edge -> Props]
      /\ rows[n] # Absent
  BY BaseIsRows DEF IInv, TypeOK, NodeRm
<1>2. /\ c.writes = Neighbours(n) /\ c.deletes = {n} /\ c.bodies = Base
      /\ c.outs = [e \in Edge |-> IF e.to = n THEN NoProp ELSE links[e]]
  BY DEF NodeRmChange, Change
<1>3. ProjectedRows(c) = [rows EXCEPT ![n] = Absent]
  BY <1>1, <1>2 DEF ProjectedRows
<1>4. ASSUME NEW e \in Edge, e.from = n \/ e.to = n
      PROVE  ProjectedLinks(c)[e] = NoProp
  BY <1>1, <1>3, <1>4 DEF ProjectedLinks
<1>5. ASSUME NEW e \in Edge, ~(e.from = n \/ e.to = n)
      PROVE  ProjectedLinks(c)[e] = links[e]
  <2>1. e.from \in Node /\ e.to \in Node \cup Code
    BY EdgeEndpoints
  <2>2. CASE links[e] = NoProp
    BY <1>2, <1>5, <2>2 DEF ProjectedLinks
  <2>3. CASE links[e] # NoProp
    <3>1. rows[e.from] # Absent /\ (e.to \in Node => rows[e.to] # Absent)
      BY <2>3 DEF IInv, LinksResolve
    <3>2. /\ ProjectedRows(c)[e.from] # Absent
          /\ e.to \in Node => ProjectedRows(c)[e.to] # Absent
      BY <1>1, <1>3, <1>5, <2>1, <3>1
    <3>3. e.from \notin ledger /\ e.to \notin ledger
      BY <2>1, <3>1 DEF IInv, TypeOK, LedgerOwesAFile
    <3> QED BY <1>2, <1>5, <3>2, <3>3 DEF ProjectedLinks
  <2> QED BY <2>2, <2>3
<1>6. ProjectedLinks(c) =
        [e \in Edge |-> IF e.from = n \/ e.to = n THEN NoProp ELSE links[e]]
  BY <1>4, <1>5 DEF ProjectedLinks
<1> QED BY <1>1, <1>3, <1>6, AdmitEffect DEF NodeRm

\* An edge onto an authored identity with no row changes nothing.
LEMMA EdgeEffect ==
    ASSUME IInv, NEW e \in Edge, NEW p \in Props, Base[e.from] # Absent,
           Admit(EdgeChange(e, p))
    PROVE  /\ rows' = rows
           /\ rows[e.from] # Absent
           /\ \/ links' = links
              \/ /\ links' = [links EXCEPT ![e] = p]
                 /\ e.to \in Node => rows[e.to] # Absent
<1> DEFINE c == EdgeChange(e, p)
<1>1. Base = rows /\ rows \in [Node -> Bodies] /\ links \in [Edge -> Props]
  BY BaseIsRows DEF IInv, TypeOK
<1>2. /\ c.writes = Endpoints(e) /\ c.deletes = {} /\ c.bodies = Base
      /\ c.outs = [links EXCEPT ![e] = p]
  BY DEF EdgeChange, Change
<1>3. e.from \in Node /\ e.to \in Node \cup Code
  BY EdgeEndpoints
<1>4. ProjectedRows(c) = rows
  BY <1>1, <1>2 DEF ProjectedRows
<1>5. ASSUME NEW f \in Edge, f # e PROVE ProjectedLinks(c)[f] = links[f]
  <2>1. c.outs[f] = links[f]
    BY <1>1, <1>2, <1>5
  <2> QED BY <1>4, <2>1, KeptEdges
<1>6. CASE e.to \in Node /\ rows[e.to] = Absent
  <2>1. links[e] = NoProp
    BY <1>6 DEF IInv, LinksResolve
  <2>2. ProjectedLinks(c)[e] = NoProp
    BY <1>4, <1>6 DEF ProjectedLinks
  <2>3. ProjectedLinks(c) = links
    BY <1>1, <1>5, <2>1, <2>2 DEF ProjectedLinks
  <2> QED BY <1>1, <1>4, <2>3, AdmitEffect
<1>7. CASE ~(e.to \in Node /\ rows[e.to] = Absent)
  <2>1. e.from \in c.writes
    BY <1>2, <1>3 DEF Endpoints
  <2>2. ProjectedLinks(c)[e] = p
    BY <1>1, <1>2, <1>4, <1>7, <2>1 DEF ProjectedLinks
  <2>3. ProjectedLinks(c) = [links EXCEPT ![e] = p]
    BY <1>1, <1>5, <2>2 DEF ProjectedLinks
  <2> QED BY <1>1, <1>4, <1>7, <2>3, AdmitEffect
<1> QED BY <1>6, <1>7

-----------------------------------------------------------------------------
(* The steps *)

\* With nothing pending the rows are the tree.
LEMMA CleanRowsAreTheTree ==
    ASSUME IInv, ~HasPending
    PROVE  rows = BodyIn(disk) /\ links = EdgesIn(disk)
<1>1. dirty = {} /\ ledger = {}
  BY BaseIsRows DEF HasPending
<1>2. \A n \in Node : disk[n] = FileOf(n, rows, links)
  BY <1>1 DEF IInv, UnmarkedMatchesFile
<1> QED BY <1>2, WrittenTreeReadsBack DEF IInv, TypeOK, LinksResolve

\* The two modules state the same rules.
LEMMA SameRules ==
    ASSUME NEW nodes, NEW edges, AssembledRules(nodes, edges)
    PROVE  Authored!AssembledRules(nodes, edges)
<1>1. /\ Authored!Holds(edges) = Holds(edges)
      /\ Authored!Present(nodes) = Present(nodes)
  BY DEF Holds, Present, Authored!Holds, Authored!Present
<1>2. \A e : /\ Authored!TreeEdge(e) <=> TreeEdge(e)
             /\ Authored!EventEdge(e) <=> EventEdge(e)
  BY DEF TreeEdge, EventEdge, TreeKind, EventKind, Authored!TreeEdge, Authored!EventEdge,
         Authored!TreeKind, Authored!EventKind
<1>3. \A T : Authored!Acyclic(T) <=> Acyclic(T)
  BY DEF Acyclic, Authored!Acyclic
<1>4. {e \in Authored!Holds(edges) : Authored!TreeEdge(e)} = {e \in Holds(edges) : TreeEdge(e)}
  BY <1>1, <1>2
<1>5. Authored!TreesValid(Authored!Present(nodes), edges)
  BY <1>1, <1>3, <1>4 DEF AssembledRules, TreesValid, Authored!TreesValid
<1>6. Authored!EventTargetsValid(nodes, edges)
  BY <1>1, <1>2 DEF AssembledRules, EventTargetsValid, Authored!EventTargetsValid
<1> QED BY <1>5, <1>6 DEF Authored!AssembledRules

LEMMA InitRefines == Init => Authored!Init
BY EdgeEndpoints DEF Init, Authored!Init, BodyIn, EdgesIn

LEMMA NextRefines == IInv /\ IInv' /\ [Next]_vars => [Authored!Next]_(Authored!vars)
<1> SUFFICES ASSUME IInv, IInv', [Next]_vars PROVE [Authored!Next]_(Authored!vars)
  OBVIOUS
<1>0. Authored!AssembledRules(rows', links')
  BY SameRules DEF IInv, WorkingKeepsRules
<1>1. ASSUME NEW n \in Node, NEW b \in Body, NodeAdd(n, b) \/ NodeUpdate(n, b)
      PROVE  Authored!PutNode(n, b)
  <2>1. rows' = [rows EXCEPT ![n] = b] /\ links' = links
    BY <1>1, NodeAddEffect, NodeUpdateEffect
  <2>2. live /\ live' = live /\ disk' = disk
    BY <1>1, AdmitEffect DEF NodeAdd, NodeUpdate
  <2> QED BY <1>0, <2>1, <2>2 DEF Authored!PutNode, Authored!Edit, Authored!saved
<1>2. ASSUME NEW n \in Node, NodeRm(n) PROVE Authored!RemoveNode(n)
  <2>1. live /\ live' = live /\ disk' = disk
    BY <1>2, AdmitEffect DEF NodeRm
  <2> QED BY <1>0, <1>2, <2>1, NodeRmEffect
          DEF Authored!RemoveNode, Authored!Edit, Authored!Incident, Authored!saved
<1>3. ASSUME NEW e \in Edge, NEW p \in Prop, EdgeAdd(e, p) \/ EdgeUpdate(e, p)
      PROVE  Authored!PutEdge(e, p) \/ UNCHANGED Authored!vars
  <2>1. Base[e.from] # Absent /\ Admit(EdgeChange(e, p)) /\ p \in Props
    BY <1>3 DEF EdgeAdd, EdgeUpdate, Props
  <2>2. live /\ live' = live /\ disk' = disk
    BY <2>1, AdmitEffect
  <2>3. rows' = rows /\ rows[e.from] # Absent
    BY <2>1, EdgeEffect
  <2>4. CASE links' = links
    BY <2>2, <2>3, <2>4 DEF Authored!vars
  <2>5. CASE links' # links
    <3>1. links' = [links EXCEPT ![e] = p] /\ (e.to \in Node => rows[e.to] # Absent)
      BY <2>1, <2>5, EdgeEffect
    <3> QED BY <1>0, <2>2, <2>3, <3>1 DEF Authored!PutEdge, Authored!Edit, Authored!saved
  <2> QED BY <2>4, <2>5
<1>4. ASSUME NEW e \in Edge, EdgeRm(e)
      PROVE  Authored!RemoveEdge(e) \/ UNCHANGED Authored!vars
  <2>1. Base[e.from] # Absent /\ Admit(EdgeChange(e, NoProp)) /\ NoProp \in Props
    BY <1>4 DEF EdgeRm, Props
  <2>2. live /\ live' = live /\ disk' = disk
    BY <2>1, AdmitEffect
  <2>3. rows' = rows
    BY <2>1, EdgeEffect
  <2>4. CASE links' = links
    BY <2>2, <2>3, <2>4 DEF Authored!vars
  <2>5. CASE links' # links
    <3>1. links' = [links EXCEPT ![e] = NoProp]
      BY <2>1, <2>5, EdgeEffect
    <3> QED BY <1>0, <2>2, <2>3, <3>1 DEF Authored!RemoveEdge, Authored!Edit, Authored!saved
  <2> QED BY <2>4, <2>5
<1>5. CASE Save
  <2>1. \A n \in Node : disk'[n] = FileOf(n, rows, links)
    BY <1>5, SaveWritesWorkingState
  <2>2. BodyIn(disk') = rows /\ EdgesIn(disk') = links
    BY <2>1, WrittenTreeReadsBack DEF IInv, TypeOK, LinksResolve
  <2> QED BY <1>5, <2>2 DEF Save, Authored!Next, Authored!Save, Authored!working
<1>6. CASE End
  BY <1>6, CleanRowsAreTheTree
     DEF End, db, Authored!Next, Authored!End, Authored!working, Authored!saved
<1>7. CASE Abort
  <2>1. rows' = BodyIn(disk) /\ links' = EdgesIn(disk) /\ disk' = disk /\ live /\ live' = FALSE
    BY <1>7, CleanRowsAreTheTree DEF Abort, Rebuild, db
  <2> QED BY <2>1 DEF Authored!Next, Authored!Abort, Authored!saved
<1>8. CASE Crash
  BY <1>8 DEF Crash, db, Authored!Next, Authored!Crash, Authored!working, Authored!saved
<1>9. CASE Start
  <2>1. rows' = BodyIn(disk) /\ links' = EdgesIn(disk) /\ disk' = disk /\ ~live /\ live' = TRUE
    BY <1>9, CleanRowsAreTheTree DEF Start, Rebuild, db
  <2> QED BY <2>1 DEF Authored!Next, Authored!Start, Authored!saved
<1>10. CASE UNCHANGED vars
  BY <1>10 DEF vars, Authored!vars
<1> QED BY <1>1, <1>2, <1>3, <1>4, <1>5, <1>6, <1>7, <1>8, <1>9, <1>10
        DEF Next, Authored!Next

\* A session serves and saves exactly the authored graph it was asked for
\* (Coordinator: apply_mutation, save, end, abort, start).
THEOREM StoreImplementsAuthoredGraph == Spec => ImplementsAuthoredGraph
<1>1. Init => Authored!Init
  BY InitRefines
<1>2. IInv /\ IInv' /\ [Next]_vars => [Authored!Next]_(Authored!vars)
  BY NextRefines
<1> QED BY <1>1, <1>2, Invariant, PTL DEF Spec, ImplementsAuthoredGraph, Authored!Spec
=============================================================================
