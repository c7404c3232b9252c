--------------------------- MODULE SaveThroughProofs ---------------------------
(***************************************************************************)
(* For every set of identities, edges and bodies: a save in pieces         *)
(* implements the atomic save of SessionStore, HEAD follows the tree, and  *)
(* the recovery of a killed session is never refused.  All of it where a   *)
(* kill does not strike between the first file of a save and its commit,   *)
(* and for as long as no step lapses: a rollback that leaves a file as it  *)
(* is, a request admitted over marks that a failed clear left behind.      *)
(***************************************************************************)
EXTENDS SaveThrough, TLAPS

(* The lemmas about the atomic store, over the state a save in pieces maps *)
(* to; P and the Store of the refinement are one system.                   *)
P == INSTANCE SessionStoreProofs WITH
    disk   <- IF InFlight THEN prior ELSE disk,
    dirty  <- IF uncleared THEN {} ELSE dirty,
    ledger <- IF uncleared THEN {} ELSE ledger,
    list   <- IF uncleared THEN {} ELSE list

LEMMA OneStore ==
    /\ P!Init <=> Store!Init
    /\ [P!Next]_(P!vars) <=> [Store!Next]_(Store!vars)
<1>1. P!Init <=> Store!Init
  BY DEF P!Init, Store!Init
<1>2. P!Next <=> Store!Next
  BY DEF P!Next, Store!Next, P!NodeAdd, Store!NodeAdd, P!NodeUpdate,
       Store!NodeUpdate, P!NodeRm, Store!NodeRm, P!EdgeAdd, Store!EdgeAdd,
       P!EdgeUpdate, Store!EdgeUpdate, P!EdgeRm, Store!EdgeRm, P!Save,
       Store!Save, P!End, Store!End, P!Abort, Store!Abort, P!Crash,
       Store!Crash, P!Start, Store!Start, P!Rebuild, Store!Rebuild,
       P!Admit, Store!Admit, P!ChangeValid, Store!ChangeValid,
       P!ProjectedRows, Store!ProjectedRows, P!ProjectedLinks,
       Store!ProjectedLinks, P!DurableWrite, Store!DurableWrite,
       P!CreatedThisRun, Store!CreatedThisRun, P!AfterNodes,
       Store!AfterNodes, P!AfterOuts, Store!AfterOuts, P!Touched,
       Store!Touched, P!NodeAddChange, Store!NodeAddChange,
       P!NodeUpdateChange, Store!NodeUpdateChange, P!NodeRmChange,
       Store!NodeRmChange, P!EdgeChange, Store!EdgeChange, P!Change,
       Store!Change, P!Endpoints, Store!Endpoints, P!Neighbours,
       Store!Neighbours, P!Base, Store!Base, P!WriteSet, Store!WriteSet,
       P!HasPending, Store!HasPending, P!SaveValid, Store!SaveValid,
       P!HeldFiles, Store!HeldFiles, P!WrittenTree, Store!WrittenTree,
       P!Ingestible, Store!Ingestible, P!BodyIn, Store!BodyIn, P!EdgesIn,
       Store!EdgesIn, P!Paired, Store!Paired, P!FileOf, Store!FileOf,
       P!AssembledRules, Store!AssembledRules, P!EventTargetsValid,
       Store!EventTargetsValid, P!TreesValid, Store!TreesValid, P!Acyclic,
       Store!Acyclic, P!Holds, Store!Holds, P!Present, Store!Present,
       P!TreeEdge, Store!TreeEdge, P!EventEdge, Store!EventEdge,
       P!EventKind, Store!EventKind, P!TreeKind, Store!TreeKind, P!vars,
       Store!vars, P!db, Store!db
<1> QED BY <1>1, <1>2 DEF P!vars, Store!vars

-----------------------------------------------------------------------------
(* Between saves the store of the refinement is the store itself.          *)

LEMMA SameGraph ==
    /\ \A nodes, edges : Store!AssembledRules(nodes, edges) <=> AssembledRules(nodes, edges)
    /\ \A nodes, edges : Store!EventTargetsValid(nodes, edges) <=> EventTargetsValid(nodes, edges)
    /\ \A present, edges : Store!TreesValid(present, edges) <=> TreesValid(present, edges)
    /\ \A files : Store!Paired(files) <=> Paired(files)
    /\ \A files : Store!Ingestible(files) <=> Ingestible(files)
    /\ \A files : Store!BodyIn(files) = BodyIn(files)
    /\ \A files : Store!EdgesIn(files) = EdgesIn(files)
    /\ \A nodes : Store!Present(nodes) = Present(nodes)
    /\ \A edges : Store!Holds(edges) = Holds(edges)
    /\ \A n, nodes, edges : Store!FileOf(n, nodes, edges) = FileOf(n, nodes, edges)
BY DEF Store!Ingestible, Ingestible, Store!BodyIn, BodyIn, Store!EdgesIn, EdgesIn, Store!Paired, Paired, Store!FileOf, FileOf, Store!AssembledRules, AssembledRules, Store!EventTargetsValid, EventTargetsValid, Store!TreesValid, TreesValid, Store!Acyclic, Acyclic, Store!Holds, Holds, Store!Present, Present, Store!TreeEdge, TreeEdge, Store!EventEdge, EventEdge, Store!EventKind, EventKind, Store!TreeKind, TreeKind

LEMMA SameReading ==
    ASSUME ~uncleared
    PROVE  /\ Store!Base = Base
           /\ Store!WriteSet = WriteSet
           /\ Store!HasPending <=> HasPending
           /\ Store!HeldFiles = HeldFiles
           /\ Store!SaveValid <=> SaveValid
<1>1. Store!Base = Base
  BY DEF Store!Base, Base
<1>2. Store!WriteSet = WriteSet
  BY <1>1 DEF Store!WriteSet, WriteSet
<1>3. Store!HeldFiles = HeldFiles
  BY <1>1, SameGraph DEF Store!HeldFiles, HeldFiles
<1>4. Store!SaveValid <=> SaveValid
  BY <1>1, <1>2, <1>3, SameGraph DEF Store!SaveValid, SaveValid
<1> QED BY <1>1, <1>2, <1>3, <1>4 DEF Store!HasPending, HasPending

LEMMA SameChanges ==
    ASSUME ~uncleared
    PROVE  /\ \A n, b : Store!NodeAddChange(n, b) = NodeAddChange(n, b)
           /\ \A n, b : Store!NodeUpdateChange(n, b) = NodeUpdateChange(n, b)
           /\ \A n : Store!NodeRmChange(n) = NodeRmChange(n)
           /\ \A e, p : Store!EdgeChange(e, p) = EdgeChange(e, p)
<1>1. Store!Base = Base
  BY SameReading
<1>2. \A n : Store!Neighbours(n) = Neighbours(n)
  BY <1>1, SameGraph DEF Store!Neighbours, Neighbours
<1>3. \A e : Store!Endpoints(e) = Endpoints(e)
  BY <1>1 DEF Store!Endpoints, Endpoints
<1> QED BY <1>1, <1>2, <1>3 DEF Store!NodeAddChange, NodeAddChange, Store!NodeUpdateChange, NodeUpdateChange, Store!NodeRmChange, NodeRmChange, Store!EdgeChange, EdgeChange, Store!Change, Change

LEMMA SameAdmission ==
    ASSUME ~uncleared, ~uncleared', ~InFlight, ~InFlight', NEW c, Admit(c)
    PROVE  Store!Admit(c)
<1>1. Store!Base = Base
  BY SameReading
<1>2. Store!AfterNodes(c) = AfterNodes(c)
  BY <1>1 DEF Store!AfterNodes, AfterNodes
<1>3. Store!AfterOuts(c) = AfterOuts(c)
  BY <1>2 DEF Store!AfterOuts, AfterOuts
<1>4. Store!ChangeValid(c)
  BY <1>2, <1>3, SameGraph DEF Admit, Store!ChangeValid, ChangeValid
<1>5. Store!ProjectedRows(c) = ProjectedRows(c)
  BY DEF Store!ProjectedRows, ProjectedRows
<1>6. Store!ProjectedLinks(c) = ProjectedLinks(c)
  BY <1>5 DEF Store!ProjectedLinks, ProjectedLinks, Store!Touched, Touched
<1>7. /\ \A n : Store!DurableWrite(n) <=> DurableWrite(n)
      /\ \A n : Store!CreatedThisRun(n) <=> CreatedThisRun(n)
  BY <1>1 DEF Store!DurableWrite, DurableWrite, Store!CreatedThisRun, CreatedThisRun
<1> QED BY <1>4, <1>5, <1>6, <1>7 DEF Admit, Store!Admit

\* An edit between two saves is the same request of the atomic store.
LEMMA EditMaps ==
    ASSUME ~uncleared, ~uncleared', ~InFlight, ~InFlight', Edit
    PROVE  Store!Next
<1> USE SameReading, SameChanges, SameAdmission
<1>1. ASSUME NEW n \in Node, NEW b \in Body, NodeAdd(n, b) \/ NodeUpdate(n, b)
      PROVE  Store!NodeAdd(n, b) \/ Store!NodeUpdate(n, b)
  BY <1>1 DEF NodeAdd, NodeUpdate, Store!NodeAdd, Store!NodeUpdate
<1>2. ASSUME NEW n \in Node, NodeRm(n)
      PROVE  Store!NodeRm(n)
  BY <1>2 DEF NodeRm, Store!NodeRm
<1>3. ASSUME NEW e \in Edge, NEW p \in Prop, EdgeAdd(e, p) \/ EdgeUpdate(e, p)
      PROVE  Store!EdgeAdd(e, p) \/ Store!EdgeUpdate(e, p)
  BY <1>3 DEF EdgeAdd, EdgeUpdate, Store!EdgeAdd, Store!EdgeUpdate
<1>4. ASSUME NEW e \in Edge, EdgeRm(e)
      PROVE  Store!EdgeRm(e)
  BY <1>4 DEF EdgeRm, Store!EdgeRm
<1> QED BY <1>1, <1>2, <1>3, <1>4 DEF Edit, Store!Next

\* So is an end; over marks a failed clear left it needs them to be drained after
\* all, and the atomic store has none.
LEMMA EndMaps ==
    ASSUME uncleared' = uncleared, ~InFlight, ~InFlight', End
    PROVE  Store!End
<1>1. ~Store!HasPending
  <2>1. CASE uncleared
    BY <2>1 DEF Store!HasPending, Store!WriteSet
  <2>2. CASE ~uncleared
    BY <2>2, SameReading DEF End
  <2> QED BY <2>1, <2>2
<1> QED BY <1>1 DEF End, Store!End, db, Store!db

-----------------------------------------------------------------------------
(* The strengthening: what is true of a save half way.                      *)

\* A kill strikes between requests or after the commit only.
KillsAreClean == KillPoints \subseteq {"idle", "clear"}

\* Only the process that saves is in a save, and the list is its memory.
SaveIsLive ==
    /\ pc \in Stage
    /\ pc # "idle" => live
    /\ ~live => list = {}
    /\ pc = "clear" => uncleared

\* Marks left over a commit are marks of what was committed: a dirty row is a
\* row, and the ledger names none.
LeftMarks ==
    uncleared => /\ dirty \subseteq Node /\ ledger \subseteq Node
                 /\ \A n \in dirty : rows[n] # Absent
                 /\ \A n \in ledger : rows[n] = Absent

\* In flight the tree is the snapshot with the files done so far replaced.
FilesDone ==
    /\ disk = [n \in Node |-> disk[n]]
    /\ prior = [n \in Node |-> prior[n]]
    /\ InFlight =>
        /\ HasPending /\ SaveValid
        /\ pc # "files" => todo = {}
        /\ todo \subseteq WriteSet \cup ledger
        /\ disk = [n \in Node |-> IF n \in (WriteSet \cup ledger) \ todo
                                  THEN IF n \in ledger THEN Absent ELSE HeldFiles[n]
                                  ELSE prior[n]]

\* Git's index is the snapshot until the staging, and the tree after it.
IndexFollows ==
    lapses \cap {"uncommitted", "unrestored"} = {} =>
        /\ head = IF InFlight THEN prior ELSE disk
        /\ index = IF pc \in {"files", "stage"} THEN prior ELSE disk

\* What holds of the pieces whatever goes wrong, and what a lapse ends.
PiecesInv == SaveIsLive /\ FilesDone /\ IndexFollows
MappedInv == P!IInv /\ LeftMarks

SaveInv == PiecesInv /\ (~Lapsed => MappedInv)

LEMMA StoreKeeps ==
    /\ P!Init => P!IInv
    /\ P!IInv /\ [P!Next]_(P!vars) => P!IInv'
BY P!InitInv, P!NextPreserves, FileAssumption, PropAssumption, BodyAssumption,
   IdentityAssumption, EdgeAssumption DEF P!File, P!Props, File, Props

LEMMA InitSaveInv == SaveInit => SaveInv
<1> SUFFICES ASSUME SaveInit PROVE SaveInv
  OBVIOUS
<1>1. ~InFlight /\ ~uncleared /\ pc = "idle"
  BY DEF SaveInit, InFlight
<1>2. P!Init
  BY <1>1 DEF SaveInit, Init, P!Init
<1>3. P!IInv
  BY <1>2, StoreKeeps
<1>4. SaveIsLive /\ LeftMarks
  BY <1>1 DEF SaveInit, Init, SaveIsLive, LeftMarks, Stage
<1>5. FilesDone /\ IndexFollows
  BY <1>1 DEF FilesDone, IndexFollows, SaveInit, Init, InFlight
<1> QED BY <1>3, <1>4, <1>5 DEF SaveInv, PiecesInv, MappedInv

-----------------------------------------------------------------------------
(* The steps.  Each keeps the pieces whatever has lapsed; for one that has *)
(* not lapsed by its end, the left marks are kept and the step is one of   *)
(* the atomic store, or none.                                              *)

Maps == LeftMarks' /\ [Store!Next]_(Store!vars)

LEMMA BeginsKeeps ==
    ASSUME SaveInv, SaveBegins
    PROVE  PiecesInv' /\ (~Lapsed' => Maps)
<1>1. ~InFlight /\ InFlight' /\ UNCHANGED <<uncleared, lapses>>
  BY DEF SaveBegins, InFlight
<1>2. UNCHANGED <<live, disk, rows, links, dirty, ledger, list>> /\ prior' = disk
  BY DEF SaveBegins, vars
<1>3. WriteSet' = WriteSet /\ HeldFiles' = HeldFiles /\ (HasPending' <=> HasPending) /\ (SaveValid' <=> SaveValid)
  BY <1>2 DEF WriteSet, HeldFiles, HasPending, SaveValid, Base
<1>4. FilesDone'
  BY <1>2, <1>3 DEF SaveInv, PiecesInv, FilesDone, SaveBegins
<1>5. SaveIsLive'
  BY <1>1, <1>2 DEF SaveInv, PiecesInv, SaveIsLive, SaveBegins, Stage
<1>6. IndexFollows'
  BY <1>1, <1>2 DEF SaveInv, PiecesInv, IndexFollows, SaveBegins
<1>7. UNCHANGED Store!vars
  BY <1>1, <1>2 DEF Store!vars
<1>8. ~Lapsed' => LeftMarks'
  BY <1>1, <1>2 DEF SaveInv, MappedInv, LeftMarks, Lapsed
<1> QED BY <1>4, <1>5, <1>6, <1>7, <1>8 DEF PiecesInv, Maps

\* While a save is under way nothing but the tree, the index and the commit
\* moves.
LEMMA MarksHold ==
    ASSUME UNCHANGED <<rows, links, dirty, ledger>>
    PROVE  /\ WriteSet' = WriteSet /\ HeldFiles' = HeldFiles
           /\ HasPending' <=> HasPending
           /\ SaveValid' <=> SaveValid
BY DEF WriteSet, HeldFiles, HasPending, SaveValid, Base

LEMMA WritesKeep ==
    ASSUME SaveInv, NEW n \in Node, WriteOrDelete(n)
    PROVE  PiecesInv' /\ (~Lapsed' => Maps)
<1>1. InFlight /\ InFlight' /\ live /\ UNCHANGED <<uncleared, lapses>>
  BY DEF SaveInv, PiecesInv, SaveIsLive, WriteOrDelete, InFlight
<1>2. UNCHANGED <<live, rows, links, dirty, ledger, list, prior, head, index>>
  BY DEF WriteOrDelete, db
<1>3. /\ WriteSet' = WriteSet /\ HeldFiles' = HeldFiles
      /\ HasPending' <=> HasPending
      /\ SaveValid' <=> SaveValid
  BY <1>2, MarksHold
<1>4. disk' = [m \in Node |-> IF m \in (WriteSet \cup ledger) \ todo'
                              THEN IF m \in ledger THEN Absent ELSE HeldFiles[m]
                              ELSE prior[m]]
  BY <1>1 DEF SaveInv, PiecesInv, FilesDone, WriteOrDelete
<1>5. FilesDone'
  BY <1>1, <1>2, <1>3, <1>4 DEF SaveInv, PiecesInv, FilesDone, WriteOrDelete
<1>6. SaveIsLive'
  BY <1>1, <1>2 DEF SaveInv, PiecesInv, SaveIsLive, WriteOrDelete, Stage
<1>7. IndexFollows'
  BY <1>1, <1>2 DEF SaveInv, PiecesInv, IndexFollows, WriteOrDelete
<1>8. UNCHANGED Store!vars
  BY <1>1, <1>2 DEF Store!vars
<1>9. ~Lapsed' => LeftMarks'
  BY <1>1, <1>2 DEF SaveInv, MappedInv, LeftMarks, Lapsed
<1> QED BY <1>5, <1>6, <1>7, <1>8, <1>9 DEF PiecesInv, Maps

LEMMA StagingKeeps ==
    ASSUME SaveInv, StageIndex
    PROVE  PiecesInv' /\ (~Lapsed' => Maps)
<1>1. InFlight /\ InFlight' /\ live /\ UNCHANGED <<uncleared, lapses>>
  BY DEF SaveInv, PiecesInv, SaveIsLive, StageIndex, InFlight
<1>2. UNCHANGED <<live, disk, rows, links, dirty, ledger, list, prior, todo, head>>
  BY DEF StageIndex, vars
<1>3. /\ WriteSet' = WriteSet /\ HeldFiles' = HeldFiles
      /\ HasPending' <=> HasPending
      /\ SaveValid' <=> SaveValid
  BY <1>2, MarksHold
<1>4. todo = {} /\ pc = "stage" /\ pc' = "commit"
  BY <1>1 DEF SaveInv, PiecesInv, FilesDone, StageIndex
<1>5. FilesDone'
  BY <1>1, <1>2, <1>3, <1>4 DEF SaveInv, PiecesInv, FilesDone
<1>6. SaveIsLive'
  BY <1>1, <1>2, <1>4 DEF SaveInv, PiecesInv, SaveIsLive, Stage
<1>7. disk = [n \in Node |-> IF n \in WriteSet \cup ledger
                             THEN IF n \in ledger THEN Absent ELSE HeldFiles[n]
                             ELSE prior[n]]
  BY <1>1, <1>4 DEF SaveInv, PiecesInv, FilesDone
<1>8. lapses \cap {"uncommitted", "unrestored"} = {} => index' = disk
  <2> HAVE lapses \cap {"uncommitted", "unrestored"} = {}
  <2>1. index = prior
    BY <1>4 DEF SaveInv, PiecesInv, IndexFollows
  <2>2. index' = [n \in Node |-> IF n \in WriteSet \cup ledger THEN disk[n] ELSE prior[n]]
    BY <2>1 DEF StageIndex
  <2> QED BY <1>7, <2>2
<1>9. IndexFollows'
  BY <1>1, <1>2, <1>4, <1>8 DEF SaveInv, PiecesInv, IndexFollows
<1>10. UNCHANGED Store!vars
  BY <1>1, <1>2 DEF Store!vars
<1>11. ~Lapsed' => LeftMarks'
  BY <1>1, <1>2 DEF SaveInv, MappedInv, LeftMarks, Lapsed
<1> QED BY <1>5, <1>6, <1>9, <1>10, <1>11 DEF PiecesInv, Maps

\* Once the marks are committed they mark nothing: each row they name has the
\* file it would be written to, each identity of the ledger has none.
LEMMA LeftMarksAreSaved ==
    ASSUME P!IInv, LeftMarks, uncleared, NEW n \in Node
    PROVE  /\ HeldFiles[n] = IF InFlight THEN prior[n] ELSE disk[n]
           /\ n \in ledger => (IF InFlight THEN prior[n] ELSE disk[n]) = Absent
<1>1. rows \in [Node -> P!Bodies]
  BY DEF P!IInv, P!TypeOK
<1>2. Base = rows
  BY <1>1 DEF Base, LeftMarks
<1>3. (IF InFlight THEN prior ELSE disk)[n] = P!FileOf(n, rows, links)
  BY DEF P!IInv, P!UnmarkedMatchesFile
<1>4. HeldFiles[n] = FileOf(n, rows, links)
  BY <1>2 DEF HeldFiles
<1>5. P!FileOf(n, rows, links) = FileOf(n, rows, links)
  BY DEF P!FileOf, FileOf
<1>6. n \in ledger => FileOf(n, rows, links) = Absent
  BY DEF LeftMarks, FileOf
<1> QED BY <1>3, <1>4, <1>5, <1>6

\* The commit is the atomic save: the tree is the written tree by then, and the
\* marks no longer count.  Over left marks it commits what is committed already.
LEMMA CommitKeeps ==
    ASSUME SaveInv, Commit
    PROVE  PiecesInv' /\ (~Lapsed' => Maps)
<1>1. InFlight /\ ~InFlight' /\ uncleared' /\ UNCHANGED lapses
  BY DEF Commit, InFlight
<1>2. UNCHANGED <<live, disk, rows, links, dirty, ledger, list, prior, todo, index>>
  BY DEF Commit, vars
<1>3. /\ live /\ todo = {} /\ HasPending /\ SaveValid /\ pc = "commit" /\ pc' = "clear"
      /\ disk = [n \in Node |-> IF n \in WriteSet \cup ledger
                               THEN IF n \in ledger THEN Absent ELSE HeldFiles[n]
                               ELSE prior[n]]
  BY <1>1 DEF SaveInv, PiecesInv, FilesDone, SaveIsLive, Commit
<1>4. SaveIsLive'
  BY <1>1, <1>2, <1>3 DEF SaveInv, PiecesInv, SaveIsLive, Stage
<1>5. IndexFollows'
  BY <1>1, <1>2, <1>3 DEF SaveInv, PiecesInv, IndexFollows, Commit
<1>6. FilesDone'
  BY <1>1, <1>2 DEF SaveInv, PiecesInv, FilesDone
<1>7. ASSUME ~Lapsed' PROVE Maps
  <2>1. P!IInv /\ LeftMarks
    BY <1>1, <1>7 DEF SaveInv, MappedInv, Lapsed
  <2>2. CASE ~uncleared
    <3>1. /\ dirty \subseteq Node /\ ledger \subseteq Node
          /\ \A n \in dirty : rows[n] # Absent
          /\ \A n \in ledger : rows[n] = Absent
      BY <2>1, <2>2 DEF P!IInv, P!TypeOK, P!DirtyHasRow, P!LedgerOwesAFile
    <3>2. LeftMarks'
      BY <1>2, <3>1 DEF LeftMarks
    <3>3. \A n \in Node : ~(n \in WriteSet /\ n \in ledger)
      BY DEF WriteSet, Base
    <3>4. disk = Store!WrittenTree
      BY <1>1, <1>3, <2>2, <3>3, SameReading DEF Store!WrittenTree
    <3>5. Store!Save
      BY <1>1, <1>2, <1>3, <2>2, <3>4, SameReading DEF Store!Save
    <3> QED BY <3>2, <3>5 DEF Maps, Store!Next
  <2>3. CASE uncleared
    <3>1. \A n \in Node : HeldFiles[n] = prior[n] /\ (n \in ledger => prior[n] = Absent)
      BY <1>1, <2>1, <2>3, LeftMarksAreSaved
    <3>2. disk = [n \in Node |-> prior[n]]
      BY <1>3, <3>1
    <3>3. disk = prior
      BY <3>2 DEF SaveInv, PiecesInv, FilesDone
    <3>4. UNCHANGED Store!vars
      BY <1>1, <1>2, <2>3, <3>3 DEF Store!vars
    <3>5. LeftMarks'
      BY <1>2, <2>1, <2>3 DEF LeftMarks
    <3> QED BY <3>4, <3>5 DEF Maps
  <2> QED BY <2>2, <2>3
<1> QED BY <1>4, <1>5, <1>6, <1>7 DEF PiecesInv

LEMMA ClearKeeps ==
    ASSUME SaveInv, ClearMarks
    PROVE  PiecesInv' /\ (~Lapsed' => Maps)
<1>1. ~InFlight /\ ~InFlight' /\ uncleared /\ ~uncleared' /\ live
  BY DEF SaveInv, PiecesInv, SaveIsLive, ClearMarks, InFlight
<1>2. UNCHANGED <<live, disk, rows, links, prior, index, head, lapses>>
  BY DEF ClearMarks
<1>3. SaveIsLive'
  BY <1>1, <1>2 DEF SaveInv, PiecesInv, SaveIsLive, ClearMarks, Stage
<1>4. IndexFollows'
  BY <1>1, <1>2 DEF SaveInv, PiecesInv, IndexFollows, ClearMarks
<1>5. FilesDone'
  BY <1>1, <1>2 DEF SaveInv, PiecesInv, FilesDone
<1>6. UNCHANGED Store!vars /\ LeftMarks'
  BY <1>1, <1>2 DEF Store!vars, ClearMarks, LeftMarks
<1> QED BY <1>3, <1>4, <1>5, <1>6 DEF PiecesInv, Maps

LEMMA ClearFailureKeeps ==
    ASSUME SaveInv, ClearFails
    PROVE  PiecesInv' /\ (~Lapsed' => Maps)
<1>1. ~InFlight /\ ~InFlight' /\ uncleared /\ uncleared' /\ live
  BY DEF SaveInv, PiecesInv, SaveIsLive, ClearFails, InFlight
<1>2. UNCHANGED <<live, disk, rows, links, ledger, list, prior, index, head, lapses>>
      /\ dirty' \subseteq dirty
  BY DEF ClearFails
<1>3. SaveIsLive'
  BY <1>1, <1>2 DEF SaveInv, PiecesInv, SaveIsLive, ClearFails, Stage
<1>4. IndexFollows'
  BY <1>1, <1>2 DEF SaveInv, PiecesInv, IndexFollows, ClearFails
<1>5. FilesDone'
  BY <1>1, <1>2 DEF SaveInv, PiecesInv, FilesDone
<1>6. UNCHANGED Store!vars
  BY <1>1, <1>2 DEF Store!vars
<1>7. ~Lapsed' => LeftMarks'
  BY <1>1, <1>2 DEF SaveInv, MappedInv, LeftMarks, Lapsed
<1> QED BY <1>3, <1>4, <1>5, <1>6, <1>7 DEF PiecesInv, Maps

LEMMA FailureKeeps ==
    ASSUME SaveInv, SaveFails
    PROVE  PiecesInv' /\ (~Lapsed' => Maps)
<1>1. InFlight /\ ~InFlight' /\ live /\ UNCHANGED uncleared /\ lapses \subseteq lapses'
  BY DEF SaveInv, PiecesInv, SaveIsLive, SaveFails, InFlight
<1>2. UNCHANGED <<live, rows, links, dirty, ledger, list, prior, index, head>>
  BY DEF SaveFails, db
<1>3. PICK stuck : disk' = [n \in Node |-> IF n \in stuck THEN disk[n] ELSE prior[n]]
  BY DEF SaveFails
<1>4. "unrestored" \notin lapses' => disk' = prior
  BY DEF SaveFails
<1>5. SaveIsLive'
  BY <1>1, <1>2 DEF SaveInv, PiecesInv, SaveIsLive, SaveFails, Stage
<1>6. FilesDone'
  BY <1>1, <1>2, <1>3 DEF SaveInv, PiecesInv, FilesDone
<1>7. IndexFollows'
  <2> SUFFICES ASSUME lapses' \cap {"uncommitted", "unrestored"} = {}
               PROVE  IndexFollows'
    BY DEF IndexFollows
  <2>1. disk' = prior /\ lapses \cap {"uncommitted", "unrestored"} = {}
    BY <1>1, <1>4
  <2>2. pc # "commit"
    BY DEF SaveFails
  <2> QED BY <1>1, <1>2, <2>1, <2>2 DEF SaveInv, PiecesInv, IndexFollows, SaveFails, InFlight
<1>8. ASSUME ~Lapsed' PROVE Maps
  <2>1. disk' = prior /\ ~Lapsed
    BY <1>1, <1>4, <1>8 DEF Lapsed
  <2>2. UNCHANGED Store!vars
    BY <1>1, <1>2, <2>1 DEF Store!vars
  <2>3. LeftMarks'
    BY <1>1, <1>2, <2>1 DEF SaveInv, MappedInv, LeftMarks
  <2> QED BY <2>2, <2>3 DEF Maps
<1> QED BY <1>5, <1>6, <1>7, <1>8 DEF PiecesInv

LEMMA KillKeeps ==
    ASSUME KillsAreClean, SaveInv, Kill
    PROVE  PiecesInv' /\ (~Lapsed' => Maps)
<1>1. ~InFlight /\ ~InFlight' /\ pc \in {"idle", "clear"} /\ pc' = "idle" /\ live /\ ~live'
  BY DEF KillsAreClean, Kill, InFlight
<1>2. UNCHANGED <<disk, rows, links, dirty, ledger, prior, index, head, uncleared, lapses>>
      /\ list' = {}
  BY DEF Kill, db
<1>3. SaveIsLive'
  BY <1>1, <1>2 DEF SaveInv, PiecesInv, SaveIsLive, Stage
<1>4. IndexFollows'
  BY <1>1, <1>2 DEF SaveInv, PiecesInv, IndexFollows
<1>5. FilesDone'
  BY <1>1, <1>2 DEF SaveInv, PiecesInv, FilesDone
<1>6. Store!Crash
  BY <1>1, <1>2 DEF Store!Crash, Store!db
<1>7. ~Lapsed' => LeftMarks'
  BY <1>2 DEF SaveInv, MappedInv, LeftMarks, Lapsed
<1> QED BY <1>3, <1>4, <1>5, <1>6, <1>7 DEF PiecesInv, Maps, Store!Next

LEMMA RequestKeeps ==
    ASSUME SaveInv, Request
    PROVE  PiecesInv' /\ (~Lapsed' => Maps)
<1>1. live /\ UNCHANGED disk /\ (live' \/ list' = {})
  BY DEF Request, Edit, NodeAdd, NodeUpdate, NodeRm, EdgeAdd, EdgeUpdate, EdgeRm, Admit, End
<1>2. UNCHANGED <<pc, todo, prior, index, head, uncleared>> /\ pc = "idle"
      /\ lapses \subseteq lapses'
  BY DEF Request
<1>3. ~InFlight /\ ~InFlight'
  BY <1>2 DEF InFlight
<1>4. SaveIsLive'
  BY <1>1, <1>2 DEF SaveInv, PiecesInv, SaveIsLive
<1>5. IndexFollows'
  BY <1>1, <1>2, <1>3 DEF SaveInv, PiecesInv, IndexFollows
<1>6. FilesDone'
  BY <1>1, <1>2, <1>3 DEF SaveInv, PiecesInv, FilesDone
<1>7. ASSUME ~Lapsed' PROVE Maps
  <2>1. ~Lapsed /\ LeftMarks
    BY <1>2, <1>7 DEF SaveInv, MappedInv, Lapsed
  <2>2. CASE Edit /\ lapses' = lapses \cup {l \in {"undrained"} : uncleared}
    <3>1. ~uncleared
      BY <1>7, <2>2 DEF Lapsed
    <3>2. Store!Next
      BY <1>2, <1>3, <2>2, <3>1, EditMaps
    <3> QED BY <1>2, <3>1, <3>2 DEF Maps, LeftMarks
  <2>3. CASE End
    <3>1. Store!End
      BY <1>2, <1>3, <2>3, EndMaps
    <3>2. LeftMarks'
      BY <1>2, <2>1, <2>3 DEF LeftMarks, End, db
    <3> QED BY <3>1, <3>2 DEF Maps, Store!Next
  <2> QED BY <2>2, <2>3 DEF Request
<1> QED BY <1>4, <1>5, <1>6, <1>7 DEF PiecesInv

\* The tree of an unmarked database rebuilds the database it has.
LEMMA CleanTreeRebuilds ==
    ASSUME P!IInv, uncleared, ~InFlight
    PROVE  BodyIn(disk) = rows /\ EdgesIn(disk) = links
<1>1. /\ rows \in [Node -> P!Bodies] /\ links \in [Edge -> P!Props]
      /\ disk \in [Node -> P!Files]
  BY DEF P!IInv, P!TypeOK
<1>2. \A n \in Node : disk[n] = P!FileOf(n, rows, links)
  BY DEF P!IInv, P!UnmarkedMatchesFile
<1>3. \A e \in Edge : links[e] # NoProp =>
          /\ rows[e.from] # Absent
          /\ e.to \in Node => rows[e.to] # Absent
  BY DEF P!IInv, P!LinksResolve
<1>4. P!BodyIn(disk) = rows /\ P!EdgesIn(disk) = links
  BY <1>1, <1>2, <1>3, P!WrittenTreeReadsBack, FileAssumption, PropAssumption,
     BodyAssumption, IdentityAssumption, EdgeAssumption DEF P!File, P!Props, File, Props
<1> QED BY <1>4 DEF P!BodyIn, P!EdgesIn, BodyIn, EdgesIn

\* A start or an abort over left marks loses nothing but the marks.
LEMMA LeftMarksAreDropped ==
    ASSUME P!IInv, LeftMarks, uncleared, ~InFlight, Start \/ Abort
    PROVE  rows' = rows /\ links' = links /\ dirty' = {} /\ ledger' = {}
<1>1. CASE HasPending
  BY <1>1, CleanTreeRebuilds DEF Start, Abort, Rebuild
<1>2. CASE ~HasPending
  <2>1. ledger = {} /\ UNCHANGED <<rows, links, dirty, ledger>>
    BY <1>2 DEF HasPending, Start, Abort, db
  <2>2. dirty = {}
    BY <1>2, <2>1 DEF HasPending, WriteSet, Base, LeftMarks
  <2> QED BY <2>1, <2>2
<1> QED BY <1>1, <1>2

LEMMA RestartKeeps ==
    ASSUME SaveInv, Restart
    PROVE  PiecesInv' /\ (~Lapsed' => Maps)
<1>1. UNCHANGED <<disk, pc, todo, prior, index, head, lapses>> /\ pc = "idle" /\ ~uncleared'
  BY DEF Restart, Start, Abort
<1>2. ~InFlight /\ ~InFlight'
  BY <1>1 DEF InFlight
<1>3. live' \/ list' = {}
  BY DEF Restart, Start, Abort
<1>4. SaveIsLive'
  BY <1>1, <1>3 DEF SaveInv, PiecesInv, SaveIsLive
<1>5. IndexFollows'
  BY <1>1, <1>2 DEF SaveInv, PiecesInv, IndexFollows
<1>6. FilesDone'
  BY <1>1, <1>2 DEF SaveInv, PiecesInv, FilesDone
<1>7. ASSUME ~Lapsed' PROVE Store!Start \/ Store!Abort
  <2>1. P!IInv /\ LeftMarks
    BY <1>1, <1>7 DEF SaveInv, MappedInv, Lapsed
  <2>2. CASE ~uncleared
    <3>1. Store!Rebuild <=> Rebuild
      BY <1>1, <1>2, <2>2, SameGraph DEF Store!Rebuild, Rebuild
    <3> QED BY <1>1, <1>2, <2>2, <3>1, SameReading DEF Restart, Start, Abort, Store!Start, Store!Abort, db, Store!db
  <2>3. CASE uncleared
    <3>1. rows' = rows /\ links' = links /\ dirty' = {} /\ ledger' = {}
      BY <1>2, <2>1, <2>3, LeftMarksAreDropped DEF Restart
    <3>2. ~Store!HasPending
      BY <2>3 DEF Store!HasPending, Store!WriteSet
    <3>3. ~live => list = {}
      BY DEF SaveInv, PiecesInv, SaveIsLive
    <3> QED BY <1>1, <1>2, <2>3, <3>1, <3>2, <3>3 DEF Restart, Start, Abort, Store!Start, Store!Abort, Store!db
  <2> QED BY <2>2, <2>3
<1> QED BY <1>1, <1>4, <1>5, <1>6, <1>7 DEF PiecesInv, Maps, LeftMarks, Store!Next

LEMMA StepMaps ==
    ASSUME KillsAreClean, SaveInv, [SaveNext]_allVars
    PROVE  SaveInv' /\ ([Store!Next]_(Store!vars) \/ Lapsed')
<1>1. PiecesInv' /\ (~Lapsed' => Maps) /\ (Lapsed => Lapsed')
  <2>1. CASE SaveBegins
    BY <2>1, BeginsKeeps DEF SaveBegins, Lapsed
  <2>2. CASE \E n \in Node : WriteOrDelete(n)
    BY <2>2, WritesKeep DEF WriteOrDelete, Lapsed
  <2>3. CASE StageIndex
    BY <2>3, StagingKeeps DEF StageIndex, Lapsed
  <2>4. CASE Commit
    BY <2>4, CommitKeeps DEF Commit, Lapsed
  <2>5. CASE ClearMarks
    BY <2>5, ClearKeeps DEF ClearMarks, Lapsed
  <2>6. CASE ClearFails
    BY <2>6, ClearFailureKeeps DEF ClearFails, Lapsed
  <2>7. CASE SaveFails
    BY <2>7, FailureKeeps DEF SaveFails, Lapsed
  <2>8. CASE Kill
    BY <2>8, KillKeeps DEF Kill, Lapsed
  <2>9. CASE Request
    BY <2>9, RequestKeeps DEF Request, Lapsed
  <2>10. CASE Restart
    BY <2>10, RestartKeeps DEF Restart, Lapsed
  <2>11. CASE UNCHANGED allVars
    <3>1. UNCHANGED <<live, disk, rows, links, dirty, ledger, list, pc, todo, prior,
                      index, head, uncleared, lapses>>
      BY <2>11 DEF allVars, vars, saveVars
    <3>2. /\ WriteSet' = WriteSet /\ HeldFiles' = HeldFiles
          /\ HasPending' <=> HasPending
          /\ SaveValid' <=> SaveValid
      BY <3>1, MarksHold
    <3>3. (InFlight' <=> InFlight) /\ (Lapsed' <=> Lapsed)
      BY <3>1 DEF InFlight, Lapsed
    <3>4. SaveIsLive' /\ IndexFollows'
      BY <3>1, <3>3 DEF SaveInv, PiecesInv, SaveIsLive, IndexFollows
    <3>5. FilesDone'
      BY <3>1, <3>2, <3>3 DEF SaveInv, PiecesInv, FilesDone
    <3>6. ~Lapsed' => LeftMarks'
      BY <3>1, <3>3 DEF SaveInv, MappedInv, LeftMarks
    <3>7. UNCHANGED Store!vars
      BY <3>1, <3>3 DEF Store!vars
    <3> QED BY <3>3, <3>4, <3>5, <3>6, <3>7 DEF PiecesInv, Maps
  <2> QED BY <2>1, <2>2, <2>3, <2>4, <2>5, <2>6, <2>7, <2>8, <2>9, <2>10, <2>11 DEF SaveNext
<1>2. ASSUME ~Lapsed' PROVE MappedInv'
  <2>1. P!IInv /\ LeftMarks'
    BY <1>1, <1>2 DEF SaveInv, MappedInv, Maps
  <2>2. [P!Next]_(P!vars)
    BY <1>1, <1>2, OneStore DEF Maps
  <2> QED BY <2>1, <2>2, StoreKeeps DEF MappedInv
<1> QED BY <1>1, <1>2 DEF SaveInv, Maps

LEMMA SaveInvariant == KillsAreClean /\ SaveSpec => []SaveInv
<1> SUFFICES ASSUME KillsAreClean PROVE SaveSpec => []SaveInv
  OBVIOUS
<1>1. SaveInv /\ [SaveNext]_allVars => SaveInv'
  BY StepMaps
<1> QED BY InitSaveInv, <1>1, PTL DEF SaveSpec

-----------------------------------------------------------------------------
(* The theorems *)

\* A save that commits is the whole save and a save that fails is no save, to
\* every later request and every later restart: write_through_with_deletes,
\* commit_files and the clear implement the atomic save of the store.  A rollback
\* has to put its files back for that; and a clear that fails (session.rs:703) is
\* covered up to the next request admitted over the marks it left: another save,
\* an end, an abort, a kill and a start are steps of the atomic store, or none.
THEOREM SavesAreAtomic == KillsAreClean /\ SaveSpec => ImplementsSessionStore
<1> SUFFICES ASSUME KillsAreClean PROVE SaveSpec => ImplementsSessionStore
  OBVIOUS
<1>1. SaveInit => Store!Init
  <2> SUFFICES ASSUME SaveInit PROVE Store!Init
    OBVIOUS
  <2>1. ~InFlight /\ ~uncleared
    BY DEF SaveInit, InFlight
  <2> QED BY <2>1 DEF SaveInit, Init, Store!Init
<1>2. SaveInv /\ [SaveNext]_allVars => [Store!Next \/ Lapsed']_(Store!vars)
  BY StepMaps
<1> QED BY SaveInvariant, <1>1, <1>2, PTL DEF SaveSpec, ImplementsSessionStore

\* Between saves HEAD holds the tree, file for file, as long as no commit has
\* failed over an index it had already written and no rollback has left a file as
\* the failed save wrote it: commit_files stages exactly the set the write-through
\* wrote, also over marks a failed clear left behind.
THEOREM HeadFollowsTheTree == KillsAreClean /\ SaveSpec => []HeadIsTreeUnlessUncommitted
<1> SUFFICES ASSUME KillsAreClean PROVE SaveSpec => []HeadIsTreeUnlessUncommitted
  OBVIOUS
<1>1. SaveInv => HeadIsTreeUnlessUncommitted
  BY DEF SaveInv, PiecesInv, IndexFollows, HeadIsTreeUnlessUncommitted, HeadIsTree, InFlight
<1> QED BY SaveInvariant, <1>1, PTL

\* Whatever a killed session leaves behind, the start that finds it can scan the
\* tree and recover (reclaim_stale_socket, then force_full_scan), unless a rollback
\* left a file behind or a request was admitted over marks a failed clear left.
THEOREM RecoveryAlwaysGoes == KillsAreClean /\ SaveSpec => []RecoveryNeverRefused
<1> SUFFICES ASSUME KillsAreClean PROVE SaveSpec => []RecoveryNeverRefused
  OBVIOUS
<1>1. SaveInv => RecoveryNeverRefused
  <2> SUFFICES ASSUME SaveInv, ~live, ~Lapsed PROVE Ingestible(disk)
    BY DEF RecoveryNeverRefused
  <2>1. ~InFlight
    BY DEF SaveInv, PiecesInv, SaveIsLive, InFlight
  <2>2. P!Ingestible(disk)
    BY <2>1 DEF SaveInv, MappedInv, P!IInv, P!TreeIngests
  <2> QED BY <2>2 DEF P!Ingestible, P!BodyIn, P!EdgesIn, P!Paired, P!AssembledRules,
       P!EventTargetsValid, P!TreesValid, P!Acyclic, P!Holds, P!Present, P!TreeEdge,
       P!EventEdge, P!EventKind, P!TreeKind, Ingestible, BodyIn, EdgesIn, Paired,
       AssembledRules, EventTargetsValid, TreesValid, Acyclic, Holds, Present,
       TreeEdge, EventEdge, EventKind, TreeKind
<1> QED BY SaveInvariant, <1>1, PTL
=============================================================================
