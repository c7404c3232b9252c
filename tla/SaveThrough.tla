----------------------------- MODULE SaveThrough -----------------------------
(***************************************************************************)
(* A session save in pieces: write_through_with_deletes writes and deletes *)
(* one node file at a time and puts a snapshot back on any failure, as far *)
(* as it can; then commit_files stages the set, writes the index and       *)
(* commits the whole index, and only then does the coordinator clear the   *)
(* marks, which may fail as well.  The process may be killed, and a step   *)
(* may fail, wherever KillPoints and FailPoints allow it.                  *)
(***************************************************************************)
EXTENDS SessionStore

CONSTANTS KillPoints,  \* the stages of a save a kill may strike in
          FailPoints   \* the stages whose operations may fail, "rollback"
                       \* for the one that puts the snapshot back

Stage == {"idle", "files", "stage", "commit", "clear"}

ASSUME StageAssumption ==
    KillPoints \subseteq Stage /\ FailPoints \subseteq (Stage \ {"idle"}) \cup {"rollback"}

VARIABLES
    pc,        \* the stage the save is in, "idle" between requests
    todo,      \* the node files still to write or delete
    prior,     \* the snapshot a rollback restores
    index,     \* git's index, over apg/layers/**
    head,      \* the tree of HEAD, over apg/layers/**
    uncleared, \* committed, but the database still carries the marks
    lapses     \* what has gone wrong so far that the code does not undo:
               \*  "uncommitted"  a commit failed over an index already written
               \*  "unrestored"   a rollback left a file as the save wrote it
               \*  "undrained"    a request was admitted over marks, a list or
               \*                 a ledger that a failed clear left behind

saveVars == <<pc, todo, prior, index, head, uncleared, lapses>>
allVars  == <<vars, saveVars>>

SaveInit ==
    /\ Init
    /\ pc = "idle" /\ todo = {} /\ uncleared = FALSE /\ lapses = {}
    /\ prior = disk /\ index = disk /\ head = disk

\* Files are being written, or are written and not yet committed.
InFlight == pc \in {"files", "stage", "commit"}

-----------------------------------------------------------------------------

\* validate_save_model, then the snapshot of every affected path.
SaveBegins ==
    /\ live /\ pc = "idle" /\ HasPending /\ SaveValid
    /\ pc' = "files"
    /\ todo' = WriteSet \cup ledger
    /\ prior' = disk
    /\ UNCHANGED <<vars, index, head, uncleared, lapses>>

\* One node file written, or removed; an absent file is as good as removed.
\* Writes come before deletes.
WriteOrDelete(n) ==
    /\ pc = "files" /\ n \in todo
    /\ n \in ledger => todo \subseteq ledger
    /\ disk' = [disk EXCEPT ![n] = IF n \in ledger THEN Absent ELSE HeldFiles[n]]
    /\ todo' = todo \ {n}
    /\ pc' = IF todo' = {} THEN "stage" ELSE "files"
    /\ UNCHANGED <<live, db, list, prior, index, head, uncleared, lapses>>

\* Mutant: only paths git already tracks are staged.
StageIndexTrackedOnly ==
    /\ pc = "stage"
    /\ index' = [n \in Node |-> IF n \in WriteSet \cup ledger /\ index[n] # Absent
                                THEN disk[n] ELSE index[n]]
    /\ pc' = "commit"
    /\ UNCHANGED <<vars, todo, prior, head, uncleared, lapses>>

\* index.add_path / index.remove_path over the set, then index.write.
StageIndex ==
    /\ pc = "stage"
    /\ index' = [n \in Node |-> IF n \in WriteSet \cup ledger THEN disk[n] ELSE index[n]]
    /\ pc' = "commit"
    /\ UNCHANGED <<vars, todo, prior, head, uncleared, lapses>>

\* The commit takes the whole index, whatever was staged into it.
Commit ==
    /\ pc = "commit"
    /\ head' = index
    /\ pc' = "clear" /\ uncleared' = TRUE
    /\ UNCHANGED <<vars, todo, prior, index, lapses>>

\* Mutant: the pending-removal rows survive the clear.
ClearMarksKeepingLedger ==
    /\ pc = "clear"
    /\ dirty' = {} /\ list' = {}
    /\ pc' = "idle" /\ uncleared' = FALSE
    /\ UNCHANGED <<live, disk, rows, links, ledger, todo, prior, index, head, lapses>>

\* clear_pending_state, then the list.
ClearMarks ==
    /\ pc = "clear"
    /\ dirty' = {} /\ ledger' = {} /\ list' = {}
    /\ pc' = "idle" /\ uncleared' = FALSE
    /\ UNCHANGED <<live, disk, rows, links, todo, prior, index, head, lapses>>

\* clear_pending_state fails: one statement per table, then the ledger's, so the
\* tables walked so far are cleared and the ledger is not.  The error is replied
\* before the list is cleared, and the session stays live over a save that is
\* committed.
ClearFails ==
    /\ pc = "clear" /\ "clear" \in FailPoints
    /\ dirty' \in SUBSET dirty
    /\ pc' = "idle"
    /\ UNCHANGED <<live, disk, rows, links, ledger, list, todo, prior, index, head, uncleared, lapses>>

\* Mutant: the files a failed write left behind are not put back.
SaveFailsWithoutRollback ==
    /\ InFlight /\ pc \in FailPoints
    /\ pc' = "idle" /\ todo' = {}
    /\ UNCHANGED <<live, disk, db, list, prior, index, head, uncleared, lapses>>

\* A failed file or git operation: every affected path is put back, but for the
\* ones that resist (rollback ignores its own errors).  The error is replied, the
\* marks stay.  The index is not put back.
SaveFails ==
    /\ InFlight /\ pc \in FailPoints
    /\ \E stuck \in SUBSET (WriteSet \cup ledger) :
          /\ stuck # {} => "rollback" \in FailPoints
          /\ disk' = [n \in Node |-> IF n \in stuck THEN disk[n] ELSE prior[n]]
    /\ pc' = "idle" /\ todo' = {}
    /\ lapses' = lapses \cup {l \in {"uncommitted"} : pc = "commit"}
                        \cup {l \in {"unrestored"} : disk' # prior}
    /\ UNCHANGED <<live, db, list, prior, index, head, uncleared>>

\* The process is killed in a stage of a save, or between requests.
Kill ==
    /\ live /\ pc \in KillPoints
    /\ live' = FALSE /\ list' = {}
    /\ pc' = "idle" /\ todo' = {}
    /\ UNCHANGED <<disk, db, prior, index, head, uncleared, lapses>>

\* The requests that change the graph.
Edit ==
    \/ \E n \in Node, b \in Body : NodeAdd(n, b) \/ NodeUpdate(n, b)
    \/ \E n \in Node : NodeRm(n)
    \/ \E e \in Edge, p \in Prop : EdgeAdd(e, p) \/ EdgeUpdate(e, p)
    \/ \E e \in Edge : EdgeRm(e)

\* The other requests, one at a time.
Request ==
    /\ pc = "idle"
    /\ \/ Edit /\ lapses' = lapses \cup {l \in {"undrained"} : uncleared}
       \/ End /\ UNCHANGED lapses
    /\ UNCHANGED <<pc, todo, prior, index, head, uncleared>>

\* A start or an abort over pending state rebuilds the database, which also
\* drops the marks of a save that did not come to clear them.
Restart ==
    /\ pc = "idle"
    /\ Start \/ Abort
    /\ uncleared' = FALSE
    /\ UNCHANGED <<pc, todo, prior, index, head, lapses>>

SaveNext ==
    \/ SaveBegins \/ \E n \in Node : WriteOrDelete(n)
    \/ StageIndex \/ Commit \/ ClearMarks \/ ClearFails
    \/ SaveFails \/ Kill \/ Request \/ Restart

SaveSpec == SaveInit /\ [][SaveNext]_allVars

-----------------------------------------------------------------------------
(* Properties *)

\* While no save is under way HEAD holds exactly the files of the tree: nothing
\* a save wrote is missing from its commit, and nothing a failed save took back
\* is in it.
HeadIsTree == pc = "idle" => head = disk

\* So it is as long as no commit has failed once git's index was written, and
\* every rollback put all its files back.
HeadIsTreeUnlessUncommitted ==
    lapses \cap {"uncommitted", "unrestored"} = {} => HeadIsTree

\* A rollback that cannot put a file back (write.rs:163) leaves the tree between
\* two saves; a request admitted over marks a failed clear left (session.rs:703)
\* is judged by a ledger and a list that no longer tell what is durable.  After
\* either the code promises nothing of what the next save writes.
Lapsed == lapses \cap {"unrestored", "undrained"} # {}

\* Short of that, what a killed session leaves can always be recovered: the scan
\* a start runs over pending state never refuses the tree (session-start-recovers-
\* an-unclean-database).
RecoveryNeverRefused == ~Lapsed /\ ~live /\ HasPending => Ingestible(disk)

\* A save whose file and git operations fail, wherever they fail, is no save when
\* its files are put back; one that commits is the whole save, also when its marks
\* are then not cleared and it is saved again, aborted or killed.  The pieces
\* implement the atomic save until a step lapses, as defined above.
Store == INSTANCE SessionStore WITH
    disk   <- IF InFlight THEN prior ELSE disk,
    dirty  <- IF uncleared THEN {} ELSE dirty,
    ledger <- IF uncleared THEN {} ELSE ledger,
    list   <- IF uncleared THEN {} ELSE list
ImplementsSessionStore ==
    Store!Init /\ [][Store!Next \/ Lapsed']_(Store!vars)
=============================================================================
