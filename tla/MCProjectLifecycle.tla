------------------------- MODULE MCProjectLifecycle -------------------------
(* Two projects and two commands over a history of a few commits: from the *)
(* repository as apg init leaves it, and from one where both projects have *)
(* been started and have a commit of their own, a saved specification and  *)
(* an edit of the code, so that two commands are two merges that overlap.  *)
EXTENDS ProjectLifecycle, TLC

MCVersion == 0 .. 1
MCFirst   == [code |-> 1, spec |-> 0, ignores |-> TRUE]
Sym == Permutations(Project) \cup Permutations(Cmd)

Saved  == [First EXCEPT !.spec = 1]
Edited == [First EXCEPT !.code = 0]

Started ==
    /\ history = <<[past |-> {1}, tree |-> First], [past |-> {1, 2}, tree |-> Saved],
                   [past |-> {1, 3}, tree |-> Edited]>>
    /\ ref \in {r \in [Branch -> 1 .. 3] :
                    r[Default] = 1 /\ {r[c] : c \in Project} = {2, 3}}
    /\ head = [c \in Checkout |-> IF c = Main THEN Default ELSE c]
    /\ disk = Project /\ admin = Project
    /\ live = {} /\ open = {} /\ masked = {} /\ lost = {}
    /\ work = [c \in Checkout |-> TreeOf(HeadOf(c))]
    /\ db = [c \in Checkout |-> Scanned(c)]
    /\ cmd = [k \in Cmd |-> Idle]
    /\ used = [commands |-> 0, edits |-> 0, faults |-> 0]

MCSpec == (Init \/ Started) /\ [][Next]_vars
=============================================================================
