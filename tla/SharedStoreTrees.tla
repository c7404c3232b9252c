---------------------------- MODULE SharedStoreTrees ----------------------------
(***************************************************************************)
(* The modules, the containment and the references of the store and of the *)
(* databases, where each file has names of its own and FQNs are read one   *)
(* way (OwnNames, Legible): whatever was scanned, reused, spliced, killed  *)
(* or overtaken, a fresh database shows nothing that a rebuild of its tree *)
(* would not show, and none of the tree's rows and containment is missing. *)
(* A scan refuses no layer tree for code the tree has.                     *)
(***************************************************************************)
EXTENDS SharedStoreProofs

-----------------------------------------------------------------------------
(* The modules of a file                                                     *)

\* Among finitely many steps every one is taken.
LEMMA ReachClosed ==
    ASSUME NEW R, IsFiniteSet(R), NEW S
    PROVE  /\ S \subseteq Reach(R, S)
           /\ \A p \in R : p[1] \in Reach(R, S) => p[2] \in Reach(R, S)
<1>1. PICK g : /\ Reach(R, S) = g[Cardinality(R)] /\ g[0] = S
               /\ \A n \in Nat : n # 0 => g[n] = OneStep(R, g[n - 1])
  BY ReachLayers
<1> DEFINE N == Cardinality(R)
           V(n) == {p \in R : p[2] \in g[n]}
           closed(n) == \A p \in R : p[1] \in g[n] => p[2] \in g[n]
<1>2. N \in Nat
  BY FS_CardinalityType
<1> HIDE DEF N
<1>3. ASSUME NEW n \in Nat
      PROVE  /\ n + 1 \in Nat /\ g[n + 1] = OneStep(R, g[n]) /\ g[n] \subseteq g[n + 1]
             /\ closed(n) => closed(n + 1)
             /\ V(n) \subseteq V(n + 1)
  <2>1. n + 1 \in Nat /\ n + 1 # 0 /\ (n + 1) - 1 = n
    OBVIOUS
  <2>2. g[n + 1] = OneStep(R, g[n])
    BY <1>1, <2>1
  <2>3. g[n] \subseteq g[n + 1]
    BY <2>2 DEF OneStep
  <2>4. closed(n) => g[n + 1] \subseteq g[n]
    BY <2>2 DEF OneStep
  <2> QED BY <2>1, <2>2, <2>3, <2>4
<1>4. \A n \in Nat : S \subseteq g[n]
  <2> DEFINE bad == {n \in Nat : ~(S \subseteq g[n])}
             m == CHOOSE i \in bad : \A j \in bad : i <= j
  <2> SUFFICES ASSUME bad # {} PROVE FALSE
    OBVIOUS
  <2>1. m \in bad /\ \A j \in bad : m <= j
    <3>1. bad \subseteq Nat
      OBVIOUS
    <3> HIDE DEF bad
    <3> QED BY <3>1, LeastOf
  <2> HIDE DEF m
  <2>2. m # 0 /\ m \in Nat /\ m - 1 \in Nat /\ ~(m <= m - 1) /\ (m - 1) + 1 = m
    BY <1>1, <2>1
  <2>3. S \subseteq g[m - 1]
    BY <2>1, <2>2
  <2>4. g[m - 1] \subseteq g[m]
    BY <1>3, <2>2
  <2> QED BY <2>1, <2>3, <2>4
<1>5. closed(N)
  <2> SUFFICES ASSUME ~closed(N) PROVE FALSE
    OBVIOUS
  <2>1. \A n \in 0..N : ~closed(n)
    <3> DEFINE bad == {k \in Nat : k <= N /\ closed(N - k)}
               m == CHOOSE i \in bad : \A j \in bad : i <= j
    <3>1. bad = {}
      <4> SUFFICES ASSUME bad # {} PROVE FALSE
        OBVIOUS
      <4>1. m \in bad /\ \A j \in bad : m <= j
        <5>1. bad \subseteq Nat
          OBVIOUS
        <5> HIDE DEF bad
        <5> QED BY <5>1, LeastOf
      <4> HIDE DEF m
      <4>2. m \in Nat /\ m <= N /\ closed(N - m)
        BY <4>1
      <4>3. m # 0
        <5> HIDE DEF closed
        <5>1. N - 0 = N
          BY <1>2
        <5> QED BY <4>2, <5>1
      <4>4. /\ N - m \in Nat /\ (N - m) + 1 = N - (m - 1) /\ m - 1 \in Nat /\ m - 1 <= N
            /\ ~(m <= m - 1)
        BY <1>2, <4>2, <4>3
      <4>5. closed((N - m) + 1)
        <5> HIDE DEF closed
        <5> QED BY <1>3, <4>2, <4>4
      <4>6. m - 1 \in bad
        <5> HIDE DEF closed
        <5> QED BY <4>4, <4>5
      <4> HIDE DEF bad
      <4> QED BY <4>1, <4>4, <4>6
    <3> HIDE DEF m
    <3>2. \A n \in 0..N : N - n \in Nat /\ N - n <= N /\ N - (N - n) = n
      BY <1>2
    <3> HIDE DEF closed
    <3> QED BY <3>1, <3>2
  <2>2. \A n \in Nat : IsFiniteSet(V(n)) /\ Cardinality(V(n)) \in Nat /\ Cardinality(V(n)) <= N
    <3> SUFFICES ASSUME NEW n \in Nat
                 PROVE  IsFiniteSet(V(n)) /\ Cardinality(V(n)) \in Nat /\ Cardinality(V(n)) <= N
      OBVIOUS
    <3>1. V(n) \subseteq R
      OBVIOUS
    <3> HIDE DEF V
    <3> QED BY <3>1, FS_Subset, FS_CardinalityType DEF N
  <2>3. \A n \in 0..N : Cardinality(V(n)) + 1 <= Cardinality(V(n + 1))
    <3> SUFFICES ASSUME NEW n \in 0..N PROVE Cardinality(V(n)) + 1 <= Cardinality(V(n + 1))
      OBVIOUS
    <3>1. n \in Nat /\ n + 1 \in Nat
      BY <1>2
    <3>2. PICK p \in R : p[1] \in g[n] /\ p[2] \notin g[n]
      BY <2>1
    <3>3. p \in V(n + 1) /\ p \notin V(n)
      BY <1>3, <3>1, <3>2 DEF OneStep
    <3>4. V(n) \subseteq V(n + 1)
      BY <1>3, <3>1
    <3> HIDE DEF V
    <3>5. Cardinality(V(n) \cup {p}) = Cardinality(V(n)) + 1
      BY <2>2, <3>1, <3>3, FS_AddElement
    <3>6. V(n) \cup {p} \subseteq V(n + 1)
      BY <3>3, <3>4
    <3>7. Cardinality(V(n) \cup {p}) <= Cardinality(V(n + 1))
      BY <2>2, <3>1, <3>6, FS_Subset
    <3> QED BY <3>5, <3>7
  <2> DEFINE card(n) == Cardinality(V(n))
             bad == {n \in Nat : n <= N + 1 /\ ~(n <= card(n))}
             m == CHOOSE i \in bad : \A j \in bad : i <= j
  <2>4. \A n \in Nat : card(n) \in Nat /\ card(n) <= N
    BY <2>2
  <2>5. \A n \in 0..N : card(n) + 1 <= card(n + 1)
    BY <2>3
  <2> HIDE DEF card
  <2>6. bad = {}
    <3> SUFFICES ASSUME bad # {} PROVE FALSE
      OBVIOUS
    <3>1. m \in bad /\ \A j \in bad : m <= j
      <4>1. bad \subseteq Nat
        OBVIOUS
      <4> HIDE DEF bad
      <4> QED BY <4>1, LeastOf
    <3> HIDE DEF m
    <3>2. m # 0 /\ m \in Nat /\ m <= N + 1 /\ ~(m <= card(m))
      BY <2>4, <3>1
    <3>3. m - 1 \in 0..N /\ (m - 1) + 1 = m /\ m - 1 \in Nat /\ ~(m <= m - 1) /\ m - 1 <= N + 1
      BY <1>2, <3>2
    <3>4. m - 1 <= card(m - 1)
      BY <3>1, <3>3
    <3>5. card(m - 1) + 1 <= card(m)
      BY <2>5, <3>3
    <3> QED BY <2>4, <3>2, <3>3, <3>4, <3>5
  <2>7. N + 1 \in Nat /\ N + 1 <= N + 1 /\ ~(N + 1 <= N)
    BY <1>2
  <2>8. N + 1 <= card(N + 1)
    BY <2>6, <2>7
  <2> QED BY <1>2, <2>4, <2>7, <2>8
<1> QED BY <1>1, <1>2, <1>4, <1>5 DEF N

\* The modules a file lies in, its own last; one's parent; a file's.
Chain(f)  == Prefixes(moduleOf[f])
Above(x)  == SubSeq(x, 1, Len(x) - 1)
Parent(f) == <<"Contains", moduleOf[f], <<f>> >>

AllModules == UNION {Chain(f) : f \in File}
Known      == AllModules \cup {p.fqn : p \in Placeholders}

RealModule(G, x) == IsKind(G, x, "Module") /\ ~G.nodes[x].planned

\* At a module's FQN stands a module, or what is planned there.
ModulesRight(G) == \A x \in DOMAIN G.nodes :
    /\ G.nodes[x].kind = "Module" => x \in Known
    /\ x \in AllModules => G.nodes[x].kind = "Module" \/ (G.nodes[x].planned /\ G.nodes[x].kind # "Language")

\* A file's modules, each in the one above; and every file in its own.
HasChain(G, f) == \A x \in Chain(f) :
    RealModule(G, x) /\ (Len(x) > 2 => <<"Contains", Above(x), x>> \in G.edges)
HasParents(G) == \A f \in File :
    <<f>> \in DOMAIN G.nodes /\ Chain(f) # {} => RealModule(G, moduleOf[f]) /\ Parent(f) \in G.edges

\* The same of what the store keeps.
UnitModules(u, f) ==
    /\ u.modules \subseteq Known
    /\ Chain(f) # {} => moduleOf[f] \in u.modules /\ Parent(f) \in u.edges
UnitsModules(units) == \A f \in File : \A c : <<f, c>> \in DOMAIN units => UnitModules(units[<<f, c>>], f)

ScaffoldingModules(s) == s.modules \subseteq Known /\ s.languages \cap AllModules = {}
Holds(s, f) == \A x \in Chain(f) : x \in s.modules /\ (Len(x) > 2 => <<Above(x), x>> \in s.edges)

StoreModules ==
    /\ UnitsModules(index.units)
    /\ \A l \in Language : ScaffoldingModules(index.scaffolding[l])

\* A scan has the modules of every language it walked, and once assembled of all.
JobModules(w) ==
    /\ "edges" \in DOMAIN job[w].graph
    /\ ModulesRight(job[w].graph) /\ HasParents(job[w].graph) /\ UnitsModules(job[w].held)
    /\ pc[w] = "assemble" /\ ~job[w].warm => \A f \in Sure(w) :
          job[w].targets = {} \/ (\E g \in job[w].targets : langOf[g] = langOf[f]) => HasChain(job[w].graph, f)
    /\ pc[w] \in Saving => \A f \in Sure(w) : HasChain(job[w].graph, f)

\* The scaffolding has those of the recorded files, and while a scan that nobody
\* saved over counts on it, of the files that scan will not emit or has saved.
Replays(f) == Holds(index.scaffolding[langOf[f]], f)
Recorded == AtRest /\ scan # None => \A f \in Stored : Replays(f)
CountsModules(w) ==
    /\ pc[w] \in {"emit", "assemble"} /\ ~job[w].full =>
         \A f \in Present(job[w].manifest) \ job[w].targets : langOf[f] \notin storeHurt => Replays(f)
    /\ MidSave(w) => \A f \in Sure(w) : Replays(f)

ModulesInv ==
    /\ DeclsInv /\ StoreModules /\ Recorded
    /\ \A w \in Worktree : JobModules(w) /\ (~torn[w] => CountsModules(w))

LEMMA ChainFacts ==
    ASSUME NEW f \in File, NEW x \in Chain(f)
    PROVE  /\ x \in AllModules /\ Deep(x) /\ x[1] = langOf[f]
           /\ Len(x) \in Nat /\ Len(x) > 1
           /\ Len(x) > 2 => Above(x) \in Chain(f)
           /\ moduleOf[f] \in Chain(f)
<1> DEFINE m == moduleOf[f]
<1>1. PICK n \in 2..Len(m) : x = SubSeq(m, 1, n)
  BY DEF Chain, Prefixes
<1>2. m \in Seq(STRING) /\ Len(m) \in Nat /\ m[1] = langOf[f]
  BY NamesAssumption, StoreAssumption, LenProperties
<1> HIDE DEF m
<1>3. n \in Nat /\ 2 <= n /\ n <= Len(m) /\ 1 \in 1..n /\ n - 1 \in 1..n
  BY <1>1, <1>2
<1>4. \A i \in 1..n : m[i] \in STRING
  BY <1>2, <1>3, LenProperties
<1>5. Len(x) = n /\ x[1] = m[1] /\ x \in Seq(STRING)
  BY <1>1, <1>3, <1>4, SubSeqProperties
<1>6. Deep(x)
  BY <1>3, <1>5, LongIsDeep
<1>7. ASSUME Len(x) > 2 PROVE Above(x) \in Chain(f)
  <2>1. Above(x) = SubSeq(SubSeq(m, 1, n), 1, n - 1)
    BY <1>1, <1>5 DEF Above
  <2>2. 1 \in 1..Len(m) /\ n \in 1..Len(m) /\ 1 \in 1..(n - 1 + 1) /\ n - 1 \in 1..(n - 1 + 1)
    BY <1>2, <1>3
  <2>3. SubSeq(SubSeq(m, 1, n), 1, n - 1) = SubSeq(m, 1 + 1 - 1, 1 + (n - 1) - 1)
    BY <1>2, <2>2, SubSeqOfSubSeq
  <2>4. 1 + 1 - 1 = 1 /\ 1 + (n - 1) - 1 = n - 1 /\ n - 1 \in 2..Len(m)
    BY <1>2, <1>3, <1>5, <1>7
  <2>5. Above(x) = SubSeq(m, 1, n - 1)
    BY <2>1, <2>3, <2>4
  <2> QED BY <2>4, <2>5 DEF Chain, Prefixes, m
<1>8. m \in Chain(f)
  <2>1. SubSeq(m, 1, Len(m)) = m
    BY <1>2, SubSeqFull
  <2>2. Len(m) \in 2..Len(m)
    BY <1>2, <1>3
  <2> QED BY <2>1, <2>2 DEF Chain, Prefixes, m
<1>9. x \in AllModules
  BY DEF AllModules
<1> QED BY <1>2, <1>3, <1>5, <1>6, <1>7, <1>8, <1>9 DEF m

\* What is neither a path, nor a declaration's, nor a foreign name, nor a root's.
LEMMA ModulesApart ==
    ASSUME OwnNames, NEW x \in AllModules
    PROVE  /\ \A y : x # <<y>>
           /\ x[1] # "?" /\ x[1] \notin File
           /\ NoName(x)
<1>1. PICK f \in File : x \in Chain(f)
  BY DEF AllModules
<1>2. Deep(x) /\ x[1] = langOf[f] /\ langOf[f] \in Language
  BY <1>1, ChainFacts, StoreAssumption
<1>3. \A y : x # <<y>>
  BY <1>2, DeepIsNoFile
<1>4. x[1] # "?" /\ x[1] \notin File
  BY <1>2, NamesAssumption
<1>5. NoName(x)
  BY <1>1 DEF NoName, OwnNames, Chain
<1> QED BY <1>3, <1>4, <1>5

\* Along a chain, from a file's own module up.
LEMMA ChainAscends ==
    ASSUME NEW f \in File, NEW X, moduleOf[f] \in X,
           \A x \in Chain(f) : x \in X /\ Len(x) > 2 => Above(x) \in X
    PROVE  Chain(f) \subseteq X
<1> DEFINE m == moduleOf[f]
           bad == {k \in Nat : k <= Len(m) - 2 /\ SubSeq(m, 1, Len(m) - k) \notin X}
           k0 == CHOOSE i \in bad : \A j \in bad : i <= j
<1>1. m \in Seq(STRING) /\ Len(m) \in Nat
  BY NamesAssumption, LenProperties
<1>2. SubSeq(m, 1, Len(m)) = m
  BY <1>1, SubSeqFull
<1> HIDE DEF m
<1>3. bad = {}
  <2> SUFFICES ASSUME bad # {} PROVE FALSE
    OBVIOUS
  <2>1. k0 \in bad /\ \A j \in bad : k0 <= j
    <3>1. bad \subseteq Nat
      OBVIOUS
    <3> HIDE DEF bad
    <3> QED BY <3>1, LeastOf
  <2> HIDE DEF k0
  <2>2. k0 \in Nat /\ k0 <= Len(m) - 2 /\ SubSeq(m, 1, Len(m) - k0) \notin X
    BY <2>1
  <2>3. k0 # 0
    <3>1. Len(m) - 0 = Len(m)
      BY <1>1
    <3> QED BY <1>2, <2>2, <3>1 DEF m
  <2> DEFINE n == Len(m) - (k0 - 1)
             y == SubSeq(m, 1, n)
  <2>4. /\ n \in Nat /\ n \in 3..Len(m) /\ n \in 2..Len(m) /\ n - 1 = Len(m) - k0
        /\ k0 - 1 \in Nat /\ ~(k0 <= k0 - 1) /\ k0 - 1 <= Len(m) - 2
    BY <1>1, <2>2, <2>3
  <2>5. y \in X
    BY <2>1, <2>4
  <2> HIDE DEF n
  <2>6. y \in Chain(f)
    BY <2>4 DEF Chain, Prefixes, m
  <2>7. Len(y) = n
    <3>1. \A i \in 1..n : m[i] \in STRING
      BY <1>1, <2>4, LenProperties
    <3>2. 1 <= n /\ n - 1 + 1 = n /\ n \in Int
      BY <2>4
    <3> QED BY <3>1, <3>2, SubSeqProperties
  <2>8. Len(y) > 2
    BY <2>4, <2>7
  <2>9. Above(y) = SubSeq(m, 1, n - 1)
    <3>1. Above(y) = SubSeq(SubSeq(m, 1, n), 1, n - 1)
      BY <2>7 DEF Above
    <3>2. 1 \in 1..Len(m) /\ n \in 1..Len(m) /\ 1 \in 1..(n - 1 + 1) /\ n - 1 \in 1..(n - 1 + 1)
      BY <1>1, <2>4
    <3>3. SubSeq(SubSeq(m, 1, n), 1, n - 1) = SubSeq(m, 1 + 1 - 1, 1 + (n - 1) - 1)
      BY <1>1, <3>2, SubSeqOfSubSeq
    <3>4. 1 + 1 - 1 = 1 /\ 1 + (n - 1) - 1 = n - 1
      BY <2>4
    <3> QED BY <3>1, <3>3, <3>4
  <2> HIDE DEF y
  <2>10. Above(y) \in X
    BY <2>5, <2>6, <2>8
  <2> QED BY <2>2, <2>4, <2>9, <2>10
<1>4. ASSUME NEW x \in Chain(f) PROVE x \in X
  <2>1. PICK n \in 2..Len(m) : x = SubSeq(m, 1, n)
    BY <1>4 DEF Chain, Prefixes, m
  <2>2. /\ Len(m) - n \in Nat /\ Len(m) - n <= Len(m) - 2
        /\ Len(m) - (Len(m) - n) = n
    BY <1>1, <2>1
  <2> QED BY <1>3, <2>1, <2>2
<1> QED BY <1>4

LEMMA KnownIsFinite == IsFiniteSet(Known)
<1>1. ASSUME NEW f \in File PROVE IsFiniteSet(Chain(f))
  <2> DEFINE I == 2..Len(moduleOf[f])
             h == [n \in I |-> SubSeq(moduleOf[f], 1, n)]
  <2>1. IsFiniteSet(I)
    <3>1. Len(moduleOf[f]) \in Nat
      BY NamesAssumption, LenProperties
    <3> QED BY <3>1, FS_Interval
  <2>2. h \in Surjection(I, Chain(f))
    BY DEF Surjection, Chain, Prefixes
  <2> HIDE DEF h, I
  <2> QED BY <2>1, <2>2, FS_Surjection
<1>2. IsFiniteSet({Chain(f) : f \in File})
  <2> DEFINE C == {Chain(f) : f \in File}
             h == [f \in File |-> Chain(f)]
  <2>1. h \in Surjection(File, C)
    BY DEF Surjection
  <2> HIDE DEF h, C
  <2>2. IsFiniteSet(C)
    BY <2>1, FilesAreFinite, FS_Surjection
  <2> QED BY <2>2 DEF C
<1>3. IsFiniteSet(AllModules)
  BY <1>1, <1>2, FS_UNION DEF AllModules
<1>4. IsFiniteSet({p.fqn : p \in Placeholders})
  <2> DEFINE C == {p.fqn : p \in Placeholders}
             h == [p \in Placeholders |-> p.fqn]
  <2>1. h \in Surjection(Placeholders, C)
    BY DEF Surjection
  <2> HIDE DEF h, C
  <2>2. IsFiniteSet(C)
    BY <2>1, NamesAssumption, FS_Surjection
  <2> QED BY <2>2 DEF C
<1> QED BY <1>3, <1>4, FS_Union DEF Known

\* What a declared module is declared as.
LEMMA DeclaredModule ==
    ASSUME OwnNames, NEW T \in Trees, NEW files, files \subseteq Present(T), NEW x, NEW n, DeclaredAs(x, n, T, files)
    PROVE  /\ x \in AllModules => n = Bare("Module")
           /\ n.kind = "Module" => \E g \in Present(T) : x \in Chain(g)
           /\ ~n.planned
<1>1. \A f \in files : f \in Present(T) /\ f \in File /\ T[f] \in Contents(f)
  BY ContentsOfTrees
<1>2. CASE \E f \in files : <<x, n>> \in Names(f, T[f])
  <2>1. PICK f \in files : <<x, n>> \in Names(f, T[f])
    BY <1>2
  <2> DEFINE p == <<x, n>>
  <2>2. p \in Names(f, T[f]) /\ p[1] = x /\ p[2] = n
    BY <2>1
  <2> HIDE DEF p
  <2>3. ~NoName(x)
    BY <1>1, <2>2 DEF NoName
  <2>4. n.kind \in {"Struct", "Function"} /\ ~n.planned
    BY <1>1, <2>2, NamesAreDeclarations DEF IsDeclaration
  <2> QED BY <2>3, <2>4, ModulesApart
<1>3. CASE n = Bare("Module") /\ \E g \in Present(T) : x \in Prefixes(moduleOf[g])
  BY <1>3, FieldsOfANode DEF Chain
<1>4. CASE n = Bare("Language") /\ \E l \in Language : x = <<l>>
  BY <1>4, ModulesApart, FieldsOfANode
<1>5. CASE \E f \in files : x = <<f>> /\ n = FileRow(f, T)
  BY <1>5, ModulesApart, FieldsOfANode DEF FileRow
<1> QED BY <1>2, <1>3, <1>4, <1>5 DEF DeclaredAs

\* The modules of what a pass over some languages and files emits.
LEMMA IngestedModules ==
    ASSUME OwnNames, NEW T \in Trees, NEW spools, OfTree(spools, T),
           NEW G, G = Ingested(Joined(spools))
    PROVE  /\ ModulesRight(G) /\ HasParents(G)
           /\ \A f \in Present(T) : langOf[f] \in DOMAIN spools => HasChain(G, f)
<1> DEFINE S == Joined(spools)
           files == {r.path : r \in S.files}
           All(field) == UNION {spools[l][field] : l \in DOMAIN spools}
<1>1. /\ S.modules = All("modules") /\ S.moduleEdges = All("moduleEdges") /\ S.files = All("files")
  BY DEF Joined, EmptyStream
<1>2. /\ TreeStream(S, T, files) /\ Modest(S, T) /\ S.planned = Placeholders /\ files \subseteq Present(T)
      /\ S.files = {[path |-> f, parent |-> moduleOf[f], body |-> T[f]] : f \in files}
      /\ \A x \in S.unresolved : x[1] = "?"
  <2>1. TreeStream(S, T, files)
    BY JoinedIsOfTree
  <2>2. Modest(S, T)
    BY JoinedIsModest DEF OfTree
  <2> HIDE DEF S, files
  <2> QED BY <2>1, <2>2 DEF TreeStream, FactsOf
<1>3. /\ \A x \in DOMAIN DeclaredNodes(S) : DeclaredAs(x, DeclaredNodes(S)[x], T, files)
      /\ Shadowed(S) = {} /\ \A m \in S.modules : m[2] \in DOMAIN DeclaredNodes(S)
  BY <1>2, DeclaredOfTree
<1>4. \A f \in Present(T) : f \in File /\ langOf[f] \in Language
  BY LanguagesOfFiles DEF Present
<1>5. /\ \A x \in DOMAIN DeclaredNodes(S) : x \in DOMAIN G.nodes /\ G.nodes[x] = DeclaredNodes(S)[x]
      /\ \A x \in DOMAIN G.nodes \ DOMAIN DeclaredNodes(S) :
            \/ \E p \in Placeholders : x = p.fqn /\ G.nodes[x] = Planned(p.kind)
            \/ x \in S.unresolved /\ G.nodes[x] = Bare("Unresolved")
  BY <1>2, IngestedAre
<1>6. G.edges = DerivedEdges(S, [nodes |-> IngestedNodes(S), edges |-> {}]) \cup StreamEdges(S)
      /\ G.nodes = IngestedNodes(S)
  BY DEF Ingested, WithEdges
<1>7. ASSUME NEW f \in File, <<f>> \in DOMAIN G.nodes PROVE f \in files
  BY <1>2, <1>7, IngestedFiles
<1>8. ASSUME NEW f \in Present(T), langOf[f] \in DOMAIN spools, NEW x \in Chain(f)
      PROVE  /\ <<langOf[f], x>> \in S.modules
             /\ Len(x) > 2 => <<Above(x), x>> \in S.moduleEdges
  <2> DEFINE l == langOf[f]
             walked == {g \in Present(T) : langOf[g] = l}
             modules == UNION {Prefixes(moduleOf[g]) : g \in walked}
  <2>1. PICK emitted : spools[l] = Stream(T, l, emitted)
    BY <1>8 DEF OfTree
  <2>2. x \in modules
    BY <1>8 DEF Chain
  <2>3. /\ spools[l].modules = {<<l, m>> : m \in modules}
        /\ spools[l].moduleEdges = {<<SubSeq(m, 1, Len(m) - 1), m>> : m \in {y \in modules : Len(y) > 2}}
    BY <2>1 DEF Stream, Spool
  <2>4. spools[l].modules \subseteq S.modules /\ spools[l].moduleEdges \subseteq S.moduleEdges
    BY <1>1, <1>8
  <2> HIDE DEF modules, S
  <2>5. <<l, x>> \in spools[l].modules
    BY <2>2, <2>3
  <2>6. Len(x) > 2 => <<Above(x), x>> \in spools[l].moduleEdges
    BY <2>2, <2>3 DEF Above
  <2> QED BY <2>4, <2>5, <2>6
<1>9. ASSUME NEW f \in Present(T), NEW x \in Chain(f), <<langOf[f], x>> \in S.modules
      PROVE  RealModule(G, x)
  <2> DEFINE m == <<langOf[f], x>>
  <2>1. m \in S.modules /\ m[2] = x
    BY <1>9
  <2> HIDE DEF m, S
  <2>2. x \in DOMAIN DeclaredNodes(S)
    BY <1>3, <2>1
  <2>3. x \in AllModules
    BY <1>4, <1>9, ChainFacts
  <2>4. DeclaredNodes(S)[x] = Bare("Module")
    BY <1>2, <1>3, <2>2, <2>3, DeclaredModule
  <2> QED BY <1>5, <2>2, <2>4, FieldsOfANode DEF RealModule, IsKind
<1>10. ASSUME NEW f \in Present(T), langOf[f] \in DOMAIN spools PROVE HasChain(G, f)
  <2> SUFFICES ASSUME NEW x \in Chain(f)
               PROVE  RealModule(G, x) /\ (Len(x) > 2 => <<"Contains", Above(x), x>> \in G.edges)
    BY DEF HasChain
  <2>1. RealModule(G, x)
    BY <1>8, <1>9, <1>10
  <2>2. ASSUME Len(x) > 2 PROVE <<"Contains", Above(x), x>> \in G.edges
    <3> DEFINE e == <<Above(x), x>>
    <3>1. e \in S.moduleEdges /\ e[1] = Above(x) /\ e[2] = x /\ e[1] \notin Shadowed(S)
      BY <1>3, <1>8, <1>10, <2>2
    <3> HIDE DEF e, S
    <3>2. <<"Contains", e[1], e[2]>> \in StreamEdges(S)
      BY <3>1 DEF StreamEdges
    <3> QED BY <1>6, <3>1, <3>2
  <2> QED BY <2>1, <2>2
<1>11. ASSUME NEW f \in File, <<f>> \in DOMAIN G.nodes, Chain(f) # {}
       PROVE  RealModule(G, moduleOf[f]) /\ Parent(f) \in G.edges
  <2>1. f \in files /\ f \in Present(T) /\ moduleOf[f] \in Chain(f)
    BY <1>2, <1>7, <1>11, ChainFacts
  <2>2. langOf[f] \in DOMAIN spools
    <3> DEFINE r == [path |-> f, parent |-> moduleOf[f], body |-> T[f]]
    <3>1. r \in S.files /\ r.path = f
      BY <1>2, <2>1
    <3> HIDE DEF r, S
    <3>2. PICK l \in DOMAIN spools : r \in spools[l].files
      BY <1>1, <3>1
    <3>3. PICK emitted : spools[l] = Stream(T, l, emitted)
      BY DEF OfTree
    <3>4. spools[l].files = {[path |-> g, parent |-> moduleOf[g], body |-> T[g]] :
                                g \in {g \in Present(T) : langOf[g] = l} \cap emitted}
      BY <3>3 DEF Stream, Spool
    <3> QED BY <3>1, <3>2, <3>4
  <2>3. RealModule(G, moduleOf[f])
    BY <1>8, <1>9, <2>1, <2>2
  <2>4. Parent(f) \in G.edges
    <3> DEFINE r == [path |-> f, parent |-> moduleOf[f], body |-> T[f]]
               G0 == [nodes |-> IngestedNodes(S), edges |-> {}]
    <3>1. r \in S.files /\ r.path = f /\ r.parent = moduleOf[f]
      BY <1>2, <2>1
    <3>2. IsKind(G0, r.parent, "Module")
      BY <1>6, <2>3 DEF RealModule, IsKind
    <3> HIDE DEF r, S, G0
    <3>3. <<"Contains", r.parent, <<r.path>> >> \in DerivedEdges(S, G0)
      BY <3>1, <3>2 DEF DerivedEdges
    <3> QED BY <1>6, <3>1, <3>3 DEF Parent, G0
  <2> QED BY <2>3, <2>4
<1> HIDE DEF S, files
<1>12. ASSUME NEW x \in DOMAIN G.nodes
       PROVE  /\ G.nodes[x].kind = "Module" => x \in Known
              /\ x \in AllModules =>
                    G.nodes[x].kind = "Module" \/ (G.nodes[x].planned /\ G.nodes[x].kind # "Language")
  <2>1. CASE x \in DOMAIN DeclaredNodes(S)
    <3>1. DeclaredAs(x, G.nodes[x], T, files)
      BY <1>3, <1>5, <2>1
    <3>2. /\ x \in AllModules => G.nodes[x] = Bare("Module")
          /\ G.nodes[x].kind = "Module" => \E g \in Present(T) : x \in Chain(g)
      BY <1>2, <3>1, DeclaredModule
    <3> QED BY <1>4, <3>2, ChainFacts, FieldsOfANode DEF Known
  <2>2. CASE \E p \in Placeholders : x = p.fqn /\ G.nodes[x] = Planned(p.kind)
    <3>1. PICK p \in Placeholders : x = p.fqn /\ G.nodes[x] = Planned(p.kind)
      BY <2>2
    <3>2. G.nodes[x].kind = p.kind /\ G.nodes[x].planned /\ p.kind # "Language"
      BY <3>1, FieldsOfANode, NamesAssumption
    <3> QED BY <3>1, <3>2 DEF Known
  <2>3. CASE x \in S.unresolved /\ G.nodes[x] = Bare("Unresolved")
    <3>1. x[1] = "?" /\ G.nodes[x].kind = "Unresolved"
      BY <1>2, <2>3, FieldsOfANode
    <3> QED BY <3>1, ModulesApart
  <2> QED BY <1>5, <2>1, <2>2, <2>3
<1> QED BY <1>10, <1>11, <1>12 DEF ModulesRight, HasParents

\* A splice of cached units and of scaffolding adds no other node at a module's
\* FQN; it keeps the modules there are, and brings those it replays.
LEMMA SplicedModules ==
    ASSUME OwnNames, NEW T \in Trees, NEW G, ModulesRight(G), HasParents(G),
           NEW units, UnitsOf(units, T), \A i \in DOMAIN units : UnitModules(units[i], pathOrder[i]),
           NEW scaffolding, \A s \in scaffolding : ScaffoldingRight(s) /\ ScaffoldingModules(s),
           NEW H, H = WithCached(G, units, scaffolding)
    PROVE  /\ ModulesRight(H) /\ HasParents(H)
           /\ \A f \in File : HasChain(G, f) => HasChain(H, f)
           /\ \A s \in scaffolding : \A f \in File : Holds(s, f) => HasChain(H, f)
<1> DEFINE merged  == MergedNodes(G.nodes, units)
           modules == (UNION {units[i].modules : i \in DOMAIN units})
                        \cup (UNION {s.modules : s \in scaffolding})
           roots   == UNION {s.languages : s \in scaffolding}
           nodes   == WithModules(merged, modules, roots)
           replay  == {<<"Contains", e[1], e[2]>> :
                          e \in UNION {s.edges \cup s.languageEdges : s \in scaffolding}}
           cached  == {e \in UNION {units[i].edges : i \in DOMAIN units} :
                          e[2] \in DOMAIN nodes /\ e[3] \in DOMAIN nodes}
           W       == [nodes |-> nodes, edges |-> G.edges \cup replay \cup cached]
<1>1. H = Resolved(W)
  BY DEF WithCached
<1>2. ASSUME NEW i \in DOMAIN units, NEW x \in DOMAIN units[i].nodes
      PROVE  units[i].nodes[x].kind # "Module" /\ x \notin AllModules
  <2> DEFINE f == pathOrder[i]
             u == units[i]
  <2>1. /\ UnitRight(u, f, T[f]) /\ UnitTells(u, f, T[f]) /\ f \in File
    BY DEF UnitsOf, Present
  <2> HIDE DEF f, u
  <2>2. CASE x = <<f>>
    BY <2>1, <2>2, ModulesApart, FieldsOfANode DEF UnitRight, u
  <2>3. CASE x # <<f>>
    <3>1. u.nodes[x].kind \in {"Struct", "Function", "Unresolved"} /\ RightNode(x, u.nodes[x])
      BY <1>2, <2>1, <2>3 DEF UnitTells, u
    <3>2. CASE u.nodes[x].kind = "Unresolved"
      BY <3>1, <3>2, ModulesApart DEF RightNode, u
    <3>3. CASE u.nodes[x].kind \in {"Struct", "Function"}
      <4> DEFINE p == <<x, u.nodes[x]>>
      <4>1. p \in Names(f, T[f]) /\ p[1] = x /\ T[f] \in Contents(f)
        BY <1>2, <2>1, <3>3 DEF UnitTells, u
      <4> HIDE DEF p
      <4>2. ~NoName(x)
        BY <2>1, <4>1 DEF NoName
      <4> QED BY <3>3, <4>2, ModulesApart DEF u
    <3> QED BY <3>1, <3>2, <3>3
  <2> QED BY <2>2, <2>3
<1>3. /\ DOMAIN merged = DOMAIN G.nodes \cup UNION {DOMAIN units[i].nodes : i \in DOMAIN units}
      /\ \A x \in DOMAIN merged : \/ x \in DOMAIN G.nodes /\ merged[x] = G.nodes[x]
                                  \/ /\ \E i \in DOMAIN units : x \in DOMAIN units[i].nodes
                                     /\ merged[x] = CachedNode(units, x)
  BY DEF MergedNodes
<1>4. ASSUME NEW x \in DOMAIN merged
      PROVE  /\ merged[x].kind = "Module" => x \in Known
             /\ x \in AllModules => x \in DOMAIN G.nodes /\ merged[x] = G.nodes[x]
  <2>1. CASE x \in DOMAIN G.nodes /\ merged[x] = G.nodes[x]
    BY <2>1 DEF ModulesRight
  <2>2. CASE (\E i \in DOMAIN units : x \in DOMAIN units[i].nodes) /\ merged[x] = CachedNode(units, x)
    <3>1. PICK i \in DOMAIN units : x \in DOMAIN units[i].nodes
      BY <2>2
    <3>2. DOMAIN units \subseteq Nat
      BY DEF UnitsOf
    <3>3. PICK j \in DOMAIN units : x \in DOMAIN units[j].nodes /\ CachedNode(units, x) = units[j].nodes[x]
      BY <3>1, <3>2, CachedNodeIsCached
    <3> QED BY <1>2, <2>2, <3>3
  <2> QED BY <1>3, <2>1, <2>2
<1>5. modules \subseteq Known /\ roots \cap AllModules = {}
  BY DEF UnitModules, ScaffoldingModules
<1>6. \A f \in File : <<f>> \notin modules \cup roots
  <2>1. \A f \in File : <<f>> \in FileFqns
    BY DEF FileFqns
  <2>2. \A i \in DOMAIN units : units[i].modules \cap FileFqns = {}
    BY DEF UnitsOf, UnitRight
  <2>3. \A s \in scaffolding : s.modules \cap FileFqns = {} /\ s.languages \cap FileFqns = {}
    BY DEF ScaffoldingRight
  <2>4. (modules \cup roots) \cap FileFqns = {}
    BY <2>2, <2>3
  <2> HIDE DEF modules, roots
  <2> QED BY <2>1, <2>4
<1>7. /\ \A i \in DOMAIN units : units[i].modules \subseteq modules
      /\ \A s \in scaffolding : s.modules \subseteq modules
      /\ \A s \in scaffolding : \A e \in s.edges : <<"Contains", e[1], e[2]>> \in replay
  OBVIOUS
<1> HIDE DEF merged, modules, roots
<1>8. /\ DOMAIN nodes = DOMAIN merged \cup modules \cup roots
      /\ \A x \in DOMAIN nodes :
            \/ x \in DOMAIN merged /\ nodes[x] = merged[x]
            \/ x \in modules /\ nodes[x] = Bare("Module")
            \/ x \in roots /\ nodes[x] = Bare("Language")
      /\ \A x \in DOMAIN merged : ~merged[x].planned => nodes[x] = merged[x]
      /\ \A x \in modules : (x \notin DOMAIN merged \/ merged[x].planned) => nodes[x] = Bare("Module")
  BY DEF WithModules
<1>9. W.nodes = nodes /\ W.edges = G.edges \cup replay \cup cached
  OBVIOUS
<1>10. \A i \in DOMAIN units : \A e \in units[i].edges :
          e[2] \in DOMAIN nodes /\ e[3] \in DOMAIN nodes => e \in cached
  OBVIOUS
<1> HIDE DEF nodes, replay, cached, W
<1>11. ModulesRight(W)
  <2> SUFFICES ASSUME NEW x \in DOMAIN nodes
               PROVE  /\ nodes[x].kind = "Module" => x \in Known
                      /\ x \in AllModules =>
                            nodes[x].kind = "Module" \/ (nodes[x].planned /\ nodes[x].kind # "Language")
    BY <1>9 DEF ModulesRight
  <2>1. CASE x \in DOMAIN merged /\ nodes[x] = merged[x]
    BY <1>4, <2>1 DEF ModulesRight
  <2>2. CASE x \in modules /\ nodes[x] = Bare("Module")
    BY <1>5, <2>2, FieldsOfANode
  <2>3. CASE x \in roots /\ nodes[x] = Bare("Language")
    BY <1>5, <2>3, FieldsOfANode
  <2> QED BY <1>8, <2>1, <2>2, <2>3
<1>12. ASSUME NEW x \in AllModules, RealModule(G, x) \/ x \in modules
       PROVE  RealModule(W, x)
  <2>1. CASE x \in DOMAIN merged /\ ~merged[x].planned
    <3>1. merged[x] = G.nodes[x] /\ x \in DOMAIN G.nodes
      BY <1>4, <2>1
    <3>2. merged[x].kind = "Module"
      BY <1>12, <2>1, <3>1 DEF ModulesRight
    <3> QED BY <1>8, <1>9, <2>1, <3>2 DEF RealModule, IsKind
  <2>2. CASE ~(x \in DOMAIN merged /\ ~merged[x].planned)
    <3>1. x \in modules
      <4>1. RealModule(G, x) => x \in DOMAIN merged /\ ~merged[x].planned
        BY <1>3, <1>4 DEF RealModule, IsKind
      <4> QED BY <1>12, <2>2, <4>1
    <3>2. nodes[x] = Bare("Module") /\ x \in DOMAIN nodes
      BY <1>8, <2>2, <3>1
    <3> QED BY <1>9, <3>2, FieldsOfANode DEF RealModule, IsKind
  <2> QED BY <2>1, <2>2
<1>13. /\ DOMAIN H.nodes \subseteq DOMAIN W.nodes
       /\ \A x \in DOMAIN H.nodes : H.nodes[x] = W.nodes[x]
       /\ \A x \in DOMAIN W.nodes : W.nodes[x].kind # "Unresolved" => x \in DOMAIN H.nodes
       /\ \A e \in W.edges : e[1] = "Contains" => e \in H.edges
  BY <1>1, ResolvedKeeps
<1>14. ModulesRight(H)
  BY <1>11, <1>13 DEF ModulesRight
<1>15. \A x : RealModule(W, x) => RealModule(H, x)
  BY <1>13 DEF RealModule, IsKind
<1>16. \A x, y : <<"Contains", x, y>> \in W.edges => <<"Contains", x, y>> \in H.edges
  BY <1>13
<1>17. ASSUME NEW f \in File,
              \A x \in Chain(f) : /\ RealModule(W, x)
                                  /\ Len(x) > 2 => <<"Contains", Above(x), x>> \in W.edges
       PROVE  HasChain(H, f)
  BY <1>15, <1>16, <1>17 DEF HasChain
<1>18. ASSUME NEW f \in File, HasChain(G, f) PROVE HasChain(H, f)
  <2>1. ASSUME NEW x \in Chain(f)
        PROVE  RealModule(W, x) /\ (Len(x) > 2 => <<"Contains", Above(x), x>> \in W.edges)
    <3>1. RealModule(G, x) /\ (Len(x) > 2 => <<"Contains", Above(x), x>> \in G.edges)
      BY <1>18, <2>1 DEF HasChain
    <3>2. x \in AllModules
      BY <2>1, ChainFacts
    <3> QED BY <1>9, <1>12, <3>1, <3>2
  <2> QED BY <1>17, <2>1
<1>19. ASSUME NEW s \in scaffolding, NEW f \in File, Holds(s, f) PROVE HasChain(H, f)
  <2>1. ASSUME NEW x \in Chain(f)
        PROVE  RealModule(W, x) /\ (Len(x) > 2 => <<"Contains", Above(x), x>> \in W.edges)
    <3>1. x \in s.modules /\ (Len(x) > 2 => <<Above(x), x>> \in s.edges)
      BY <1>19, <2>1 DEF Holds
    <3>2. x \in AllModules /\ x \in modules
      BY <1>7, <2>1, <3>1, ChainFacts
    <3>3. ASSUME Len(x) > 2 PROVE <<"Contains", Above(x), x>> \in W.edges
      <4> DEFINE e == <<Above(x), x>>
      <4>1. e \in s.edges /\ e[1] = Above(x) /\ e[2] = x
        BY <3>1, <3>3
      <4> HIDE DEF e
      <4>2. <<"Contains", e[1], e[2]>> \in replay
        BY <1>7, <4>1
      <4> QED BY <1>9, <4>1, <4>2
    <3> QED BY <1>12, <3>2, <3>3
  <2> QED BY <1>17, <2>1
<1>20. ASSUME NEW f \in File, <<f>> \in DOMAIN H.nodes, Chain(f) # {}
       PROVE  RealModule(H, moduleOf[f]) /\ Parent(f) \in H.edges
  <2>1. moduleOf[f] \in AllModules
    BY <1>20, ChainFacts
  <2>2. <<f>> \in DOMAIN merged
    BY <1>6, <1>8, <1>9, <1>13, <1>20
  <2>3. RealModule(W, moduleOf[f]) /\ Parent(f) \in W.edges
    <3>1. CASE <<f>> \in DOMAIN G.nodes
      <4>1. RealModule(G, moduleOf[f]) /\ Parent(f) \in G.edges
        BY <1>20, <3>1 DEF HasParents
      <4> QED BY <1>9, <1>12, <2>1, <4>1
    <3>2. CASE <<f>> \notin DOMAIN G.nodes
      <4>1. PICK i \in DOMAIN units : <<f>> \in DOMAIN units[i].nodes
        BY <1>3, <2>2, <3>2
      <4>2. pathOrder[i] = f
        BY <4>1 DEF UnitsOf, UnitRight
      <4>3. moduleOf[f] \in units[i].modules /\ Parent(f) \in units[i].edges
        BY <1>20, <4>2 DEF UnitModules
      <4>4. RealModule(W, moduleOf[f])
        BY <1>7, <1>12, <2>1, <4>3
      <4>5. Parent(f)[2] = moduleOf[f] /\ Parent(f)[3] = <<f>>
        BY DEF Parent
      <4>6. <<f>> \in DOMAIN nodes /\ moduleOf[f] \in DOMAIN nodes
        BY <1>8, <1>9, <2>2, <4>4 DEF RealModule, IsKind
      <4>7. Parent(f) \in cached
        BY <1>10, <4>3, <4>5, <4>6
      <4> QED BY <1>9, <4>4, <4>7
    <3> QED BY <3>1, <3>2
  <2> QED BY <1>15, <1>16, <2>3 DEF Parent
<1>21. HasParents(H)
  BY <1>20 DEF HasParents
<1> QED BY <1>14, <1>18, <1>19, <1>21

\* What is finalized keeps them.
LEMMA FinalizedModules ==
    ASSUME OwnNames, NEW T, NEW G, "edges" \in DOMAIN G, ModulesRight(G), HasParents(G),
           NEW H, H = Finalized(G), ShowsFiles(H, T)
    PROVE  /\ ModulesRight(H) /\ HasParents(H)
           /\ \A f \in File : HasChain(G, f) => HasChain(H, f)
<1>1. /\ H.nodes = G.nodes
      /\ \A e \in G.edges : /\ e[2] \in DOMAIN G.nodes /\ e[3] \in DOMAIN G.nodes
                            /\ ValidPair(e[1], G.nodes[e[2]].kind, G.nodes[e[3]].kind)
                            => e \in H.edges
  BY FinalizedNodes DEF Finalized
<1>2. ModulesRight(H) /\ \A x : RealModule(G, x) => RealModule(H, x)
  BY <1>1 DEF ModulesRight, RealModule, IsKind
<1>3. /\ ValidPair("Contains", "Module", "Module") /\ ValidPair("Contains", "Module", "File")
  BY DEF ValidPair
<1>4. ASSUME NEW x, NEW y, RealModule(H, x), NEW kind \in {"Module", "File"},
             y \in DOMAIN H.nodes, H.nodes[y].kind = kind, <<"Contains", x, y>> \in G.edges
      PROVE  <<"Contains", x, y>> \in H.edges
  <2> DEFINE e == <<"Contains", x, y>>
  <2>1. e[1] = "Contains" /\ e[2] = x /\ e[3] = y /\ e \in G.edges
    BY <1>4
  <2> HIDE DEF e
  <2>2. ValidPair(e[1], G.nodes[e[2]].kind, G.nodes[e[3]].kind)
    BY <1>1, <1>3, <1>4, <2>1 DEF RealModule, IsKind
  <2>3. e[2] \in DOMAIN G.nodes /\ e[3] \in DOMAIN G.nodes
    BY <1>1, <1>4, <2>1 DEF RealModule, IsKind
  <2>4. e \in H.edges
    BY <1>1, <2>1, <2>2, <2>3
  <2> QED BY <2>4 DEF e
<1>5. ASSUME NEW f \in File, HasChain(G, f) PROVE HasChain(H, f)
  <2> SUFFICES ASSUME NEW x \in Chain(f)
               PROVE  RealModule(H, x) /\ (Len(x) > 2 => <<"Contains", Above(x), x>> \in H.edges)
    BY DEF HasChain
  <2>1. RealModule(H, x)
    BY <1>2, <1>5 DEF HasChain
  <2>2. ASSUME Len(x) > 2 PROVE <<"Contains", Above(x), x>> \in H.edges
    <3>1. RealModule(H, Above(x))
      BY <1>2, <1>5, <2>2, ChainFacts DEF HasChain
    <3>2. <<"Contains", Above(x), x>> \in G.edges
      BY <1>5, <2>2 DEF HasChain
    <3> QED BY <1>4, <2>1, <3>1, <3>2 DEF RealModule, IsKind
  <2> QED BY <2>1, <2>2
<1>6. ASSUME NEW f \in File, <<f>> \in DOMAIN H.nodes, Chain(f) # {}
      PROVE  RealModule(H, moduleOf[f]) /\ Parent(f) \in H.edges
  <2>1. H.nodes[<<f>>].kind = "File"
    BY <1>6, FieldsOfANode DEF ShowsFiles, FileRow
  <2>2. RealModule(H, moduleOf[f]) /\ Parent(f) \in G.edges
    BY <1>1, <1>2, <1>6 DEF HasParents
  <2> QED BY <1>4, <1>6, <2>1, <2>2 DEF Parent
<1> QED BY <1>2, <1>5, <1>6 DEF HasParents

LEMMA UnitOfModules ==
    ASSUME NEW T, NEW G, ModulesRight(G), HasParents(G), NEW f \in File, <<f>> \in DOMAIN G.nodes
    PROVE  UnitModules(UnitOf(G, f), f)
<1> DEFINE modules == ModuleEdgesOf(G, f)
           u == UnitOf(G, f)
<1>1. u.modules = {e[2] : e \in modules} /\ modules \subseteq u.edges
  BY DEF UnitOf
<1>2. \A e \in modules : e[2] \in Known
  BY DEF ModuleEdgesOf, IsKind, ModulesRight
<1>3. ASSUME Chain(f) # {} PROVE Parent(f) \in modules /\ Parent(f)[2] = moduleOf[f]
  <2>1. RealModule(G, moduleOf[f]) /\ Parent(f) \in G.edges
    BY <1>3 DEF HasParents
  <2>2. Parent(f)[1] = "Contains" /\ Parent(f)[2] = moduleOf[f] /\ Parent(f)[3] = <<f>>
    BY DEF Parent
  <2>3. Parent(f) \in modules
    BY <2>1, <2>2 DEF ModuleEdgesOf, RealModule
  <2> QED BY <2>2, <2>3
<1> HIDE DEF modules, u
<1>4. Chain(f) # {} => moduleOf[f] \in u.modules /\ Parent(f) \in u.edges
  BY <1>1, <1>3
<1>5. u.modules \subseteq Known
  BY <1>1, <1>2
<1> QED BY <1>4, <1>5 DEF UnitModules, u

\* The scaffolding of a language has every module of each of its files: what the
\* file's own module is linked to, up or down, is finite, so the walk covers it.
LEMMA ScaffoldingOfModules ==
    ASSUME OwnNames, NEW T, NEW G, ModulesRight(G), HasParents(G), ShowsFiles(G, T), NEW l
    PROVE  LET s == ScaffoldingOf(G, l, langOf)
           IN  /\ ScaffoldingModules(s)
               /\ \A f \in File : langOf[f] = l /\ <<f>> \in DOMAIN G.nodes /\ HasChain(G, f) => Holds(s, f)
<1> DEFINE s == ScaffoldingOf(G, l, langOf)
           real == {x \in DOMAIN G.nodes : IsKind(G, x, "Module") /\ ~G.nodes[x].planned}
           hierarchy == {e \in Edges(G, "Contains") : e[1] \in real /\ e[2] \in real}
           R == hierarchy \cup {<<e[2], e[1]>> : e \in hierarchy}
           anchored == {e[1] : e \in {x \in Edges(G, "Contains") :
                           x[1] \in real /\ IsKind(G, x[2], "File") /\ langOf[x[2][1]] = l}}
           modules == real \cap Reach(R, anchored)
<1>1. /\ s.modules = modules /\ s.edges = {e \in hierarchy : e[1] \in modules}
      /\ \A x \in s.languages : IsKind(G, x, "Language")
  BY DEF ScaffoldingOf
<1>2. real \subseteq Known /\ \A x : x \in real <=> RealModule(G, x)
  BY DEF IsKind, ModulesRight, RealModule
<1>3. s.languages \cap AllModules = {}
  BY <1>1 DEF IsKind, ModulesRight
<1>4. \A x, y : <<"Contains", x, y>> \in G.edges => <<x, y>> \in Edges(G, "Contains")
  <2> SUFFICES ASSUME NEW x, NEW y, <<"Contains", x, y>> \in G.edges PROVE <<x, y>> \in Edges(G, "Contains")
    OBVIOUS
  <2> DEFINE e == <<"Contains", x, y>>
  <2>1. e \in {z \in G.edges : z[1] = "Contains"} /\ <<e[2], e[3]>> = <<x, y>>
    OBVIOUS
  <2> HIDE DEF e
  <2>2. <<e[2], e[3]>> \in Edges(G, "Contains")
    BY <2>1 DEF Edges
  <2> QED BY <2>1, <2>2
<1>5. IsFiniteSet(R)
  <2>1. IsFiniteSet(Known \X Known)
    BY KnownIsFinite, FS_Product
  <2>2. R \subseteq Known \X Known
    <3>1. \A e \in Edges(G, "Contains") : e = <<e[1], e[2]>>
      BY DEF Edges
    <3>2. \A e \in hierarchy : e = <<e[1], e[2]>> /\ e[1] \in Known /\ e[2] \in Known
      BY <1>2, <3>1
    <3> HIDE DEF hierarchy
    <3> QED BY <3>2
  <2> HIDE DEF R
  <2> QED BY <2>1, <2>2, FS_Subset
<1>6. /\ \A x, y : <<x, y>> \in hierarchy => <<x, y>> \in R /\ <<y, x>> \in R
      /\ \A x, y : <<x, y>> \in Edges(G, "Contains") /\ x \in real /\ y \in real => <<x, y>> \in hierarchy
      /\ \A x, y : <<x, y>> \in Edges(G, "Contains") /\ x \in real /\ IsKind(G, y, "File") /\ langOf[y[1]] = l
                    => x \in anchored
  <2> HIDE DEF real
  <2>1. ASSUME NEW x, NEW y, <<x, y>> \in hierarchy PROVE <<x, y>> \in R /\ <<y, x>> \in R
    <3> DEFINE e == <<x, y>>
    <3>1. e \in hierarchy /\ e[1] = x /\ e[2] = y
      BY <2>1
    <3> HIDE DEF hierarchy, e
    <3>2. <<e[2], e[1]>> \in R
      BY <3>1
    <3> HIDE DEF R
    <3>3. <<y, x>> \in R
      BY <3>1, <3>2
    <3>4. <<x, y>> \in R
      BY <2>1 DEF R
    <3> QED BY <3>3, <3>4
  <2>2. \A x, y : <<x, y>> \in Edges(G, "Contains") /\ x \in real /\ y \in real => <<x, y>> \in hierarchy
    OBVIOUS
  <2>3. ASSUME NEW x, NEW y, <<x, y>> \in Edges(G, "Contains"), x \in real,
               IsKind(G, y, "File"), langOf[y[1]] = l
        PROVE  x \in anchored
    <3> DEFINE e == <<x, y>>
    <3>1. e \in Edges(G, "Contains") /\ e[1] = x /\ e[2] = y
      BY <2>3
    <3> HIDE DEF e
    <3> QED BY <2>3, <3>1
  <2> HIDE DEF hierarchy, R, anchored
  <2> QED BY <2>1, <2>2, <2>3
<1> HIDE DEF s, real, hierarchy, R, anchored
<1>7. /\ anchored \subseteq Reach(R, anchored)
      /\ \A x, y : <<x, y>> \in R /\ x \in Reach(R, anchored) => y \in Reach(R, anchored)
  <2>1. /\ anchored \subseteq Reach(R, anchored)
        /\ \A p \in R : p[1] \in Reach(R, anchored) => p[2] \in Reach(R, anchored)
    BY <1>5, ReachClosed
  <2>2. ASSUME NEW x, NEW y, <<x, y>> \in R, x \in Reach(R, anchored) PROVE y \in Reach(R, anchored)
    <3> DEFINE p == <<x, y>>
    <3>1. p \in R /\ p[1] = x /\ p[2] = y
      BY <2>2
    <3> HIDE DEF p
    <3> QED BY <2>1, <2>2, <3>1
  <2> QED BY <2>1, <2>2
<1>8. ASSUME NEW f \in File, langOf[f] = l, <<f>> \in DOMAIN G.nodes, HasChain(G, f) PROVE Holds(s, f)
  <2> SUFFICES ASSUME Chain(f) # {} PROVE Holds(s, f)
    BY DEF Holds
  <2>1. /\ \A x \in Chain(f) : x \in real
        /\ \A x \in Chain(f) : Len(x) > 2 => Above(x) \in Chain(f) /\ <<Above(x), x>> \in hierarchy
    BY <1>2, <1>4, <1>6, <1>8, ChainFacts DEF HasChain
  <2>2. moduleOf[f] \in Reach(R, anchored)
    <3>1. moduleOf[f] \in real /\ <<moduleOf[f], <<f>> >> \in Edges(G, "Contains")
      BY <1>2, <1>4, <1>8 DEF HasParents, Parent
    <3>2. IsKind(G, <<f>>, "File") /\ langOf[(<<f>>)[1]] = l
      BY <1>8, FieldsOfANode DEF ShowsFiles, FileRow, IsKind
    <3>3. moduleOf[f] \in anchored
      BY <1>6, <3>1, <3>2
    <3> QED BY <1>7, <3>3
  <2>3. \A x \in Chain(f) : x \in Reach(R, anchored) /\ Len(x) > 2 => Above(x) \in Reach(R, anchored)
    BY <1>6, <1>7, <2>1
  <2>4. Chain(f) \subseteq Reach(R, anchored)
    BY <2>2, <2>3, ChainAscends
  <2>5. \A x \in Chain(f) : x \in modules
    BY <2>1, <2>4
  <2> HIDE DEF modules
  <2>6. ASSUME NEW x \in Chain(f), Len(x) > 2 PROVE <<Above(x), x>> \in s.edges
    <3> DEFINE e == <<Above(x), x>>
    <3>1. e \in hierarchy /\ e[1] = Above(x) /\ e[1] \in modules
      BY <2>1, <2>5, <2>6
    <3> HIDE DEF e
    <3>2. e \in s.edges
      BY <1>1, <3>1
    <3> QED BY <3>2 DEF e
  <2> QED BY <1>1, <2>5, <2>6 DEF Holds
<1>9. ScaffoldingModules(s)
  BY <1>1, <1>2, <1>3 DEF ScaffoldingModules
<1> QED BY <1>8, <1>9 DEF s

LEMMA NoScaffoldingModules == ScaffoldingModules(NoScaffolding) /\ \A f : Holds(NoScaffolding, f) <=> Chain(f) = {}
BY DEF ScaffoldingModules, NoScaffolding, Holds

LEMMA LanguageOfFile == \A f \in File : langOf[f] \in Language
BY StoreAssumption

\* A step of w, by what it leaves of the store and of its job.
LEMMA ModulesStep ==
    ASSUME ModulesInv, DeclsInv', NEW w \in Worktree, Apart(w),
           \/ /\ UNCHANGED index /\ \A v \in Worktree \ {w} : torn'[v] = torn[v]
              /\ storeHurt' = storeHurt \/ storeHurt' = Language
           \/ Overtakes(w),
           StoreModules', Recorded', JobModules(w)', ~torn'[w] => CountsModules(w)'
    PROVE  ModulesInv'
<1>1. ASSUME NEW v \in Worktree \ {w} PROVE JobModules(v)' /\ (~torn'[v] => CountsModules(v)')
  <2>1. /\ job'[v] = job[v] /\ pc'[v] = pc[v]
        /\ JobModules(v) /\ (~torn[v] => CountsModules(v))
    BY DEF Apart, ModulesInv
  <2>2. JobModules(v)'
    BY <2>1 DEF JobModules, Sure
  <2>3. CASE /\ UNCHANGED index /\ torn'[v] = torn[v]
             /\ storeHurt' = storeHurt \/ storeHurt' = Language
    <3>1. \A f : Replays(f)' <=> Replays(f)
      BY <2>3 DEF Replays
    <3>2. \A f \in Present(job[v].manifest) : langOf[f] \notin storeHurt' => langOf[f] \notin storeHurt
      BY <2>3, LanguageOfFile DEF Present
    <3>3. CountsModules(v) => CountsModules(v)'
      BY <2>1, <3>1, <3>2 DEF CountsModules, MidSave, Sure, Present
    <3> QED BY <2>1, <2>2, <2>3, <3>3
  <2>4. CASE Overtakes(w)
    <3>1. torn'[v] = (torn[v] \/ ~Idle(v)) /\ torn \in [Worktree -> BOOLEAN]
      BY <2>4 DEF Overtakes, ModulesInv, DeclsInv, FilesInv, UnitsInv, IInv, TornOK
    <3>2. Idle(v) => CountsModules(v)'
      BY <2>1 DEF Idle, CountsModules, MidSave
    <3> QED BY <2>2, <3>1, <3>2
  <2> QED BY <2>2, <2>3, <2>4
<1> QED BY <1>1 DEF ModulesInv

\* One that writes no file of the store.
LEMMA QuietModules ==
    ASSUME ModulesInv, DeclsInv', NEW w \in Worktree, Apart(w), UNCHANGED <<index, manifest, scan>>,
           \A v \in Worktree \ {w} : torn'[v] = torn[v],
           storeHurt' = storeHurt \/ storeHurt' = Language,
           MidSave(w) => storeHurt' = Language, ~MidSave(w)',
           JobModules(w)', ~torn'[w] => CountsModules(w)'
    PROVE  ModulesInv'
<1>1. StoreModules'
  BY DEF ModulesInv, StoreModules
<1>2. Recorded'
  <2>1. CASE storeHurt' = Language
    BY <2>1, LanguagesOfFiles DEF Recorded, Stored
  <2>2. CASE storeHurt' = storeHurt /\ ~MidSave(w)
    <3>1. AtRest' => AtRest
      BY <2>2 DEF AtRest, Apart, MidSave
    <3>2. Stored' = Stored /\ \A f : Replays(f)' <=> Replays(f)
      BY <2>2 DEF Stored, Present, Replays
    <3> QED BY <3>1, <3>2 DEF Recorded, ModulesInv
  <2> QED BY <2>1, <2>2
<1> QED BY <1>1, <1>2, ModulesStep

LEMMA NothingHasModules ==
    /\ "edges" \in DOMAIN EmptyGraph /\ ModulesRight(EmptyGraph) /\ HasParents(EmptyGraph)
    /\ UnitsModules(<< >>)
<1>1. EmptyGraph.nodes = << >> /\ DOMAIN << >> = {} /\ "edges" \in DOMAIN EmptyGraph
  BY DEF EmptyGraph
<1> QED BY <1>1 DEF ModulesRight, HasParents, UnitsModules

\* Of a scan that counts on nothing yet, or is full, or over.
LEMMA EarlyModules ==
    ASSUME ModulesInv, DeclsInv', NEW w \in Worktree, Apart(w), UNCHANGED <<index, manifest, scan>>,
           \A v \in Worktree \ {w} : torn'[v] = torn[v],
           storeHurt' = storeHurt \/ storeHurt' = Language,
           MidSave(w) => storeHurt' = Language,
           job'[w].graph \in {job[w].graph, EmptyGraph}, job'[w].held \in {job[w].held, << >>},
           pc'[w] \notin {"assemble"} \cup Saving, pc'[w] = "emit" => job'[w].full
    PROVE  ModulesInv'
<1>1. JobModules(w)'
  BY NothingHasModules DEF JobModules, ModulesInv, Saving
<1>2. CountsModules(w)' /\ ~MidSave(w)'
  BY DEF CountsModules, MidSave, Saving
<1> QED BY <1>1, <1>2, QuietModules

LEMMA PlanningModules ==
    ASSUME ModulesInv, DeclsInv', NEW w \in Worktree,
           \/ Start(w) \/ StartForced(w) \/ ReadRecordedKey(w) \/ Plan(w)
           \/ Probe(w) /\ UNCHANGED job /\ At(w, "probe", "recorded")
           \/ Diff(w) /\ GoesFull(w)
    PROVE  ModulesInv'
<1>1. /\ Apart(w) /\ UNCHANGED <<head, tree, index, manifest, scan, state, storeHurt>> /\ ~MidSave(w)
      /\ \A v \in Worktree \ {w} : torn'[v] = torn[v]
  BY UnsavedApart DEF ModulesInv
<1>2. DOMAIN job = Worktree /\ JobOK(w) /\ pc \in [Worktree -> Steps]
  BY DEF ModulesInv, DeclsInv, FilesInv, UnitsInv, IInv, JobsOK
<1> DEFINE Early == /\ job'[w].graph \in {job[w].graph, EmptyGraph} /\ job'[w].held \in {job[w].held, << >>}
                    /\ pc'[w] \notin {"assemble"} \cup Saving /\ (pc'[w] = "emit" => job'[w].full)
<1>3. CASE Start(w)
  <2>1. /\ At(w, "idle", "probe") /\ job' = [job EXCEPT ![w] = [NoJob EXCEPT !.key = Key(w)]]
    BY <1>3 DEF Start, Takes
  <2>2. Early
    BY <1>2, <2>1 DEF At, NoJob, Saving
  <2> QED BY <1>1, <2>2, EarlyModules
<1>4. CASE StartForced(w)
  <2>1. /\ At(w, "idle", "emit")
        /\ job' = [job EXCEPT ![w] = [NoJob EXCEPT !.key = Key(w), !.full = TRUE, !.manifest = tree[w]]]
    BY <1>4 DEF StartForced, Takes
  <2>2. Early
    BY <1>2, <2>1 DEF At, NoJob, Saving
  <2> QED BY <1>1, <2>2, EarlyModules
<1>5. CASE ReadRecordedKey(w) \/ (Probe(w) /\ UNCHANGED job /\ At(w, "probe", "recorded"))
  <2>1. /\ \/ job' = job
           \/ job' = [job EXCEPT ![w].recorded = IF scan = None THEN None ELSE scan.key]
        /\ At(w, "recorded", "plan") \/ At(w, "probe", "recorded")
    BY <1>5 DEF ReadRecordedKey
  <2>2. Early
    BY <1>2, <2>1 DEF At, Saving, JobOK, JobFields
  <2> QED BY <1>1, <2>2, EarlyModules
<1>6. CASE (Plan(w) \/ Diff(w)) /\ GoesFull(w)
  <2>1. At(w, "plan", "emit") \/ At(w, "plan", "diff") \/ At(w, "diff", "emit")
    BY <1>6 DEF Plan, Diff
  <2>2. Early
    BY <1>2, <1>6, <2>1 DEF At, Saving, JobOK, JobFields, GoesFull
  <2> QED BY <1>1, <2>2, EarlyModules
<1>7. CASE /\ At(w, "plan", "diff")
           /\ job' = [job EXCEPT ![w].manifest = tree[w],
                 ![w].targets = IF scan.sha = head[w] THEN {} ELSE GitDelta(w, scan.sha)]
  <2>1. Early
    BY <1>2, <1>7 DEF At, Saving, JobOK, JobFields
  <2> QED BY <1>1, <2>1, EarlyModules
<1> QED BY <1>3, <1>4, <1>5, <1>6, <1>7 DEF Plan

\* What no change touched has its modules in the scaffolding.
LEMMA UnchangedReplays ==
    ASSUME ModulesInv, AtRest, scan # None, NEW T \in Tree,
           NEW f \in Present(T), langOf[f] \notin storeHurt,
           f \notin ManifestDelta(manifest, T) \/ scan.manifest = T
    PROVE  Replays(f)
<1>1. langOf[f] \in Language
  BY LanguagesOfFiles
<1>2. manifest = scan.manifest /\ scan.manifest \in Trees
  BY <1>1 DEF ModulesInv, DeclsInv, FilesInv, UnitsInv, IInv, TornOK, StoreOK, StoreOfOneScan
<1>3. manifest # None
  BY <1>2, TreesAreTrees, StoreAssumption
<1>4. manifest[f] = T[f]
  BY <1>2, <1>3 DEF ManifestDelta, Present
<1> QED BY <1>4 DEF ModulesInv, Recorded, Stored, Present

LEMMA ProbeModules ==
    ASSUME ModulesInv, DeclsInv', OwnNames, NEW w \in Worktree, Probe(w)
    PROVE  ModulesInv'
<1>1. /\ Apart(w) /\ UNCHANGED <<head, tree, index, manifest, scan, state, storeHurt>> /\ ~MidSave(w)
      /\ \A v \in Worktree \ {w} : torn'[v] = torn[v]
  BY UnsavedApart DEF ModulesInv
<1>2. /\ DOMAIN job = Worktree /\ JobOK(w) /\ pc \in [Worktree -> Steps] /\ UNCHANGED torn
      /\ JobModules(w) /\ UnitsInv
  BY DEF Probe, StepKeeps, history, ModulesInv, DeclsInv, FilesInv, UnitsInv, IInv, JobsOK
<1>3. CASE Warm(w) /\ At(w, "probe", "assemble")
           /\ job' = [job EXCEPT ![w].warm = TRUE, ![w].recorded = scan.key,
                         ![w].manifest = scan.manifest, ![w].candidates = Present(scan.manifest),
                         ![w].graph = Ingested(Joined(<< >>))]
  <2>1. pc[w] = "probe" /\ pc'[w] = "assemble"
    BY <1>2, <1>3 DEF At
  <2>2. /\ job'[w].graph = Ingested(Joined(<< >>)) /\ job'[w].held = job[w].held
        /\ job'[w].manifest = scan.manifest /\ job'[w].warm
    BY <1>2, <1>3 DEF JobOK, JobFields
  <2>3. JobModules(w)'
    <3>1. tree[w] \in Trees
      BY <1>2 DEF UnitsInv, IInv, RepoOK
    <3>2. OfTree(<< >>, tree[w]) /\ "edges" \in DOMAIN Ingested(Joined(<< >>))
      BY DEF OfTree, Ingested, WithEdges
    <3>3. ModulesRight(job'[w].graph) /\ HasParents(job'[w].graph)
      BY <2>2, <3>1, <3>2, IngestedModules
    <3> QED BY <1>2, <2>1, <2>2, <3>2, <3>3 DEF JobModules, Saving
  <2>4. ASSUME ~torn[w], NEW f \in Present(scan.manifest), langOf[f] \notin storeHurt PROVE Replays(f)
    <3>1. AtRest /\ scan # None
      BY <1>2, <1>3, <2>1, <2>4 DEF UnitsInv, CountsOn, Solo, AtRest, MidSave, Idle, Warm
    <3>2. scan.manifest \in Tree
      BY <1>2, <3>1, TreesAreTrees DEF UnitsInv, IInv, StoreOK
    <3> QED BY <2>4, <3>1, <3>2, UnchangedReplays
  <2>5. ~torn'[w] => CountsModules(w)'
    BY <1>1, <1>2, <2>1, <2>2, <2>4 DEF CountsModules, MidSave, Present, Replays
  <2>6. ~MidSave(w)'
    BY <2>1 DEF MidSave
  <2> QED BY <1>1, <2>3, <2>5, <2>6, QuietModules
<1>4. CASE UNCHANGED job /\ At(w, "probe", "recorded")
  BY <1>4, PlanningModules
<1> QED BY <1>3, <1>4 DEF Probe

LEMMA DiffModules ==
    ASSUME ModulesInv, DeclsInv', NEW w \in Worktree, Diff(w)
    PROVE  ModulesInv'
<1>1. /\ Apart(w) /\ UNCHANGED <<head, tree, index, manifest, scan, state, storeHurt>> /\ ~MidSave(w)
      /\ \A v \in Worktree \ {w} : torn'[v] = torn[v]
  BY UnsavedApart DEF ModulesInv
<1>2. /\ DOMAIN job = Worktree /\ JobOK(w) /\ pc \in [Worktree -> Steps] /\ UNCHANGED torn
      /\ JobModules(w) /\ UnitsInv /\ At(w, "diff", "emit") /\ tree[w] \in Tree
  BY TreesAreTrees DEF Diff, StepKeeps, history, ModulesInv, DeclsInv, FilesInv, UnitsInv, IInv, JobsOK, RepoOK
<1>3. CASE GoesFull(w)
  BY <1>3, PlanningModules
<1>4. CASE job' = [job EXCEPT ![w].targets = Stage1(w), ![w].removed = RemovedFqns(w),
                              ![w].candidates = Reusable(w, Stage1(w))]
  <2>1. pc[w] = "diff" /\ pc'[w] = "emit"
    BY <1>2 DEF At
  <2>2. /\ job'[w].graph = job[w].graph /\ job'[w].held = job[w].held
        /\ job'[w].manifest = tree[w] /\ job'[w].targets = Stage1(w)
    BY <1>2, <1>4, <2>1 DEF JobOK, JobFields
  <2>3. JobModules(w)'
    BY <1>2, <2>1, <2>2 DEF JobModules, Saving
  <2>4. ASSUME ~torn[w], NEW f \in Present(tree[w]) \ Stage1(w), langOf[f] \notin storeHurt PROVE Replays(f)
    <3>1. AtRest /\ scan # None
      BY <1>2, <2>1, <2>4 DEF UnitsInv, CountsOn, Solo, Reuses, AtRest, MidSave, Idle
    <3>2. f \notin ManifestDelta(manifest, tree[w])
      BY <2>4 DEF Stage1
    <3> QED BY <1>2, <2>4, <3>1, <3>2, UnchangedReplays
  <2>5. ~torn'[w] => CountsModules(w)'
    BY <1>1, <1>2, <2>1, <2>2, <2>4 DEF CountsModules, MidSave, Present, Replays
  <2>6. ~MidSave(w)'
    BY <2>1 DEF MidSave
  <2> QED BY <1>1, <2>3, <2>5, <2>6, QuietModules
<1> QED BY <1>3, <1>4 DEF Diff

\* A pass walks every language it was asked for a file of, or all, and emits the
\* modules of each it walks.
LEMMA PassWalks ==
    ASSUME NEW w \in Worktree, NEW targets, NEW failed, NEW f \in Present(tree[w]),
           langOf[f] \notin failed, targets = {} \/ \E g \in targets : langOf[g] = langOf[f]
    PROVE  langOf[f] \in DOMAIN Spools(w, targets, failed)
<1>1. f \in File /\ langOf[f] \in Language
  BY LanguagesOfFiles DEF Present
<1>2. langOf[f] \in Spawned(w, targets)
  BY <1>1 DEF Spawned, Detected
<1> QED BY <1>2 DEF Spools

LEMMA EmitFactsModules ==
    ASSUME ModulesInv, DeclsInv', OwnNames, NEW w \in Worktree, EmitFacts(w)
    PROVE  ModulesInv'
<1>1. /\ Apart(w) /\ UNCHANGED <<head, tree, index, manifest, scan, state, storeHurt>> /\ ~MidSave(w)
      /\ \A v \in Worktree \ {w} : torn'[v] = torn[v]
  BY UnsavedApart DEF ModulesInv
<1>2. /\ DOMAIN job = Worktree /\ JobOK(w) /\ pc \in [Worktree -> Steps] /\ UNCHANGED torn
      /\ JobModules(w) /\ At(w, "emit", "assemble") /\ tree[w] \in Trees
      /\ (~torn[w] => CountsModules(w))
  BY DEF EmitFacts, Emits, history, ModulesInv, DeclsInv, FilesInv, UnitsInv, IInv, JobsOK, RepoOK
<1> DEFINE stage1 == job[w].targets
           First(failed) == Spools(w, stage1, failed)
           Extra(failed) == IF job[w].full THEN {} ELSE Cascade(stage1, Ingested(Joined(First(failed))))
           All(one, two) == IF Extra(one) = {} THEN First(one)
                            ELSE SecondPass(w, First(one), stage1 \cup Extra(one), two)
<1>3. PICK one \in SUBSET Language, two \in SUBSET Language :
        job' = [job EXCEPT ![w].targets = stage1 \cup Extra(one),
                           ![w].candidates = @ \ (stage1 \cup Extra(one)),
                           ![w].graph = Ingested(Joined(All(one, two))),
                           ![w].hurt = one \cup two]
  BY DEF EmitFacts, Emits
<1> DEFINE extra   == Extra(one)
           targets == stage1 \cup extra
           spools  == All(one, two)
           G       == Ingested(Joined(spools))
<1>4. spools = IF extra = {} THEN First(one) ELSE SecondPass(w, First(one), targets, two)
  OBVIOUS
<1>5. pc[w] = "emit" /\ pc'[w] = "assemble"
  BY <1>2 DEF At
<1>6. /\ job'[w].hurt = one \cup two /\ job'[w].full = job[w].full
      /\ job'[w].manifest = tree[w] /\ job[w].manifest = tree[w]
      /\ job'[w].targets = targets /\ job'[w].held = job[w].held
      /\ job'[w].graph = G
  BY <1>2, <1>3, <1>5 DEF JobOK, JobFields
<1>7. stage1 \subseteq targets
  OBVIOUS
<1>8. OfTree(spools, tree[w])
  <2>1. ASSUME NEW asked, NEW failed, NEW l \in DOMAIN Spools(w, asked, failed)
        PROVE  l \in Language /\ \E emitted : Spools(w, asked, failed)[l] = Stream(tree[w], l, emitted)
    BY LanguagesOfFiles DEF Spools, Spawned, Detected
  <2> HIDE DEF extra, targets, spools, First
  <2>2. CASE extra = {}
    BY <1>4, <2>1, <2>2 DEF OfTree, First
  <2>3. CASE extra # {}
    BY <1>4, <2>1, <2>3 DEF SecondPass, OfTree, First
  <2> QED BY <2>2, <2>3
<1> HIDE DEF extra, spools, Extra, All
<1>9. ASSUME NEW f \in Present(tree[w]), langOf[f] \notin one \cup two,
             targets = {} \/ \E g \in targets : langOf[g] = langOf[f]
      PROVE  langOf[f] \in DOMAIN spools
  <2>1. CASE extra = {}
    <3>1. spools = Spools(w, targets, one)
      BY <1>4, <2>1
    <3> HIDE DEF targets
    <3> QED BY <1>9, <3>1, PassWalks
  <2>2. CASE extra # {}
    <3>1. spools = SecondPass(w, First(one), targets, two)
      BY <1>4, <2>2
    <3> HIDE DEF targets, First
    <3>2. langOf[f] \in DOMAIN Spools(w, targets, two)
      BY <1>9, PassWalks
    <3> QED BY <3>1, <3>2 DEF SecondPass
  <2> QED BY <2>1, <2>2
<1> HIDE DEF targets, G, stage1
<1>10. /\ ModulesRight(G) /\ HasParents(G) /\ "edges" \in DOMAIN G
       /\ \A f \in Present(tree[w]) : langOf[f] \in DOMAIN spools => HasChain(G, f)
  <2>1. "edges" \in DOMAIN G
    BY DEF G, Ingested, WithEdges
  <2>2. G = Ingested(Joined(spools))
    BY DEF G
  <2> QED BY <1>2, <1>8, <2>1, <2>2, IngestedModules
<1>11. JobModules(w)'
  BY <1>2, <1>5, <1>6, <1>9, <1>10 DEF JobModules, Sure, Saving
<1>12. ~torn'[w] => CountsModules(w)'
  BY <1>1, <1>2, <1>5, <1>6, <1>7 DEF CountsModules, MidSave, Present, Replays, stage1
<1>13. ~MidSave(w)'
  BY <1>5 DEF MidSave
<1> QED BY <1>1, <1>11, <1>12, <1>13, QuietModules

\* Of a file whose language nothing spoilt: its language was walked, or is replayed.
LEMMA WalkedOrSkipped ==
    ASSUME ModulesInv, NEW w \in Worktree, pc[w] = "assemble", NEW f \in Present(job[w].manifest),
           langOf[f] \notin job[w].hurt \cup (IF job[w].full THEN {} ELSE IF torn[w] THEN Language ELSE storeHurt)
    PROVE  \/ HasChain(job[w].graph, f)
           \/ ~job[w].full /\ langOf[f] \in Skipped(w) /\ Replays(f)
<1>1. /\ JobModules(w) /\ JobOK(w) /\ Reckons(w) /\ WarmOK(w) /\ (~torn[w] => CountsModules(w))
      /\ f \in File /\ langOf[f] \in Language /\ job[w].manifest = tree[w]
  BY LanguagesOfFiles DEF ModulesInv, DeclsInv, FilesInv, UnitsInv, OwnInv, IInv, JobsOK, JobOK, Present
<1>2. f \in Sure(w)
  BY DEF Sure
<1>3. CASE ~job[w].warm /\ (job[w].targets = {} \/ \E g \in job[w].targets : langOf[g] = langOf[f])
  BY <1>1, <1>2, <1>3 DEF JobModules
<1>4. CASE job[w].warm \/ (job[w].targets # {} /\ ~\E g \in job[w].targets : langOf[g] = langOf[f])
  <2>1. ~job[w].full /\ f \notin job[w].targets
    BY <1>1, <1>4 DEF WarmOK, JobOK
  <2>2. ~torn[w] /\ langOf[f] \notin storeHurt
    BY <1>1, <2>1
  <2>3. Replays(f) /\ f \in job[w].candidates
    BY <1>1, <2>1, <2>2 DEF CountsModules, Reckons
  <2>4. langOf[f] \in Skipped(w)
    <3>1. CASE job[w].warm
      BY <1>1, <3>1 DEF Skipped, Detected
    <3>2. CASE ~job[w].warm
      BY <1>4, <2>3, <3>2 DEF Skipped
    <3> QED BY <3>1, <3>2
  <2> QED BY <2>1, <2>3, <2>4
<1> QED BY <1>3, <1>4

LEMMA AssembleModules ==
    ASSUME ModulesInv, DeclsInv', OwnNames, NEW w \in Worktree, Assemble(w)
    PROVE  ModulesInv'
<1> DEFINE units  == CachedUnits(w)
           scaffolding == {index.scaffolding[l] : l \in Skipped(w)}
           cached == WithCached(job[w].graph, units, scaffolding)
           more   == IF job[w].full THEN {} ELSE IF torn[w] THEN Language ELSE storeHurt
           G      == IF job[w].full THEN job[w].graph ELSE cached
           H      == job'[w].graph
<1>1. /\ UNCHANGED <<head, tree, index, manifest, scan, torn, storeHurt>>
      /\ At(w, "assemble", "index")
      /\ job' = [job EXCEPT ![w].graph = Finalized(IF job[w].full THEN @ ELSE cached),
                            ![w].held = index.units,
                            ![w].hurt = @ \cup more]
  BY DEF Assemble, StepKeeps, repo, store, history
<1>2. /\ JobOK(w) /\ DOMAIN job = Worktree /\ pc \in [Worktree -> Steps] /\ tree[w] \in Trees
      /\ JobFiles(w)' /\ JobModules(w) /\ StoreModules /\ DeclsInv
  BY DEF ModulesInv, DeclsInv, FilesInv, UnitsInv, IInv, JobsOK, RepoOK
<1>3. Apart(w) /\ pc[w] = "assemble" /\ pc'[w] = "index" /\ job[w].manifest = tree[w]
  BY <1>1, <1>2 DEF Apart, At, JobOK
<1>4. /\ job'[w].hurt = job[w].hurt \cup more /\ job'[w].held = index.units
      /\ job'[w].manifest = tree[w]
      /\ H = Finalized(G)
  BY <1>1, <1>2, <1>3 DEF JobOK, JobFields
<1>5. UnitsOf(units, tree[w]) /\ \A s \in scaffolding : ScaffoldingRight(s)
  BY <1>2, <1>3, CachedAreUnits
<1>6. \A i \in DOMAIN units : UnitModules(units[i], pathOrder[i])
  <2> SUFFICES ASSUME NEW i \in DOMAIN units PROVE UnitModules(units[i], pathOrder[i])
    OBVIOUS
  <2> DEFINE key == <<pathOrder[i], job[w].manifest[pathOrder[i]]>>
  <2>1. key \in DOMAIN index.units /\ units[i] = index.units[key] /\ pathOrder[i] \in File
    BY <1>5 DEF CachedUnits, UnitsOf, Present
  <2> QED BY <1>2, <2>1 DEF StoreModules, UnitsModules
<1>7. \A s \in scaffolding : ScaffoldingModules(s)
  <2>1. Skipped(w) \subseteq Language
    <3>1. \A f \in job[w].candidates : f \in Present(job[w].manifest)
      BY <1>2 DEF DeclsInv, FilesInv, JobFiles
    <3> QED BY <3>1, LanguagesOfFiles DEF Skipped, Detected
  <2> QED BY <1>2, <2>1 DEF StoreModules
<1>8. \A f \in File : Replays(f) /\ langOf[f] \in Skipped(w) => \E s \in scaffolding : Holds(s, f)
  BY DEF Replays
<1> HIDE DEF units, scaffolding
<1>9. /\ ModulesRight(cached) /\ HasParents(cached) /\ "edges" \in DOMAIN cached
      /\ \A f \in File : HasChain(job[w].graph, f) => HasChain(cached, f)
      /\ \A f \in File : (\E s \in scaffolding : Holds(s, f)) => HasChain(cached, f)
  <2>1. "edges" \in DOMAIN cached
    BY DEF WithCached, Resolved
  <2>2. ModulesRight(job[w].graph) /\ HasParents(job[w].graph)
    BY <1>2 DEF JobModules
  <2>3. \A s \in scaffolding : ScaffoldingRight(s) /\ ScaffoldingModules(s)
    BY <1>5, <1>7
  <2> QED BY <1>2, <1>5, <1>6, <2>1, <2>2, <2>3, SplicedModules
<1>10. ASSUME NEW f \in Present(tree[w]), langOf[f] \notin job[w].hurt \cup more PROVE f \in File /\ HasChain(G, f)
  <2>1. f \in File
    BY DEF Present
  <2>2. \/ HasChain(job[w].graph, f)
        \/ ~job[w].full /\ langOf[f] \in Skipped(w) /\ Replays(f)
    BY <1>3, <1>10, WalkedOrSkipped
  <2>3. CASE HasChain(job[w].graph, f)
    BY <1>9, <2>1, <2>3
  <2>4. CASE ~job[w].full /\ langOf[f] \in Skipped(w) /\ Replays(f)
    BY <1>8, <1>9, <2>1, <2>4
  <2> QED BY <2>1, <2>2, <2>3, <2>4
<1>11. ModulesRight(G) /\ HasParents(G) /\ "edges" \in DOMAIN G
  BY <1>2, <1>9 DEF JobModules
<1> HIDE DEF cached, more, G, H
<1>12. /\ ModulesRight(H) /\ HasParents(H) /\ \A f \in File : HasChain(G, f) => HasChain(H, f)
  <2>1. ShowsFiles(H, tree[w])
    BY <1>1, <1>2 DEF JobFiles, H
  <2> QED BY <1>4, <1>11, <2>1, FinalizedModules
<1>13. "edges" \in DOMAIN H
  BY <1>4, <1>11 DEF Finalized
<1>14. JobModules(w)'
  BY <1>2, <1>3, <1>4, <1>10, <1>12, <1>13 DEF JobModules, StoreModules, Sure, H
<1>15. CountsModules(w)' /\ ~MidSave(w) /\ ~MidSave(w)'
  BY <1>3 DEF CountsModules, MidSave
<1> QED BY <1>1, <1>3, <1>14, <1>15, QuietModules

LEMMA SaveIndexModules ==
    ASSUME ModulesInv, DeclsInv', OwnNames, NEW w \in Worktree, SaveIndex(w)
    PROVE  ModulesInv'
<1> DEFINE G   == job[w].graph
           new == {<<f, job[w].manifest[f]>> : f \in NewUnits(w)}
<1>1. /\ At(w, "index", "manifest") /\ Overtakes(w) /\ UNCHANGED <<head, tree, job>>
      /\ index'.units = [u \in DOMAIN job[w].held \cup new |->
                           IF u \in new THEN UnitOf(G, u[1]) ELSE job[w].held[u]]
      /\ index'.scaffolding = [l \in Language |->
           IF ScaffoldingOf(G, l, langOf) = NoScaffolding THEN index.scaffolding[l]
           ELSE ScaffoldingOf(G, l, langOf)]
  BY DEF SaveIndex, repo
<1>2. /\ DOMAIN job = Worktree /\ pc \in [Worktree -> Steps] /\ JobModules(w) /\ StoreModules
      /\ Assembled(w) /\ ShowsFiles(G, tree[w])
  BY DEF ModulesInv, DeclsInv, FilesInv, JobFiles, UnitsInv, IInv, JobsOK
<1>3. Apart(w) /\ pc[w] = "index" /\ pc'[w] = "manifest" /\ pc[w] \in Saving /\ pc'[w] \in Saving
  BY <1>1, <1>2 DEF Apart, At, Saving
<1>4. /\ ModulesRight(G) /\ HasParents(G)
      /\ \A f \in Sure(w) : <<f>> \in DOMAIN G.nodes /\ HasChain(G, f) /\ f \in File /\ langOf[f] \in Language
  BY <1>2, <1>3, LanguageOfFile DEF JobModules, Assembled, Sure, Present
<1>5. \A f : <<f>> \in DOMAIN G.nodes \/ f \notin NewUnits(w)
  BY DEF NewUnits
<1> HIDE DEF G
<1>6. ASSUME NEW f \in File, NEW c, <<f, c>> \in DOMAIN index'.units
      PROVE  UnitModules(index'.units[<<f, c>>], f)
  <2>1. CASE <<f, c>> \in new
    <3>1. <<f>> \in DOMAIN G.nodes
      BY <1>5, <2>1
    <3>2. index'.units[<<f, c>>] = UnitOf(G, f)
      BY <1>1, <2>1
    <3> QED BY <1>4, <3>1, <3>2, UnitOfModules
  <2>2. CASE <<f, c>> \notin new
    BY <1>1, <1>2, <1>6, <2>2 DEF JobModules, UnitsModules
  <2> QED BY <2>1, <2>2
<1>7. ASSUME NEW l \in Language PROVE ScaffoldingModules(index'.scaffolding[l])
  <2>1. ScaffoldingModules(ScaffoldingOf(G, l, langOf))
    BY <1>2, <1>4, ScaffoldingOfModules
  <2> QED BY <1>1, <1>2, <2>1 DEF StoreModules
<1>8. ASSUME NEW f \in Sure(w) PROVE Holds(index'.scaffolding[langOf[f]], f)
  <2> DEFINE l == langOf[f]
             s == ScaffoldingOf(G, l, langOf)
  <2>1. Holds(s, f)
    BY <1>2, <1>4, ScaffoldingOfModules
  <2>2. index'.scaffolding[l] = IF s = NoScaffolding THEN index.scaffolding[l] ELSE s
    BY <1>1, <1>4
  <2> HIDE DEF s, l
  <2>3. CASE s = NoScaffolding
    <3>1. Chain(f) = {}
      BY <2>1, <2>3, NoScaffoldingModules
    <3> QED BY <3>1 DEF Holds
  <2> QED BY <2>1, <2>2, <2>3 DEF l
<1>9. StoreModules'
  BY <1>6, <1>7 DEF StoreModules, UnitsModules
<1>10. Recorded'
  BY <1>3 DEF Recorded, AtRest, MidSave
<1>11. JobModules(w)'
  BY <1>1, <1>2, <1>3 DEF JobModules, Sure, Saving
<1>12. CountsModules(w)'
  BY <1>1, <1>3, <1>8 DEF CountsModules, MidSave, Sure, Replays
<1> QED BY <1>1, <1>3, <1>9, <1>10, <1>11, <1>12, ModulesStep

LEMMA SaveManifestModules ==
    ASSUME ModulesInv, DeclsInv', NEW w \in Worktree, SaveManifest(w) \/ SaveScanRecord(w)
    PROVE  ModulesInv'
<1>1. /\ At(w, "manifest", "scan") \/ At(w, "scan", "state")
      /\ Overtakes(w) /\ UNCHANGED <<head, tree, job, index>>
  BY DEF SaveManifest, SaveScanRecord, repo
<1>2. /\ DOMAIN job = Worktree /\ pc \in [Worktree -> Steps] /\ torn \in [Worktree -> BOOLEAN]
      /\ JobModules(w) /\ (~torn[w] => CountsModules(w))
  BY DEF ModulesInv, DeclsInv, FilesInv, UnitsInv, IInv, JobsOK, TornOK
<1>3. Apart(w) /\ pc[w] \in Saving /\ pc'[w] \in Saving /\ MidSave(w) /\ MidSave(w)'
  BY <1>1, <1>2 DEF Apart, At, Saving, MidSave
<1>4. StoreModules' /\ Recorded'
  BY <1>1, <1>3 DEF ModulesInv, StoreModules, Recorded, AtRest
<1>5. JobModules(w)'
  BY <1>1, <1>2, <1>3 DEF JobModules, Sure, Saving
<1>6. torn'[w] = torn[w]
  BY <1>1, <1>2 DEF Overtakes
<1>7. ~torn'[w] => CountsModules(w)'
  BY <1>1, <1>2, <1>3, <1>6 DEF CountsModules, MidSave, Sure, Replays
<1> QED BY <1>1, <1>3, <1>4, <1>5, <1>7, ModulesStep

\* The last save: what this scan kept is what the store records.
LEMMA SaveStateModules ==
    ASSUME ModulesInv, DeclsInv', NEW w \in Worktree, SaveState(w)
    PROVE  ModulesInv'
<1>1. /\ At(w, "state", "build") /\ Overtakes(w) /\ UNCHANGED <<head, tree, job, index, manifest, scan>>
      /\ storeHurt' = IF torn[w] THEN Language ELSE job[w].hurt
  BY DEF SaveState, repo
<1>2. /\ DOMAIN job = Worktree /\ pc \in [Worktree -> Steps] /\ JobModules(w) /\ Untorn(w)
      /\ (~torn[w] => CountsModules(w))
  BY DEF ModulesInv, DeclsInv, FilesInv, UnitsInv, IInv, JobsOK, TornOK
<1>3. Apart(w) /\ pc[w] = "state" /\ pc'[w] = "build" /\ MidSave(w)
  BY <1>1, <1>2 DEF Apart, At, MidSave
<1>4. Recorded'
  <2>1. CASE torn[w]
    BY <1>1, <2>1, LanguagesOfFiles DEF Recorded, Stored
  <2>2. CASE ~torn[w]
    <3>1. Stored' = Sure(w)
      BY <1>1, <1>2, <1>3, <2>2 DEF Untorn, Stored, Sure, Present
    <3>2. \A f \in Sure(w) : Replays(f)
      BY <1>2, <1>3, <2>2 DEF CountsModules
    <3> QED BY <1>1, <3>1, <3>2 DEF Recorded, Replays
  <2> QED BY <2>1, <2>2
<1>5. JobModules(w)'
  BY <1>1, <1>2, <1>3 DEF JobModules, Sure, Saving
<1>6. CountsModules(w)'
  BY <1>3 DEF CountsModules, MidSave
<1>7. StoreModules'
  BY <1>1 DEF ModulesInv, StoreModules
<1> QED BY <1>1, <1>3, <1>4, <1>5, <1>6, <1>7, ModulesStep

LEMMA EndModules ==
    ASSUME ModulesInv, DeclsInv', NEW w \in Worktree, Build(w) \/ KillScan(w) \/ RecordFails(w)
    PROVE  ModulesInv'
<1>1. /\ \/ pc' = [pc EXCEPT ![w] = "idle"] /\ job' = [job EXCEPT ![w] = NoJob]
            /\ torn' = [torn EXCEPT ![w] = FALSE]
         \/ pc' = [pc EXCEPT ![w] = "build"] /\ UNCHANGED <<job, torn>> /\ (pc[w] = "index" \/ MidSave(w))
      /\ storeHurt' = IF MidSave(w) THEN Language ELSE storeHurt
      /\ UNCHANGED <<head, tree, index, manifest, scan, state>>
  BY DEF Build, KillScan, RecordFails, At, Ends, MidSave, repo, store
<1>2. /\ DOMAIN job = Worktree /\ pc \in [Worktree -> Steps] /\ torn \in [Worktree -> BOOLEAN] /\ JobModules(w)
  BY DEF ModulesInv, DeclsInv, FilesInv, UnitsInv, IInv, JobsOK, TornOK
<1>3. Apart(w) /\ \A v \in Worktree \ {w} : torn'[v] = torn[v]
  BY <1>1, <1>2 DEF Apart
<1>4. CASE pc' = [pc EXCEPT ![w] = "idle"] /\ job' = [job EXCEPT ![w] = NoJob]
  <2>1. pc'[w] = "idle" /\ job'[w].graph = EmptyGraph /\ job'[w].held = << >>
    BY <1>2, <1>4, NoJobTells
  <2>2. pc'[w] \notin {"assemble", "emit"} \cup Saving
    BY <2>1 DEF Saving
  <2> QED BY <1>1, <1>3, <2>1, <2>2, EarlyModules
<1>5. CASE pc' = [pc EXCEPT ![w] = "build"] /\ UNCHANGED <<job, torn>> /\ (pc[w] = "index" \/ MidSave(w))
  <2>1. pc[w] \in Saving /\ pc'[w] = "build"
    BY <1>2, <1>5 DEF MidSave, Saving
  <2>2. JobModules(w)'
    BY <1>2, <1>5, <2>1 DEF JobModules, Sure, Saving
  <2>3. CountsModules(w)' /\ ~MidSave(w)'
    BY <2>1 DEF CountsModules, MidSave
  <2> QED BY <1>1, <1>3, <2>2, <2>3, QuietModules
<1> QED BY <1>1, <1>4, <1>5

LEMMA SameModules ==
    ASSUME ModulesInv, DeclsInv', UNCHANGED <<index, manifest, scan, storeHurt, pc, job, torn>>
    PROVE  ModulesInv'
<1>1. StoreModules'
  BY DEF ModulesInv, StoreModules
<1>2. \A f : Replays(f)' <=> Replays(f)
  BY DEF Replays
<1>3. Recorded'
  <2>1. AtRest' = AtRest /\ Stored' = Stored
    BY DEF AtRest, MidSave, Stored, Present
  <2> QED BY <1>2, <2>1 DEF Recorded, ModulesInv
<1>4. ASSUME NEW w \in Worktree PROVE JobModules(w)' /\ (~torn'[w] => CountsModules(w)')
  <2>1. JobModules(w) /\ (~torn[w] => CountsModules(w))
    BY DEF ModulesInv
  <2>2. JobModules(w)'
    BY <2>1 DEF JobModules, Sure
  <2>3. CountsModules(w) => CountsModules(w)'
    BY <1>2 DEF CountsModules, MidSave, Sure, Present
  <2> QED BY <2>1, <2>2, <2>3
<1> QED BY <1>1, <1>3, <1>4 DEF ModulesInv

LEMMA InitModules == Init => ModulesInv
<1> SUFFICES ASSUME Init PROVE ModulesInv
  OBVIOUS
<1>1. DeclsInv
  BY InitDecls
<1>2. /\ scan = None /\ \A w \in Worktree : pc[w] = "idle" /\ job[w] = NoJob
      /\ index.units = << >> /\ index.scaffolding = [l \in Language |-> NoScaffolding]
  BY DEF Init
<1>3. StoreModules
  BY <1>2, NothingHasModules, NoScaffoldingModules DEF StoreModules
<1>4. \A w \in Worktree : JobModules(w)
  BY <1>2, NoJobTells, NothingHasModules DEF JobModules, Saving
<1>5. \A w \in Worktree : CountsModules(w)
  BY <1>2 DEF CountsModules, MidSave
<1> QED BY <1>1, <1>2, <1>3, <1>4, <1>5 DEF ModulesInv, Recorded

LEMMA NextModules == ASSUME OwnNames PROVE ModulesInv /\ [Next]_vars => ModulesInv'
<1> SUFFICES ASSUME ModulesInv, [Next]_vars PROVE ModulesInv'
  OBVIOUS
<1>1. DeclsInv'
  BY NextDecls DEF ModulesInv
<1>2. CASE UNCHANGED vars
  BY <1>1, <1>2, SameModules DEF vars, store, history
<1>3. CASE \E w \in Worktree : \/ \E f \in File : \E c \in contentsOf[f] : EditFile(w, f, c)
                               \/ CommitTree(w)
                               \/ \E c \in 1..Len(commits) : Checkout(w, c)
  <2>1. Moves
    BY <1>3 DEF EditFile, CommitTree, Checkout
  <2> QED BY <1>1, <2>1, SameModules DEF Moves, store, history
<1>4. CASE \E w \in Worktree : Start(w) \/ StartForced(w)
  BY <1>1, <1>4, PlanningModules
<1>5. CASE \E w \in Worktree : ScanStep(w)
  BY <1>1, <1>5, PlanningModules, ProbeModules, DiffModules, EmitFactsModules, AssembleModules,
     SaveIndexModules, SaveManifestModules, SaveStateModules, EndModules DEF ScanStep
<1>6. CASE \E w \in Worktree : KillScan(w) \/ RecordFails(w)
  BY <1>1, <1>6, EndModules
<1> QED BY <1>2, <1>3, <1>4, <1>5, <1>6 DEF Next

LEMMA ModulesAlways == ASSUME OwnNames PROVE Spec => []ModulesInv
<1>1. ModulesInv /\ [Next]_vars => ModulesInv'
  BY NextModules
<1> QED BY <1>1, InitModules, PTL DEF Spec

-----------------------------------------------------------------------------
(* The code a layer tree is checked against                                  *)

\* What a file has in a rebuild of the tree: itself, its modules, its declarations.
CodeOf(f, T) == {<<f>>} \cup Chain(f) \cup {p[1] : p \in Names(f, T[f])}

LEMMA RebuiltCode ==
    ASSUME OwnNames, NEW T \in Trees, NEW r \in ShownRows(Rebuild(T)), r[1][1] # "Language"
    PROVE  \E f \in Present(T) : r[1][2] \in CodeOf(f, T) /\ LangOfFqn(r[1][2]) = langOf[f]
<1> DEFINE spools == [l \in Language |-> Stream(T, l, File)]
           S == Joined(spools)
           files == {s.path : s \in S.files}
           G == Finalized(Ingested(S))
           k == r[1]
<1>1. OfTree(spools, T)
  BY DEF OfTree
<1>2. Rebuild(T) = Loaded(G)
  BY DEF Rebuild, WholeStream
<1> HIDE DEF spools
<1>3. TreeStream(S, T, files) /\ S.planned = Placeholders /\ files \subseteq Present(T)
  BY <1>1, JoinedIsOfTree DEF TreeStream, FactsOf
<1> HIDE DEF S, files
<1>4. k \in DOMAIN Loaded(G).rows /\ k[1] # "Unresolved" /\ ~Loaded(G).rows[k].planned
  BY <1>2 DEF ShownRows, Shown
<1>5. G.nodes = Ingested(S).nodes
  BY FinalizedNodes
<1> HIDE DEF G
<1>6. PICK x \in DOMAIN G.nodes : k = Row(G, x) /\ Loaded(G).rows[k] = G.nodes[x]
  BY <1>4, RowsLoaded
<1> DEFINE n == G.nodes[x]
<1>7. k[2] = x /\ k[1] = n.kind /\ n.kind \notin {"Unresolved", "Language"} /\ ~n.planned
  BY <1>4, <1>6 DEF Row
<1>8. DeclaredAs(x, n, T, files)
  <2>1. \/ x \in DOMAIN DeclaredNodes(S) /\ n = DeclaredNodes(S)[x]
        \/ \E p \in Placeholders : n = Planned(p.kind)
        \/ n = Bare("Unresolved")
    BY <1>3, <1>5, IngestedAre
  <2>2. x \in DOMAIN DeclaredNodes(S) /\ n = DeclaredNodes(S)[x]
    BY <1>7, <2>1, FieldsOfANode
  <2> QED BY <1>3, <2>2, DeclaredOfTree
<1> HIDE DEF n, k
<1>9. CASE \E f \in files : <<x, n>> \in Names(f, T[f])
  <2>1. PICK f \in files : <<x, n>> \in Names(f, T[f])
    BY <1>9
  <2> DEFINE p == <<x, n>>
  <2>2. p \in Names(f, T[f]) /\ p[1] = x /\ f \in Present(T)
    BY <1>3, <2>1
  <2> HIDE DEF p
  <2>3. LangOfFqn(x) = langOf[f]
    BY <2>2, ContentsOfTrees, LangOfName
  <2>4. x \in CodeOf(f, T)
    BY <2>2 DEF CodeOf
  <2> QED BY <1>7, <2>2, <2>3, <2>4 DEF k
<1>10. CASE \E f \in Present(T) : x \in Prefixes(moduleOf[f])
  <2>1. PICK f \in Present(T) : x \in Prefixes(moduleOf[f])
    BY <1>10
  <2>2. f \in File /\ x \in Chain(f)
    BY <2>1 DEF Present, Chain
  <2>3. x[1] = langOf[f] /\ Len(x) # 1
    BY <2>2, ChainFacts
  <2> QED BY <1>7, <2>1, <2>2, <2>3 DEF LangOfFqn, CodeOf, k
<1>11. CASE n = Bare("Language")
  BY <1>7, <1>11, FieldsOfANode
<1>12. CASE \E f \in files : x = <<f>>
  <2>1. PICK f \in files : x = <<f>>
    BY <1>12
  <2>2. f \in Present(T) /\ f \in File
    BY <1>3, <2>1 DEF Present
  <2>3. LangOfFqn(x) = langOf[f]
    BY <2>1, <2>2 DEF LangOfFqn
  <2> QED BY <1>7, <2>1, <2>2, <2>3 DEF CodeOf, k
<1> QED BY <1>8, <1>9, <1>10, <1>11, <1>12 DEF DeclaredAs

\* A scan's universe has it, of every file whose language nothing spoilt.
LEMMA UniverseHas ==
    ASSUME ModulesInv, OwnNames, NEW w \in Worktree, pc[w] = "assemble", NEW f \in Present(tree[w]),
           langOf[f] \notin job[w].hurt \cup (IF job[w].full THEN {} ELSE IF torn[w] THEN Language ELSE storeHurt)
    PROVE  CodeOf(f, tree[w]) \subseteq Universe(w)
<1> DEFINE T == tree[w]
           G == job[w].graph
           units == CachedUnits(w)
<1>1. /\ job[w].manifest = T /\ T \in Trees /\ f \in File /\ FilesInv /\ T[f] \in Contents(f)
      /\ ShowsFiles(G, T) /\ Tells(G, T) /\ EmitsFiles(w) /\ WarmOK(w) /\ JobOK(w)
  <2>1. FilesInv /\ JobDecls(w) /\ T \in Trees
    BY DEF ModulesInv, DeclsInv, FilesInv, UnitsInv, IInv, RepoOK
  <2>2. JobFiles(w) /\ EmitsFiles(w) /\ WarmOK(w) /\ JobOK(w)
    BY <2>1 DEF FilesInv, UnitsInv, OwnInv, IInv, JobsOK
  <2>3. f \in File /\ T[f] \in Contents(f)
    BY <2>1, ContentsOfTrees
  <2> QED BY <2>1, <2>2, <2>3 DEF JobFiles, JobDecls, JobOK
<1>2. UnitsOf(units, T)
  BY CachedAreUnits DEF ModulesInv
<1>3. /\ CodeNames(G) \subseteq Universe(w)
      /\ \A i \in DOMAIN units : CodeNames(units[i]) \subseteq Universe(w)
      /\ \A l \in Skipped(w) : index.scaffolding[l].modules \subseteq Universe(w)
  BY DEF Universe, ReusedCode
<1>4. ASSUME NEW K, <<f>> \in DOMAIN K.nodes, K.nodes[<<f>>] = FileRow(f, T), HasNames(K.nodes, f, T[f])
      PROVE  <<f>> \in CodeNames(K) /\ \A p \in Names(f, T[f]) : p[1] \in CodeNames(K)
  <2>1. <<f>> \in CodeNames(K)
    BY <1>4, FieldsOfAFile DEF CodeNames, FileRow
  <2>2. ASSUME NEW p \in Names(f, T[f]) PROVE p[1] \in CodeNames(K)
    <3>1. p[2].kind \in {"Struct", "Function"} /\ ~p[2].planned
      BY <1>1, NamesAreDeclarations DEF IsDeclaration
    <3>2. p[1] \in DOMAIN K.nodes /\ K.nodes[p[1]] = p[2]
      BY <1>4 DEF HasNames
    <3> QED BY <3>1, <3>2 DEF CodeNames
  <2> QED BY <2>1, <2>2
<1>5. <<f>> \in Universe(w) /\ \A p \in Names(f, T[f]) : p[1] \in Universe(w)
  <2>1. CASE ~job[w].warm /\ (job[w].targets = {} \/ f \in job[w].targets)
    <3>1. <<f>> \in DOMAIN G.nodes
      BY <1>1, <2>1 DEF EmitsFiles, Sure, Real
    <3>2. G.nodes[<<f>>] = FileRow(f, T) /\ HasNames(G.nodes, f, T[f])
      BY <1>1, <3>1 DEF ShowsFiles, Tells
    <3> HIDE DEF G, T
    <3> QED BY <1>3, <1>4, <3>1, <3>2
  <2>2. CASE job[w].warm \/ (job[w].targets # {} /\ f \notin job[w].targets)
    <3>1. f \notin job[w].targets /\ (job[w].targets # {} \/ job[w].warm)
      BY <1>1, <2>2 DEF WarmOK
    <3>2. PICK i \in DOMAIN units : pathOrder[i] = f
      <4>1. FilesInv /\ f \in Present(job[w].manifest)
        BY <1>1
      <4>2. \E i \in DOMAIN CachedUnits(w) :
               pathOrder[i] = f /\ CachedUnits(w)[i] = index.units[<<f, job[w].manifest[f]>>]
        BY <3>1, <4>1, ReusedOrNew, Zenon
      <4> QED BY <4>2
    <3>3. UnitRight(units[i], f, T[f]) /\ UnitTells(units[i], f, T[f])
      BY <1>2, <3>2 DEF UnitsOf
    <3> HIDE DEF units, T
    <3>4. /\ <<f>> \in DOMAIN units[i].nodes /\ units[i].nodes[<<f>>] = FileRow(f, T)
          /\ HasNames(units[i].nodes, f, T[f])
      BY <3>3 DEF UnitRight, UnitTells, FileRow
    <3> QED BY <1>3, <1>4, <3>2, <3>4
  <2> QED BY <2>1, <2>2
<1>6. Chain(f) \subseteq Universe(w)
  <2>1. CASE HasChain(G, f)
    <3>1. \A x \in Chain(f) : x \in CodeNames(G)
      BY <2>1 DEF HasChain, RealModule, IsKind, CodeNames
    <3> QED BY <1>3, <3>1
  <2>2. CASE langOf[f] \in Skipped(w) /\ Replays(f)
    BY <1>3, <2>2 DEF Replays, Holds
  <2> QED BY <1>1, <2>1, <2>2, WalkedOrSkipped
<1> QED BY <1>5, <1>6 DEF CodeOf

\* Where each file has names of its own, a scan refuses no layer tree for code its
\* tree has: before the graph is assembled, what was emitted and what will be reused
\* has every file, module and declaration of every language no fault has touched,
\* whichever worktree scanned ahead of this one's database.
THEOREM ScansSeeTheCode == ASSUME OwnNames PROVE Spec => []DriftSeesCode
<1>1. ASSUME ModulesInv PROVE DriftSeesCode
  <2> DEFINE spoilt(w) == job[w].hurt \cup (IF job[w].full THEN {} ELSE storeHurt)
  <2> SUFFICES ASSUME NEW w \in Worktree, pc[w] = "assemble", ~torn[w],
                      NEW r \in Rebuilt(job[w].manifest).rows,
                      r[1][1] # "Language", LangOfFqn(r[1][2]) \notin spoilt(w)
               PROVE  r[1][2] \in Universe(w)
    BY DEF DriftSeesCode
  <2>1. job[w].manifest = tree[w] /\ tree[w] \in Trees
    BY <1>1 DEF ModulesInv, DeclsInv, FilesInv, UnitsInv, IInv, JobsOK, JobOK, RepoOK
  <2>2. r \in ShownRows(Rebuild(tree[w]))
    BY <2>1, RebuiltRows
  <2>3. PICK f \in Present(tree[w]) : r[1][2] \in CodeOf(f, tree[w]) /\ LangOfFqn(r[1][2]) = langOf[f]
    BY <2>1, <2>2, RebuiltCode
  <2>4. langOf[f] \notin job[w].hurt \cup (IF job[w].full THEN {} ELSE IF torn[w] THEN Language ELSE storeHurt)
    BY <2>3
  <2> QED BY <1>1, <2>3, <2>4, UniverseHas
<1> QED BY <1>1, ModulesAlways, PTL

-----------------------------------------------------------------------------
(* The edges of a file, and of the hierarchy files lie in                    *)

\* A declaration of a file under a content, as a record, and its FQN.
RecordOf(f, c, d) == Record(Alone(f, c), f, d)
FqnIn(f, c, d) ==
    IF d.kind = "Struct" THEN StructFqn(RecordOf(f, c, d))
    ELSE FunctionFqn(FunctionsOf(f, c), RecordOf(f, c, d))

\* Those that are admitted.
Named(f, c) ==
    {d \in declares[f][c] :
        \/ d.kind = "Struct"
        \/ /\ d.kind = "Function"
           /\ \A s \in StructsOf(f, c) : StructFqn(s) # FunctionFqn(FunctionsOf(f, c), RecordOf(f, c, d))}

\* A file contains its declarations, a struct its members.
BodyRels(f, c) ==
    {<<"Contains", <<"File", <<f>> >>, <<d.kind, FqnIn(f, c, d)>> >> : d \in Named(f, c)}
      \cup {<<"Contains", <<"Struct", FqnIn(f, c, q[1])>>, <<q[2].kind, FqnIn(f, c, q[2])>> >> :
               q \in {p \in Named(f, c) \X Named(f, c) :
                         p[1].kind = "Struct" /\ p[2].within = Append(p[1].within, p[1].name)}}

Unrow(r)   == <<r[1], r[2][2], r[3][2]>>
Body(f, c) == {Unrow(r) : r \in BodyRels(f, c)}

\* What a reference may stand for, whatever its file is given.
Meant(r, kind, y) ==
    \E c \in Contents(r[1]) : \E x \in declares[r[1]][c] : x.kind = kind /\ x.name = r[2] /\ y = FqnIn(r[1], c, x)

RefersAs(e, f, c) ==
    \E d \in Named(f, c) :
        /\ e[2] = FqnIn(f, c, d)
        /\ \/ e[1] = "Calls" /\ \E r \in d.calls : Meant(r, "Function", e[3])
           \/ e[1] = "Uses" /\ \E r \in d.uses : Meant(r, "Struct", e[3])

OfFile(e, f, c) == e \in Body(f, c) \/ RefersAs(e, f, c)

\* A module is contained in its language and in the module above, a file in its
\* module, what is planned where it is planned.
Rooted(x)   == <<"Contains", <<x[1]>>, x>>
Linked(x)   == <<"Contains", Above(x), x>>
PlanEdge(p) == <<"Contains", p.parent, p.fqn>>
Plans       == {p \in Placeholders : p.parent # None}

Hierarchic(e) ==
    \/ \E x \in AllModules : e = Rooted(x) \/ (Len(x) > 2 /\ e = Linked(x))
    \/ \E f \in File : e = Parent(f)
    \/ \E p \in Plans : e = PlanEdge(p)

Unresolves(e) == e[1] \in {"UnresolvedCall", "UnresolvedUse"} /\ e[3][1] = "?"
Vague(e)      == e[1] \in {"Contains", "Calls", "Uses"} /\ (e[2][1] = "id" \/ e[3][1] = "id")

\* FQNs are read one way: one FQN, one name.  No file is planned, and nothing at
\* the FQN of a module or a language; what is planned lies in its language.
Legible ==
    /\ \A f, g \in File : \A c \in Contents(f), e \in Contents(g) :
          \A d \in Named(f, c), x \in Named(g, e) : FqnIn(f, c, d) = FqnIn(g, e, x) => d.name = x.name
    /\ \A p \in Placeholders :
          /\ p.kind # "File" /\ p.fqn \notin AllModules /\ \A l \in Language : p.fqn # <<l>>
          /\ p.parent # None => LangOfFqn(p.parent) = LangOfFqn(p.fqn)

-----------------------------------------------------------------------------
(* What a graph draws of a tree                                              *)

\* Files, modules and languages at their own FQNs and as they are.
PlainNode(x, n) ==
    /\ x[1] # "id" /\ n.kind \in {"Language", "Module", "File", "Struct", "Function", "Unresolved"}
    /\ n.kind = "File" => \E f \in File : x = <<f>>
    /\ n.kind = "Module" => n = Planned("Module") \/ (n = Bare("Module") /\ x \in AllModules)
    /\ n.planned => \E p \in Placeholders : x = p.fqn
    /\ n.kind = "Language" <=> \E l \in Language : x = <<l>>
    /\ n.kind = "Language" => n = Bare("Language")

Plain(G)     == \A x \in DOMAIN G.nodes : PlainNode(x, G.nodes[x])
Drawn(G, T)  == \A e \in G.edges : \/ Hierarchic(e) \/ Unresolves(e) \/ Vague(e)
                                   \/ \E f \in Present(T) : OfFile(e, f, T[f])
HasBodies(G, T) == \A f \in Present(T) : <<f>> \in DOMAIN G.nodes => Body(f, T[f]) \subseteq G.edges
HasRoots(G, f)  == \A x \in Chain(f) : <<x[1]>> \in DOMAIN G.nodes /\ Rooted(x) \in G.edges
HasPlans(G) == \A p \in Plans :
    /\ p.parent \in DOMAIN G.nodes /\ p.fqn \in DOMAIN G.nodes
    /\ ValidPair("Contains", G.nodes[p.parent].kind, G.nodes[p.fqn].kind)
    => PlanEdge(p) \in G.edges
Lies(x, T)      == \E f \in Present(T) : x \in Chain(f)
Exact(G, T, hurt) == \A x \in DOMAIN G.nodes : RealModule(G, x) /\ x[1] \notin hurt => Lies(x, T)

Draws(G, T) == Plain(G) /\ Drawn(G, T) /\ HasBodies(G, T)

-----------------------------------------------------------------------------
UnitDraws(u, f, c) ==
    /\ u.modules \subseteq {moduleOf[f]} /\ Body(f, c) \subseteq u.edges
    /\ \A e \in u.edges : Hierarchic(e) \/ Unresolves(e) \/ OfFile(e, f, c)
UnitsDraw(units) == \A f \in File : \A c : <<f, c>> \in DOMAIN units => UnitDraws(units[<<f, c>>], f, c)

ScaffoldingDraws(s, l) ==
    /\ \A x \in s.modules : x \in AllModules /\ x[1] = l
    /\ \A e \in s.edges : \E x \in AllModules : Len(x) > 2 /\ e = <<Above(x), x>>
    /\ \A x \in s.languages : \E k \in Language : x = <<k>>
    /\ \A e \in s.languageEdges : \E x \in AllModules : e = << <<x[1]>>, x>>
Roots(s, f) == \A x \in Chain(f) : <<x[1]>> \in s.languages /\ << <<x[1]>>, x>> \in s.languageEdges
Spans(l, T) == \A x \in index.scaffolding[l].modules : Lies(x, T)

StoreDraws ==
    /\ UnitsDraw(index.units)
    /\ \A l \in Language : ScaffoldingDraws(index.scaffolding[l], l)

Anchors(f, T)  == Roots(index.scaffolding[langOf[f]], f) /\ Spans(langOf[f], T)
RecordedDraws  == AtRest /\ scan # None => \A f \in Stored : Anchors(f, manifest)
CountsDraws(w) ==
    /\ pc[w] \in {"emit", "assemble"} /\ ~job[w].full =>
         \A f \in Present(job[w].manifest) \ job[w].targets : langOf[f] \notin storeHurt =>
            /\ Roots(index.scaffolding[langOf[f]], f)
            /\ (\A g \in job[w].targets : langOf[g] # langOf[f]) => Spans(langOf[f], job[w].manifest)
    /\ MidSave(w) => \A f \in Sure(w) : Anchors(f, job[w].manifest)

JobDraws(w) ==
    /\ Draws(job[w].graph, tree[w]) /\ UnitsDraw(job[w].held)
    /\ job[w].warm => Present(tree[w]) # {}
    /\ pc[w] = "assemble" =>
         /\ \A p \in Plans : PlanEdge(p) \in job[w].graph.edges
         /\ Exact(job[w].graph, tree[w], {})
    /\ pc[w] = "assemble" /\ ~job[w].warm => \A f \in Sure(w) :
          job[w].targets = {} \/ (\E g \in job[w].targets : langOf[g] = langOf[f]) => HasRoots(job[w].graph, f)
    /\ pc[w] \in Saving =>
         /\ HasPlans(job[w].graph) /\ Exact(job[w].graph, tree[w], job[w].hurt)
         /\ \A e \in job[w].graph.edges : ~Vague(e)
         /\ \A f \in Sure(w) : HasRoots(job[w].graph, f)

-----------------------------------------------------------------------------
(* Databases                                                                 *)

FrameRels(f) ==
    {<<"Contains", <<"Language", <<x[1]>> >>, <<"Module", x>> >> : x \in Chain(f)}
      \cup {<<"Contains", <<"Module", Above(x)>>, <<"Module", x>> >> : x \in {y \in Chain(f) : Len(y) > 2}}
      \cup {<<"Contains", <<"Module", moduleOf[f]>>, <<"File", <<f>> >> >>}

ShownAt(D, k) == k \in DOMAIN D.rows /\ ~D.rows[k].planned

RowsPlain(D) == \A k \in DOMAIN D.rows : PlainNode(k[2], D.rows[k])
RelsDrawn(D, T, hurt) == \A r \in D.rels :
    /\ r = <<r[1], r[2], r[3]>> /\ r[2] \in DOMAIN D.rows /\ r[3] \in DOMAIN D.rows
    /\ ValidPair(r[1], r[2][1], r[3][1])
    /\ \/ Hierarchic(Unrow(r)) \/ Unresolves(Unrow(r))
       \/ \E f \in File : \E c \in Contents(f) :
             OfFile(Unrow(r), f, c) /\ (langOf[f] \notin hurt => T[f] = c)
DbExact(D, T, hurt) == \A k \in DOMAIN D.rows :
    k[1] = "Module" /\ ~D.rows[k].planned /\ k[2][1] \notin hurt => Lies(k[2], T)
DbFramed(D, T, hurt) == \A f \in Present(T) : langOf[f] \notin hurt =>
    /\ \A x \in Chain(f) : ShownAt(D, <<"Module", x>>) /\ ShownAt(D, <<"Language", <<x[1]>> >>)
    /\ FrameRels(f) \cup BodyRels(f, T[f]) \subseteq D.rels
DbPlans(D, hurt) == \A p \in Plans : \A a, b \in DOMAIN D.rows :
    /\ a[2] = p.parent /\ b[2] = p.fqn /\ ~D.rows[a].planned /\ ~D.rows[b].planned
    /\ ValidPair("Contains", a[1], b[1]) /\ LangOfFqn(p.fqn) \notin hurt
    => <<"Contains", a, b>> \in D.rels

DbDraws(D, T, hurt) ==
    RowsPlain(D) /\ RelsDrawn(D, T, hurt) /\ DbExact(D, T, hurt) /\ DbFramed(D, T, hurt) /\ DbPlans(D, hurt)

DbTrees(w) == db[w] # None => DbDraws(db[w].graph, db[w].key.tree, db[w].hurt)

TreesInv ==
    /\ ModulesInv /\ StoreDraws /\ RecordedDraws
    /\ \A w \in Worktree : JobDraws(w) /\ (~torn[w] => CountsDraws(w)) /\ DbTrees(w)

-----------------------------------------------------------------------------
LEMMA RecordsIn ==
    ASSUME NEW f \in File, NEW c \in Contents(f), NEW s
    PROVE  /\ s \in StructsOf(f, c) <=> \E d \in declares[f][c] : d.kind = "Struct" /\ s = RecordOf(f, c, d)
           /\ s \in FunctionsOf(f, c) <=> \E d \in declares[f][c] : d.kind = "Function" /\ s = RecordOf(f, c, d)
<1>1. Alone(f, c)[f] = c /\ c # Missing
  BY DEF Alone, Contents
<1>2. DeclsOf(Alone(f, c), f) = declares[f][c]
  BY <1>1 DEF DeclsOf
<1>3. ASSUME NEW kind
      PROVE  s \in Records(Alone(f, c), {f}, kind) <=>
                 \E d \in declares[f][c] : d.kind = kind /\ s = Record(Alone(f, c), f, d)
  <2>1. s \in Records(Alone(f, c), {f}, kind) <=>
            \E d \in {x \in DeclsOf(Alone(f, c), f) : x.kind = kind} : s = Record(Alone(f, c), f, d)
    BY DEF Records
  <2> QED BY <1>2, <2>1
<1> QED BY <1>3 DEF RecordOf, StructsOf, FunctionsOf

\* What is admitted of a file is what it has names for.
LEMMA NamedAreNames ==
    ASSUME NEW f \in File, NEW c \in Contents(f)
    PROVE  /\ \A d \in Named(f, c) : /\ d \in declares[f][c] /\ d.kind \in {"Struct", "Function"}
                                     /\ \E p \in Names(f, c) : p[1] = FqnIn(f, c, d) /\ p[2].kind = d.kind
           /\ \A p \in Names(f, c) : \E d \in Named(f, c) : p[1] = FqnIn(f, c, d) /\ p[2].kind = d.kind
<1>1. /\ \A s : s \in StructsOf(f, c) <=> \E d \in declares[f][c] : d.kind = "Struct" /\ s = RecordOf(f, c, d)
      /\ \A s : s \in FunctionsOf(f, c) <=> \E d \in declares[f][c] : d.kind = "Function" /\ s = RecordOf(f, c, d)
  BY RecordsIn
<1>2. ASSUME NEW d \in Named(f, c)
      PROVE  /\ d \in declares[f][c] /\ d.kind \in {"Struct", "Function"}
             /\ \E p \in Names(f, c) : p[1] = FqnIn(f, c, d) /\ p[2].kind = d.kind
  <2>1. CASE d.kind = "Struct"
    <3> DEFINE s == RecordOf(f, c, d)
               p == <<StructFqn(s), NodeOf("Struct", f, None, c)>>
    <3>1. s \in StructsOf(f, c) /\ d \in declares[f][c]
      BY <1>1, <2>1 DEF Named
    <3>2. p[1] = FqnIn(f, c, d) /\ p[2].kind = "Struct"
      BY <2>1, FieldsOfANode DEF FqnIn
    <3>3. p \in Names(f, c)
      BY <3>1 DEF Names, StructPairs
    <3> HIDE DEF p
    <3> QED BY <2>1, <3>1, <3>2, <3>3
  <2>2. CASE d.kind = "Function"
    <3> DEFINE s == RecordOf(f, c, d)
               p == <<FunctionFqn(FunctionsOf(f, c), s), NodeOf("Function", f, s.params, c)>>
    <3>1. /\ s \in FunctionsOf(f, c) /\ d \in declares[f][c]
          /\ \A t \in StructsOf(f, c) : StructFqn(t) # FunctionFqn(FunctionsOf(f, c), s)
      BY <1>1, <2>2 DEF Named
    <3>2. p[1] = FqnIn(f, c, d) /\ p[2].kind = "Function"
      BY <2>2, FieldsOfANode DEF FqnIn
    <3>3. p \in Names(f, c)
      BY <3>1 DEF Names, FunctionPairs
    <3> HIDE DEF p
    <3> QED BY <2>2, <3>1, <3>2, <3>3
  <2> QED BY <2>1, <2>2 DEF Named
<1>3. ASSUME NEW p \in Names(f, c)
      PROVE  \E d \in Named(f, c) : p[1] = FqnIn(f, c, d) /\ p[2].kind = d.kind
  <2>1. CASE p \in StructPairs(f, c)
    <3>1. PICK s \in StructsOf(f, c) : p = <<StructFqn(s), NodeOf("Struct", f, None, c)>>
      BY <2>1 DEF StructPairs
    <3>2. PICK d \in declares[f][c] : d.kind = "Struct" /\ s = RecordOf(f, c, d)
      BY <1>1
    <3>3. d \in Named(f, c) /\ p[1] = FqnIn(f, c, d) /\ p[2].kind = d.kind
      BY <3>1, <3>2, FieldsOfANode DEF Named, FqnIn
    <3> QED BY <3>3
  <2>2. CASE p \in FunctionPairs(f, c)
    <3>1. PICK s \in FunctionsOf(f, c) :
             /\ p = <<FunctionFqn(FunctionsOf(f, c), s), NodeOf("Function", f, s.params, c)>>
             /\ \A t \in StructsOf(f, c) : StructFqn(t) # FunctionFqn(FunctionsOf(f, c), s)
      BY <2>2 DEF FunctionPairs
    <3>2. PICK d \in declares[f][c] : d.kind = "Function" /\ s = RecordOf(f, c, d)
      BY <1>1
    <3>3. d \in Named(f, c) /\ p[1] = FqnIn(f, c, d) /\ p[2].kind = d.kind
      BY <3>1, <3>2, FieldsOfANode DEF Named, FqnIn
    <3> QED BY <3>3
  <2> QED BY <2>1, <2>2 DEF Names
<1> QED BY <1>2, <1>3

\* The ends of a file's edges: a file or one of its declarations contains or
\* refers, and what it contains is a declaration of its own.
LEMMA EndsOfFile ==
    ASSUME OwnNames, NEW f \in File, NEW c \in Contents(f), NEW e, OfFile(e, f, c)
    PROVE  /\ e[1] \in {"Contains", "Calls", "Uses"}
           /\ e[2] = <<f>> \/ \E p \in Names(f, c) : p[1] = e[2]
           /\ e[1] = "Contains" => e \in Body(f, c) /\ \E p \in Names(f, c) : p[1] = e[3]
           /\ e[1] # "Contains" => RefersAs(e, f, c) /\ \E p \in Names(f, c) : p[1] = e[2]
<1>1. CASE e \in Body(f, c)
  <2>1. PICK r \in BodyRels(f, c) : e = Unrow(r)
    BY <1>1 DEF Body
  <2>2. e[1] = r[1] /\ e[2] = r[2][2] /\ e[3] = r[3][2]
    BY <2>1 DEF Unrow
  <2>3. CASE r \in {<<"Contains", <<"File", <<f>> >>, <<d.kind, FqnIn(f, c, d)>> >> : d \in Named(f, c)}
    <3>1. PICK d \in Named(f, c) : r = <<"Contains", <<"File", <<f>> >>, <<d.kind, FqnIn(f, c, d)>> >>
      BY <2>3
    <3>2. e[1] = "Contains" /\ e[2] = <<f>> /\ e[3] = FqnIn(f, c, d)
      BY <2>2, <3>1
    <3> QED BY <1>1, <3>2, NamedAreNames
  <2>4. CASE r \in {<<"Contains", <<"Struct", FqnIn(f, c, q[1])>>, <<q[2].kind, FqnIn(f, c, q[2])>> >> :
               q \in {p \in Named(f, c) \X Named(f, c) :
                         p[1].kind = "Struct" /\ p[2].within = Append(p[1].within, p[1].name)}}
    <3>1. PICK q \in Named(f, c) \X Named(f, c) :
             r = <<"Contains", <<"Struct", FqnIn(f, c, q[1])>>, <<q[2].kind, FqnIn(f, c, q[2])>> >>
      BY <2>4
    <3>2. e[1] = "Contains" /\ e[2] = FqnIn(f, c, q[1]) /\ e[3] = FqnIn(f, c, q[2])
      BY <2>2, <3>1
    <3>3. q[1] \in Named(f, c) /\ q[2] \in Named(f, c)
      OBVIOUS
    <3> QED BY <1>1, <3>2, <3>3, NamedAreNames
  <2> QED BY <2>1, <2>3, <2>4 DEF BodyRels
<1>2. CASE RefersAs(e, f, c)
  <2>1. PICK d \in Named(f, c) : e[2] = FqnIn(f, c, d) /\ e[1] \in {"Calls", "Uses"}
    BY <1>2 DEF RefersAs
  <2> QED BY <1>2, <2>1, NamedAreNames
<1> QED BY <1>1, <1>2 DEF OfFile

-----------------------------------------------------------------------------
(* What the ends of a stream's edges resolve to                              *)

LEMMA SameRecord ==
    ASSUME NEW T, NEW f \in File, NEW g \in File, NEW d, NEW x, Id(f, d) = Id(g, x)
    PROVE  f = g /\ d.kind = x.kind /\ Record(T, f, d) = Record(T, g, x)
<1>1. f = g /\ d.kind = x.kind /\ d.within = x.within /\ d.name = x.name /\ d.params = x.params
  BY DEF Id
<1>2. Id(g, x) = Id(f, d) /\ moduleOf[f] \o d.within = moduleOf[g] \o x.within
  BY <1>1
<1> QED BY <1>1, <1>2 DEF Record

LEMMA RecordsOfTree ==
    ASSUME OwnNames, NEW T \in Trees, NEW S, NEW files, TreeStream(S, T, files)
    PROVE  /\ \A f \in files : f \in File /\ T[f] \in Contents(f) /\ DeclsOf(T, f) = declares[f][T[f]]
           /\ \A f \in files : \A d : RecordOf(f, T[f], d) = Record(T, f, d)
           /\ \A s : s \in S.structs <=>
                 \E f \in files : \E d \in declares[f][T[f]] : d.kind = "Struct" /\ s = Record(T, f, d)
           /\ \A s : s \in S.functions <=>
                 \E f \in files : \E d \in declares[f][T[f]] : d.kind = "Function" /\ s = Record(T, f, d)
           /\ \A f \in files : \A d \in declares[f][T[f]] : d.kind = "Function" =>
                 FunctionFqn(S.functions, Record(T, f, d)) = FqnIn(f, T[f], d)
<1>1. /\ files \subseteq Present(T)
      /\ S.structs = Records(T, files, "Struct") /\ S.functions = Records(T, files, "Function")
  BY DEF TreeStream, FactsOf
<1>2. ASSUME NEW f \in files
      PROVE  f \in File /\ T[f] \in Contents(f) /\ T[f] # Missing /\ DeclsOf(T, f) = declares[f][T[f]]
  <2>1. f \in File /\ T[f] \in Contents(f)
    BY <1>1, ContentsOfTrees
  <2> QED BY <2>1 DEF Contents, DeclsOf
<1>3. ASSUME NEW f \in files, NEW d PROVE RecordOf(f, T[f], d) = Record(T, f, d)
  <2>1. Alone(f, T[f])[f] = T[f]
    BY <1>2 DEF Alone
  <2> QED BY <2>1 DEF RecordOf, Record
<1>4. ASSUME NEW kind
      PROVE  \A s : s \in Records(T, files, kind) <=>
                 \E f \in files : \E d \in declares[f][T[f]] : d.kind = kind /\ s = Record(T, f, d)
  BY <1>2 DEF Records
<1>5. ASSUME NEW f \in files, NEW d \in declares[f][T[f]], d.kind = "Function"
      PROVE  FunctionFqn(S.functions, Record(T, f, d)) = FqnIn(f, T[f], d)
  <2> DEFINE r == Record(T, f, d)
  <2>1. r \in FunctionsOf(f, T[f])
    <3>1. r = RecordOf(f, T[f], d)
      BY <1>3
    <3> HIDE DEF r
    <3> QED BY <1>2, <1>5, <3>1, RecordsIn
  <2>2. FunctionFqn(Records(T, files, "Function"), r) = FunctionFqn(FunctionsOf(f, T[f]), r)
    <3> HIDE DEF r
    <3>1. files \in SUBSET Present(T)
      BY <1>1
    <3> QED BY <2>1, <3>1, SameFqn
  <2>3. FqnIn(f, T[f], d) = FunctionFqn(FunctionsOf(f, T[f]), r)
    BY <1>3, <1>5 DEF FqnIn
  <2> QED BY <1>1, <2>2, <2>3
<1> QED BY <1>1, <1>2, <1>3, <1>4, <1>5

LEMMA ResolvedIds ==
    ASSUME OwnNames, NEW T \in Trees, NEW S, NEW files, TreeStream(S, T, files)
    PROVE  /\ \A f \in files : \A d \in declares[f][T[f]] :
                 ResolveEnd(S, Id(f, d)) =
                    IF d \in Named(f, T[f]) THEN FqnIn(f, T[f], d) ELSE Id(f, d)
           /\ \A x : x[1] # "id" => ResolveEnd(S, x) = x
<1>1. /\ \A f \in files : f \in File /\ T[f] \in Contents(f) /\ DeclsOf(T, f) = declares[f][T[f]]
      /\ \A f \in files : \A d : RecordOf(f, T[f], d) = Record(T, f, d)
      /\ \A s : s \in S.structs <=>
            \E f \in files : \E d \in declares[f][T[f]] : d.kind = "Struct" /\ s = Record(T, f, d)
      /\ \A s : s \in S.functions <=>
            \E f \in files : \E d \in declares[f][T[f]] : d.kind = "Function" /\ s = Record(T, f, d)
      /\ \A f \in files : \A d \in declares[f][T[f]] : d.kind = "Function" =>
            FunctionFqn(S.functions, Record(T, f, d)) = FqnIn(f, T[f], d)
  BY RecordsOfTree
<1>2. \A f, d : Record(T, f, d).id = Id(f, d) /\ Id(f, d)[1] = "id"
  BY DEF Record, Id
<1>3. Admitted(S) \subseteq S.functions
  BY DEF Admitted
<1>4. ASSUME NEW x, x[1] # "id" PROVE ResolveEnd(S, x) = x
  <2>1. ~\E s \in S.structs : s.id = x
    BY <1>1, <1>2, <1>4
  <2>2. ~\E d \in Admitted(S) : d.id = x
    BY <1>1, <1>2, <1>3, <1>4
  <2> QED BY <2>1, <2>2, Zenon DEF ResolveEnd
<1>5. ASSUME NEW f \in files, NEW d \in declares[f][T[f]], d.kind = "Struct"
      PROVE  d \in Named(f, T[f]) /\ ResolveEnd(S, Id(f, d)) = FqnIn(f, T[f], d)
  <2> DEFINE s == CHOOSE s \in S.structs : s.id = Id(f, d)
  <2>1. \E z \in S.structs : z.id = Id(f, d)
    BY <1>1, <1>2, <1>5
  <2>2. s \in S.structs /\ s.id = Id(f, d)
    BY <2>1
  <2>3. ResolveEnd(S, Id(f, d)) = StructFqn(s)
    BY <2>1, Zenon DEF ResolveEnd
  <2> HIDE DEF s
  <2>4. PICK g \in files : \E y \in declares[g][T[g]] : s = Record(T, g, y)
    BY <1>1, <2>2
  <2>5. PICK y \in declares[g][T[g]] : s = Record(T, g, y)
    BY <2>4
  <2>6. s = Record(T, f, d)
    <3>1. Id(f, d) = Id(g, y)
      BY <1>2, <2>2, <2>5
    <3> QED BY <1>1, <2>5, <3>1, SameRecord
  <2>7. FqnIn(f, T[f], d) = StructFqn(s)
    BY <1>1, <1>5, <2>6 DEF FqnIn
  <2> QED BY <1>5, <2>3, <2>7 DEF Named
<1>6. ASSUME NEW f \in files, NEW d \in declares[f][T[f]], d.kind # "Struct"
      PROVE  ~\E s \in S.structs : s.id = Id(f, d)
  <2> SUFFICES ASSUME NEW s \in S.structs, s.id = Id(f, d) PROVE FALSE
    OBVIOUS
  <2>1. PICK g \in files : \E y \in declares[g][T[g]] : y.kind = "Struct" /\ s = Record(T, g, y)
    BY <1>1
  <2>2. PICK y \in declares[g][T[g]] : y.kind = "Struct" /\ s = Record(T, g, y)
    BY <2>1
  <2>3. Id(f, d) = Id(g, y)
    BY <1>2, <2>2
  <2>4. d.kind = y.kind
    BY <1>1, <2>3, SameRecord
  <2> QED BY <1>6, <2>2, <2>4
<1>7. ASSUME NEW f \in files, NEW d \in declares[f][T[f]], NEW r \in Admitted(S), r.id = Id(f, d)
      PROVE  d.kind = "Function" /\ r = Record(T, f, d) /\ d \in Named(f, T[f])
  <2>1. PICK g \in files : \E y \in declares[g][T[g]] : y.kind = "Function" /\ r = Record(T, g, y)
    BY <1>1, <1>3
  <2>2. PICK y \in declares[g][T[g]] : y.kind = "Function" /\ r = Record(T, g, y)
    BY <2>1
  <2>3. Id(f, d) = Id(g, y)
    BY <1>2, <1>7, <2>2
  <2>4. d.kind = y.kind /\ r = Record(T, f, d)
    BY <1>1, <2>2, <2>3, SameRecord
  <2>5. FunctionFqn(S.functions, r) \notin StructNames(S)
    BY DEF Admitted
  <2>6. FunctionFqn(FunctionsOf(f, T[f]), RecordOf(f, T[f], d)) = FunctionFqn(S.functions, r)
    <3>1. FqnIn(f, T[f], d) = FunctionFqn(FunctionsOf(f, T[f]), RecordOf(f, T[f], d))
      BY <2>2, <2>4 DEF FqnIn
    <3> QED BY <1>1, <2>2, <2>4, <3>1
  <2>7. ASSUME NEW s \in StructsOf(f, T[f]) PROVE s \in S.structs
    <3>1. PICK z \in declares[f][T[f]] : z.kind = "Struct" /\ s = RecordOf(f, T[f], z)
      BY <1>1, RecordsIn
    <3>2. s = Record(T, f, z)
      BY <1>1, <3>1
    <3> QED BY <1>1, <3>1, <3>2
  <2>8. \A s \in StructsOf(f, T[f]) : StructFqn(s) # FunctionFqn(S.functions, r)
    BY <2>5, <2>7 DEF StructNames
  <2>9. d.kind = "Function"
    BY <2>2, <2>4
  <2> QED BY <2>4, <2>6, <2>8, <2>9 DEF Named
<1>8. ASSUME NEW f \in files, NEW d \in declares[f][T[f]], d.kind = "Function", d \in Named(f, T[f])
      PROVE  Record(T, f, d) \in Admitted(S)
  <2> DEFINE r == Record(T, f, d)
  <2>1. r \in S.functions /\ FunctionFqn(S.functions, r) = FqnIn(f, T[f], d)
    BY <1>1, <1>8
  <2>2. PICK p \in Names(f, T[f]) : p[1] = FqnIn(f, T[f], d) /\ p[2].kind = d.kind
    BY <1>1, <1>8, NamedAreNames
  <2>3. ASSUME NEW s \in S.structs, StructFqn(s) = FqnIn(f, T[f], d) PROVE FALSE
    <3>1. PICK g \in files : \E y \in declares[g][T[g]] : y.kind = "Struct" /\ s = Record(T, g, y)
      BY <1>1
    <3>2. PICK y \in declares[g][T[g]] : y.kind = "Struct" /\ s = Record(T, g, y)
      BY <3>1
    <3>3. y \in Named(g, T[g]) /\ FqnIn(g, T[g], y) = StructFqn(s)
      BY <1>1, <3>2 DEF Named, FqnIn
    <3>4. PICK q \in Names(g, T[g]) : q[1] = FqnIn(g, T[g], y) /\ q[2].kind = y.kind
      BY <1>1, <3>3, NamedAreNames
    <3>5. p[2].kind = q[2].kind
      BY <1>1, <2>2, <2>3, <3>3, <3>4, OneOwner
    <3> QED BY <1>8, <2>2, <3>2, <3>4, <3>5
  <2> HIDE DEF r
  <2>4. FunctionFqn(S.functions, r) \notin StructNames(S)
    BY <2>1, <2>3 DEF StructNames
  <2> QED BY <2>1, <2>4 DEF Admitted, r
<1>9. ASSUME NEW f \in files, NEW d \in declares[f][T[f]], d.kind # "Struct"
      PROVE  ResolveEnd(S, Id(f, d)) = IF d \in Named(f, T[f]) THEN FqnIn(f, T[f], d) ELSE Id(f, d)
  <2>1. CASE d \in Named(f, T[f])
    <3> DEFINE r == CHOOSE r \in Admitted(S) : r.id = Id(f, d)
    <3>1. d.kind = "Function"
      BY <1>9, <2>1 DEF Named
    <3>2. \E z \in Admitted(S) : z.id = Id(f, d)
      BY <1>2, <1>8, <2>1, <3>1
    <3>3. r \in Admitted(S) /\ r.id = Id(f, d)
      BY <3>2
    <3>4. ResolveEnd(S, Id(f, d)) = FunctionFqn(S.functions, r)
      BY <1>6, <1>9, <3>2, Zenon DEF ResolveEnd
    <3> HIDE DEF r
    <3>5. r = Record(T, f, d)
      BY <1>7, <3>3
    <3> QED BY <1>1, <2>1, <3>1, <3>4, <3>5
  <2>2. CASE d \notin Named(f, T[f])
    <3>1. ~\E z \in Admitted(S) : z.id = Id(f, d)
      BY <1>7, <2>2
    <3>2. ResolveEnd(S, Id(f, d)) = Id(f, d)
      BY <1>6, <1>9, <3>1, Zenon DEF ResolveEnd
    <3> QED BY <2>2, <3>2
  <2> QED BY <2>1, <2>2
<1> QED BY <1>4, <1>5, <1>9

-----------------------------------------------------------------------------
(* What is ingested draws the tree                                           *)

\* The edges of a frontend's stream, and the hierarchy it walks.
LEMMA StreamParts ==
    ASSUME NEW T, NEW l \in Language, NEW emitted, NEW R, R = Stream(T, l, emitted)
    PROVE  LET of == {r.path : r \in R.files} IN
           /\ \A e \in R.edges : \E f \in of :
                 e \in MemberEdges(T, f) \/ \E d \in DeclsOf(T, f) : e \in RefEdges(T, of, f, d)
           /\ \A f \in of : MemberEdges(T, f) \subseteq R.edges
           /\ \A e \in R.moduleEdges : \E g \in Present(T) : \E x \in Chain(g) : Len(x) > 2 /\ e = <<Above(x), x>>
           /\ \A m \in R.modules : \E g \in Present(T) : m[2] \in Chain(g) /\ m[1] = langOf[g]
           /\ \A g \in Present(T) : langOf[g] = l => \A x \in Chain(g) : <<l, x>> \in R.modules
<1> DEFINE walked  == {f \in Present(T) : langOf[f] = l}
           files   == walked \cap emitted
           modules == UNION {Prefixes(moduleOf[f]) : f \in walked}
           edges   == EdgesOf(T, files)
           of == {r.path : r \in R.files}
<1>1. R = Spool(T, l, modules, files, edges)
  BY DEF Stream
<1>2. of = files
  <2>1. FactsOf(R, T, files)
    BY StreamIsOfTree
  <2> HIDE DEF files
  <2> QED BY <2>1, FilesOfFacts
<1>3. ASSUME NEW x \in modules PROVE \E g \in Present(T) : x \in Chain(g) /\ langOf[g] = l
  BY DEF Chain
<1>4. \A g \in Present(T) : langOf[g] = l => \A x \in Chain(g) : x \in modules
  BY DEF Chain
<1> HIDE DEF modules, files
<1>5. /\ R.modules = {<<l, m>> : m \in modules}
      /\ R.moduleEdges = {<<SubSeq(m, 1, Len(m) - 1), m>> : m \in {x \in modules : Len(x) > 2}}
      /\ R.edges = edges
  BY <1>1 DEF Spool
<1>6. /\ \A e \in edges : \E f \in files :
            e \in MemberEdges(T, f) \/ \E d \in DeclsOf(T, f) : e \in RefEdges(T, files, f, d)
      /\ \A f \in files : MemberEdges(T, f) \subseteq edges
  BY DEF EdgesOf
<1>7. \A e \in R.moduleEdges : \E g \in Present(T) : \E x \in Chain(g) : Len(x) > 2 /\ e = <<Above(x), x>>
  <2> SUFFICES ASSUME NEW e \in R.moduleEdges
               PROVE  \E g \in Present(T) : \E x \in Chain(g) : Len(x) > 2 /\ e = <<Above(x), x>>
    OBVIOUS
  <2>1. PICK x \in modules : Len(x) > 2 /\ e = <<Above(x), x>>
    BY <1>5 DEF Above
  <2> QED BY <1>3, <2>1
<1>8. \A m \in R.modules : \E g \in Present(T) : m[2] \in Chain(g) /\ m[1] = langOf[g]
  BY <1>3, <1>5
<1>9. \A g \in Present(T) : langOf[g] = l => \A x \in Chain(g) : <<l, x>> \in R.modules
  BY <1>4, <1>5
<1> HIDE DEF edges, of
<1> QED BY <1>2, <1>5, <1>6, <1>7, <1>8, <1>9 DEF of

\* And of the streams of a pass.
LEMMA JoinedParts ==
    ASSUME NEW T, NEW spools, OfTree(spools, T), NEW S, S = Joined(spools),
           NEW files, files = {r.path : r \in S.files}
    PROVE  /\ \A e \in S.edges : \E f \in files :
                 e \in MemberEdges(T, f) \/ \E em \in SUBSET files : \E d \in DeclsOf(T, f) : e \in RefEdges(T, em, f, d)
           /\ \A f \in files : MemberEdges(T, f) \subseteq S.edges
           /\ \A e \in S.moduleEdges : \E g \in Present(T) : \E x \in Chain(g) : Len(x) > 2 /\ e = <<Above(x), x>>
           /\ \A m \in S.modules : \E g \in Present(T) : m[2] \in Chain(g) /\ m[1] = langOf[g]
           /\ \A g \in Present(T) : langOf[g] \in DOMAIN spools => \A x \in Chain(g) : <<langOf[g], x>> \in S.modules
<1> DEFINE All(field) == UNION {spools[l][field] : l \in DOMAIN spools}
           Of(l) == {r.path : r \in spools[l].files}
<1>1. /\ S.modules = All("modules") /\ S.moduleEdges = All("moduleEdges") /\ S.files = All("files")
      /\ S.edges = All("edges")
  BY DEF Joined, EmptyStream
<1>2. ASSUME NEW l \in DOMAIN spools
      PROVE  /\ \A e \in spools[l].edges : \E f \in Of(l) :
                   e \in MemberEdges(T, f) \/ \E d \in DeclsOf(T, f) : e \in RefEdges(T, Of(l), f, d)
             /\ \A f \in Of(l) : MemberEdges(T, f) \subseteq spools[l].edges
             /\ \A e \in spools[l].moduleEdges : \E g \in Present(T) : \E x \in Chain(g) : Len(x) > 2 /\ e = <<Above(x), x>>
             /\ \A m \in spools[l].modules : \E g \in Present(T) : m[2] \in Chain(g) /\ m[1] = langOf[g]
             /\ \A g \in Present(T) : langOf[g] = l => \A x \in Chain(g) : <<l, x>> \in spools[l].modules
  <2>1. l \in Language /\ \E emitted : spools[l] = Stream(T, l, emitted)
    BY DEF OfTree
  <2>2. PICK emitted : spools[l] = Stream(T, l, emitted)
    BY <2>1
  <2> DEFINE R == spools[l]
  <2>3. R = Stream(T, l, emitted)
    BY <2>2
  <2> HIDE DEF R
  <2> USE DEF Of
  <2> QED BY <2>1, <2>3, StreamParts DEF R
<1>3. /\ \A l \in DOMAIN spools : Of(l) \subseteq files
      /\ \A f \in files : \E l \in DOMAIN spools : f \in Of(l)
  BY <1>1
<1> HIDE DEF Of
<1>4. ASSUME NEW e \in S.edges
      PROVE  \E f \in files :
                 e \in MemberEdges(T, f) \/ \E em \in SUBSET files : \E d \in DeclsOf(T, f) : e \in RefEdges(T, em, f, d)
  <2>1. PICK l \in DOMAIN spools : e \in spools[l].edges
    BY <1>1
  <2>2. PICK f \in Of(l) : e \in MemberEdges(T, f) \/ \E d \in DeclsOf(T, f) : e \in RefEdges(T, Of(l), f, d)
    BY <1>2, <2>1
  <2>3. f \in files /\ Of(l) \in SUBSET files
    BY <1>3
  <2> QED BY <2>2, <2>3
<1>5. \A f \in files : MemberEdges(T, f) \subseteq S.edges
  BY <1>1, <1>2, <1>3
<1>6. /\ \A e \in S.moduleEdges : \E g \in Present(T) : \E x \in Chain(g) : Len(x) > 2 /\ e = <<Above(x), x>>
      /\ \A m \in S.modules : \E g \in Present(T) : m[2] \in Chain(g) /\ m[1] = langOf[g]
  BY <1>1, <1>2
<1>7. \A g \in Present(T) : langOf[g] \in DOMAIN spools => \A x \in Chain(g) : <<langOf[g], x>> \in S.modules
  BY <1>1, <1>2
<1> QED BY <1>4, <1>5, <1>6, <1>7

\* An edge of the stream, as it is ingested.
Resolution(S, e) ==
    <<e[1], ResolveEnd(S, e[2]),
      IF e[1] \in {"UnresolvedCall", "UnresolvedUse"} THEN e[3] ELSE ResolveEnd(S, e[3])>>

LEMMA IdIsVague == \A f, d : Id(f, d)[1] = "id"
<1> QED BY DEF Id

LEMMA MembersDrawn ==
    ASSUME OwnNames, NEW T \in Trees, NEW S, NEW files, TreeStream(S, T, files), NEW f \in files,
           NEW e \in MemberEdges(T, f)
    PROVE  Vague(Resolution(S, e)) \/ Resolution(S, e) \in Body(f, T[f])
<1>1. /\ f \in File /\ T[f] \in Contents(f) /\ DeclsOf(T, f) = declares[f][T[f]]
      /\ \A d \in declares[f][T[f]] :
            ResolveEnd(S, Id(f, d)) = IF d \in Named(f, T[f]) THEN FqnIn(f, T[f], d) ELSE Id(f, d)
  BY RecordsOfTree, ResolvedIds
<1>2. PICK q \in DeclsOf(T, f) \X DeclsOf(T, f) :
         /\ q[1].kind = "Struct" /\ q[2].within = Append(q[1].within, q[1].name)
         /\ e = <<"Contains", Id(f, q[1]), Id(f, q[2])>>
  BY DEF MemberEdges
<1> DEFINE r == Resolution(S, e)
<1>3. q[1] \in declares[f][T[f]] /\ q[2] \in declares[f][T[f]]
  BY <1>1
<1>4. r[1] = "Contains" /\ r[2] = ResolveEnd(S, Id(f, q[1])) /\ r[3] = ResolveEnd(S, Id(f, q[2]))
      /\ r = <<r[1], r[2], r[3]>>
  BY <1>2 DEF Resolution
<1> HIDE DEF r
<1>5. CASE q[1] \in Named(f, T[f]) /\ q[2] \in Named(f, T[f])
  <2> DEFINE b == <<"Contains", <<"Struct", FqnIn(f, T[f], q[1])>>, <<q[2].kind, FqnIn(f, T[f], q[2])>> >>
             p == <<q[1], q[2]>>
  <2>1. p \in Named(f, T[f]) \X Named(f, T[f]) /\ p[1] = q[1] /\ p[2] = q[2]
    BY <1>5
  <2>2. b = <<"Contains", <<"Struct", FqnIn(f, T[f], p[1])>>, <<p[2].kind, FqnIn(f, T[f], p[2])>> >>
    BY <2>1
  <2>3. Unrow(b) = r
    BY <1>1, <1>3, <1>4, <1>5 DEF Unrow
  <2> HIDE DEF b, p
  <2>4. b \in BodyRels(f, T[f])
    BY <1>2, <2>1, <2>2 DEF BodyRels
  <2> QED BY <2>3, <2>4 DEF Body, r
<1>6. CASE q[1] \notin Named(f, T[f])
  <2>1. r[2] = Id(f, q[1])
    BY <1>1, <1>3, <1>4, <1>6
  <2> QED BY <2>1, <1>4, IdIsVague DEF Vague, r
<1>7. CASE q[2] \notin Named(f, T[f])
  <2>1. r[3] = Id(f, q[2])
    BY <1>1, <1>3, <1>4, <1>7
  <2> QED BY <2>1, <1>4, IdIsVague DEF Vague, r
<1> QED BY <1>5, <1>6, <1>7

LEMMA MembersAreThere ==
    ASSUME OwnNames, NEW T \in Trees, NEW S, NEW files, TreeStream(S, T, files), NEW f \in files,
           NEW a \in Named(f, T[f]), NEW b \in Named(f, T[f]),
           a.kind = "Struct", b.within = Append(a.within, a.name)
    PROVE  \E e \in MemberEdges(T, f) : Resolution(S, e) = <<"Contains", FqnIn(f, T[f], a), FqnIn(f, T[f], b)>>
<1>1. /\ f \in File /\ T[f] \in Contents(f) /\ DeclsOf(T, f) = declares[f][T[f]]
      /\ \A d \in declares[f][T[f]] :
            ResolveEnd(S, Id(f, d)) = IF d \in Named(f, T[f]) THEN FqnIn(f, T[f], d) ELSE Id(f, d)
  BY RecordsOfTree, ResolvedIds
<1>2. a \in declares[f][T[f]] /\ b \in declares[f][T[f]]
  BY DEF Named
<1> DEFINE p == <<a, b>>
           e == <<"Contains", Id(f, a), Id(f, b)>>
<1>3. p \in DeclsOf(T, f) \X DeclsOf(T, f) /\ p[1] = a /\ p[2] = b
  BY <1>1, <1>2
<1>4. e[1] = "Contains" /\ e[2] = Id(f, a) /\ e[3] = Id(f, b) /\ e = <<"Contains", Id(f, p[1]), Id(f, p[2])>>
  BY <1>3
<1> HIDE DEF p, e
<1>5. e \in MemberEdges(T, f)
  BY <1>3, <1>4 DEF MemberEdges
<1>6. Resolution(S, e) = <<"Contains", FqnIn(f, T[f], a), FqnIn(f, T[f], b)>>
  BY <1>1, <1>2, <1>4 DEF Resolution
<1> QED BY <1>5, <1>6

\* What a reference resolves to is what it may stand for, or an id still.
LEMMA ReferentsMeant ==
    ASSUME OwnNames, NEW T \in Trees, NEW S, NEW files, TreeStream(S, T, files), NEW em \in SUBSET files,
           NEW r, r[1] \in File, NEW kind \in {"Struct", "Function"}, NEW x \in Referents(T, em, r, kind)
    PROVE  ResolveEnd(S, x)[1] = "id" \/ Meant(r, kind, ResolveEnd(S, x))
<1> DEFINE g   == r[1]
           all == Records(T, {f \in Present(T) : langOf[f] = langOf[g]}, "Function")
<1>1. PICK d \in {y \in DeclsOf(T, g) : y.kind = kind /\ y.name = r[2]} :
         x = IF g \in em THEN Id(g, d)
             ELSE IF kind = "Struct" THEN StructFqn(Record(T, g, d)) ELSE FunctionFqn(all, Record(T, g, d))
  BY DEF Referents
<1>2. g \in Present(T) /\ DeclsOf(T, g) = declares[g][T[g]]
  BY <1>1 DEF DeclsOf, Present
<1>3. T[g] \in Contents(g) /\ d \in declares[g][T[g]] /\ d.kind = kind /\ d.name = r[2]
  BY <1>1, <1>2, ContentsOfTrees
<1>4. Meant(r, kind, FqnIn(g, T[g], d))
  BY <1>3 DEF Meant
<1>5. CASE g \in em
  <2>1. g \in files /\ x = Id(g, d)
    BY <1>1, <1>5
  <2>2. ResolveEnd(S, x) = IF d \in Named(g, T[g]) THEN FqnIn(g, T[g], d) ELSE Id(g, d)
    BY <1>3, <2>1, ResolvedIds
  <2> QED BY <1>4, <2>2, IdIsVague
<1>6. CASE g \notin em
  <2>1. RecordOf(g, T[g], d) = Record(T, g, d)
    BY <1>2 DEF RecordOf, Record, Alone
  <2>2. x = FqnIn(g, T[g], d)
    <3>1. CASE kind = "Struct"
      BY <1>1, <1>3, <1>6, <2>1, <3>1 DEF FqnIn
    <3>2. CASE kind = "Function"
      <4> DEFINE fs == {f \in Present(T) : langOf[f] = langOf[g]}
                 y == Record(T, g, d)
      <4>1. fs \in SUBSET Present(T) /\ g \in fs
        BY <1>2
      <4>2. y \in FunctionsOf(g, T[g])
        <5>1. y = RecordOf(g, T[g], d)
          BY <2>1
        <5> HIDE DEF y
        <5> QED BY <1>3, <3>2, <5>1, RecordsIn
      <4> HIDE DEF y
      <4>3. FunctionFqn(Records(T, fs, "Function"), y) = FunctionFqn(FunctionsOf(g, T[g]), y)
        <5> HIDE DEF fs
        <5> QED BY <4>1, <4>2, SameFqn
      <4>4. x = FunctionFqn(all, y)
        BY <1>1, <1>6, <3>2 DEF y
      <4>5. FqnIn(g, T[g], d) = FunctionFqn(FunctionsOf(g, T[g]), y)
        BY <1>3, <2>1, <3>2 DEF FqnIn, y
      <4> QED BY <4>3, <4>4, <4>5
    <3> QED BY <3>1, <3>2
  <2>3. ResolveEnd(S, x) = x \/ x[1] = "id"
    BY ResolvedIds
  <2>4. x[1] # "id"
    <3>1. PICK k \in Language : k = langOf[g]
      BY <1>2, LanguagesOfFiles
    <3>2. FqnIn(g, T[g], d)[1] = langOf[g]
      <4>1. RecordOf(g, T[g], d).parent \in Seq(STRING) /\ RecordOf(g, T[g], d).parent # << >>
            /\ RecordOf(g, T[g], d).parent[1] = langOf[g]
        <5> DEFINE y == RecordOf(g, T[g], d)
        <5>1. y \in StructsOf(g, T[g]) \/ y \in FunctionsOf(g, T[g])
          <6> HIDE DEF y
          <6>1. y = RecordOf(g, T[g], d)
            BY DEF y
          <6> QED BY <1>3, <6>1, RecordsIn
        <5> HIDE DEF y
        <5> QED BY <1>3, <5>1, RecordsOf DEF StructsOf, FunctionsOf, y
      <4>2. CASE kind = "Struct"
        <5>1. Append(RecordOf(g, T[g], d).parent, RecordOf(g, T[g], d).name)[1] = RecordOf(g, T[g], d).parent[1]
          BY <4>1, FirstOfAppend
        <5> QED BY <1>3, <4>1, <4>2, <5>1 DEF FqnIn, StructFqn
      <4>3. CASE kind = "Function"
        BY <1>3, <4>1, <4>3, FirstOfFunction DEF FqnIn
      <4> QED BY <4>2, <4>3
    <3> QED BY <2>2, <3>1, <3>2, NamesAssumption
  <2> QED BY <1>4, <2>2, <2>3, <2>4
<1> QED BY <1>5, <1>6

LEMMA ReferencesDrawn ==
    ASSUME OwnNames, NEW T \in Trees, NEW S, NEW files, TreeStream(S, T, files), NEW em \in SUBSET files,
           NEW f \in files, NEW d \in DeclsOf(T, f), NEW e \in RefEdges(T, em, f, d)
    PROVE  LET R == Resolution(S, e) IN Unresolves(R) \/ Vague(R) \/ RefersAs(R, f, T[f])
<1> DEFINE R == Resolution(S, e)
<1>1. /\ f \in File /\ T[f] \in Contents(f) /\ d \in declares[f][T[f]]
      /\ ResolveEnd(S, Id(f, d)) = IF d \in Named(f, T[f]) THEN FqnIn(f, T[f], d) ELSE Id(f, d)
  BY RecordsOfTree, ResolvedIds
<1>2. \A r \in d.calls \cup d.uses : r[1] \in File
  BY <1>1, NamesAssumption DEF Contents
<1>3. /\ R[1] = e[1] /\ R[2] = ResolveEnd(S, e[2])
      /\ e[1] \in {"UnresolvedCall", "UnresolvedUse"} => R[3] = e[3]
      /\ e[1] \notin {"UnresolvedCall", "UnresolvedUse"} => R[3] = ResolveEnd(S, e[3])
  BY DEF Resolution
<1> HIDE DEF R
<1>4. ASSUME NEW r, r[1] \in File, NEW kind \in {"Struct", "Function"}, NEW table \in {"Calls", "Uses"},
             NEW unresolved \in {"UnresolvedCall", "UnresolvedUse"},
             e \in RefersTo(Id(f, d), r, Referents(T, em, r, kind), table, unresolved)
      PROVE  \/ Unresolves(R) \/ Vague(R)
             \/ /\ d \in Named(f, T[f]) /\ R[2] = FqnIn(f, T[f], d)
                /\ R[1] = table /\ Meant(r, kind, R[3])
  <2>1. CASE Referents(T, em, r, kind) = {}
    <3>1. e = <<unresolved, Id(f, d), Foreign(r)>>
      BY <1>4, <2>1 DEF RefersTo
    <3>2. e[1] = unresolved /\ e[3][1] = "?"
      BY <3>1 DEF Foreign
    <3> QED BY <1>3, <3>2 DEF Unresolves
  <2>2. CASE Referents(T, em, r, kind) # {}
    <3>1. PICK x \in Referents(T, em, r, kind) : e = <<table, Id(f, d), x>>
      BY <1>4, <2>2 DEF RefersTo
    <3>2. e[1] = table /\ e[2] = Id(f, d) /\ e[3] = x
      BY <3>1
    <3>3. R[1] = table /\ R[2] = ResolveEnd(S, Id(f, d)) /\ R[3] = ResolveEnd(S, x)
      BY <1>3, <3>2
    <3>4. R[3][1] = "id" \/ Meant(r, kind, R[3])
      BY <1>4, <3>3, ReferentsMeant
    <3> QED BY <1>1, <3>3, <3>4, IdIsVague DEF Vague
  <2> QED BY <2>1, <2>2
<1>5. CASE \E r \in d.calls : e \in RefersTo(Id(f, d), r, Referents(T, em, r, "Function"), "Calls", "UnresolvedCall")
  <2>1. PICK r \in d.calls : e \in RefersTo(Id(f, d), r, Referents(T, em, r, "Function"), "Calls", "UnresolvedCall")
    BY <1>5
  <2>2. \/ Unresolves(R) \/ Vague(R)
        \/ /\ d \in Named(f, T[f]) /\ R[2] = FqnIn(f, T[f], d)
           /\ R[1] = "Calls" /\ Meant(r, "Function", R[3])
    BY <1>2, <1>4, <2>1
  <2> QED BY <2>2 DEF RefersAs, R
<1>6. CASE \E r \in d.uses : e \in RefersTo(Id(f, d), r, Referents(T, em, r, "Struct"), "Uses", "UnresolvedUse")
  <2>1. PICK r \in d.uses : e \in RefersTo(Id(f, d), r, Referents(T, em, r, "Struct"), "Uses", "UnresolvedUse")
    BY <1>6
  <2>2. \/ Unresolves(R) \/ Vague(R)
        \/ /\ d \in Named(f, T[f]) /\ R[2] = FqnIn(f, T[f], d)
           /\ R[1] = "Uses" /\ Meant(r, "Struct", R[3])
    BY <1>2, <1>4, <2>1
  <2> QED BY <2>2 DEF RefersAs, R
<1> QED BY <1>5, <1>6 DEF RefEdges

\* A name of a file is one of its declarations, contained in it.
LEMMA NameContained ==
    ASSUME NEW f \in File, NEW c \in Contents(f), NEW p \in Names(f, c)
    PROVE  <<"Contains", <<f>>, p[1]>> \in Body(f, c)
<1>1. PICK d \in Named(f, c) : p[1] = FqnIn(f, c, d) /\ p[2].kind = d.kind
  BY NamedAreNames
<1> DEFINE b == <<"Contains", <<"File", <<f>> >>, <<d.kind, FqnIn(f, c, d)>> >>
<1>2. b \in BodyRels(f, c)
  BY DEF BodyRels
<1>3. Unrow(b) = <<"Contains", <<f>>, p[1]>>
  BY <1>1 DEF Unrow
<1> HIDE DEF b
<1> QED BY <1>2, <1>3 DEF Body

\* What is declared is plain.
LEMMA PlainlyDeclared ==
    ASSUME OwnNames, NEW T \in Trees, NEW files, files \subseteq Present(T), NEW x, NEW n, DeclaredAs(x, n, T, files)
    PROVE  PlainNode(x, n)
<1>1. \A f \in files : f \in Present(T) /\ f \in File /\ T[f] \in Contents(f)
  BY ContentsOfTrees
<1>2. CASE \E f \in files : <<x, n>> \in Names(f, T[f])
  <2>1. PICK f \in files : <<x, n>> \in Names(f, T[f])
    BY <1>2
  <2> DEFINE p == <<x, n>>
  <2>2. p \in Names(f, T[f]) /\ p[1] = x /\ p[2] = n
    BY <2>1
  <2> HIDE DEF p
  <2>3. IsDeclaration(n) /\ Deep(x) /\ x[1] = langOf[f]
    BY <1>1, <2>2, NamesAreDeclarations
  <2>4. langOf[f] \in Language /\ x[1] # "id" /\ \A l \in Language : x # <<l>>
    BY <1>1, <2>3, LanguageOfFile, DeepIsNoFile, NamesAssumption
  <2> QED BY <2>3, <2>4 DEF PlainNode, IsDeclaration
<1>3. CASE n = Bare("Module") /\ \E g \in Present(T) : x \in Prefixes(moduleOf[g])
  <2>1. PICK g \in Present(T) : x \in Chain(g)
    BY <1>3 DEF Chain
  <2>2. g \in File
    BY DEF Present
  <2>3. x \in AllModules /\ x[1] = langOf[g] /\ langOf[g] \in Language /\ \A y : x # <<y>>
    BY <2>1, <2>2, ChainFacts, LanguageOfFile, DeepIsNoFile
  <2>4. n.kind = "Module" /\ ~n.planned
    BY <1>3, FieldsOfANode
  <2> QED BY <1>3, <2>3, <2>4, NamesAssumption DEF PlainNode
<1>4. CASE n = Bare("Language") /\ \E l \in Language : x = <<l>>
  <2>1. PICK l \in Language : x = <<l>>
    BY <1>4
  <2>2. x[1] # "id" /\ n.kind = "Language" /\ ~n.planned
    BY <1>4, <2>1, NamesAssumption, FieldsOfANode
  <2> QED BY <1>4, <2>1, <2>2 DEF PlainNode
<1>5. CASE \E f \in files : x = <<f>> /\ n = FileRow(f, T)
  <2>1. PICK f \in files : x = <<f>> /\ n = FileRow(f, T)
    BY <1>5
  <2>2. n.kind = "File" /\ ~n.planned /\ x[1] = f /\ f \in File
    BY <1>1, <2>1, FieldsOfANode DEF FileRow
  <2>3. x[1] # "id" /\ \A l \in Language : x # <<l>>
    BY <2>1, <2>2, NamesAssumption
  <2> QED BY <2>1, <2>2, <2>3 DEF PlainNode
<1> QED BY <1>2, <1>3, <1>4, <1>5 DEF DeclaredAs

\* So is what is planned, or unresolved.
LEMMA PlainlyPlanned ==
    ASSUME Legible, NEW p \in Placeholders
    PROVE  PlainNode(p.fqn, Planned(p.kind))
<1>1. /\ p.kind \in {"Module", "File", "Struct", "Function"} /\ p.fqn[1] # "id" /\ p.kind # "File"
      /\ \A l \in Language : p.fqn # <<l>>
  BY NamesAssumption DEF Legible
<1>2. Planned(p.kind).kind = p.kind
  BY FieldsOfANode
<1> QED BY <1>1, <1>2 DEF PlainNode

LEMMA PlainlyUnresolved ==
    ASSUME NEW x, x[1] = "?"
    PROVE  PlainNode(x, Bare("Unresolved"))
<1>1. \A l \in Language : x # <<l>>
  BY NamesAssumption
<1> QED BY <1>1, FieldsOfANode DEF PlainNode

LEMMA IngestedDraws ==
    ASSUME OwnNames, Legible, NEW T \in Trees, NEW spools, OfTree(spools, T),
           NEW G, G = Ingested(Joined(spools))
    PROVE  /\ Draws(G, T) /\ Exact(G, T, {}) /\ \A p \in Plans : PlanEdge(p) \in G.edges
           /\ \A f \in Present(T) : langOf[f] \in DOMAIN spools => HasRoots(G, f)
<1> DEFINE S == Joined(spools)
           files == {r.path : r \in S.files}
           G0 == [nodes |-> IngestedNodes(S), edges |-> {}]
<1>1. /\ TreeStream(S, T, files) /\ Modest(S, T) /\ S.planned = Placeholders /\ files \subseteq Present(T)
      /\ S.files = {[path |-> f, parent |-> moduleOf[f], body |-> T[f]] : f \in files}
      /\ \A x \in S.unresolved : x[1] = "?"
  BY JoinedIsOfTree, JoinedIsModest DEF OfTree, TreeStream, FactsOf
<1>2. /\ \A x \in DOMAIN DeclaredNodes(S) : DeclaredAs(x, DeclaredNodes(S)[x], T, files)
      /\ Shadowed(S) = {} /\ \A m \in S.modules : m[2] \in DOMAIN DeclaredNodes(S)
  BY <1>1, DeclaredOfTree
<1>3. \A f \in Present(T) : f \in File /\ langOf[f] \in Language /\ T[f] \in Contents(f)
  BY LanguagesOfFiles, ContentsOfTrees DEF Present
<1>4. /\ \A x \in DOMAIN DeclaredNodes(S) : x \in DOMAIN G.nodes /\ G.nodes[x] = DeclaredNodes(S)[x]
      /\ \A x \in DOMAIN G.nodes \ DOMAIN DeclaredNodes(S) :
            \/ \E p \in Placeholders : x = p.fqn /\ G.nodes[x] = Planned(p.kind)
            \/ x \in S.unresolved /\ G.nodes[x] = Bare("Unresolved")
  BY <1>1, IngestedAre
<1>5. /\ G.edges = DerivedEdges(S, G0) \cup StreamEdges(S) /\ G.nodes = IngestedNodes(S)
      /\ G0.nodes = G.nodes
  BY DEF Ingested, WithEdges
<1>6. /\ \A e \in S.edges : \E f \in files :
            e \in MemberEdges(T, f) \/ \E em \in SUBSET files : \E d \in DeclsOf(T, f) : e \in RefEdges(T, em, f, d)
      /\ \A f \in files : MemberEdges(T, f) \subseteq S.edges
      /\ \A e \in S.moduleEdges : \E g \in Present(T) : \E x \in Chain(g) : Len(x) > 2 /\ e = <<Above(x), x>>
      /\ \A m \in S.modules : \E g \in Present(T) : m[2] \in Chain(g) /\ m[1] = langOf[g]
      /\ \A g \in Present(T) : langOf[g] \in DOMAIN spools => \A x \in Chain(g) : <<langOf[g], x>> \in S.modules
  BY JoinedParts
<1>7. Tells(G, T)
  BY <1>1, IngestedTells
<1>8. StreamEdges(S) = {<<"Contains", e[1], e[2]>> : e \in S.moduleEdges} \cup {Resolution(S, e) : e \in S.edges}
  BY <1>2 DEF StreamEdges, Resolution
<1> HIDE DEF S, files, G0
<1>9. Plain(G)
  <2> SUFFICES ASSUME NEW x \in DOMAIN G.nodes PROVE PlainNode(x, G.nodes[x])
    BY DEF Plain
  <2>1. CASE x \in DOMAIN DeclaredNodes(S)
    <3>1. DeclaredAs(x, G.nodes[x], T, files)
      BY <1>2, <1>4, <2>1
    <3> QED BY <1>1, <3>1, PlainlyDeclared
  <2>2. CASE x \notin DOMAIN DeclaredNodes(S)
    <3>1. \/ \E p \in Placeholders : x = p.fqn /\ G.nodes[x] = Planned(p.kind)
          \/ x \in S.unresolved /\ G.nodes[x] = Bare("Unresolved")
      BY <1>4, <2>2
    <3> QED BY <1>1, <3>1, PlainlyPlanned, PlainlyUnresolved
  <2> QED BY <2>1, <2>2
<1>10. Exact(G, T, {})
  <2> SUFFICES ASSUME NEW x \in DOMAIN G.nodes, RealModule(G, x) PROVE Lies(x, T)
    BY DEF Exact
  <2>1. G.nodes[x].kind = "Module" /\ ~G.nodes[x].planned
    BY DEF RealModule, IsKind
  <2>2. x \in DOMAIN DeclaredNodes(S)
    BY <1>4, <2>1, FieldsOfANode
  <2>3. DeclaredAs(x, G.nodes[x], T, files)
    BY <1>2, <1>4, <2>2
  <2> QED BY <1>1, <2>1, <2>3, DeclaredModule DEF Lies
<1>11. ASSUME NEW p \in Plans PROVE PlanEdge(p) \in G.edges
  <2>1. p \in {x \in S.planned : x.parent # None}
    BY <1>1 DEF Plans
  <2>2. PlanEdge(p) \in DerivedEdges(S, G0)
    BY <2>1 DEF DerivedEdges, PlanEdge
  <2> QED BY <1>5, <2>2
<1>12. ASSUME NEW f \in Present(T), langOf[f] \in DOMAIN spools PROVE HasRoots(G, f)
  <2> SUFFICES ASSUME NEW x \in Chain(f) PROVE <<x[1]>> \in DOMAIN G.nodes /\ Rooted(x) \in G.edges
    BY DEF HasRoots
  <2> DEFINE m == <<langOf[f], x>>
  <2>1. m \in S.modules /\ m[1] = x[1] /\ m[2] = x
    BY <1>3, <1>6, <1>12, ChainFacts
  <2>2. x \in DOMAIN G.nodes /\ G.nodes[x] = DeclaredNodes(S)[x] /\ x \in DOMAIN DeclaredNodes(S)
    BY <1>2, <1>4, <2>1
  <2>3. DeclaredAs(x, G.nodes[x], T, files) /\ x \in AllModules
    BY <1>2, <1>3, <2>2, ChainFacts
  <2>4. G.nodes[x] = Bare("Module")
    BY <1>1, <2>3, DeclaredModule
  <2> HIDE DEF m
  <2>5. Rooted(x) \in DerivedEdges(S, G0)
    <3>1. IsKind(G0, m[2], "Module")
      BY <1>5, <2>1, <2>2, <2>4, FieldsOfANode DEF IsKind
    <3>2. <<"Contains", <<m[1]>>, m[2]>> \in DerivedEdges(S, G0)
      BY <2>1, <3>1 DEF DerivedEdges
    <3> QED BY <2>1, <3>2 DEF Rooted
  <2>6. <<m[1]>> \in DOMAIN DeclaredNodes(S)
    <3> DEFINE pr == << <<m[1]>>, Bare("Language")>>
               prs == {<<StructFqn(s), NodeOf("Struct", s.path, None, s.body)>> : s \in S.structs}
                 \cup {<<FunctionFqn(S.functions, d), NodeOf("Function", d.path, d.params, d.body)>> : d \in Admitted(S)}
                 \cup {<<z[2], Bare("Module")>> : z \in {y \in S.modules : y[2] \notin Shadowed(S)}}
                 \cup {<< <<z[1]>>, Bare("Language")>> : z \in S.modules}
                 \cup {<< <<z.path>>, NodeOf("File", z.path, None, z.body)>> : z \in S.files}
    <3>1. pr \in prs /\ pr[1] = <<m[1]>>
      BY <2>1
    <3>2. DeclaredNodes(S) = AsFunction(prs)
      BY DEF DeclaredNodes
    <3> HIDE DEF pr, prs
    <3> QED BY <3>1, <3>2 DEF AsFunction
  <2> QED BY <1>4, <1>5, <2>1, <2>5, <2>6
<1>13. ASSUME NEW f \in Present(T), <<f>> \in DOMAIN G.nodes PROVE Body(f, T[f]) \subseteq G.edges
  <2>1. f \in files /\ f \in File /\ T[f] \in Contents(f)
    <3>1. G = Ingested(S) /\ f \in File
      BY <1>3 DEF S
    <3> QED BY <1>1, <1>3, <1>13, <3>1, IngestedFiles
  <2>2. IsKind(G0, <<f>>, "File")
    <3> DEFINE r == [path |-> f, parent |-> moduleOf[f], body |-> T[f]]
    <3>1. ShowsFiles(G, T)
      BY <1>1, IngestedShowsFiles DEF S
    <3>2. G.nodes[<<f>>].kind = "File"
      BY <1>13, <2>1, <3>1, FieldsOfANode DEF ShowsFiles, FileRow
    <3> QED BY <1>5, <1>13, <3>2 DEF IsKind
  <2>3. ASSUME NEW d \in Named(f, T[f]) PROVE <<"Contains", <<f>>, FqnIn(f, T[f], d)>> \in G.edges
    <3>1. PICK p \in Names(f, T[f]) : p[1] = FqnIn(f, T[f], d)
      BY <2>1, NamedAreNames
    <3>2. p[1] \in DOMAIN G.nodes /\ G.nodes[p[1]] = p[2]
      BY <1>7, <1>13 DEF Tells, HasNames
    <3>3. Located(p[2]) /\ p[2].path = f
      BY <2>1, NamesAreDeclarations
    <3>4. <<"Contains", <<G0.nodes[p[1]].path>>, p[1]>> \in DerivedEdges(S, G0)
      BY <1>5, <2>2, <3>2, <3>3 DEF DerivedEdges
    <3> QED BY <1>5, <3>1, <3>2, <3>3, <3>4
  <2>4. ASSUME NEW q \in Named(f, T[f]) \X Named(f, T[f]),
               q[1].kind = "Struct", q[2].within = Append(q[1].within, q[1].name)
        PROVE  <<"Contains", FqnIn(f, T[f], q[1]), FqnIn(f, T[f], q[2])>> \in G.edges
    <3>1. q[1] \in Named(f, T[f]) /\ q[2] \in Named(f, T[f])
      OBVIOUS
    <3>2. PICK e \in MemberEdges(T, f) :
             Resolution(S, e) = <<"Contains", FqnIn(f, T[f], q[1]), FqnIn(f, T[f], q[2])>>
      BY <1>1, <2>1, <2>4, <3>1, MembersAreThere
    <3>3. e \in S.edges
      BY <1>6, <2>1
    <3> QED BY <1>5, <1>8, <3>2, <3>3
  <2>5. ASSUME NEW r \in BodyRels(f, T[f]) PROVE Unrow(r) \in G.edges
    <3>1. CASE r \in {<<"Contains", <<"File", <<f>> >>, <<d.kind, FqnIn(f, T[f], d)>> >> : d \in Named(f, T[f])}
      <4>1. PICK d \in Named(f, T[f]) : r = <<"Contains", <<"File", <<f>> >>, <<d.kind, FqnIn(f, T[f], d)>> >>
        BY <3>1
      <4>2. Unrow(r) = <<"Contains", <<f>>, FqnIn(f, T[f], d)>>
        BY <4>1 DEF Unrow
      <4> QED BY <2>3, <4>2
    <3>2. CASE r \in {<<"Contains", <<"Struct", FqnIn(f, T[f], q[1])>>, <<q[2].kind, FqnIn(f, T[f], q[2])>> >> :
               q \in {p \in Named(f, T[f]) \X Named(f, T[f]) :
                         p[1].kind = "Struct" /\ p[2].within = Append(p[1].within, p[1].name)}}
      <4>1. PICK q \in Named(f, T[f]) \X Named(f, T[f]) :
               /\ q[1].kind = "Struct" /\ q[2].within = Append(q[1].within, q[1].name)
               /\ r = <<"Contains", <<"Struct", FqnIn(f, T[f], q[1])>>, <<q[2].kind, FqnIn(f, T[f], q[2])>> >>
        BY <3>2
      <4>2. Unrow(r) = <<"Contains", FqnIn(f, T[f], q[1]), FqnIn(f, T[f], q[2])>>
        BY <4>1 DEF Unrow
      <4> QED BY <2>4, <4>1, <4>2
    <3> QED BY <3>1, <3>2 DEF BodyRels
  <2> QED BY <2>5 DEF Body
<1>14. ASSUME NEW e \in DerivedEdges(S, G0)
       PROVE  Hierarchic(e) \/ \E f \in Present(T) : OfFile(e, f, T[f])
  <2>1. CASE \E m \in S.modules : e = <<"Contains", <<m[1]>>, m[2]>>
    <3>1. PICK m \in S.modules : e = <<"Contains", <<m[1]>>, m[2]>>
      BY <2>1
    <3>2. PICK g \in Present(T) : m[2] \in Chain(g) /\ m[1] = langOf[g]
      BY <1>6
    <3>3. m[2] \in AllModules /\ m[2][1] = m[1]
      BY <1>3, <3>2, ChainFacts
    <3>4. e = Rooted(m[2])
      BY <3>1, <3>3 DEF Rooted
    <3> QED BY <3>3, <3>4 DEF Hierarchic
  <2>2. CASE \E r \in S.files : e = <<"Contains", r.parent, <<r.path>> >>
    <3>1. PICK r \in S.files : e = <<"Contains", r.parent, <<r.path>> >>
      BY <2>2
    <3>2. PICK f \in files : r = [path |-> f, parent |-> moduleOf[f], body |-> T[f]]
      BY <1>1
    <3>3. f \in File /\ e = Parent(f)
      BY <1>1, <1>3, <3>1, <3>2 DEF Parent
    <3> QED BY <3>3 DEF Hierarchic
  <2>3. CASE \E x \in DOMAIN G0.nodes : Located(G0.nodes[x]) /\ e = <<"Contains", <<G0.nodes[x].path>>, x>>
    <3>1. PICK x \in DOMAIN G.nodes : Located(G.nodes[x]) /\ e = <<"Contains", <<G.nodes[x].path>>, x>>
      BY <1>5, <2>3
    <3>2. PICK f \in Present(T) : <<x, G.nodes[x]>> \in Names(f, T[f]) /\ G.nodes[x].path = f
      BY <1>7, <3>1, LocatedIsDeclared
    <3> DEFINE p == <<x, G.nodes[x]>>
    <3>3. p \in Names(f, T[f]) /\ p[1] = x
      BY <3>2
    <3> HIDE DEF p
    <3>4. <<"Contains", <<f>>, p[1]>> \in Body(f, T[f])
      BY <1>3, <3>3, NameContained
    <3> QED BY <3>1, <3>2, <3>3, <3>4 DEF OfFile
  <2>4. CASE \E p \in {x \in S.planned : x.parent # None} : e = <<"Contains", p.parent, p.fqn>>
    <3>1. PICK p \in Plans : e = PlanEdge(p)
      BY <1>1, <2>4 DEF Plans, PlanEdge
    <3> QED BY <3>1 DEF Hierarchic
  <2> QED BY <2>1, <2>2, <2>3, <2>4 DEF DerivedEdges
<1>15. ASSUME NEW e \in StreamEdges(S)
       PROVE  \/ Hierarchic(e) \/ Unresolves(e) \/ Vague(e)
              \/ \E f \in Present(T) : OfFile(e, f, T[f])
  <2>1. CASE \E z \in S.moduleEdges : e = <<"Contains", z[1], z[2]>>
    <3>1. PICK z \in S.moduleEdges : e = <<"Contains", z[1], z[2]>>
      BY <2>1
    <3>2. PICK g \in Present(T) : \E x \in Chain(g) : Len(x) > 2 /\ z = <<Above(x), x>>
      BY <1>6
    <3>3. PICK x \in Chain(g) : Len(x) > 2 /\ z = <<Above(x), x>>
      BY <3>2
    <3>4. x \in AllModules /\ e = Linked(x)
      BY <1>3, <3>1, <3>3, ChainFacts DEF Linked
    <3> QED BY <3>3, <3>4 DEF Hierarchic
  <2>2. CASE \E z \in S.edges : e = Resolution(S, z)
    <3>1. PICK z \in S.edges : e = Resolution(S, z)
      BY <2>2
    <3>2. PICK f \in files : z \in MemberEdges(T, f) \/ \E em \in SUBSET files : \E d \in DeclsOf(T, f) : z \in RefEdges(T, em, f, d)
      BY <1>6
    <3>3. f \in Present(T)
      BY <1>1
    <3>4. CASE z \in MemberEdges(T, f)
      BY <1>1, <3>1, <3>3, <3>4, MembersDrawn DEF OfFile
    <3>5. CASE \E em \in SUBSET files : \E d \in DeclsOf(T, f) : z \in RefEdges(T, em, f, d)
      <4>1. PICK em \in SUBSET files : \E d \in DeclsOf(T, f) : z \in RefEdges(T, em, f, d)
        BY <3>5
      <4>2. PICK d \in DeclsOf(T, f) : z \in RefEdges(T, em, f, d)
        BY <4>1
      <4>3. Unresolves(e) \/ Vague(e) \/ RefersAs(e, f, T[f])
        BY <1>1, <3>1, <4>2, ReferencesDrawn
      <4> QED BY <3>3, <4>3 DEF OfFile
    <3> QED BY <3>2, <3>4, <3>5
  <2> QED BY <1>8, <2>1, <2>2
<1>16. Drawn(G, T)
  BY <1>5, <1>14, <1>15 DEF Drawn
<1> QED BY <1>9, <1>10, <1>11, <1>12, <1>13, <1>16 DEF Draws, HasBodies

-----------------------------------------------------------------------------
(* What a splice of cached units draws                                       *)

\* A file lies in a module of its language.
LEMMA OwnModule ==
    ASSUME NEW f \in File
    PROVE  moduleOf[f] \in Chain(f) /\ moduleOf[f] \in AllModules /\ moduleOf[f][1] = langOf[f]
<1> DEFINE m == moduleOf[f]
<1>1. m \in Seq(STRING) /\ Len(m) > 1 /\ Len(m) \in Nat
  BY NamesAssumption, LenProperties
<1>2. SubSeq(m, 1, Len(m)) = m
  BY <1>1, SubSeqFull
<1> HIDE DEF m
<1>3. Len(m) \in 2..Len(m)
  BY <1>1
<1>4. m \in Chain(f)
  BY <1>2, <1>3 DEF Chain, Prefixes, m
<1> QED BY <1>4, ChainFacts DEF m

\* A graph that tells of a tree has no node but an unresolved one at a foreign name.
LEMMA ForeignNode ==
    ASSUME NEW T \in Trees, NEW G, Tells(G, T), NEW x \in DOMAIN G.nodes, x[1] = "?"
    PROVE  G.nodes[x].kind \notin {"Struct", "Function"}
<1> SUFFICES ASSUME G.nodes[x].kind \in {"Struct", "Function"} PROVE FALSE
  OBVIOUS
<1>1. IsDeclaration(G.nodes[x])
  BY DEF Tells, RightNode, IsDeclaration
<1>2. PICK f \in Present(T) : <<x, G.nodes[x]>> \in Names(f, T[f])
  BY <1>1 DEF Tells
<1> DEFINE p == <<x, G.nodes[x]>>
<1>3. p \in Names(f, T[f]) /\ p[1] = x
  BY <1>2
<1> HIDE DEF p
<1>4. x[1] = langOf[f] /\ f \in File
  BY <1>3, ContentsOfTrees, NamesAreDeclarations
<1> QED BY <1>4, LanguageOfFile, NamesAssumption

\* So what is unresolved stays unresolved.
LEMMA NothingResolves ==
    ASSUME NEW T \in Trees, NEW G, Tells(Resolved(G), T),
           \A e \in G.edges : e[1] \in {"UnresolvedCall", "UnresolvedUse"} => e[3][1] = "?"
    PROVE  /\ Resolved(G).edges = G.edges
           /\ \A x \in DOMAIN Resolved(G).nodes : x \in DOMAIN G.nodes /\ Resolved(G).nodes[x] = G.nodes[x]
           /\ \A x \in DOMAIN G.nodes : G.nodes[x].kind # "Unresolved" => x \in DOMAIN Resolved(G).nodes
<1> DEFINE InTree(e) == CASE e[1] = "UnresolvedCall" -> IsKind(G, e[2], "Function") /\ IsKind(G, e[3], "Function")
                        [] e[1] = "UnresolvedUse"  -> Located(G.nodes[e[2]]) /\ IsKind(G, e[3], "Struct")
                        [] OTHER -> FALSE
           Made(e) == IF InTree(e) THEN <<IF e[1] = "UnresolvedCall" THEN "Calls" ELSE "Uses", e[2], e[3]>> ELSE e
<1>1. Resolved(G).edges = {Made(e) : e \in G.edges}
  BY DEF Resolved
<1>2. /\ \A x \in DOMAIN Resolved(G).nodes : x \in DOMAIN G.nodes /\ Resolved(G).nodes[x] = G.nodes[x]
      /\ \A x \in DOMAIN G.nodes : G.nodes[x].kind # "Unresolved" => x \in DOMAIN Resolved(G).nodes
  BY ResolvedKeeps
<1>3. ASSUME NEW x \in DOMAIN G.nodes, x[1] = "?" PROVE G.nodes[x].kind \notin {"Struct", "Function"}
  <2> SUFFICES ASSUME G.nodes[x].kind \in {"Struct", "Function"} PROVE FALSE
    OBVIOUS
  <2>1. x \in DOMAIN Resolved(G).nodes /\ Resolved(G).nodes[x] = G.nodes[x]
    BY <1>2
  <2> QED BY <1>3, <2>1, ForeignNode
<1>4. ASSUME NEW e \in G.edges PROVE ~InTree(e)
  <2>1. CASE e[1] \in {"UnresolvedCall", "UnresolvedUse"}
    <3>1. e[3][1] = "?"
      BY <2>1
    <3>2. ~IsKind(G, e[3], "Function") /\ ~IsKind(G, e[3], "Struct")
      BY <1>3, <3>1 DEF IsKind
    <3> QED BY <2>1, <3>2
  <2>2. CASE e[1] \notin {"UnresolvedCall", "UnresolvedUse"}
    BY <2>2
  <2> QED BY <2>1, <2>2
<1> HIDE DEF InTree
<1>5. \A e \in G.edges : Made(e) = e
  BY <1>4
<1> HIDE DEF Made
<1>6. Resolved(G).edges = G.edges
  BY <1>1, <1>5
<1> QED BY <1>2, <1>6

\* The nodes of a unit are plain.
LEMMA PlainUnit ==
    ASSUME OwnNames, NEW T \in Trees, NEW f \in Present(T), NEW u, UnitRight(u, f, T[f]), UnitTells(u, f, T[f]),
           NEW x \in DOMAIN u.nodes
    PROVE  PlainNode(x, u.nodes[x])
<1>1. f \in File /\ T[f] \in Contents(f)
  BY ContentsOfTrees
<1> DEFINE n == u.nodes[x]
<1>2. \/ n.kind \in {"Struct", "Function", "Unresolved"}
      \/ x = <<f>>
  BY DEF UnitTells
<1>3. CASE x = <<f>>
  <2>1. n = FileRow(f, T)
    BY <1>3 DEF UnitRight, FileRow
  <2>2. DeclaredAs(x, n, T, {f})
    BY <1>1, <1>3, <2>1 DEF DeclaredAs
  <2> QED BY <2>2, PlainlyDeclared
<1>4. CASE n.kind \in {"Struct", "Function"}
  <2>1. <<x, n>> \in Names(f, T[f])
    BY <1>4 DEF UnitTells
  <2>2. DeclaredAs(x, n, T, {f})
    BY <2>1 DEF DeclaredAs
  <2> QED BY <2>2, PlainlyDeclared
<1>5. CASE n.kind = "Unresolved"
  <2>1. x[1] = "?" /\ ~n.planned
    BY <1>5 DEF UnitTells, RightNode
  <2>2. \A l \in Language : x # <<l>>
    BY <2>1, NamesAssumption
  <2> QED BY <1>5, <2>1, <2>2 DEF PlainNode
<1> QED BY <1>2, <1>3, <1>4, <1>5

LEMMA SplicedDraws ==
    ASSUME OwnNames, NEW T \in Trees, NEW G, Tells(G, T), Draws(G, T),
           NEW units, UnitsOf(units, T), \A i \in DOMAIN units : UnitDraws(units[i], pathOrder[i], T[pathOrder[i]]),
           NEW scaffolding,
           \A s \in scaffolding : ScaffoldingTells(s) /\ ScaffoldingRight(s) /\ \E l \in Language : ScaffoldingDraws(s, l),
           NEW H, H = WithCached(G, units, scaffolding)
    PROVE  /\ Draws(H, T)
           /\ \A p \in Plans : PlanEdge(p) \in G.edges => PlanEdge(p) \in H.edges
           /\ \A f \in File : HasRoots(G, f) => HasRoots(H, f)
           /\ \A s \in scaffolding : \A f \in File : Roots(s, f) => HasRoots(H, f)
           /\ \A x : RealModule(H, x) => \/ RealModule(G, x) \/ Lies(x, T)
                                         \/ \E s \in scaffolding : x \in s.modules
<1> DEFINE merged  == MergedNodes(G.nodes, units)
           modules == (UNION {units[i].modules : i \in DOMAIN units})
                        \cup (UNION {s.modules : s \in scaffolding})
           roots   == UNION {s.languages : s \in scaffolding}
           nodes   == WithModules(merged, modules, roots)
           replay  == {<<"Contains", e[1], e[2]>> :
                          e \in UNION {s.edges \cup s.languageEdges : s \in scaffolding}}
           cached  == {e \in UNION {units[i].edges : i \in DOMAIN units} :
                          e[2] \in DOMAIN nodes /\ e[3] \in DOMAIN nodes}
           W       == [nodes |-> nodes, edges |-> G.edges \cup replay \cup cached]
<1>1. H = Resolved(W)
  BY DEF WithCached
<1>2. Tells(H, T)
  BY SplicedTells
<1>3. ASSUME NEW i \in DOMAIN units
      PROVE  /\ pathOrder[i] \in Present(T) /\ pathOrder[i] \in File
             /\ UnitRight(units[i], pathOrder[i], T[pathOrder[i]]) /\ UnitTells(units[i], pathOrder[i], T[pathOrder[i]])
             /\ \A x \in DOMAIN units[i].nodes : PlainNode(x, units[i].nodes[x])
  <2>1. /\ pathOrder[i] \in Present(T) /\ pathOrder[i] \in File
        /\ UnitRight(units[i], pathOrder[i], T[pathOrder[i]]) /\ UnitTells(units[i], pathOrder[i], T[pathOrder[i]])
    BY DEF UnitsOf, Present
  <2> QED BY <2>1, PlainUnit
<1>4. /\ DOMAIN merged = DOMAIN G.nodes \cup UNION {DOMAIN units[i].nodes : i \in DOMAIN units}
      /\ \A x \in DOMAIN merged : \/ x \in DOMAIN G.nodes /\ merged[x] = G.nodes[x]
                                  \/ /\ \E i \in DOMAIN units : x \in DOMAIN units[i].nodes
                                     /\ merged[x] = CachedNode(units, x)
  BY DEF MergedNodes
<1>5. ASSUME NEW x \in DOMAIN merged
      PROVE  /\ PlainNode(x, merged[x])
             /\ merged[x].kind = "Module" => x \in DOMAIN G.nodes /\ merged[x] = G.nodes[x]
  <2>1. CASE x \in DOMAIN G.nodes /\ merged[x] = G.nodes[x]
    BY <2>1 DEF Draws, Plain
  <2>2. CASE (\E i \in DOMAIN units : x \in DOMAIN units[i].nodes) /\ merged[x] = CachedNode(units, x)
    <3>1. PICK i \in DOMAIN units : x \in DOMAIN units[i].nodes
      BY <2>2
    <3>2. DOMAIN units \subseteq Nat
      BY DEF UnitsOf
    <3>3. PICK j \in DOMAIN units : x \in DOMAIN units[j].nodes /\ CachedNode(units, x) = units[j].nodes[x]
      BY <3>1, <3>2, CachedNodeIsCached
    <3>4. units[j].nodes[x].kind # "Module"
      <4>1. CASE x = <<pathOrder[j]>>
        BY <1>3, <4>1, FieldsOfANode DEF UnitRight
      <4> QED BY <1>3, <3>3, <4>1 DEF UnitTells
    <3> QED BY <1>3, <2>2, <3>3, <3>4
  <2> QED BY <1>4, <2>1, <2>2
<1>6. ASSUME NEW x \in modules PROVE x \in AllModules /\ (Lies(x, T) \/ \E s \in scaffolding : x \in s.modules)
  <2>1. CASE \E i \in DOMAIN units : x \in units[i].modules
    <3>1. PICK i \in DOMAIN units : x \in units[i].modules
      BY <2>1
    <3>2. x = moduleOf[pathOrder[i]]
      BY <3>1 DEF UnitDraws
    <3> QED BY <1>3, <3>2, OwnModule DEF Lies
  <2>2. CASE \E s \in scaffolding : x \in s.modules
    BY <2>2 DEF ScaffoldingDraws
  <2> QED BY <1>6, <2>1, <2>2
<1>7. ASSUME NEW x \in roots PROVE \E k \in Language : x = <<k>>
  <2>1. PICK s \in scaffolding : x \in s.languages
    BY <1>7
  <2> QED BY <2>1 DEF ScaffoldingDraws
<1>8. /\ \A i \in DOMAIN units : units[i].modules \subseteq modules
      /\ \A s \in scaffolding : s.modules \subseteq modules /\ s.languages \subseteq roots
      /\ \A s \in scaffolding : \A e \in s.edges \cup s.languageEdges : <<"Contains", e[1], e[2]>> \in replay
      /\ \A e \in replay : \E s \in scaffolding : \E z \in s.edges \cup s.languageEdges : e = <<"Contains", z[1], z[2]>>
  OBVIOUS
<1> HIDE DEF merged, modules, roots
<1>9. /\ DOMAIN nodes = DOMAIN merged \cup modules \cup roots
      /\ \A x \in DOMAIN nodes :
            \/ x \in DOMAIN merged /\ nodes[x] = merged[x]
            \/ x \in modules /\ nodes[x] = Bare("Module")
            \/ x \in roots /\ nodes[x] = Bare("Language")
  BY DEF WithModules
<1>10. W.nodes = nodes /\ W.edges = G.edges \cup replay \cup cached
  OBVIOUS
<1>11. /\ \A i \in DOMAIN units : \A e \in units[i].edges :
             e[2] \in DOMAIN nodes /\ e[3] \in DOMAIN nodes => e \in cached
       /\ \A e \in cached : \E i \in DOMAIN units : e \in units[i].edges
  OBVIOUS
<1> HIDE DEF nodes, replay, cached, W
<1>12. \A x \in DOMAIN nodes : PlainNode(x, nodes[x])
  <2> SUFFICES ASSUME NEW x \in DOMAIN nodes PROVE PlainNode(x, nodes[x])
    OBVIOUS
  <2>1. CASE x \in DOMAIN merged /\ nodes[x] = merged[x]
    BY <1>5, <2>1
  <2>2. CASE x \in modules /\ nodes[x] = Bare("Module")
    <3>1. x \in AllModules /\ (\A y : x # <<y>>)
      BY <1>6, <2>2, ModulesApart
    <3>2. x[1] # "id"
      <4>1. PICK f \in File : x \in Chain(f)
        BY <3>1 DEF AllModules
      <4> QED BY <4>1, ChainFacts, LanguageOfFile, NamesAssumption
    <3> QED BY <2>2, <3>1, <3>2, FieldsOfANode DEF PlainNode
  <2>3. CASE x \in roots /\ nodes[x] = Bare("Language")
    <3>1. PICK k \in Language : x = <<k>>
      BY <1>7, <2>3
    <3>2. x[1] # "id"
      BY <3>1, NamesAssumption
    <3> QED BY <2>3, <3>1, <3>2, FieldsOfANode DEF PlainNode
  <2> QED BY <1>9, <2>1, <2>2, <2>3
<1>13. ASSUME NEW e \in W.edges
       PROVE  \/ Hierarchic(e) \/ Unresolves(e) \/ Vague(e)
              \/ \E f \in Present(T) : OfFile(e, f, T[f])
  <2>1. CASE e \in G.edges
    BY <2>1 DEF Draws, Drawn
  <2>2. CASE e \in replay
    <3>1. PICK s \in scaffolding : \E z \in s.edges \cup s.languageEdges : e = <<"Contains", z[1], z[2]>>
      BY <1>8, <2>2
    <3>2. PICK z \in s.edges \cup s.languageEdges : e = <<"Contains", z[1], z[2]>>
      BY <3>1
    <3>3. CASE z \in s.edges
      <4>1. PICK x \in AllModules : Len(x) > 2 /\ z = <<Above(x), x>>
        BY <3>3 DEF ScaffoldingDraws
      <4>2. e = Linked(x)
        BY <3>2, <4>1 DEF Linked
      <4> QED BY <4>1, <4>2 DEF Hierarchic
    <3>4. CASE z \in s.languageEdges
      <4>1. PICK x \in AllModules : z = << <<x[1]>>, x>>
        BY <3>4 DEF ScaffoldingDraws
      <4>2. e = Rooted(x)
        BY <3>2, <4>1 DEF Rooted
      <4> QED BY <4>1, <4>2 DEF Hierarchic
    <3> QED BY <3>3, <3>4
  <2>3. CASE e \in cached
    <3>1. PICK i \in DOMAIN units : e \in units[i].edges
      BY <1>11, <2>3
    <3> QED BY <1>3, <3>1 DEF UnitDraws
  <2> QED BY <1>10, <2>1, <2>2, <2>3
<1>14. ASSUME NEW e \in W.edges, e[1] \in {"UnresolvedCall", "UnresolvedUse"}
       PROVE  e[3][1] = "?"
  <2>1. CASE Hierarchic(e)
    <3>1. e[1] = "Contains"
      BY <2>1 DEF Hierarchic, Rooted, Linked, Parent, PlanEdge
    <3> QED BY <1>14, <3>1
  <2>2. CASE Unresolves(e)
    BY <2>2 DEF Unresolves
  <2>3. CASE \E f \in Present(T) : OfFile(e, f, T[f])
    <3>1. PICK f \in Present(T) : OfFile(e, f, T[f])
      BY <2>3
    <3>2. e[1] \in {"Contains", "Calls", "Uses"}
      BY <3>1, ContentsOfTrees, EndsOfFile
    <3> QED BY <1>14, <3>2
  <2>4. CASE Vague(e)
    BY <1>14, <2>4 DEF Vague
  <2> QED BY <1>13, <2>1, <2>2, <2>3, <2>4
<1>15. /\ H.edges = W.edges
       /\ \A x \in DOMAIN H.nodes : x \in DOMAIN nodes /\ H.nodes[x] = nodes[x]
       /\ \A x \in DOMAIN nodes : nodes[x].kind # "Unresolved" => x \in DOMAIN H.nodes
  BY <1>1, <1>2, <1>10, <1>14, NothingResolves
<1>16. Plain(H)
  BY <1>12, <1>15 DEF Plain
<1>17. Drawn(H, T)
  BY <1>13, <1>15 DEF Drawn
<1>18. ASSUME NEW f \in Present(T), <<f>> \in DOMAIN H.nodes PROVE Body(f, T[f]) \subseteq H.edges
  <2>1. f \in File /\ T[f] \in Contents(f)
    BY ContentsOfTrees
  <2>2. CASE <<f>> \in DOMAIN G.nodes
    <3>1. Body(f, T[f]) \subseteq G.edges
      BY <2>2 DEF Draws, HasBodies
    <3> QED BY <1>10, <1>15, <3>1
  <2>3. CASE \E i \in DOMAIN units : <<f>> \in DOMAIN units[i].nodes
    <3>1. PICK i \in DOMAIN units : <<f>> \in DOMAIN units[i].nodes
      BY <2>3
    <3>2. f = pathOrder[i]
      BY <1>3, <2>1, <3>1 DEF UnitRight
    <3>3. Body(f, T[f]) \subseteq units[i].edges
      BY <3>2 DEF UnitDraws
    <3>4. ASSUME NEW e \in Body(f, T[f]) PROVE e[2] \in DOMAIN nodes /\ e[3] \in DOMAIN nodes
      <4>1. HasNames(H.nodes, f, T[f])
        BY <1>2, <1>18 DEF Tells
      <4>2. OfFile(e, f, T[f]) /\ e[1] = "Contains"
        <5>1. PICK r \in BodyRels(f, T[f]) : e = Unrow(r)
          BY <3>4 DEF Body
        <5>2. r[1] = "Contains"
          BY DEF BodyRels
        <5> QED BY <3>4, <5>1, <5>2 DEF OfFile, Unrow
      <4>3. /\ e[2] = <<f>> \/ \E p \in Names(f, T[f]) : p[1] = e[2]
            /\ \E p \in Names(f, T[f]) : p[1] = e[3]
        BY <2>1, <4>2, EndsOfFile
      <4> QED BY <1>15, <1>18, <4>1, <4>3 DEF HasNames
    <3> QED BY <1>10, <1>11, <1>15, <3>3, <3>4
  <2>4. CASE <<f>> \notin DOMAIN merged
    <3>1. <<f>> \notin modules
      BY <1>6, ModulesApart
    <3>2. <<f>> \notin roots
      BY <1>7, <2>1, NamesAssumption
    <3> QED BY <1>9, <1>15, <1>18, <2>4, <3>1, <3>2
  <2> QED BY <1>4, <2>2, <2>3, <2>4
<1>19. \A p \in Plans : PlanEdge(p) \in G.edges => PlanEdge(p) \in H.edges
  BY <1>10, <1>15
<1>20. ASSUME NEW k \in Language, <<k>> \in DOMAIN nodes PROVE <<k>> \in DOMAIN H.nodes
  <2>1. nodes[<<k>>].kind = "Language"
    BY <1>12, <1>20 DEF PlainNode
  <2> QED BY <1>15, <1>20, <2>1
<1>21. ASSUME NEW f \in File, NEW x \in Chain(f) PROVE x[1] \in Language
  BY <1>21, ChainFacts, LanguageOfFile
<1>22. ASSUME NEW f \in File, HasRoots(G, f) PROVE HasRoots(H, f)
  <2> SUFFICES ASSUME NEW x \in Chain(f) PROVE <<x[1]>> \in DOMAIN H.nodes /\ Rooted(x) \in H.edges
    BY DEF HasRoots
  <2>1. <<x[1]>> \in DOMAIN G.nodes /\ Rooted(x) \in G.edges
    BY <1>22 DEF HasRoots
  <2>2. <<x[1]>> \in DOMAIN nodes
    BY <1>4, <1>9, <2>1
  <2> QED BY <1>10, <1>15, <1>20, <1>21, <2>1, <2>2
<1>23. ASSUME NEW s \in scaffolding, NEW f \in File, Roots(s, f) PROVE HasRoots(H, f)
  <2> SUFFICES ASSUME NEW x \in Chain(f) PROVE <<x[1]>> \in DOMAIN H.nodes /\ Rooted(x) \in H.edges
    BY DEF HasRoots
  <2> DEFINE z == << <<x[1]>>, x>>
  <2>1. <<x[1]>> \in s.languages /\ z \in s.languageEdges /\ z[1] = <<x[1]>> /\ z[2] = x
    BY <1>23 DEF Roots
  <2> HIDE DEF z
  <2>2. <<"Contains", z[1], z[2]>> \in replay
    BY <1>8, <2>1
  <2>3. Rooted(x) \in H.edges
    BY <1>10, <1>15, <2>1, <2>2 DEF Rooted
  <2>4. <<x[1]>> \in DOMAIN nodes
    BY <1>8, <1>9, <2>1
  <2> QED BY <1>20, <1>21, <2>3, <2>4
<1>24. ASSUME NEW x, RealModule(H, x)
       PROVE  RealModule(G, x) \/ Lies(x, T) \/ \E s \in scaffolding : x \in s.modules
  <2>1. x \in DOMAIN nodes /\ nodes[x].kind = "Module" /\ ~nodes[x].planned
    BY <1>15, <1>24 DEF RealModule, IsKind
  <2>2. CASE x \in DOMAIN merged /\ nodes[x] = merged[x]
    <3>1. x \in DOMAIN G.nodes /\ nodes[x] = G.nodes[x]
      BY <1>5, <2>1, <2>2
    <3> QED BY <2>1, <3>1 DEF RealModule, IsKind
  <2>3. CASE x \in modules
    BY <1>6, <2>3
  <2>4. CASE x \in roots /\ nodes[x] = Bare("Language")
    BY <2>1, <2>4, FieldsOfANode
  <2> QED BY <1>9, <2>1, <2>2, <2>3, <2>4
<1> QED BY <1>16, <1>17, <1>18, <1>19, <1>22, <1>23, <1>24 DEF Draws, HasBodies

-----------------------------------------------------------------------------
(* What the finalizing pass leaves, and what is taken from it                *)

\* A file's body, in a graph that tells of the tree, has the kinds containment has.
LEMMA BodyIsValid ==
    ASSUME NEW T \in Trees, NEW G, Tells(G, T), ShowsFiles(G, T),
           NEW f \in Present(T), <<f>> \in DOMAIN G.nodes, NEW r \in BodyRels(f, T[f]), NEW e, e = Unrow(r)
    PROVE  /\ e \in Body(f, T[f]) /\ e[1] = "Contains" /\ e[2] \in DOMAIN G.nodes /\ e[3] \in DOMAIN G.nodes
           /\ ValidPair(e[1], G.nodes[e[2]].kind, G.nodes[e[3]].kind)
           /\ r = <<"Contains", Row(G, e[2]), Row(G, e[3])>>
<1>1. f \in File /\ T[f] \in Contents(f)
  BY ContentsOfTrees
<1>2. \A d \in Named(f, T[f]) : /\ d.kind \in {"Struct", "Function"}
                                /\ FqnIn(f, T[f], d) \in DOMAIN G.nodes
                                /\ G.nodes[FqnIn(f, T[f], d)].kind = d.kind
  BY <1>1, NamedAreNames DEF Tells, HasNames
<1>3. G.nodes[<<f>>].kind = "File"
  BY <1>1, FieldsOfANode DEF ShowsFiles, FileRow
<1>4. /\ ValidPair("Contains", "File", "Struct") /\ ValidPair("Contains", "File", "Function")
      /\ ValidPair("Contains", "Struct", "Struct") /\ ValidPair("Contains", "Struct", "Function")
  BY DEF ValidPair
<1>5. e \in Body(f, T[f])
  BY DEF Body
<1>6. e = <<r[1], r[2][2], r[3][2]>> /\ e[1] = r[1] /\ e[2] = r[2][2] /\ e[3] = r[3][2]
  BY DEF Unrow
<1>7. CASE r \in {<<"Contains", <<"File", <<f>> >>, <<d.kind, FqnIn(f, T[f], d)>> >> : d \in Named(f, T[f])}
  <2>1. PICK d \in Named(f, T[f]) : r = <<"Contains", <<"File", <<f>> >>, <<d.kind, FqnIn(f, T[f], d)>> >>
    BY <1>7
  <2>2. e[1] = "Contains" /\ e[2] = <<f>> /\ e[3] = FqnIn(f, T[f], d)
    BY <1>6, <2>1
  <2>3. r = <<"Contains", Row(G, e[2]), Row(G, e[3])>>
    BY <1>2, <1>3, <2>1, <2>2 DEF Row
  <2>4. ValidPair(e[1], G.nodes[e[2]].kind, G.nodes[e[3]].kind)
    BY <1>2, <1>3, <1>4, <2>2
  <2> QED BY <1>2, <1>5, <2>2, <2>3, <2>4
<1>8. CASE r \in {<<"Contains", <<"Struct", FqnIn(f, T[f], q[1])>>, <<q[2].kind, FqnIn(f, T[f], q[2])>> >> :
               q \in {p \in Named(f, T[f]) \X Named(f, T[f]) :
                         p[1].kind = "Struct" /\ p[2].within = Append(p[1].within, p[1].name)}}
  <2>1. PICK q \in Named(f, T[f]) \X Named(f, T[f]) :
           /\ q[1].kind = "Struct"
           /\ r = <<"Contains", <<"Struct", FqnIn(f, T[f], q[1])>>, <<q[2].kind, FqnIn(f, T[f], q[2])>> >>
    BY <1>8
  <2> DEFINE a == q[1]
             b == q[2]
  <2>2. a \in Named(f, T[f]) /\ b \in Named(f, T[f]) /\ a.kind = "Struct"
    BY <2>1
  <2>3. r = <<"Contains", <<"Struct", FqnIn(f, T[f], a)>>, <<b.kind, FqnIn(f, T[f], b)>> >>
    BY <2>1
  <2> HIDE DEF a, b
  <2>4. e[1] = "Contains" /\ e[2] = FqnIn(f, T[f], a) /\ e[3] = FqnIn(f, T[f], b)
    BY <1>6, <2>3
  <2>5. r = <<"Contains", Row(G, e[2]), Row(G, e[3])>>
    BY <1>2, <2>2, <2>3, <2>4 DEF Row
  <2>6. ValidPair(e[1], G.nodes[e[2]].kind, G.nodes[e[3]].kind)
    BY <1>2, <1>4, <2>2, <2>4
  <2> QED BY <1>2, <1>5, <2>2, <2>4, <2>5, <2>6
<1> QED BY <1>5, <1>7, <1>8 DEF BodyRels

LEMMA FinalizedDraws ==
    ASSUME NEW T \in Trees, NEW G, "edges" \in DOMAIN G, Tells(G, T), ShowsFiles(G, T), Draws(G, T),
           NEW H, H = Finalized(G)
    PROVE  /\ Draws(H, T) /\ \A e \in H.edges : ~Vague(e)
           /\ (\A p \in Plans : PlanEdge(p) \in G.edges) => HasPlans(H)
           /\ \A hurt : Exact(G, T, hurt) => Exact(H, T, hurt)
           /\ \A f \in File : HasRoots(G, f) /\ HasChain(H, f) => HasRoots(H, f)
<1>1. /\ H.nodes = G.nodes /\ H.edges \subseteq G.edges
      /\ \A e \in H.edges : e[2] \in DOMAIN G.nodes /\ e[3] \in DOMAIN G.nodes
      /\ \A e \in G.edges : /\ e[2] \in DOMAIN G.nodes /\ e[3] \in DOMAIN G.nodes
                            /\ ValidPair(e[1], G.nodes[e[2]].kind, G.nodes[e[3]].kind)
                            => e \in H.edges
  BY FinalizedNodes DEF Finalized
<1>2. Plain(H) /\ Drawn(H, T)
  BY <1>1 DEF Draws, Plain, Drawn
<1>3. HasBodies(H, T)
  <2> SUFFICES ASSUME NEW f \in Present(T), <<f>> \in DOMAIN H.nodes, NEW e \in Body(f, T[f])
               PROVE  e \in H.edges
    BY DEF HasBodies
  <2>1. e \in G.edges
    BY <1>1 DEF Draws, HasBodies
  <2> QED BY <1>1, <2>1, BodyIsValid DEF Body
<1>4. ASSUME NEW e \in H.edges PROVE ~Vague(e)
  BY <1>1 DEF Vague, Draws, Plain, PlainNode
<1>5. ASSUME \A p \in Plans : PlanEdge(p) \in G.edges PROVE HasPlans(H)
  <2> SUFFICES ASSUME NEW p \in Plans, p.parent \in DOMAIN H.nodes, p.fqn \in DOMAIN H.nodes,
                      ValidPair("Contains", H.nodes[p.parent].kind, H.nodes[p.fqn].kind)
               PROVE  PlanEdge(p) \in H.edges
    BY DEF HasPlans
  <2> DEFINE e == PlanEdge(p)
  <2>1. e \in G.edges /\ e[1] = "Contains" /\ e[2] = p.parent /\ e[3] = p.fqn
    BY <1>5 DEF PlanEdge
  <2> HIDE DEF e
  <2>2. e \in H.edges
    BY <1>1, <2>1
  <2> QED BY <2>2 DEF e
<1>6. ASSUME NEW hurt, Exact(G, T, hurt) PROVE Exact(H, T, hurt)
  BY <1>1, <1>6 DEF Exact, RealModule, IsKind
<1>7. ASSUME NEW f \in File, HasRoots(G, f), HasChain(H, f) PROVE HasRoots(H, f)
  <2> SUFFICES ASSUME NEW x \in Chain(f) PROVE <<x[1]>> \in DOMAIN H.nodes /\ Rooted(x) \in H.edges
    BY DEF HasRoots
  <2>1. x[1] \in Language
    BY ChainFacts, LanguageOfFile
  <2>2. <<x[1]>> \in DOMAIN G.nodes /\ Rooted(x) \in G.edges
    BY <1>7 DEF HasRoots
  <2>3. G.nodes[<<x[1]>>].kind = "Language"
    BY <2>1, <2>2 DEF Draws, Plain, PlainNode
  <2>4. x \in DOMAIN G.nodes /\ G.nodes[x].kind = "Module"
    BY <1>1, <1>7 DEF HasChain, RealModule, IsKind
  <2> DEFINE e == Rooted(x)
  <2>5. e \in G.edges /\ e[1] = "Contains" /\ e[2] = <<x[1]>> /\ e[3] = x
    BY <2>2 DEF Rooted
  <2> HIDE DEF e
  <2>6. ValidPair(e[1], G.nodes[e[2]].kind, G.nodes[e[3]].kind)
    BY <2>3, <2>4, <2>5 DEF ValidPair
  <2>7. e \in H.edges
    BY <1>1, <2>2, <2>4, <2>5, <2>6
  <2> QED BY <1>1, <2>2, <2>7 DEF e
<1> QED BY <1>2, <1>3, <1>4, <1>5, <1>6, <1>7 DEF Draws

\* What contains a file is its module; what contains a module, its language or
\* the module above.
LEMMA ContainersDrawn ==
    ASSUME OwnNames, Legible, NEW T \in Trees, NEW G, Draws(G, T), NEW e \in G.edges, e[1] = "Contains", ~Vague(e)
    PROVE  /\ IsKind(G, e[3], "File") => \E f \in File : e = Parent(f) /\ e[3] = <<f>> /\ e[2] = moduleOf[f]
           /\ RealModule(G, e[3]) => /\ e[3] \in AllModules
                                     /\ e = Rooted(e[3]) \/ (Len(e[3]) > 2 /\ e = Linked(e[3]))
<1> DEFINE y == e[3]
<1>1. /\ \A x : Rooted(x)[3] = x /\ Linked(x)[3] = x
      /\ \A f : Parent(f)[2] = moduleOf[f] /\ Parent(f)[3] = <<f>>
      /\ \A p : PlanEdge(p)[3] = p.fqn
  BY DEF Rooted, Linked, Parent, PlanEdge
<1>2. CASE Hierarchic(e)
  <2>1. CASE \E x \in AllModules : e = Rooted(x) \/ (Len(x) > 2 /\ e = Linked(x))
    <3>1. PICK x \in AllModules : e = Rooted(x) \/ (Len(x) > 2 /\ e = Linked(x))
      BY <2>1
    <3>2. y = x
      BY <1>1, <3>1
    <3>3. ~IsKind(G, y, "File")
      BY <3>2, ModulesApart DEF IsKind, Draws, Plain, PlainNode
    <3> QED BY <3>1, <3>2, <3>3
  <2>2. CASE \E f \in File : e = Parent(f)
    <3>1. PICK f \in File : e = Parent(f)
      BY <2>2
    <3>2. y = <<f>> /\ e[2] = moduleOf[f]
      BY <1>1, <3>1
    <3>3. ~RealModule(G, y)
      <4> SUFFICES ASSUME RealModule(G, y) PROVE FALSE
        OBVIOUS
      <4>1. y \in DOMAIN G.nodes /\ G.nodes[y].kind = "Module" /\ ~G.nodes[y].planned
        BY DEF RealModule, IsKind
      <4>2. y \in AllModules
        BY <4>1, FieldsOfANode DEF Draws, Plain, PlainNode
      <4> QED BY <3>2, <4>2, ModulesApart
    <3> QED BY <3>1, <3>2, <3>3
  <2>3. CASE \E p \in Plans : e = PlanEdge(p)
    <3>1. PICK p \in Placeholders : y = p.fqn
      BY <1>1, <2>3 DEF Plans
    <3>2. y \notin AllModules /\ y[1] \notin File
      BY <3>1, NamesAssumption DEF Legible
    <3>3. ~IsKind(G, y, "File")
      <4> SUFFICES ASSUME IsKind(G, y, "File") PROVE FALSE
        OBVIOUS
      <4>1. PICK f \in File : y = <<f>>
        BY DEF IsKind, Draws, Plain, PlainNode
      <4> QED BY <3>2, <4>1
    <3>4. ~RealModule(G, y)
      BY <3>2, FieldsOfANode DEF RealModule, IsKind, Draws, Plain, PlainNode
    <3> QED BY <3>3, <3>4
  <2> QED BY <1>2, <2>1, <2>2, <2>3 DEF Hierarchic
<1>3. CASE \E f \in Present(T) : OfFile(e, f, T[f])
  <2>1. PICK f \in File : \E c \in Contents(f) : \E p \in Names(f, c) : p[1] = y
    BY <1>3, ContentsOfTrees, EndsOfFile
  <2>2. /\ \A g \in File : y \notin Chain(g)
        /\ \A z : y # <<z>>
    BY <2>1, NoOtherName DEF Chain
  <2>3. ~IsKind(G, y, "File") /\ ~RealModule(G, y)
    BY <2>2, FieldsOfANode DEF AllModules, RealModule, IsKind, Draws, Plain, PlainNode
  <2> QED BY <2>3
<1> QED BY <1>2, <1>3 DEF Draws, Drawn, Unresolves

LEMMA FileKeys ==
    ASSUME NEW G, NEW x \in DOMAIN G.nodes
    PROVE  /\ G.nodes[x].kind = "File" => FileKeyOf(G, x) = x[1]
           /\ G.nodes[x].kind # "File" => FileKeyOf(G, x) = IF Located(G.nodes[x]) THEN G.nodes[x].path ELSE None
<1>1. IsKind(G, x, "File") <=> G.nodes[x].kind = "File"
  BY DEF IsKind
<1>2. IsKind(G, x, "File") => ~Located(G.nodes[x])
  BY <1>1 DEF Located
<1> QED BY <1>1, <1>2, Zenon DEF FileKeyOf

LEMMA UnitOfDraws ==
    ASSUME OwnNames, Legible, NEW T \in Trees, NEW G, Tells(G, T), ShowsFiles(G, T), Settled(G), Draws(G, T),
           \A e \in G.edges : ~Vague(e), NEW f \in Present(T), <<f>> \in DOMAIN G.nodes
    PROVE  UnitDraws(UnitOf(G, f), f, T[f])
<1> DEFINE u == UnitOf(G, f)
<1>1. u.modules = {e[2] : e \in ModuleEdgesOf(G, f)} /\ u.edges = FileEdges(G, f) \cup ModuleEdgesOf(G, f)
  BY DEF UnitOf
<1>2. f \in File /\ T[f] \in Contents(f) /\ G.nodes[<<f>>].kind = "File" /\ f # None
  BY ContentsOfTrees, FieldsOfANode, NamesAssumption DEF ShowsFiles, FileRow
<1>3. ASSUME NEW e \in ModuleEdgesOf(G, f) PROVE e[2] = moduleOf[f] /\ Hierarchic(e)
  <2>1. e \in G.edges /\ e[1] = "Contains" /\ IsKind(G, e[3], "File") /\ e[3] = <<f>>
    BY <1>2 DEF ModuleEdgesOf, IsKind
  <2>2. PICK g \in File : e = Parent(g) /\ e[3] = <<g>> /\ e[2] = moduleOf[g]
    BY <2>1, ContainersDrawn
  <2>3. g = f
    BY <2>1, <2>2
  <2> QED BY <2>2, <2>3 DEF Hierarchic
<1>4. ASSUME NEW g \in Present(T), NEW x \in DOMAIN G.nodes, x = <<g>> \/ \E p \in Names(g, T[g]) : p[1] = x
      PROVE  FileKeyOf(G, x) = f => g = f
  <2> SUFFICES ASSUME FileKeyOf(G, x) = f PROVE g = f
    OBVIOUS
  <2>1. g \in File /\ T[g] \in Contents(g)
    BY ContentsOfTrees
  <2>2. CASE x = <<g>>
    <3>1. G.nodes[x].kind = "File"
      BY <2>1, <2>2, FieldsOfANode DEF ShowsFiles, FileRow
    <3>2. x[1] = g
      BY <2>2
    <3> QED BY <3>1, <3>2, FileKeys
  <2>3. CASE \E p \in Names(g, T[g]) : p[1] = x
    <3>1. PICK p \in Names(g, T[g]) : p[1] = x
      BY <2>3
    <3>2. ~IsKind(G, x, "File")
      BY <2>1, <3>1, NoOtherName DEF IsKind, Draws, Plain, PlainNode
    <3>3. Located(G.nodes[x]) /\ G.nodes[x].path = f
      BY <1>2, <3>2 DEF FileKeyOf
    <3>4. PICK h \in Present(T) : <<x, G.nodes[x]>> \in Names(h, T[h]) /\ G.nodes[x].path = h
      BY <3>3, LocatedIsDeclared
    <3> DEFINE q == <<x, G.nodes[x]>>
    <3>5. q \in Names(h, T[h]) /\ q[1] = p[1]
      BY <3>1, <3>4
    <3> HIDE DEF q
    <3>6. h = g
      BY <2>1, <3>5, ContentsOfTrees, OneOwner
    <3> QED BY <3>3, <3>4, <3>6
  <2> QED BY <1>4, <2>2, <2>3
<1>5. Body(f, T[f]) \subseteq u.edges
  <2> SUFFICES ASSUME NEW e \in Body(f, T[f]) PROVE e \in FileEdges(G, f)
    BY <1>1
  <2>1. e \in G.edges /\ e[2] \in DOMAIN G.nodes
    BY BodyIsValid DEF Body, Draws, HasBodies
  <2>2. e[2] = <<f>> \/ \E p \in Names(f, T[f]) : p[1] = e[2]
    BY <1>2, EndsOfFile DEF OfFile
  <2>3. CASE e[2] = <<f>>
    <3>1. G.nodes[e[2]].kind = "File" /\ e[2][1] = f
      BY <1>2, <2>3
    <3> QED BY <2>1, <3>1, FileKeys DEF FileEdges
  <2>4. CASE \E p \in Names(f, T[f]) : p[1] = e[2]
    <3>1. PICK p \in Names(f, T[f]) : p[1] = e[2]
      BY <2>4
    <3>2. G.nodes[e[2]] = p[2] /\ Located(p[2]) /\ p[2].path = f /\ p[2].kind # "File"
      BY <1>2, <3>1, NamesAreDeclarations DEF Tells, HasNames, Located
    <3> QED BY <2>1, <3>2 DEF FileEdges, FileKeyOf, IsKind
  <2> QED BY <2>2, <2>3, <2>4
<1>6. ASSUME NEW e \in FileEdges(G, f) PROVE Hierarchic(e) \/ Unresolves(e) \/ OfFile(e, f, T[f])
  <2>1. e \in G.edges /\ FileKeyOf(G, e[2]) = f /\ e[2] \in DOMAIN G.nodes /\ ~Vague(e)
    BY DEF FileEdges, Settled
  <2>2. ASSUME NEW g \in Present(T), OfFile(e, g, T[g]) PROVE OfFile(e, f, T[f])
    <3>1. e[2] = <<g>> \/ \E p \in Names(g, T[g]) : p[1] = e[2]
      BY <2>2, ContentsOfTrees, EndsOfFile
    <3>2. g = f
      BY <1>4, <2>1, <3>1
    <3> QED BY <2>2, <3>2
  <2> QED BY <2>1, <2>2 DEF Draws, Drawn
<1> HIDE DEF u
<1> QED BY <1>1, <1>3, <1>5, <1>6 DEF UnitDraws, u

\* The scaffolding of a language has modules of the language, and of the tree.
LEMMA ScaffoldingOfDraws ==
    ASSUME OwnNames, Legible, NEW T \in Trees, NEW G, ShowsFiles(G, T), Draws(G, T), \A e \in G.edges : ~Vague(e),
           ModulesRight(G), NEW l \in Language, NEW s, s = ScaffoldingOf(G, l, langOf)
    PROVE  /\ ScaffoldingDraws(s, l)
           /\ \A f \in File : Holds(s, f) /\ HasChain(G, f) /\ HasRoots(G, f) => Roots(s, f)
           /\ \A hurt : Exact(G, T, hurt) /\ l \notin hurt => \A x \in s.modules : Lies(x, T)
<1> DEFINE real == {x \in DOMAIN G.nodes : IsKind(G, x, "Module") /\ ~G.nodes[x].planned}
           contains == Edges(G, "Contains")
           hierarchy == {e \in contains : e[1] \in real /\ e[2] \in real}
           R == hierarchy \cup {<<e[2], e[1]>> : e \in hierarchy}
           anchored == {e[1] : e \in {x \in contains :
                           x[1] \in real /\ IsKind(G, x[2], "File") /\ langOf[x[2][1]] = l}}
           modules == real \cap Reach(R, anchored)
           roots == {e \in contains : e[2] \in modules /\ IsKind(G, e[1], "Language")}
           W == {x \in AllModules : x[1] = l}
<1>1. /\ s.modules = modules /\ s.edges = {e \in hierarchy : e[1] \in modules}
      /\ s.languages = {e[1] : e \in roots} /\ s.languageEdges = roots
  BY DEF ScaffoldingOf
<1>2. \A x : x \in real <=> RealModule(G, x)
  BY DEF IsKind, RealModule
<1>3. ASSUME NEW e \in contains
      PROVE  /\ e = <<e[1], e[2]>> /\ <<"Contains", e[1], e[2]>> \in G.edges
  <2>1. PICK d \in G.edges : d[1] = "Contains" /\ e = <<d[2], d[3]>>
    BY DEF Edges
  <2>2. e[1] = d[2] /\ e[2] = d[3]
    BY <2>1
  <2>3. Hierarchic(d) \/ \E f \in Present(T) : OfFile(d, f, T[f])
    BY <2>1 DEF Draws, Drawn, Unresolves
  <2>4. d = <<d[1], d[2], d[3]>>
    <3>1. CASE Hierarchic(d)
      BY <3>1 DEF Hierarchic, Rooted, Linked, Parent, PlanEdge
    <3>2. CASE \E f \in Present(T) : OfFile(d, f, T[f])
      <4>1. PICK f \in Present(T) : d \in Body(f, T[f])
        BY <2>1, <3>2, ContentsOfTrees, EndsOfFile
      <4>2. PICK r \in BodyRels(f, T[f]) : d = <<r[1], r[2][2], r[3][2]>>
        BY <4>1 DEF Body, Unrow
      <4> QED BY <4>2
    <3> QED BY <2>3, <3>1, <3>2
  <2> QED BY <2>1, <2>2, <2>4
<1>4. ASSUME NEW e \in contains
      PROVE  /\ IsKind(G, e[2], "File") => \E f \in File : e[2] = <<f>> /\ e[1] = moduleOf[f]
             /\ e[2] \in real => /\ e[2] \in AllModules
                                 /\ e[1] = <<e[2][1]>> \/ (Len(e[2]) > 2 /\ e[1] = Above(e[2]))
  <2> DEFINE d == <<"Contains", e[1], e[2]>>
  <2>1. d \in G.edges /\ d[1] = "Contains" /\ d[2] = e[1] /\ d[3] = e[2]
    BY <1>3
  <2> HIDE DEF d, real, contains
  <2>2. /\ IsKind(G, d[3], "File") => \E f \in File : d = Parent(f) /\ d[3] = <<f>> /\ d[2] = moduleOf[f]
        /\ RealModule(G, d[3]) => /\ d[3] \in AllModules
                                  /\ d = Rooted(d[3]) \/ (Len(d[3]) > 2 /\ d = Linked(d[3]))
    BY <2>1, ContainersDrawn
  <2>3. \A x : Rooted(x)[2] = <<x[1]>> /\ Linked(x)[2] = Above(x)
    BY DEF Rooted, Linked
  <2> QED BY <1>2, <2>1, <2>2, <2>3
<1>5. ASSUME NEW e \in hierarchy PROVE e[2] \in AllModules /\ Len(e[2]) > 2 /\ e[1] = Above(e[2]) /\ e[1][1] = e[2][1]
  <2>1. e \in contains /\ e[1] \in real /\ e[2] \in real
    OBVIOUS
  <2> HIDE DEF hierarchy, contains, real
  <2>2. e[2] \in AllModules /\ (e[1] = <<e[2][1]>> \/ (Len(e[2]) > 2 /\ e[1] = Above(e[2])))
    BY <1>4, <2>1
  <2>3. RealModule(G, e[1])
    BY <1>2, <2>1
  <2>4. e[1] \in AllModules
    BY <2>3, FieldsOfANode DEF RealModule, IsKind, Draws, Plain, PlainNode
  <2>5. Len(e[2]) > 2 /\ e[1] = Above(e[2])
    BY <2>2, <2>4, ModulesApart
  <2>6. PICK f \in File : e[2] \in Chain(f)
    BY <2>2 DEF AllModules
  <2>7. Above(e[2]) \in Chain(f)
    BY <2>5, <2>6, ChainFacts
  <2> QED BY <2>2, <2>5, <2>6, <2>7, ChainFacts
<1>6. anchored \subseteq W
  <2> SUFFICES ASSUME NEW e \in contains, e[1] \in real, IsKind(G, e[2], "File"), langOf[e[2][1]] = l
               PROVE  e[1] \in W
    OBVIOUS
  <2>1. PICK f \in File : e[2] = <<f>> /\ e[1] = moduleOf[f]
    BY <1>4
  <2>2. langOf[f] = l
    BY <2>1
  <2> QED BY <2>1, <2>2, OwnModule
<1>7. IsFiniteSet(R)
  <2>1. IsFiniteSet(Known \X Known)
    BY KnownIsFinite, FS_Product
  <2>2. real \subseteq Known
    BY DEF IsKind, ModulesRight
  <2>3. \A e \in hierarchy : e = <<e[1], e[2]>> /\ e[1] \in Known /\ e[2] \in Known
    BY <1>3, <2>2
  <2> HIDE DEF hierarchy
  <2>4. R \subseteq Known \X Known
    BY <2>3
  <2> HIDE DEF R
  <2> QED BY <2>1, <2>4, FS_Subset
<1>8. \A p \in R : p[1] \in W => p[2] \in W
  <2> SUFFICES ASSUME NEW p \in R, p[1] \in W PROVE p[2] \in W
    OBVIOUS
  <2>1. CASE p \in hierarchy
    <3> HIDE DEF hierarchy
    <3> QED BY <1>5, <2>1
  <2>2. CASE p \in {<<e[2], e[1]>> : e \in hierarchy}
    <3>1. PICK e \in hierarchy : p = <<e[2], e[1]>>
      BY <2>2
    <3>2. e[1] \in real
      OBVIOUS
    <3> HIDE DEF hierarchy
    <3>3. e[2] \in AllModules /\ e[1][1] = e[2][1] /\ e[2][1] = l /\ p[2] = e[1]
      BY <1>5, <3>1
    <3>4. e[1] \in AllModules
      BY <1>2, <3>2, FieldsOfANode DEF RealModule, IsKind, Draws, Plain, PlainNode
    <3> QED BY <3>3, <3>4
  <2> QED BY <2>1, <2>2
<1> HIDE DEF R, anchored, W, hierarchy
<1>9. modules \subseteq real /\ modules \subseteq W
  BY <1>6, <1>7, <1>8, ReachWithin
<1> HIDE DEF modules, real, contains
<1>10. ASSUME NEW e \in roots
       PROVE  e[2] \in AllModules /\ e[2] \in modules /\ e = << <<e[2][1]>>, e[2]>> /\ \E k \in Language : e[1] = <<k>>
  <2>1. e \in contains /\ e[2] \in modules /\ IsKind(G, e[1], "Language")
    OBVIOUS
  <2>2. PICK k \in Language : e[1] = <<k>>
    BY <2>1 DEF IsKind, Draws, Plain, PlainNode
  <2>3. e[2] \in AllModules /\ (e[1] = <<e[2][1]>> \/ (Len(e[2]) > 2 /\ e[1] = Above(e[2])))
    BY <1>4, <1>9, <2>1
  <2>4. PICK f \in File : e[2] \in Chain(f)
    BY <2>3 DEF AllModules
  <2>5. Len(e[2]) > 2 => Above(e[2]) \in AllModules
    BY <2>4, ChainFacts
  <2>6. e[1] = <<e[2][1]>>
    BY <2>2, <2>3, <2>5, ModulesApart
  <2> QED BY <1>3, <2>1, <2>2, <2>3, <2>6
<1>11. ScaffoldingDraws(s, l)
  <2>1. \A x \in s.modules : x \in AllModules /\ x[1] = l
    BY <1>1, <1>9 DEF W
  <2>2. \A e \in s.edges : \E x \in AllModules : Len(x) > 2 /\ e = <<Above(x), x>>
    <3>1. \A e \in hierarchy : e = <<e[1], e[2]>>
      BY <1>3 DEF hierarchy
    <3> QED BY <1>1, <1>5, <3>1
  <2> HIDE DEF roots
  <2>3. /\ \A x \in s.languages : \E k \in Language : x = <<k>>
        /\ \A e \in s.languageEdges : \E x \in AllModules : e = << <<x[1]>>, x>>
    BY <1>1, <1>10
  <2> QED BY <2>1, <2>2, <2>3 DEF ScaffoldingDraws
<1>12. ASSUME NEW f \in File, Holds(s, f), HasChain(G, f), HasRoots(G, f) PROVE Roots(s, f)
  <2> SUFFICES ASSUME NEW x \in Chain(f) PROVE <<x[1]>> \in s.languages /\ << <<x[1]>>, x>> \in s.languageEdges
    BY DEF Roots
  <2>1. <<x[1]>> \in DOMAIN G.nodes /\ Rooted(x) \in G.edges /\ x \in modules /\ x[1] \in Language
    BY <1>1, <1>12, ChainFacts, LanguageOfFile DEF HasRoots, Holds
  <2>2. IsKind(G, <<x[1]>>, "Language")
    BY <2>1 DEF IsKind, Draws, Plain, PlainNode
  <2> DEFINE e == << <<x[1]>>, x>>
             d == Rooted(x)
  <2>3. e \in contains
    <3>1. d \in G.edges /\ d[1] = "Contains" /\ e = <<d[2], d[3]>>
      BY <2>1 DEF Rooted
    <3> HIDE DEF d, e
    <3> QED BY <3>1 DEF contains, Edges
  <2>4. e[1] = <<x[1]>> /\ e[2] = x
    OBVIOUS
  <2> HIDE DEF e
  <2>5. e \in roots
    BY <2>1, <2>2, <2>3, <2>4
  <2> HIDE DEF roots
  <2>6. e \in s.languageEdges /\ e[1] \in s.languages
    BY <1>1, <2>5
  <2> QED BY <2>4, <2>6 DEF e
<1>13. ASSUME NEW hurt, Exact(G, T, hurt), l \notin hurt, NEW x \in s.modules PROVE Lies(x, T)
  <2>1. x \in real /\ x \in W
    BY <1>1, <1>9
  <2>2. RealModule(G, x) /\ x[1] = l
    BY <1>2, <2>1 DEF W
  <2> QED BY <1>13, <2>2 DEF Exact, RealModule, IsKind
<1> QED BY <1>11, <1>12, <1>13

LEMMA NoScaffoldingDraws == \A l : ScaffoldingDraws(NoScaffolding, l)
BY DEF ScaffoldingDraws, NoScaffolding

-----------------------------------------------------------------------------
(* What a database draws                                                     *)

\* What an edge is, is read off its table and its ends.
LEMMA EdgeByItsEnds ==
    ASSUME NEW e, NEW d, d = <<e[1], e[2], e[3]>>
    PROVE  /\ Hierarchic(e) => Hierarchic(d)
           /\ Unresolves(e) => Unresolves(d)
           /\ \A f, c : OfFile(e, f, c) => OfFile(d, f, c)
<1>1. d[1] = e[1] /\ d[2] = e[2] /\ d[3] = e[3]
  OBVIOUS
<1>2. ASSUME Hierarchic(e) PROVE e = d
  BY <1>2 DEF Hierarchic, Rooted, Linked, Parent, PlanEdge
<1>3. ASSUME NEW f, NEW c, e \in Body(f, c) PROVE e = d
  <2>1. PICK r \in BodyRels(f, c) : e = <<r[1], r[2][2], r[3][2]>>
    BY <1>3 DEF Body, Unrow
  <2> QED BY <2>1
<1>4. Unresolves(e) => Unresolves(d)
  BY <1>1 DEF Unresolves
<1>5. ASSUME NEW f, NEW c, RefersAs(e, f, c) PROVE RefersAs(d, f, c)
  BY <1>1, <1>5 DEF RefersAs
<1> QED BY <1>2, <1>3, <1>4, <1>5 DEF OfFile

LEMMA LoadedDraws ==
    ASSUME OwnNames, NEW T \in Trees, NEW G, Tells(G, T), ShowsFiles(G, T), Settled(G), Draws(G, T),
           \A e \in G.edges : ~Vague(e), HasParents(G), HasPlans(G),
           NEW hurt, Exact(G, T, hurt),
           \A f \in Present(T) : langOf[f] \notin hurt =>
              <<f>> \in DOMAIN G.nodes /\ HasChain(G, f) /\ HasRoots(G, f),
           NEW D, D = Loaded(G)
    PROVE  DbDraws(D, T, hurt)
<1>1. /\ DOMAIN D.rows = {Row(G, x) : x \in DOMAIN G.nodes}
      /\ \A x \in DOMAIN G.nodes : D.rows[Row(G, x)] = G.nodes[x]
  BY RowsLoaded
<1>2. D.rels = {<<e[1], Row(G, e[2]), Row(G, e[3])>> : e \in G.edges}
  BY DEF Loaded
<1>3. \A x : Row(G, x)[1] = G.nodes[x].kind /\ Row(G, x)[2] = x
  BY DEF Row
<1>4. \A k \in DOMAIN D.rows : /\ k[2] \in DOMAIN G.nodes /\ k = Row(G, k[2])
                               /\ D.rows[k] = G.nodes[k[2]] /\ k[1] = G.nodes[k[2]].kind
  BY <1>1, <1>3
<1>5. RowsPlain(D)
  BY <1>4 DEF RowsPlain, Draws, Plain
<1>6. ASSUME NEW r \in D.rels
      PROVE  /\ r = <<r[1], r[2], r[3]>> /\ r[2] \in DOMAIN D.rows /\ r[3] \in DOMAIN D.rows
             /\ ValidPair(r[1], r[2][1], r[3][1])
             /\ \/ Hierarchic(Unrow(r)) \/ Unresolves(Unrow(r))
                \/ \E f \in File : \E c \in Contents(f) :
                      OfFile(Unrow(r), f, c) /\ (langOf[f] \notin hurt => T[f] = c)
  <2>1. PICK e \in G.edges : r = <<e[1], Row(G, e[2]), Row(G, e[3])>>
    BY <1>2
  <2>2. r[1] = e[1] /\ r[2] = Row(G, e[2]) /\ r[3] = Row(G, e[3])
    BY <2>1
  <2>3. /\ e[2] \in DOMAIN G.nodes /\ e[3] \in DOMAIN G.nodes
        /\ ValidPair(e[1], G.nodes[e[2]].kind, G.nodes[e[3]].kind)
    BY DEF Settled
  <2>4. Unrow(r) = <<e[1], e[2], e[3]>>
    BY <1>3, <2>2 DEF Unrow
  <2>5. Hierarchic(e) \/ Unresolves(e) \/ \E f \in Present(T) : OfFile(e, f, T[f])
    BY DEF Draws, Drawn
  <2>6. Hierarchic(Unrow(r)) \/ Unresolves(Unrow(r)) \/ \E f \in Present(T) : OfFile(Unrow(r), f, T[f])
    BY <2>4, <2>5, EdgeByItsEnds
  <2>7. (\E f \in Present(T) : OfFile(Unrow(r), f, T[f])) =>
            \E f \in File : \E c \in Contents(f) :
                OfFile(Unrow(r), f, c) /\ (langOf[f] \notin hurt => T[f] = c)
    BY ContentsOfTrees
  <2>8. r[2] \in DOMAIN D.rows /\ r[3] \in DOMAIN D.rows
    BY <1>1, <2>2, <2>3
  <2>9. ValidPair(r[1], r[2][1], r[3][1])
    BY <1>3, <2>2, <2>3
  <2> QED BY <2>1, <2>2, <2>6, <2>7, <2>8, <2>9
<1>7. ASSUME NEW e \in G.edges, NEW a, NEW b, a = Row(G, e[2]), b = Row(G, e[3])
      PROVE  <<e[1], a, b>> \in D.rels
  BY <1>2, <1>7
<1>8. DbExact(D, T, hurt)
  BY <1>4 DEF DbExact, Exact, RealModule, IsKind
<1>9. ASSUME NEW f \in Present(T), langOf[f] \notin hurt
      PROVE  /\ \A x \in Chain(f) : ShownAt(D, <<"Module", x>>) /\ ShownAt(D, <<"Language", <<x[1]>> >>)
             /\ FrameRels(f) \cup BodyRels(f, T[f]) \subseteq D.rels
  <2>1. f \in File /\ T[f] \in Contents(f) /\ <<f>> \in DOMAIN G.nodes /\ HasChain(G, f) /\ HasRoots(G, f)
    BY <1>9, ContentsOfTrees
  <2>2. ASSUME NEW x \in Chain(f)
        PROVE  /\ x \in DOMAIN G.nodes /\ Row(G, x) = <<"Module", x>> /\ ~G.nodes[x].planned
               /\ <<x[1]>> \in DOMAIN G.nodes /\ Row(G, <<x[1]>>) = <<"Language", <<x[1]>> >>
               /\ ~G.nodes[<<x[1]>>].planned
               /\ Rooted(x) \in G.edges /\ (Len(x) > 2 => Linked(x) \in G.edges)
    <3>1. RealModule(G, x) /\ (Len(x) > 2 => Linked(x) \in G.edges) /\ <<x[1]>> \in DOMAIN G.nodes /\ Rooted(x) \in G.edges
      BY <2>1 DEF HasChain, HasRoots, Linked
    <3>2. x[1] \in Language
      BY <2>1, ChainFacts, LanguageOfFile
    <3>3. G.nodes[<<x[1]>>] = Bare("Language")
      BY <3>1, <3>2 DEF Draws, Plain, PlainNode
    <3>4. G.nodes[<<x[1]>>].kind = "Language" /\ ~G.nodes[<<x[1]>>].planned
      BY <3>3, FieldsOfANode
    <3> QED BY <3>1, <3>4 DEF RealModule, IsKind, Row
  <2>3. ASSUME NEW x \in Chain(f) PROVE ShownAt(D, <<"Module", x>>) /\ ShownAt(D, <<"Language", <<x[1]>> >>)
    <3> DEFINE a == <<"Module", x>>
               b == <<"Language", <<x[1]>> >>
    <3>1. a = Row(G, x) /\ b = Row(G, <<x[1]>>)
      BY <2>2
    <3> HIDE DEF a, b
    <3>2. ShownAt(D, a) /\ ShownAt(D, b)
      BY <1>1, <2>2, <3>1 DEF ShownAt
    <3> QED BY <3>2 DEF a, b
  <2>4. /\ \A x : Rooted(x)[1] = "Contains" /\ Rooted(x)[2] = <<x[1]>> /\ Rooted(x)[3] = x
        /\ \A x : Linked(x)[1] = "Contains" /\ Linked(x)[2] = Above(x) /\ Linked(x)[3] = x
        /\ Parent(f)[1] = "Contains" /\ Parent(f)[2] = moduleOf[f] /\ Parent(f)[3] = <<f>>
    BY DEF Rooted, Linked, Parent
  <2>5. ASSUME NEW x \in Chain(f) PROVE <<"Contains", <<"Language", <<x[1]>> >>, <<"Module", x>> >> \in D.rels
    <3> DEFINE e == Rooted(x)
    <3>1. e \in G.edges /\ e[1] = "Contains" /\ <<"Language", <<x[1]>> >> = Row(G, e[2]) /\ <<"Module", x>> = Row(G, e[3])
      BY <2>2, <2>4
    <3> HIDE DEF e
    <3>2. <<e[1], <<"Language", <<x[1]>> >>, <<"Module", x>> >> \in D.rels
      BY <1>7, <3>1
    <3> QED BY <3>1, <3>2
  <2>6. ASSUME NEW x \in Chain(f), Len(x) > 2 PROVE <<"Contains", <<"Module", Above(x)>>, <<"Module", x>> >> \in D.rels
    <3> DEFINE e == Linked(x)
    <3>1. Above(x) \in Chain(f)
      BY <2>1, <2>6, ChainFacts
    <3>2. e \in G.edges /\ e[1] = "Contains" /\ <<"Module", Above(x)>> = Row(G, e[2]) /\ <<"Module", x>> = Row(G, e[3])
      BY <2>2, <2>4, <2>6, <3>1
    <3> HIDE DEF e
    <3>3. <<e[1], <<"Module", Above(x)>>, <<"Module", x>> >> \in D.rels
      BY <1>7, <3>2
    <3> QED BY <3>2, <3>3
  <2>7. <<"Contains", <<"Module", moduleOf[f]>>, <<"File", <<f>> >> >> \in D.rels
    <3> DEFINE e == Parent(f)
    <3>1. moduleOf[f] \in Chain(f)
      BY <2>1, OwnModule
    <3>2. e \in G.edges
      BY <2>1, <3>1 DEF HasParents
    <3>3. Row(G, <<f>>) = <<"File", <<f>> >>
      BY <2>1, FieldsOfANode DEF ShowsFiles, FileRow, Row
    <3>4. e[1] = "Contains" /\ <<"Module", moduleOf[f]>> = Row(G, e[2]) /\ <<"File", <<f>> >> = Row(G, e[3])
      BY <2>2, <2>4, <3>1, <3>3
    <3> HIDE DEF e
    <3>5. <<e[1], <<"Module", moduleOf[f]>>, <<"File", <<f>> >> >> \in D.rels
      BY <1>7, <3>2, <3>4
    <3> QED BY <3>4, <3>5
  <2>8. FrameRels(f) \subseteq D.rels
    <3> SUFFICES ASSUME NEW r \in FrameRels(f) PROVE r \in D.rels
      OBVIOUS
    <3>1. CASE r \in {<<"Contains", <<"Language", <<x[1]>> >>, <<"Module", x>> >> : x \in Chain(f)}
      BY <2>5, <3>1
    <3>2. CASE r \in {<<"Contains", <<"Module", Above(x)>>, <<"Module", x>> >> : x \in {y \in Chain(f) : Len(y) > 2}}
      BY <2>6, <3>2
    <3> QED BY <2>7, <3>1, <3>2 DEF FrameRels
  <2>9. ASSUME NEW r \in BodyRels(f, T[f]) PROVE r \in D.rels
    <3> DEFINE e == Unrow(r)
    <3>1. e \in Body(f, T[f]) /\ e[1] = "Contains" /\ r = <<"Contains", Row(G, e[2]), Row(G, e[3])>>
      BY <2>1, BodyIsValid
    <3>2. e \in G.edges
      BY <2>1, <3>1 DEF Draws, HasBodies
    <3> HIDE DEF e
    <3> QED BY <1>7, <3>1, <3>2
  <2> QED BY <2>3, <2>8, <2>9
<1>10. DbPlans(D, hurt)
  <2> SUFFICES ASSUME NEW p \in Plans, NEW a \in DOMAIN D.rows, NEW b \in DOMAIN D.rows,
                      a[2] = p.parent, b[2] = p.fqn, ValidPair("Contains", a[1], b[1])
               PROVE  <<"Contains", a, b>> \in D.rels
    BY DEF DbPlans
  <2> DEFINE e == PlanEdge(p)
  <2>1. e \in G.edges
    BY <1>4 DEF HasPlans
  <2>2. e[1] = "Contains" /\ e[2] = p.parent /\ e[3] = p.fqn
    BY DEF PlanEdge
  <2> HIDE DEF e
  <2>3. a = Row(G, e[2]) /\ b = Row(G, e[3])
    BY <1>4, <2>2
  <2>4. <<e[1], a, b>> \in D.rels
    BY <1>7, <2>1, <2>3
  <2> QED BY <2>2, <2>4
<1> QED BY <1>5, <1>6, <1>8, <1>9, <1>10 DEF DbDraws, RelsDrawn, DbFramed

-----------------------------------------------------------------------------
(* What a splice draws                                                       *)

\* What a splice starts from: an assembled graph of the tree, a database of
\* another tree, and the files and names the two may differ by.
Complete(G, T, hurt) ==
    /\ Tells(G, T) /\ ShowsFiles(G, T) /\ Settled(G) /\ Draws(G, T) /\ ModulesRight(G) /\ HasParents(G)
    /\ HasPlans(G) /\ Exact(G, T, hurt) /\ \A e \in G.edges : ~Vague(e)
    /\ \A f \in Present(T) : langOf[f] \notin hurt =>
          <<f>> \in DOMAIN G.nodes /\ HasChain(G, f) /\ HasRoots(G, f)
Keeps(D, T, spoilt) == DbTells(D, T, spoilt) /\ DbShows(D, T, spoilt) /\ DbDraws(D, T, spoilt)
Covers(targets, removed, T0, T, hurt) ==
    /\ targets \subseteq File
    /\ \A x \in removed : \E f \in File \ Present(T) : x \in NamesOf(f)
    /\ \A f \in File : langOf[f] \notin hurt /\ f \notin targets => T0[f] = T[f]

Splices(D, T0, spoilt, G, T, hurt, targets, removed) ==
    /\ OwnNames /\ Legible /\ T \in Trees
    /\ Complete(G, T, hurt) /\ Keeps(D, T0, spoilt) /\ Covers(targets, removed, T0, T, hurt)

\* The rows and the rels of a splice, by where they come from.
LEMMA AppliedParts ==
    ASSUME NEW D, NEW G, NEW targets, NEW removed, Settled(G),
           \A r \in D.rels : ValidPair(r[1], r[2][1], r[3][1]),
           NEW A, A = Applied(D, G, targets, removed), NEW gone, gone = Disappearing(D, G, targets, removed)
    PROVE  /\ \A k \in DOMAIN A.rows : k \notin gone /\
                 \/ \E x \in DOMAIN G.nodes :
                       /\ k = Row(G, x) /\ (x \in DeltaNodes(D, G, targets) \/ k[1] = "Unresolved")
                       /\ A.rows[k] = Upserted(D, G.nodes[x], k)
                 \/ /\ k \in DOMAIN D.rows /\ A.rows[k] = D.rows[k]
                    /\ \A x \in DeltaNodes(D, G, targets) : k # Row(G, x)
           /\ \A x \in DeltaNodes(D, G, targets) :
                 Row(G, x) \in DOMAIN A.rows /\ A.rows[Row(G, x)] = Upserted(D, G.nodes[x], Row(G, x))
           /\ \A k \in DOMAIN D.rows :
                 k \notin gone /\ k[1] # "Unresolved" /\ (\A x \in DeltaNodes(D, G, targets) : k # Row(G, x))
                 => k \in DOMAIN A.rows /\ A.rows[k] = D.rows[k]
           /\ \A r \in A.rels :
                 /\ r[2] \in DOMAIN A.rows /\ r[3] \in DOMAIN A.rows /\ ValidPair(r[1], r[2][1], r[3][1])
                 /\ \/ /\ r \in D.rels
                       /\ ~((r[2] \in gone \/ \E x \in DeltaNodes(D, G, targets) : r[2] = Row(G, x))
                             /\ Authors(r[1], r[2]))
                    \/ \E e \in G.edges : r = <<e[1], Row(G, e[2]), Row(G, e[3])>>
           /\ \A e \in G.edges :
                 /\ Row(G, e[2]) \in DOMAIN A.rows /\ Row(G, e[3]) \in DOMAIN A.rows
                 /\ Merging(DeltaNodes(D, G, targets), e) /\ \A k \in gone : k[2] # e[3]
                 => <<e[1], Row(G, e[2]), Row(G, e[3])>> \in A.rels
           /\ \A r \in D.rels :
                 /\ r[2] \in DOMAIN A.rows /\ r[3] \in DOMAIN A.rows
                 /\ \A x \in DeltaNodes(D, G, targets) : r[2] # Row(G, x)
                 => r \in A.rels
<1> DEFINE nodes    == DeltaNodes(D, G, targets)
           delta    == {Row(G, x) : x \in nodes}
           merged   == MergedRels(D, G, targets, removed)
           targeted == {r[3] : r \in {x \in merged : x[1] \in {"UnresolvedCall", "UnresolvedUse"}}}
           rows     == (DOMAIN D.rows \cup delta \cup targeted) \ gone
           kept     == {r \in D.rels : ~(r[2] \in delta \cup gone /\ Authors(r[1], r[2]))}
           rels     == {r \in kept \cup merged : r[2] \in rows /\ r[3] \in rows}
           named    == {r[3] : r \in rels}
<1>1. /\ A.rows = [k \in {y \in rows : y[1] # "Unresolved" \/ y \in named} |->
                     IF k \in delta \cup targeted THEN Upserted(D, G.nodes[k[2]], k) ELSE D.rows[k]]
      /\ A.rels = rels
  BY DEF Applied
<1>2. \A x : Row(G, x)[2] = x /\ Row(G, x)[1] = G.nodes[x].kind
  BY DEF Row
<1>3. ASSUME NEW e \in G.edges
      PROVE  /\ e[2] \in DOMAIN G.nodes /\ e[3] \in DOMAIN G.nodes
             /\ ValidPair(e[1], G.nodes[e[2]].kind, G.nodes[e[3]].kind)
             /\ LabelledEnd(D, G, e[2]) = {Row(G, e[2])} /\ LabelledEnd(D, G, e[3]) = {Row(G, e[3])}
  BY DEF Settled, LabelledEnd
<1>4. ASSUME NEW r \in merged
      PROVE  /\ ValidPair(r[1], r[2][1], r[3][1])
             /\ \E e \in G.edges : r = <<e[1], Row(G, e[2]), Row(G, e[3])>>
  <2>1. /\ ValidPair(r[1], r[2][1], r[3][1])
        /\ \E e \in G.edges : \E a \in LabelledEnd(D, G, e[2]), b \in LabelledEnd(D, G, e[3]) : r = <<e[1], a, b>>
    BY DEF MergedRels
  <2> QED BY <1>3, <2>1
<1>5. ASSUME NEW e \in G.edges, Merging(nodes, e), \A k \in gone : k[2] # e[3]
      PROVE  <<e[1], Row(G, e[2]), Row(G, e[3])>> \in merged
  <2> DEFINE a == Row(G, e[2])
             b == Row(G, e[3])
             r == <<e[1], a, b>>
  <2>1. a \in LabelledEnd(D, G, e[2]) /\ b \in LabelledEnd(D, G, e[3])
    BY <1>3
  <2>2. ValidPair(r[1], r[2][1], r[3][1])
    BY <1>2, <1>3
  <2> DEFINE names == {k[2] : k \in gone}
             merging == {x \in G.edges : Merging(nodes, x) /\ x[3] \notin names}
             Between(d) == {<<d[1], x, y>> : x \in LabelledEnd(D, G, d[2]), y \in LabelledEnd(D, G, d[3])}
  <2>3. e \in merging
    BY <1>5
  <2>4. r \in Between(e)
    BY <2>1
  <2>5. merged = {q \in UNION {Between(d) : d \in merging} : ValidPair(q[1], q[2][1], q[3][1])}
    BY DEF MergedRels
  <2> HIDE DEF r, merging, Between, merged
  <2>6. r \in merged
    BY <2>2, <2>3, <2>4, <2>5
  <2> QED BY <2>6 DEF r, merged
<1>6. \A k \in targeted : k[1] = "Unresolved" /\ \E x \in DOMAIN G.nodes : k = Row(G, x)
  <2> SUFFICES ASSUME NEW r \in merged, r[1] \in {"UnresolvedCall", "UnresolvedUse"}
               PROVE  r[3][1] = "Unresolved" /\ \E x \in DOMAIN G.nodes : r[3] = Row(G, x)
    OBVIOUS
  <2>1. PICK e \in G.edges : r = <<e[1], Row(G, e[2]), Row(G, e[3])>>
    BY <1>4
  <2>2. ValidPair(r[1], r[2][1], r[3][1]) /\ r[3] = Row(G, e[3]) /\ e[3] \in DOMAIN G.nodes
    BY <1>3, <1>4, <2>1
  <2> QED BY <2>2 DEF ValidPair
<1>7. \A x \in nodes : x \in DOMAIN G.nodes /\ Row(G, x) \notin gone /\ Row(G, x)[1] # "Unresolved"
  BY <1>2 DEF DeltaNodes, Disappearing
<1>8. \A k \in delta : \E x \in nodes : k = Row(G, x)
  OBVIOUS
<1>9. \A x \in nodes : Row(G, x) \in delta
  OBVIOUS
<1> HIDE DEF delta, targeted, merged, kept, rels
<1>10. \A r \in rels : r[2] \in rows /\ r[3] \in named
  BY DEF rels, named
<1>11. \A r \in rels : ValidPair(r[1], r[2][1], r[3][1]) /\ r[2][1] # "Unresolved"
  <2>1. \A r \in rels : ValidPair(r[1], r[2][1], r[3][1])
    BY <1>4 DEF rels, kept
  <2> QED BY <2>1 DEF ValidPair
<1> HIDE DEF named, nodes
<1>12. ASSUME NEW k \in DOMAIN A.rows
       PROVE  k \notin gone /\
                 \/ \E x \in DOMAIN G.nodes :
                       k = Row(G, x) /\ (x \in nodes \/ k[1] = "Unresolved") /\ A.rows[k] = Upserted(D, G.nodes[x], k)
                 \/ /\ k \in DOMAIN D.rows /\ A.rows[k] = D.rows[k]
                    /\ \A x \in nodes : k # Row(G, x)
  <2>1. k \in rows /\ k \notin gone
    BY <1>1
  <2>2. CASE k \in delta \cup targeted
    <3>1. PICK x \in DOMAIN G.nodes : k = Row(G, x) /\ (x \in nodes \/ k[1] = "Unresolved")
      BY <1>6, <1>7, <1>8, <2>2
    <3>2. A.rows[k] = Upserted(D, G.nodes[x], k)
      BY <1>1, <1>2, <2>2, <3>1
    <3> QED BY <2>1, <3>1, <3>2
  <2>3. CASE k \notin delta \cup targeted
    BY <1>1, <1>9, <2>1, <2>3
  <2> QED BY <2>2, <2>3
<1>13. ASSUME NEW x \in nodes
       PROVE  Row(G, x) \in DOMAIN A.rows /\ A.rows[Row(G, x)] = Upserted(D, G.nodes[x], Row(G, x))
  <2> DEFINE k == Row(G, x)
  <2>1. k \in rows /\ k \in delta /\ k[1] # "Unresolved" /\ k[2] = x
    BY <1>2, <1>7, <1>9
  <2> HIDE DEF rows, k
  <2>2. k \in DOMAIN A.rows /\ A.rows[k] = Upserted(D, G.nodes[k[2]], k)
    BY <1>1, <2>1
  <2> QED BY <2>1, <2>2 DEF k
<1>14. ASSUME NEW k \in DOMAIN D.rows, k \notin gone, k[1] # "Unresolved", \A x \in nodes : k # Row(G, x)
       PROVE  k \in DOMAIN A.rows /\ A.rows[k] = D.rows[k]
  <2>1. k \in rows /\ k \notin delta /\ k \notin targeted
    BY <1>6, <1>8, <1>14
  <2> HIDE DEF rows
  <2> QED BY <1>1, <1>14, <2>1
<1>15. ASSUME NEW r \in A.rels
       PROVE  /\ r[2] \in DOMAIN A.rows /\ r[3] \in DOMAIN A.rows /\ ValidPair(r[1], r[2][1], r[3][1])
              /\ \/ /\ r \in D.rels
                    /\ ~((r[2] \in gone \/ \E x \in nodes : r[2] = Row(G, x)) /\ Authors(r[1], r[2]))
                 \/ \E e \in G.edges : r = <<e[1], Row(G, e[2]), Row(G, e[3])>>
  <2>1. r \in rels /\ r[2] \in rows /\ r[3] \in rows /\ (r \in kept \/ r \in merged)
    BY <1>1 DEF rels
  <2>2. r[2] \in DOMAIN A.rows /\ r[3] \in DOMAIN A.rows /\ ValidPair(r[1], r[2][1], r[3][1])
    <3> HIDE DEF rows
    <3> QED BY <1>1, <1>10, <1>11, <2>1
  <2>3. r \in kept => /\ r \in D.rels
                      /\ ~((r[2] \in gone \/ \E x \in nodes : r[2] = Row(G, x)) /\ Authors(r[1], r[2]))
    BY <1>9 DEF kept
  <2> QED BY <1>4, <2>1, <2>2, <2>3
<1>16. ASSUME NEW e \in G.edges, Row(G, e[2]) \in DOMAIN A.rows, Row(G, e[3]) \in DOMAIN A.rows,
              Merging(nodes, e), \A k \in gone : k[2] # e[3]
       PROVE  <<e[1], Row(G, e[2]), Row(G, e[3])>> \in A.rels
  <2> DEFINE a == Row(G, e[2])
             b == Row(G, e[3])
             r == <<e[1], a, b>>
  <2>1. a \in rows /\ b \in rows /\ r \in merged
    BY <1>1, <1>5, <1>16
  <2>2. r[2] = a /\ r[3] = b
    OBVIOUS
  <2> HIDE DEF r, rows
  <2>3. r \in rels
    BY <2>1, <2>2 DEF rels
  <2> QED BY <1>1, <2>3 DEF r
<1>17. ASSUME NEW r \in D.rels, r[2] \in DOMAIN A.rows, r[3] \in DOMAIN A.rows, \A x \in nodes : r[2] # Row(G, x)
       PROVE  r \in A.rels
  <2>1. r[2] \in rows /\ r[3] \in rows /\ r[2] \notin gone
    BY <1>1, <1>17
  <2>2. r[2] \notin delta
    BY <1>8, <1>17
  <2> QED BY <1>1, <2>1, <2>2 DEF rels, kept
<1> QED BY <1>12, <1>13, <1>14, <1>15, <1>16, <1>17 DEF nodes

\* What of code stands in a database at the FQN of a module, of a file or of a
\* declaration is that module, file or declaration; at a language's, nothing.
LEMMA CodeRows ==
    ASSUME OwnNames, Legible, NEW D, NEW T, NEW hurt, DbTells(D, T, hurt), RowsPlain(D),
           NEW k \in DOMAIN D.rows, k[1] \in {"Struct", "Function", "File", "Module"}
    PROVE  /\ k[2] \in AllModules => k = <<"Module", k[2]>>
           /\ \A f \in File : k[2] = <<f>> => k = <<"File", <<f>> >>
           /\ \A f \in File : \A c \in Contents(f) : \A p \in Names(f, c) : p[1] = k[2] => k = <<p[2].kind, p[1]>>
           /\ \A l \in Language : k[2] # <<l>>
<1> DEFINE n == D.rows[k]
           x == k[2]
<1>1. k = <<k[1], x>> /\ n.kind = k[1] /\ RightNode(x, n) /\ PlainNode(x, n)
  BY DEF DbTells, RowsPlain
<1>2. n.kind # "Language"
  BY <1>1
<1>3. IsDeclaration(n) => \E f \in File : \E c \in Contents(f) : \E p \in Names(f, c) : p[1] = x
  <2> SUFFICES ASSUME IsDeclaration(n) PROVE \E f \in File : \E c \in Contents(f) : \E p \in Names(f, c) : p[1] = x
    OBVIOUS
  <2>1. PICK f \in File : \E c \in Contents(f) : <<x, n>> \in Names(f, c)
    BY DEF DbTells
  <2>2. PICK c \in Contents(f) : <<x, n>> \in Names(f, c)
    BY <2>1
  <2> DEFINE p == <<x, n>>
  <2>3. p \in Names(f, c) /\ p[1] = x
    BY <2>2
  <2> HIDE DEF p
  <2> QED BY <2>3
<1> HIDE DEF n, x
<1>4. n.planned => \E p \in Placeholders : x = p.fqn
  BY <1>1 DEF PlainNode
<1>5. ASSUME x \in AllModules PROVE k = <<"Module", x>>
  <2>1. ~n.planned
    BY <1>4, <1>5 DEF Legible
  <2>2. NoName(x) /\ \A y : x # <<y>>
    BY <1>5, ModulesApart
  <2>3. ~IsDeclaration(n)
    BY <1>3, <2>2 DEF NoName
  <2>4. k[1] \notin {"Struct", "Function"}
    BY <1>1, <2>1, <2>3 DEF IsDeclaration
  <2>5. k[1] # "File"
    BY <1>1, <2>2 DEF PlainNode
  <2> QED BY <1>1, <2>4, <2>5
<1>6. ASSUME NEW f \in File, x = <<f>> PROVE k = <<"File", <<f>> >>
  <2>1. x[1] = f
    BY <1>6
  <2>2. ~n.planned
    BY <1>4, <2>1, NamesAssumption
  <2>3. ~IsDeclaration(n)
    BY <1>3, <1>6, NamesAreDeclarations, DeepIsNoFile
  <2>4. k[1] \notin {"Struct", "Function"}
    BY <1>1, <2>2, <2>3 DEF IsDeclaration
  <2>5. k[1] # "Module"
    <3>1. x \notin AllModules
      BY <1>6, ModulesApart
    <3>2. n # Planned("Module")
      BY <2>2, FieldsOfANode
    <3> QED BY <1>1, <3>1, <3>2 DEF PlainNode
  <2> QED BY <1>1, <1>6, <2>4, <2>5
<1>7. ASSUME NEW f \in File, NEW c \in Contents(f), NEW p \in Names(f, c), p[1] = x
      PROVE  k = <<p[2].kind, p[1]>>
  BY <1>1, <1>7 DEF RightNode, RightKind
<1>8. \A l \in Language : x # <<l>>
  BY <1>1, <1>2 DEF PlainNode
<1> QED BY <1>5, <1>6, <1>7, <1>8 DEF x

\* The code of a file a splice has whole stands in it: its language, its modules,
\* itself and its declarations.  What of it the splice leaves alone the seed has,
\* and of a file or a declaration only when no target is its file.
CodeAt(f, c) == Chain(f) \cup {<<langOf[f]>>, <<f>>} \cup {p[1] : p \in Names(f, c)}

LEMMA CodeStands ==
    ASSUME NEW D, NEW T0, NEW spoilt, NEW G, NEW T, NEW hurt, NEW targets, NEW removed,
           Splices(D, T0, spoilt, G, T, hurt, targets, removed),
           NEW gone, gone = Disappearing(D, G, targets, removed), NEW nodes, nodes = DeltaNodes(D, G, targets),
           NEW f \in Present(T), langOf[f] \notin hurt \cup spoilt, NEW x \in CodeAt(f, T[f])
    PROVE  /\ x \in DOMAIN G.nodes /\ ~G.nodes[x].planned /\ G.nodes[x].kind # "Unresolved"
           /\ \A k \in gone : k[2] # x
           /\ x \notin nodes => Row(G, x) \in DOMAIN D.rows /\ ~D.rows[Row(G, x)].planned
           /\ x \notin nodes /\ x \notin Chain(f) => f \notin targets
           /\ x = <<langOf[f]>> => x \in nodes
<1>1. OwnNames /\ Legible /\ T \in Trees /\ Complete(G, T, hurt) /\ Keeps(D, T0, spoilt) /\ Covers(targets, removed, T0, T, hurt)
  BY DEF Splices
<1>2. f \in File /\ T[f] \in Contents(f) /\ langOf[f] \in Language /\ T[f] # Missing
  BY <1>1, ContentsOfTrees, LanguageOfFile DEF Present
<1>3. /\ Tells(G, T) /\ ShowsFiles(G, T) /\ Draws(G, T)
      /\ <<f>> \in DOMAIN G.nodes /\ HasChain(G, f) /\ HasRoots(G, f)
  BY <1>1 DEF Complete
<1>4. DbTells(D, T0, spoilt) /\ DbShows(D, T0, spoilt) /\ RowsPlain(D)
  BY <1>1 DEF Keeps, DbDraws
<1>5. f \notin targets => T0[f] = T[f] /\ f \in Present(T0)
  BY <1>1, <1>2 DEF Covers, Present
<1>6. \A k \in gone : /\ k \in DOMAIN D.rows /\ k[1] \in {"Struct", "Function", "File", "Module"} /\ k[2] \notin nodes
                      /\ \/ k[1] # "Module" /\ D.rows[k].path \in targets
                         \/ k[1] = "Module" /\ Subtree(D, k[2]) \cap targets # {}
                         \/ k[2] \in removed
  BY DEF Disappearing, DeleteScope
<1>7. \A y \in removed : \E g \in File \ Present(T) : y \in NamesOf(g)
  BY <1>1 DEF Covers
<1>8. CASE x \in Chain(f)
  <2>1. x \in AllModules /\ RealModule(G, x) /\ NoName(x)
    BY <1>1, <1>2, <1>3, <1>8, ChainFacts, ModulesApart DEF HasChain
  <2>2. /\ x \in DOMAIN G.nodes /\ ~G.nodes[x].planned /\ G.nodes[x].kind = "Module" /\ Row(G, x) = <<"Module", x>>
    BY <2>1 DEF RealModule, IsKind, Row
  <2>3. x \notin removed
    BY <1>7, <2>1 DEF NamesOf, NoName
  <2>4. x # <<langOf[f]>>
    BY <1>1, <2>1, ModulesApart
  <2> DEFINE k == <<"Module", x>>
  <2>5. x \notin nodes => k \in DOMAIN D.rows /\ ~D.rows[k].planned /\ Subtree(D, x) \cap targets = {}
    <3> SUFFICES ASSUME x \notin nodes PROVE k \in DOMAIN D.rows /\ ~D.rows[k].planned /\ Subtree(D, x) \cap targets = {}
      OBVIOUS
    <3> HIDE DEF k
    <3>1. /\ x \in SeededModules(D) /\ ~Heals(D, G, x)
          /\ D.rows[k].planned \/ Subtree(D, x) \cap targets = {}
      BY <2>2 DEF DeltaNodes, k
    <3>2. k \in DOMAIN D.rows
      <4>1. PICK q \in DOMAIN D.rows : q[1] = "Module" /\ q[2] = x
        BY <3>1 DEF SeededModules, RowsOf
      <4>2. q = <<q[1], q[2]>>
        BY <1>4 DEF DbTells
      <4> QED BY <4>1, <4>2 DEF k
    <3>3. ~D.rows[k].planned
      BY <2>2, <3>1, <3>2 DEF Heals, k
    <3> QED BY <3>1, <3>2, <3>3
  <2>6. ASSUME NEW q \in gone PROVE q[2] # x
    <3> SUFFICES ASSUME q[2] = x PROVE FALSE
      OBVIOUS
    <3>1. q[1] = "Module"
      BY <1>1, <1>4, <1>6, <2>1, CodeRows
    <3> QED BY <1>6, <2>3, <2>5, <3>1
  <2> HIDE DEF k
  <2> QED BY <1>8, <2>2, <2>4, <2>5, <2>6 DEF k
<1>9. CASE x = <<langOf[f]>>
  <2>1. moduleOf[f] \in Chain(f) /\ moduleOf[f][1] = langOf[f]
    BY <1>2, OwnModule
  <2>2. x \in DOMAIN G.nodes
    BY <1>3, <1>9, <2>1 DEF HasRoots
  <2>3. G.nodes[x] = Bare("Language")
    BY <1>2, <1>3, <1>9, <2>2 DEF Draws, Plain, PlainNode
  <2>4. G.nodes[x].kind = "Language" /\ ~G.nodes[x].planned
    BY <2>3, FieldsOfANode
  <2>5. x \in nodes
    BY <2>2, <2>4 DEF DeltaNodes
  <2> QED BY <1>6, <2>2, <2>4, <2>5
<1>10. CASE x = <<f>>
  <2>1. x \in DOMAIN G.nodes /\ G.nodes[x] = FileRow(f, T)
    BY <1>2, <1>3, <1>10 DEF ShowsFiles
  <2>2. G.nodes[x].kind = "File" /\ ~G.nodes[x].planned /\ G.nodes[x].path = f /\ Row(G, x) = <<"File", <<f>> >>
    BY <1>10, <2>1, FieldsOfANode DEF FileRow, Row
  <2>3. x \notin nodes => f \notin targets
    BY <2>1, <2>2 DEF DeltaNodes
  <2> DEFINE k == <<"File", <<f>> >>
  <2>4. x \notin nodes => k \in DOMAIN D.rows /\ D.rows[k] = FileRow(f, T0)
    BY <1>2, <1>4, <1>5, <2>3 DEF DbShows
  <2>5. x \notin nodes => k \in DOMAIN D.rows /\ ~D.rows[k].planned /\ D.rows[k].path = f
    BY <2>4, FieldsOfANode DEF FileRow
  <2>6. x \notin removed
    BY <1>7, <1>10, NamesAreDeclarations, DeepIsNoFile DEF NamesOf
  <2>7. ASSUME NEW q \in gone PROVE q[2] # x
    <3> SUFFICES ASSUME q[2] = x PROVE FALSE
      OBVIOUS
    <3>1. q = k
      BY <1>1, <1>2, <1>4, <1>6, <1>10, CodeRows
    <3>2. q[1] = "File"
      BY <3>1
    <3> HIDE DEF k
    <3> QED BY <1>6, <2>3, <2>5, <2>6, <3>1, <3>2
  <2>8. x # <<langOf[f]>>
    BY <1>2, <1>10, NamesAssumption
  <2> HIDE DEF k
  <2> QED BY <2>1, <2>2, <2>3, <2>5, <2>7, <2>8 DEF k
<1>11. CASE \E p \in Names(f, T[f]) : x = p[1]
  <2>1. PICK p \in Names(f, T[f]) : x = p[1]
    BY <1>11
  <2>2. /\ p[2].kind \in {"Struct", "Function"} /\ ~p[2].planned /\ p[2].path = f
        /\ \A y : x # <<y>>
    <3>1. IsDeclaration(p[2]) /\ p[2].path = f /\ Deep(p[1])
      BY <1>2, <2>1, NamesAreDeclarations
    <3>2. \A y : x # <<y>>
      BY <2>1, <3>1, DeepIsNoFile
    <3> QED BY <3>1, <3>2 DEF IsDeclaration
  <2>3. x \in DOMAIN G.nodes /\ G.nodes[x] = p[2]
    BY <1>3, <2>1 DEF Tells, HasNames
  <2> DEFINE k == <<p[2].kind, p[1]>>
  <2>4. Row(G, x) = k
    BY <2>1, <2>3 DEF Row
  <2>5. x \notin nodes => f \notin targets
    BY <2>2, <2>3 DEF DeltaNodes
  <2>6. x \notin nodes => k \in DOMAIN D.rows /\ D.rows[k] = p[2]
    <3> SUFFICES ASSUME x \notin nodes PROVE k \in DOMAIN D.rows /\ D.rows[k] = p[2]
      OBVIOUS
    <3>1. f \in Present(T0) /\ T0[f] = T[f] /\ langOf[f] \notin spoilt
      BY <1>5, <2>5
    <3>2. p \in Names(f, T0[f])
      BY <3>1
    <3> QED BY <1>4, <3>1, <3>2 DEF DbTells
  <2>7. x \notin removed
    <3> SUFFICES ASSUME NEW g \in File \ Present(T), x \in NamesOf(g) PROVE FALSE
      BY <1>7
    <3>1. PICK c \in Contents(g) : \E q \in Names(g, c) : q[1] = x
      BY DEF NamesOf
    <3> QED BY <1>1, <1>2, <2>1, <3>1, OneOwner
  <2>8. ASSUME NEW q \in gone PROVE q[2] # x
    <3> SUFFICES ASSUME q[2] = x PROVE FALSE
      OBVIOUS
    <3>1. q = k
      BY <1>1, <1>2, <1>4, <1>6, <2>1, CodeRows
    <3>2. q[1] = p[2].kind
      BY <3>1
    <3> HIDE DEF k
    <3> QED BY <1>6, <2>2, <2>5, <2>6, <2>7, <3>1, <3>2
  <2> HIDE DEF k
  <2> QED BY <2>2, <2>3, <2>4, <2>5, <2>6, <2>8
<1> QED BY <1>8, <1>9, <1>10, <1>11 DEF CodeAt

LEMMA AppliedPlain ==
    ASSUME NEW D, NEW T0, NEW spoilt, NEW G, NEW T, NEW hurt, NEW targets, NEW removed,
           Splices(D, T0, spoilt, G, T, hurt, targets, removed),
           NEW A, A = Applied(D, G, targets, removed)
    PROVE  RowsPlain(A)
<1>1. Legible /\ Settled(G) /\ Plain(G) /\ RowsPlain(D) /\ DbTells(D, T0, spoilt) /\ RelsDrawn(D, T0, spoilt)
  BY DEF Splices, Complete, Keeps, Draws, DbDraws
<1>2. \A r \in D.rels : ValidPair(r[1], r[2][1], r[3][1])
  BY <1>1 DEF RelsDrawn
<1> SUFFICES ASSUME NEW k \in DOMAIN A.rows PROVE PlainNode(k[2], A.rows[k])
  BY DEF RowsPlain
<1>3. \/ \E x \in DOMAIN G.nodes : k = Row(G, x) /\ A.rows[k] = Upserted(D, G.nodes[x], k)
      \/ k \in DOMAIN D.rows /\ A.rows[k] = D.rows[k]
  <2> DEFINE gone == Disappearing(D, G, targets, removed)
  <2>1. gone = Disappearing(D, G, targets, removed)
    OBVIOUS
  <2> HIDE DEF gone
  <2> QED BY <1>1, <1>2, <2>1, AppliedParts
<1>4. CASE k \in DOMAIN D.rows /\ A.rows[k] = D.rows[k]
  BY <1>1, <1>4 DEF RowsPlain
<1>5. ASSUME NEW x \in DOMAIN G.nodes, k = Row(G, x), A.rows[k] = Upserted(D, G.nodes[x], k)
      PROVE  PlainNode(k[2], A.rows[k])
  <2> DEFINE n == G.nodes[x]
             m == [n EXCEPT !.planned = FALSE]
  <2>1. k[2] = x /\ k[1] = n.kind /\ PlainNode(x, n)
    BY <1>1, <1>5 DEF Row, Plain
  <2>2. CASE Upserted(D, n, k) = n
    BY <1>5, <2>1, <2>2
  <2>3. CASE Upserted(D, n, k) # n
    <3>1. n.planned /\ k \in DOMAIN D.rows /\ ~D.rows[k].planned /\ Upserted(D, n, k) = m
      BY <2>3 DEF Upserted
    <3>2. m.kind = n.kind /\ (~m.planned \/ m = n)
      OBVIOUS
    <3>3. n.kind # "Language"
      BY <2>1, <3>1, FieldsOfANode DEF PlainNode
    <3>4. n.kind # "Module"
      <4> SUFFICES ASSUME n.kind = "Module" PROVE FALSE
        OBVIOUS
      <4>1. PICK p \in Placeholders : x = p.fqn
        BY <2>1, <3>1 DEF PlainNode
      <4>2. D.rows[k].kind = "Module" /\ PlainNode(x, D.rows[k])
        BY <1>1, <2>1, <3>1 DEF DbTells, RowsPlain
      <4>3. x \in AllModules
        BY <3>1, <4>2, FieldsOfANode DEF PlainNode
      <4> QED BY <1>1, <4>1, <4>3 DEF Legible
    <3> HIDE DEF m
    <3>5. ~m.planned
      BY <2>3, <3>1, <3>2
    <3>6. PlainNode(x, m)
      BY <2>1, <3>2, <3>3, <3>4, <3>5 DEF PlainNode
    <3> QED BY <1>5, <2>1, <3>1, <3>6
  <2> QED BY <2>2, <2>3
<1> QED BY <1>3, <1>4, <1>5

\* An edge a seeded file or a declaration of it authors goes when it is a target:
\* its row is written anew or goes too.
LEMMA AuthoredGo ==
    ASSUME NEW D, NEW T0, NEW spoilt, NEW G, NEW T, NEW hurt, NEW targets, NEW removed,
           Splices(D, T0, spoilt, G, T, hurt, targets, removed),
           NEW gone, gone = Disappearing(D, G, targets, removed), NEW nodes, nodes = DeltaNodes(D, G, targets),
           NEW r \in D.rels, NEW f \in File, NEW c \in Contents(f), OfFile(Unrow(r), f, c),
           langOf[f] \notin hurt \cup spoilt, T0[f] = c, f \in targets
    PROVE  /\ Authors(r[1], r[2])
           /\ r[2] \in gone \/ \E x \in nodes : r[2] = Row(G, x)
<1>1. /\ OwnNames /\ Legible /\ T \in Trees /\ Tells(G, T) /\ ShowsFiles(G, T)
      /\ DbTells(D, T0, spoilt) /\ DbShows(D, T0, spoilt) /\ RowsPlain(D) /\ RelsDrawn(D, T0, spoilt)
  BY DEF Splices, Complete, Keeps, DbDraws
<1>2. c # Missing /\ f \in Present(T0)
  BY DEF Contents, Present
<1> DEFINE e == Unrow(r)
<1>3. e[1] = r[1] /\ e[2] = r[2][2] /\ e[3] = r[3][2]
  BY DEF Unrow
<1> HIDE DEF e
<1>4. /\ e[1] \in {"Contains", "Calls", "Uses"}
      /\ e[2] = <<f>> \/ \E p \in Names(f, c) : p[1] = e[2]
      /\ e[1] = "Contains" => \E p \in Names(f, c) : p[1] = e[3]
      /\ e[1] # "Contains" => \E p \in Names(f, c) : p[1] = e[2]
  BY <1>1, EndsOfFile DEF e
<1>5. r[2] \in DOMAIN D.rows /\ r[3] \in DOMAIN D.rows /\ ValidPair(r[1], r[2][1], r[3][1])
  BY <1>1 DEF RelsDrawn
<1>6. CASE \E p \in Names(f, c) : p[1] = e[2]
  <2>1. PICK p \in Names(f, c) : p[1] = e[2]
    BY <1>6
  <2> DEFINE k == <<p[2].kind, p[1]>>
  <2>2. /\ p[2].kind \in {"Struct", "Function"} /\ p[2].path = f /\ k[1] = p[2].kind /\ k[2] = p[1]
    BY NamesAreDeclarations DEF IsDeclaration
  <2>3. r[2] = k
    <3>1. RightKind(r[2][2], r[2][1]) /\ r[2] = <<r[2][1], r[2][2]>>
      BY <1>1, <1>5 DEF DbTells, RightNode
    <3> QED BY <1>3, <2>1, <3>1 DEF RightKind
  <2>4. k \in DOMAIN D.rows /\ D.rows[k] = p[2]
    <3>1. p \in Names(f, T0[f]) /\ langOf[f] \notin spoilt
      OBVIOUS
    <3> QED BY <1>1, <1>2, <3>1 DEF DbTells
  <2> HIDE DEF k
  <2>5. k \in DeleteScope(D, targets, removed)
    BY <2>2, <2>4 DEF DeleteScope
  <2>6. k \in gone \/ k[2] \in nodes
    BY <2>5 DEF Disappearing
  <2>7. k[2] \in nodes => k = Row(G, k[2])
    <3> SUFFICES ASSUME k[2] \in nodes PROVE k = Row(G, k[2])
      OBVIOUS
    <3>1. k[2] \in DOMAIN G.nodes
      BY DEF DeltaNodes
    <3>2. RightKind(k[2], G.nodes[k[2]].kind)
      BY <1>1, <3>1 DEF Tells, RightNode
    <3>3. G.nodes[k[2]].kind = p[2].kind
      BY <2>2, <3>2 DEF RightKind
    <3> QED BY <2>2, <3>3 DEF Row, k
  <2>8. Authors(r[1], r[2])
    BY <1>3, <1>4, <1>5, <2>2, <2>3 DEF ValidPair, Authors
  <2> QED BY <2>3, <2>6, <2>7, <2>8
<1>7. CASE e[2] = <<f>>
  <2>1. \A p \in Names(f, c) : p[1] # <<f>>
    BY NamesAreDeclarations, DeepIsNoFile
  <2>2. e[1] = "Contains"
    BY <1>4, <1>7, <2>1
  <2>3. PICK p \in Names(f, c) : p[1] = e[3]
    BY <1>4, <2>2
  <2>4. r[3][1] = p[2].kind /\ p[2].kind \in {"Struct", "Function"}
    <3>1. RightKind(r[3][2], r[3][1])
      BY <1>1, <1>5 DEF DbTells, RightNode
    <3>2. p[2].kind \in {"Struct", "Function"}
      BY NamesAreDeclarations DEF IsDeclaration
    <3> QED BY <1>3, <2>3, <3>1, <3>2 DEF RightKind
  <2>5. r[2][1] \in {"File", "Struct"}
    BY <1>3, <1>5, <2>2, <2>4 DEF ValidPair
  <2> DEFINE k == <<"File", <<f>> >>
  <2>6. r[2] = k
    <3>1. \A q \in DOMAIN D.rows : q[1] \in {"Struct", "Function", "File", "Module"} /\ q[2] = <<f>> => q = k
      BY <1>1, CodeRows
    <3> HIDE DEF k
    <3> QED BY <1>3, <1>5, <1>7, <2>5, <3>1
  <2>7. k \in DOMAIN D.rows /\ D.rows[k].path = f /\ k[1] = "File" /\ k[2] = <<f>>
    <3>1. k \in DOMAIN D.rows /\ D.rows[k] = FileRow(f, T0)
      BY <1>1, <1>5, <2>6 DEF DbShows
    <3> QED BY <3>1, FieldsOfANode DEF FileRow
  <2> HIDE DEF k
  <2>8. k \in DeleteScope(D, targets, removed)
    BY <2>7 DEF DeleteScope
  <2>9. k \in gone \/ k[2] \in nodes
    BY <2>8 DEF Disappearing
  <2>10. k[2] \in nodes => k = Row(G, k[2])
    <3> SUFFICES ASSUME <<f>> \in nodes PROVE k = Row(G, <<f>>)
      BY <2>7
    <3>1. <<f>> \in DOMAIN G.nodes
      BY DEF DeltaNodes
    <3> QED BY <1>1, <3>1, FieldsOfANode DEF ShowsFiles, FileRow, Row, k
  <2>11. Authors(r[1], r[2])
    BY <1>3, <2>2, <2>6, <2>7 DEF Authors
  <2> QED BY <2>6, <2>9, <2>10, <2>11
<1> QED BY <1>4, <1>6, <1>7

LEMMA AppliedDrawn ==
    ASSUME NEW D, NEW T0, NEW spoilt, NEW G, NEW T, NEW hurt, NEW targets, NEW removed,
           Splices(D, T0, spoilt, G, T, hurt, targets, removed),
           NEW A, A = Applied(D, G, targets, removed)
    PROVE  RelsDrawn(A, T, hurt \cup spoilt)
<1>1. T \in Trees /\ Settled(G) /\ Drawn(G, T) /\ RelsDrawn(D, T0, spoilt) /\ Covers(targets, removed, T0, T, hurt)
  BY DEF Splices, Complete, Keeps, Draws, DbDraws
<1>2. \A r \in D.rels : ValidPair(r[1], r[2][1], r[3][1])
  BY <1>1 DEF RelsDrawn
<1> DEFINE gone  == Disappearing(D, G, targets, removed)
           nodes == DeltaNodes(D, G, targets)
           ShownBy(r) == \/ Hierarchic(Unrow(r)) \/ Unresolves(Unrow(r))
                      \/ \E f \in File : \E c \in Contents(f) :
                            OfFile(Unrow(r), f, c) /\ (langOf[f] \notin hurt \cup spoilt => T[f] = c)
<1>3. gone = Disappearing(D, G, targets, removed) /\ nodes = DeltaNodes(D, G, targets)
  OBVIOUS
<1> HIDE DEF gone, nodes, Tree
<1> SUFFICES ASSUME NEW r \in A.rels
             PROVE  /\ r = <<r[1], r[2], r[3]>> /\ r[2] \in DOMAIN A.rows /\ r[3] \in DOMAIN A.rows
                    /\ ValidPair(r[1], r[2][1], r[3][1]) /\ ShownBy(r)
  BY DEF RelsDrawn, Tree
<1>4. /\ r[2] \in DOMAIN A.rows /\ r[3] \in DOMAIN A.rows /\ ValidPair(r[1], r[2][1], r[3][1])
      /\ \/ /\ r \in D.rels
            /\ ~((r[2] \in gone \/ \E x \in nodes : r[2] = Row(G, x)) /\ Authors(r[1], r[2]))
         \/ \E e \in G.edges : r = <<e[1], Row(G, e[2]), Row(G, e[3])>>
  BY <1>1, <1>2, <1>3, AppliedParts
<1>5. ASSUME NEW e \in G.edges, r = <<e[1], Row(G, e[2]), Row(G, e[3])>>
      PROVE  r = <<r[1], r[2], r[3]>> /\ ShownBy(r)
  <2>1. Unrow(r) = <<e[1], e[2], e[3]>>
    BY <1>5 DEF Unrow, Row
  <2>2. Hierarchic(e) \/ Unresolves(e) \/ \E f \in Present(T) : OfFile(e, f, T[f])
    <3>1. ~Vague(e)
      BY DEF Splices, Complete
    <3> QED BY <1>1, <3>1 DEF Drawn
  <2>3. Hierarchic(Unrow(r)) \/ Unresolves(Unrow(r)) \/ \E f \in Present(T) : OfFile(Unrow(r), f, T[f])
    BY <2>1, <2>2, EdgeByItsEnds
  <2>4. (\E f \in Present(T) : OfFile(Unrow(r), f, T[f])) =>
            \E f \in File : \E c \in Contents(f) :
                OfFile(Unrow(r), f, c) /\ (langOf[f] \notin hurt \cup spoilt => T[f] = c)
    BY <1>1, ContentsOfTrees
  <2> QED BY <1>5, <2>3, <2>4 DEF ShownBy
<1>6. ASSUME r \in D.rels, ~((r[2] \in gone \/ \E x \in nodes : r[2] = Row(G, x)) /\ Authors(r[1], r[2]))
      PROVE  r = <<r[1], r[2], r[3]>> /\ ShownBy(r)
  <2>1. /\ r = <<r[1], r[2], r[3]>>
        /\ \/ Hierarchic(Unrow(r)) \/ Unresolves(Unrow(r))
           \/ \E f \in File : \E c \in Contents(f) :
                 OfFile(Unrow(r), f, c) /\ (langOf[f] \notin spoilt => T0[f] = c)
    BY <1>1, <1>6 DEF RelsDrawn
  <2>2. ASSUME NEW f \in File, NEW c \in Contents(f), OfFile(Unrow(r), f, c), langOf[f] \notin spoilt => T0[f] = c
        PROVE  ShownBy(r)
    <3>1. ASSUME langOf[f] \notin hurt \cup spoilt PROVE T[f] = c
      <4>1. CASE f \in targets
        <5>1. T0[f] = c /\ r \in D.rels
          BY <1>6, <2>2, <3>1
        <5>2. /\ Authors(r[1], r[2])
              /\ r[2] \in gone \/ \E x \in nodes : r[2] = Row(G, x)
          BY <1>3, <2>2, <3>1, <4>1, <5>1, AuthoredGo
        <5> QED BY <1>6, <5>2
      <4>2. CASE f \notin targets
        BY <1>1, <2>2, <3>1, <4>2 DEF Covers
      <4> QED BY <4>1, <4>2
    <3> QED BY <2>2, <3>1 DEF Tree
  <2> QED BY <2>1, <2>2 DEF Tree
<1> QED BY <1>4, <1>5, <1>6

\* What the seed has below its modules.
Below(D) == {<<r[2], r[3]>> : r \in {x \in D.rels : x[1] = "Contains" /\ x[2][1] = "Module"}}

\* A step down goes to a module there is, or that is planned, or to a file; and
\* from a module there is to its own.
LEMMA BelowModules ==
    ASSUME OwnNames, Legible, NEW D, NEW T, NEW hurt, DbTells(D, T, hurt), RowsPlain(D), RelsDrawn(D, T, hurt),
           NEW p \in Below(D)
    PROVE  /\ p = <<p[1], p[2]>> /\ p[1] = <<"Module", p[1][2]>> /\ p[1][2] \in Known
           /\ \/ \E y \in AllModules : p[2] = <<"Module", y>> /\ Len(y) > 2 /\ p[1] = <<"Module", Above(y)>>
              \/ \E f \in File : /\ p[2] = <<"File", <<f>> >> /\ p[1] = <<"Module", moduleOf[f]>>
                                 /\ p[2] \in DOMAIN D.rows
              \/ \E q \in Placeholders : p[2] = <<"Module", q.fqn>>
<1>1. PICK r \in D.rels : r[1] = "Contains" /\ r[2][1] = "Module" /\ p = <<r[2], r[3]>>
  BY DEF Below
<1> DEFINE a == p[1]
           b == p[2]
           e == Unrow(r)
<1>2. a = r[2] /\ b = r[3] /\ p = <<a, b>>
  BY <1>1
<1>3. e[1] = "Contains" /\ e[2] = a[2] /\ e[3] = b[2]
  BY <1>1, <1>2 DEF Unrow
<1> HIDE DEF a, b, e
<1>4. a \in DOMAIN D.rows /\ b \in DOMAIN D.rows /\ ValidPair("Contains", a[1], b[1]) /\ a[1] = "Module"
  BY <1>1, <1>2 DEF RelsDrawn
<1>5. b[1] \in {"Module", "File"}
  BY <1>4 DEF ValidPair
<1>6. \A k \in DOMAIN D.rows : k[1] \in {"Module", "File"} =>
        /\ k[2] \in AllModules => k = <<"Module", k[2]>>
        /\ \A f \in File : k[2] = <<f>> => k = <<"File", <<f>> >>
        /\ \A f \in File : \A c \in Contents(f) : \A q \in Names(f, c) : q[1] = k[2] => k = <<q[2].kind, q[1]>>
        /\ \A l \in Language : k[2] # <<l>>
  BY CodeRows
<1>7. ASSUME NEW k \in DOMAIN D.rows
      PROVE  /\ k = <<k[1], k[2]>>
             /\ k[1] = "File" => \E f \in File : k[2] = <<f>>
             /\ k[1] = "Module" => k[2] \in Known
  <2>1. k = <<k[1], k[2]>> /\ D.rows[k].kind = k[1] /\ PlainNode(k[2], D.rows[k])
    BY DEF DbTells, RowsPlain
  <2>2. D.rows[k] = Planned("Module") => D.rows[k].planned
    BY FieldsOfANode
  <2> QED BY <2>1, <2>2 DEF PlainNode, Known
<1>8. a = <<"Module", a[2]>> /\ a[2] \in Known
  <2>1. a = <<a[1], a[2]>> /\ a[2] \in Known
    BY <1>4, <1>7
  <2> QED BY <1>4, <2>1
<1>9. Hierarchic(e) \/ \E f \in File : \E c \in Contents(f) : OfFile(e, f, c)
  <2>1. ~Unresolves(e)
    BY <1>3 DEF Unresolves
  <2> QED BY <1>1, <2>1 DEF RelsDrawn, e
<1>10. ASSUME NEW f \in File, NEW c \in Contents(f), OfFile(e, f, c) PROVE FALSE
  <2>1. e[2] = <<f>> \/ \E q \in Names(f, c) : q[1] = e[2]
    BY <1>10, EndsOfFile
  <2>2. CASE e[2] = <<f>>
    <3>1. a = <<"File", <<f>> >>
      BY <1>3, <1>4, <1>6, <2>2
    <3> QED BY <1>4, <3>1
  <2>3. CASE \E q \in Names(f, c) : q[1] = e[2]
    <3>1. PICK q \in Names(f, c) : q[1] = e[2]
      BY <2>3
    <3>2. a = <<q[2].kind, q[1]>>
      BY <1>3, <1>4, <1>6, <3>1
    <3>3. a[1] = q[2].kind /\ q[2].kind \in {"Struct", "Function"}
      BY <3>2, NamesAreDeclarations DEF IsDeclaration
    <3> QED BY <1>4, <3>3
  <2> QED BY <2>1, <2>2, <2>3
<1>11. CASE \E x \in AllModules : e = Rooted(x)
  <2>1. PICK x \in AllModules : e = Rooted(x)
    BY <1>11
  <2>2. e[2] = <<x[1]>>
    BY <2>1 DEF Rooted
  <2>3. x[1] \in Language
    <3>1. PICK f \in File : x \in Chain(f)
      BY DEF AllModules
    <3> QED BY <3>1, ChainFacts, LanguageOfFile
  <2> QED BY <1>3, <1>4, <1>6, <2>2, <2>3
<1>12. CASE \E x \in AllModules : Len(x) > 2 /\ e = Linked(x)
  <2>1. PICK x \in AllModules : Len(x) > 2 /\ e = Linked(x)
    BY <1>12
  <2>2. e[2] = Above(x) /\ e[3] = x
    BY <2>1 DEF Linked
  <2>3. b = <<"Module", x>> /\ a = <<"Module", Above(x)>>
    BY <1>3, <1>4, <1>5, <1>6, <1>8, <2>2
  <2> HIDE DEF e
  <2> QED BY <1>2, <1>8, <2>1, <2>3 DEF a, b
<1>13. CASE \E f \in File : e = Parent(f)
  <2>1. PICK f \in File : e = Parent(f)
    BY <1>13
  <2>2. e[2] = moduleOf[f] /\ e[3] = <<f>>
    BY <2>1 DEF Parent
  <2>3. b = <<"File", <<f>> >> /\ a = <<"Module", moduleOf[f]>>
    BY <1>3, <1>4, <1>5, <1>6, <1>8, <2>2
  <2> QED BY <1>2, <1>4, <1>8, <2>3 DEF a, b
<1>14. CASE \E q \in Plans : e = PlanEdge(q)
  <2>1. PICK q \in Plans : e = PlanEdge(q)
    BY <1>14
  <2>2. q \in Placeholders /\ e[3] = q.fqn
    BY <2>1 DEF PlanEdge, Plans
  <2>3. b[1] # "File"
    <3> SUFFICES ASSUME b[1] = "File" PROVE FALSE
      OBVIOUS
    <3>1. PICK f \in File : b[2] = <<f>>
      BY <1>4, <1>7
    <3> DEFINE y == q.fqn
    <3>2. y = <<f>>
      BY <1>3, <2>2, <3>1
    <3> HIDE DEF y
    <3>3. y[1] = f
      BY <3>2
    <3> QED BY <2>2, <3>3, NamesAssumption DEF y
  <2>4. b = <<"Module", q.fqn>>
    <3>1. b = <<b[1], b[2]>>
      BY <1>4, <1>7
    <3> QED BY <1>3, <1>5, <2>2, <2>3, <3>1
  <2> QED BY <1>2, <1>8, <2>2, <2>4 DEF a, b
<1> QED BY <1>9, <1>10, <1>11, <1>12, <1>13, <1>14 DEF Hierarchic

LEMMA BelowIsFinite ==
    ASSUME OwnNames, Legible, NEW D, NEW T, NEW hurt, DbTells(D, T, hurt), RowsPlain(D), RelsDrawn(D, T, hurt)
    PROVE  IsFiniteSet(Below(D))
<1> DEFINE files == {<<"File", <<f>> >> : f \in File}
           R == ({"Module"} \X Known) \X (({"Module"} \X Known) \cup files)
<1>1. IsFiniteSet(files)
  <2> DEFINE h == [f \in File |-> <<"File", <<f>> >>]
  <2>1. h \in Surjection(File, files)
    BY DEF Surjection
  <2> HIDE DEF h, files
  <2> QED BY <2>1, FilesAreFinite, FS_Surjection
<1>2. IsFiniteSet({"Module"} \X Known)
  BY KnownIsFinite, FS_Singleton, FS_Product
<1>3. Below(D) \subseteq R
  <2> SUFFICES ASSUME NEW p \in Below(D) PROVE p \in R
    OBVIOUS
  <2>1. /\ p = <<p[1], p[2]>> /\ p[1] = <<"Module", p[1][2]>> /\ p[1][2] \in Known
        /\ \/ \E y \in AllModules : p[2] = <<"Module", y>>
           \/ \E f \in File : p[2] = <<"File", <<f>> >>
           \/ \E q \in Placeholders : p[2] = <<"Module", q.fqn>>
    BY BelowModules
  <2>2. p[2] \in ({"Module"} \X Known) \cup files
    BY <2>1 DEF Known
  <2>3. p[1] \in {"Module"} \X Known
    BY <2>1
  <2> HIDE DEF files
  <2> QED BY <2>1, <2>2, <2>3
<1> HIDE DEF files
<1>4. IsFiniteSet(R)
  BY <1>1, <1>2, FS_Union, FS_Product
<1> HIDE DEF R
<1> QED BY <1>3, <1>4, FS_Subset

\* The files of a module's subtree are files the seed has under it ...
LEMMA SubtreeWithin ==
    ASSUME OwnNames, Legible, NEW D, NEW T, NEW hurt, DbTells(D, T, hurt), RowsPlain(D), RelsDrawn(D, T, hurt),
           NEW x \in AllModules, NEW f \in Subtree(D, x)
    PROVE  f \in File /\ x \in Chain(f) /\ <<"File", <<f>> >> \in DOMAIN D.rows
<1> DEFINE inner == {y \in AllModules : \A g \in File : y \in Chain(g) => x \in Chain(g)}
           W == {<<"Module", y>> : y \in inner} \cup {<<"Module", q.fqn>> : q \in Placeholders}
                  \cup {<<"File", <<g>> >> : g \in {h \in File : x \in Chain(h) /\ <<"File", <<h>> >> \in DOMAIN D.rows}}
           start == {<<"Module", x>>}
<1>1. IsFiniteSet(Below(D))
  BY BelowIsFinite
<1>2. start \subseteq W
  OBVIOUS
<1>3. \A y : <<"Module", y>> \in W /\ y \in AllModules => y \in inner
  <2> SUFFICES ASSUME NEW y \in AllModules, <<"Module", y>> \in W PROVE y \in inner
    OBVIOUS
  <2>1. \A q \in Placeholders : q.fqn # y
    BY DEF Legible
  <2> HIDE DEF inner
  <2>2. (\E z \in inner : <<"Module", y>> = <<"Module", z>>) \/ \E g : <<"Module", y>> = <<"File", g>>
    BY <2>1
  <2> QED BY <2>2
<1>4. \A p \in Below(D) : p[1] \in W => p[2] \in W
  <2> SUFFICES ASSUME NEW p \in Below(D), p[1] \in W PROVE p[2] \in W
    OBVIOUS
  <2>1. \/ \E y \in AllModules : p[2] = <<"Module", y>> /\ Len(y) > 2 /\ p[1] = <<"Module", Above(y)>>
        \/ \E g \in File : p[2] = <<"File", <<g>> >> /\ p[1] = <<"Module", moduleOf[g]>> /\ p[2] \in DOMAIN D.rows
        \/ \E q \in Placeholders : p[2] = <<"Module", q.fqn>>
    BY BelowModules
  <2>2. CASE \E y \in AllModules : p[2] = <<"Module", y>> /\ Len(y) > 2 /\ p[1] = <<"Module", Above(y)>>
    <3>1. PICK y \in AllModules : p[2] = <<"Module", y>> /\ Len(y) > 2 /\ p[1] = <<"Module", Above(y)>>
      BY <2>2
    <3>2. Above(y) \in AllModules
      <4>1. PICK g \in File : y \in Chain(g)
        BY DEF AllModules
      <4> QED BY <3>1, <4>1, ChainFacts
    <3>3. Above(y) \in inner
      <4> HIDE DEF W, inner
      <4> QED BY <1>3, <3>1, <3>2
    <3>4. \A g \in File : y \in Chain(g) => x \in Chain(g)
      BY <3>1, <3>3, ChainFacts
    <3>5. y \in inner
      BY <3>4
    <3> HIDE DEF inner
    <3> QED BY <3>1, <3>5
  <2>3. CASE \E g \in File : p[2] = <<"File", <<g>> >> /\ p[1] = <<"Module", moduleOf[g]>> /\ p[2] \in DOMAIN D.rows
    <3>1. PICK g \in File : p[2] = <<"File", <<g>> >> /\ p[1] = <<"Module", moduleOf[g]>> /\ p[2] \in DOMAIN D.rows
      BY <2>3
    <3>2. moduleOf[g] \in AllModules /\ moduleOf[g] \in Chain(g)
      BY OwnModule
    <3>3. moduleOf[g] \in inner
      <4> HIDE DEF W, inner
      <4> QED BY <1>3, <3>1, <3>2
    <3> QED BY <3>1, <3>2, <3>3
  <2> QED BY <2>1, <2>2, <2>3
<1>5. PICK k \in Reach(Below(D), start) : k[1] = "File" /\ f = k[2][1]
  BY DEF Subtree, Below
<1> HIDE DEF start
<1>6. k \in W
  <2> HIDE DEF W
  <2> QED BY <1>1, <1>2, <1>4, ReachWithin
<1> HIDE DEF inner
<1>7. \E g \in File : x \in Chain(g) /\ <<"File", <<g>> >> \in DOMAIN D.rows /\ k = <<"File", <<g>> >>
  <2>1. \A y : k # <<"Module", y>>
    BY <1>5
  <2> QED BY <1>6, <2>1, Zenon
<1>8. PICK g \in File : x \in Chain(g) /\ <<"File", <<g>> >> \in DOMAIN D.rows /\ k = <<"File", <<g>> >>
  BY <1>7
<1>9. f = g
  BY <1>5, <1>8
<1> QED BY <1>8, <1>9

\* ... and among them those whose modules stand in it.
LEMMA SubtreeHas ==
    ASSUME OwnNames, Legible, NEW D, NEW T, NEW hurt, DbTells(D, T, hurt), RowsPlain(D), RelsDrawn(D, T, hurt),
           NEW f \in File, FrameRels(f) \subseteq D.rels, NEW x \in Chain(f)
    PROVE  f \in Subtree(D, x)
<1> DEFINE start == {<<"Module", x>>}
           R == Reach(Below(D), start)
           X == {y \in Chain(f) : <<"Module", y>> \notin R}
           k == <<"File", <<f>> >>
<1>1. start \subseteq R /\ \A p \in Below(D) : p[1] \in R => p[2] \in R
  <2> HIDE DEF start
  <2> QED BY BelowIsFinite, ReachClosed
<1>2. ASSUME NEW a, NEW b, <<"Contains", a, b>> \in FrameRels(f), a[1] = "Module", a \in R
      PROVE  b \in R
  <2> DEFINE r == <<"Contains", a, b>>
             p == <<a, b>>
  <2>1. r \in D.rels /\ r[1] = "Contains" /\ r[2][1] = "Module" /\ p = <<r[2], r[3]>>
    BY <1>2
  <2> HIDE DEF r
  <2>2. p \in Below(D)
    BY <2>1 DEF Below
  <2>3. p[1] = a /\ p[2] = b
    OBVIOUS
  <2> HIDE DEF p, R
  <2> QED BY <1>1, <1>2, <2>2, <2>3
<1> HIDE DEF R
<1>3. ASSUME k \notin R PROVE FALSE
  <2>1. <<"Module", moduleOf[f]>> \notin R
    <3>1. <<"Contains", <<"Module", moduleOf[f]>>, k>> \in FrameRels(f)
      BY DEF FrameRels
    <3> DEFINE a == <<"Module", moduleOf[f]>>
    <3>2. a[1] = "Module"
      OBVIOUS
    <3> HIDE DEF a, k
    <3> QED BY <1>2, <1>3, <3>1, <3>2 DEF a
  <2>2. ASSUME NEW y \in X, Len(y) > 2 PROVE Above(y) \in X
    <3>1. Above(y) \in Chain(f)
      BY <2>2, ChainFacts
    <3>2. <<"Module", Above(y)>> \notin R
      <4> DEFINE a == <<"Module", Above(y)>>
                 b == <<"Module", y>>
      <4>1. <<"Contains", a, b>> \in FrameRels(f) /\ b \notin R /\ a[1] = "Module"
        BY <2>2 DEF FrameRels
      <4> HIDE DEF a, b
      <4> QED BY <1>2, <4>1 DEF a
    <3> QED BY <3>1, <3>2
  <2>3. moduleOf[f] \in X
    BY <2>1, OwnModule
  <2> HIDE DEF X
  <2>4. Chain(f) \subseteq X
    BY <2>2, <2>3, ChainAscends
  <2>5. x \in X
    BY <2>4
  <2> QED BY <1>1, <2>5 DEF X
<1>4. k \in R /\ k[1] = "File" /\ k[2][1] = f
  BY <1>3
<1> HIDE DEF k
<1> QED BY <1>4 DEF Subtree, Below, R

LEMMA CodeApplied ==
    ASSUME NEW D, NEW T0, NEW spoilt, NEW G, NEW T, NEW hurt, NEW targets, NEW removed,
           Splices(D, T0, spoilt, G, T, hurt, targets, removed),
           NEW A, A = Applied(D, G, targets, removed),
           NEW f \in Present(T), langOf[f] \notin hurt \cup spoilt, NEW x \in CodeAt(f, T[f])
    PROVE  ShownAt(A, Row(G, x))
<1> DEFINE gone  == Disappearing(D, G, targets, removed)
           nodes == DeltaNodes(D, G, targets)
<1>1. gone = Disappearing(D, G, targets, removed) /\ nodes = DeltaNodes(D, G, targets)
  OBVIOUS
<1> HIDE DEF gone, nodes
<1>2. Settled(G) /\ \A r \in D.rels : ValidPair(r[1], r[2][1], r[3][1])
  BY DEF Splices, Complete, Keeps, DbDraws, RelsDrawn
<1>3. /\ x \in DOMAIN G.nodes /\ ~G.nodes[x].planned /\ G.nodes[x].kind # "Unresolved"
      /\ \A k \in gone : k[2] # x
      /\ x \notin nodes => Row(G, x) \in DOMAIN D.rows /\ ~D.rows[Row(G, x)].planned
  BY <1>1, CodeStands
<1>4. /\ \A y \in nodes : Row(G, y) \in DOMAIN A.rows /\ A.rows[Row(G, y)] = Upserted(D, G.nodes[y], Row(G, y))
      /\ \A k \in DOMAIN D.rows :
            k \notin gone /\ k[1] # "Unresolved" /\ (\A y \in nodes : k # Row(G, y))
            => k \in DOMAIN A.rows /\ A.rows[k] = D.rows[k]
  BY <1>1, <1>2, AppliedParts
<1>5. CASE x \in nodes
  <2>1. Upserted(D, G.nodes[x], Row(G, x)) = G.nodes[x]
    BY <1>3 DEF Upserted
  <2> QED BY <1>3, <1>4, <1>5, <2>1 DEF ShownAt
<1>6. CASE x \notin nodes
  <2> DEFINE k == Row(G, x)
  <2>1. k[1] = G.nodes[x].kind /\ k[2] = x /\ \A y \in nodes : k # Row(G, y)
    BY <1>6 DEF Row
  <2> HIDE DEF k
  <2>2. k \in DOMAIN A.rows /\ A.rows[k] = D.rows[k] /\ ~D.rows[k].planned
    BY <1>3, <1>4, <1>6, <2>1 DEF k
  <2> QED BY <2>2 DEF ShownAt, k
<1> QED BY <1>5, <1>6

\* What contains what in code a splice has whole: merged when an end is written,
\* and left as the seed has it otherwise.
LEMMA ContainsApplied ==
    ASSUME NEW D, NEW T0, NEW spoilt, NEW G, NEW T, NEW hurt, NEW targets, NEW removed,
           Splices(D, T0, spoilt, G, T, hurt, targets, removed),
           NEW A, A = Applied(D, G, targets, removed), NEW nodes, nodes = DeltaNodes(D, G, targets),
           NEW f \in Present(T), langOf[f] \notin hurt \cup spoilt,
           NEW g \in Present(T), langOf[g] \notin hurt \cup spoilt,
           NEW e \in G.edges, e[1] = "Contains", e[2] \in CodeAt(f, T[f]), e[3] \in CodeAt(g, T[g]),
           e[2] \notin nodes /\ e[3] \notin nodes => <<"Contains", Row(G, e[2]), Row(G, e[3])>> \in D.rels
    PROVE  <<"Contains", Row(G, e[2]), Row(G, e[3])>> \in A.rels
<1> DEFINE gone == Disappearing(D, G, targets, removed)
           a == Row(G, e[2])
           b == Row(G, e[3])
           r == <<"Contains", a, b>>
<1>1. gone = Disappearing(D, G, targets, removed)
  OBVIOUS
<1>2. r[2] = a /\ r[3] = b /\ a[2] = e[2] /\ r = <<e[1], a, b>>
  BY DEF Row
<1> HIDE DEF gone
<1>3. Settled(G) /\ \A q \in D.rels : ValidPair(q[1], q[2][1], q[3][1])
  BY DEF Splices, Complete, Keeps, DbDraws, RelsDrawn
<1>4. a \in DOMAIN A.rows /\ b \in DOMAIN A.rows
  BY CodeApplied DEF ShownAt
<1>5. \A k \in gone : k[2] # e[3]
  BY <1>1, CodeStands
<1>6. /\ Merging(nodes, e) => <<e[1], a, b>> \in A.rels
      /\ \A q \in D.rels :
            q[2] \in DOMAIN A.rows /\ q[3] \in DOMAIN A.rows /\ (\A x \in nodes : q[2] # Row(G, x)) => q \in A.rels
  BY <1>1, <1>3, <1>4, <1>5, AppliedParts
<1> HIDE DEF r
<1>7. CASE e[2] \in nodes \/ e[3] \in nodes
  BY <1>2, <1>6, <1>7 DEF Merging, r
<1>8. CASE e[2] \notin nodes /\ e[3] \notin nodes
  <2>1. \A x \in nodes : a # Row(G, x)
    BY <1>8 DEF Row
  <2>2. r \in D.rels
    BY <1>8 DEF r
  <2> HIDE DEF a, b
  <2>3. r \in A.rels
    BY <1>2, <1>4, <1>6, <2>1, <2>2
  <2> QED BY <2>3 DEF r, a, b
<1> QED BY <1>7, <1>8

LEMMA AppliedExact ==
    ASSUME NEW D, NEW T0, NEW spoilt, NEW G, NEW T, NEW hurt, NEW targets, NEW removed,
           Splices(D, T0, spoilt, G, T, hurt, targets, removed),
           NEW A, A = Applied(D, G, targets, removed)
    PROVE  DbExact(A, T, hurt \cup spoilt)
<1>1. /\ OwnNames /\ Legible /\ Tells(G, T) /\ Plain(G) /\ ModulesRight(G) /\ Exact(G, T, hurt)
      /\ DbTells(D, T0, spoilt) /\ DbShows(D, T0, spoilt)
      /\ RowsPlain(D) /\ RelsDrawn(D, T0, spoilt) /\ DbExact(D, T0, spoilt) /\ DbFramed(D, T0, spoilt)
  BY DEF Splices, Complete, Draws, Keeps, DbDraws
<1> SUFFICES ASSUME NEW k \in DOMAIN A.rows, k[1] = "Module", ~A.rows[k].planned, k[2][1] \notin hurt \cup spoilt
             PROVE  Lies(k[2], T)
  BY DEF DbExact
<1> DEFINE gone  == Disappearing(D, G, targets, removed)
           nodes == DeltaNodes(D, G, targets)
           y == k[2]
<1>2. gone = Disappearing(D, G, targets, removed) /\ nodes = DeltaNodes(D, G, targets)
  OBVIOUS
<1> HIDE DEF gone, nodes, y
<1>3. Settled(G) /\ \A r \in D.rels : ValidPair(r[1], r[2][1], r[3][1])
  BY DEF Splices, Complete, Keeps, DbDraws, RelsDrawn
<1>4. k \notin gone /\
        \/ \E x \in DOMAIN G.nodes : k = Row(G, x) /\ A.rows[k] = Upserted(D, G.nodes[x], k)
        \/ k \in DOMAIN D.rows /\ A.rows[k] = D.rows[k] /\ \A x \in nodes : k # Row(G, x)
  BY <1>2, <1>3, AppliedParts
<1>5. ASSUME NEW q \in DOMAIN D.rows, q[1] = "Module", ~D.rows[q].planned PROVE q = <<"Module", q[2]>> /\ q[2] \in AllModules
  <2>1. q = <<q[1], q[2]>> /\ PlainNode(q[2], D.rows[q]) /\ D.rows[q].kind = "Module"
    BY <1>1, <1>5 DEF DbTells, RowsPlain
  <2> QED BY <1>5, <2>1, FieldsOfANode DEF PlainNode
<1>6. ASSUME NEW x \in DOMAIN G.nodes, k = Row(G, x), A.rows[k] = Upserted(D, G.nodes[x], k)
      PROVE  Lies(y, T)
  <2>1. y = x /\ G.nodes[x].kind = "Module"
    BY <1>6 DEF Row, y
  <2>2. CASE ~G.nodes[x].planned
    <3>1. RealModule(G, x) /\ x[1] \notin hurt
      BY <2>1, <2>2 DEF RealModule, IsKind, y
    <3> QED BY <1>1, <2>1, <3>1 DEF Exact
  <2>3. CASE G.nodes[x].planned
    <3>1. PICK p \in Placeholders : x = p.fqn
      BY <1>1, <2>3 DEF Plain, PlainNode
    <3>2. k \in DOMAIN D.rows /\ ~D.rows[k].planned
      BY <1>6, <2>3 DEF Upserted
    <3>3. x \in AllModules
      BY <1>5, <2>1, <3>2 DEF y
    <3> QED BY <1>1, <3>1, <3>3 DEF Legible
  <2> QED BY <2>2, <2>3
<1>7. ASSUME k \in DOMAIN D.rows, A.rows[k] = D.rows[k], \A x \in nodes : k # Row(G, x), ~Lies(y, T)
      PROVE  FALSE
  <2>1. ~D.rows[k].planned /\ k = <<"Module", y>> /\ y \in AllModules /\ y[1] \notin spoilt
    BY <1>5, <1>7 DEF y
  <2>2. PICK f \in Present(T0) : y \in Chain(f)
    BY <1>1, <1>7, <2>1 DEF DbExact, Lies, y
  <2>3. f \in File /\ langOf[f] = y[1]
    BY <2>2, ChainFacts DEF Present
  <2>4. f \in Subtree(D, y)
    <3>1. FrameRels(f) \subseteq D.rels
      BY <1>1, <2>1, <2>2, <2>3 DEF DbFramed
    <3> QED BY <1>1, <2>2, <2>3, <3>1, SubtreeHas
  <2>5. ASSUME NEW g \in Subtree(D, y) PROVE g \in targets
    <3>1. g \in File /\ y \in Chain(g) /\ <<"File", <<g>> >> \in DOMAIN D.rows
      BY <1>1, <2>1, SubtreeWithin
    <3>2. langOf[g] = y[1] /\ y[1] \notin hurt \cup spoilt
      BY <3>1, ChainFacts DEF y
    <3>3. T0[g] # Missing
      BY <1>1, <3>1, <3>2 DEF DbShows
    <3>4. T[g] = Missing
      BY <1>7, <3>1 DEF Lies, Present
    <3> QED BY <3>1, <3>2, <3>3, <3>4 DEF Splices, Covers
  <2>6. k[1] = "Module" /\ k[2] = y
    BY DEF y
  <2>7. k \in DeleteScope(D, targets, removed)
    BY <1>7, <2>1, <2>4, <2>5, <2>6 DEF DeleteScope
  <2>8. y \in nodes
    BY <1>2, <1>4, <2>6, <2>7 DEF Disappearing
  <2>9. y \in DOMAIN G.nodes
    BY <1>2, <2>8 DEF DeltaNodes
  <2>10. ~G.nodes[y].planned
    BY <1>1, <2>1, <2>9 DEF Plain, PlainNode, Legible
  <2>11. G.nodes[y].kind = "Module"
    BY <1>1, <2>1, <2>9, <2>10 DEF ModulesRight
  <2> QED BY <1>7, <2>1, <2>8, <2>11 DEF Row
<1> QED BY <1>4, <1>6, <1>7 DEF y

LEMMA AppliedFramed ==
    ASSUME NEW D, NEW T0, NEW spoilt, NEW G, NEW T, NEW hurt, NEW targets, NEW removed,
           Splices(D, T0, spoilt, G, T, hurt, targets, removed),
           NEW A, A = Applied(D, G, targets, removed)
    PROVE  DbFramed(A, T, hurt \cup spoilt)
<1>1. /\ OwnNames /\ T \in Trees /\ Tells(G, T) /\ ShowsFiles(G, T) /\ Draws(G, T) /\ HasParents(G)
      /\ DbExact(D, T0, spoilt) /\ DbFramed(D, T0, spoilt) /\ Covers(targets, removed, T0, T, hurt)
  BY DEF Splices, Complete, Keeps, DbDraws
<1> SUFFICES ASSUME NEW f \in Present(T), langOf[f] \notin hurt \cup spoilt
             PROVE  /\ \A x \in Chain(f) : ShownAt(A, <<"Module", x>>) /\ ShownAt(A, <<"Language", <<x[1]>> >>)
                    /\ FrameRels(f) \cup BodyRels(f, T[f]) \subseteq A.rels
  BY DEF DbFramed
<1> DEFINE nodes == DeltaNodes(D, G, targets)
           code  == CodeAt(f, T[f])
<1>2. nodes = DeltaNodes(D, G, targets)
  OBVIOUS
<1> HIDE DEF nodes
<1>3. f \in File /\ T[f] \in Contents(f) /\ <<f>> \in DOMAIN G.nodes /\ HasChain(G, f) /\ HasRoots(G, f)
  BY <1>1, ContentsOfTrees DEF Splices, Complete
<1>4. Chain(f) \subseteq code /\ <<langOf[f]>> \in code /\ <<f>> \in code /\ \A p \in Names(f, T[f]) : p[1] \in code
  BY DEF CodeAt
<1> HIDE DEF code
<1>5. \A x \in code : /\ x \notin nodes => Row(G, x) \in DOMAIN D.rows /\ ~D.rows[Row(G, x)].planned
                      /\ x \notin nodes /\ x \notin Chain(f) => f \notin targets
                      /\ x = <<langOf[f]>> => x \in nodes
  BY <1>2, CodeStands DEF code
<1>6. ASSUME NEW e \in G.edges, e[1] = "Contains", e[2] \in code, e[3] \in code,
             e[2] \notin nodes /\ e[3] \notin nodes => <<"Contains", Row(G, e[2]), Row(G, e[3])>> \in D.rels
      PROVE  <<"Contains", Row(G, e[2]), Row(G, e[3])>> \in A.rels
  BY <1>2, <1>6, ContainsApplied DEF code
<1>7. f \notin targets => f \in Present(T0) /\ T0[f] = T[f] /\ langOf[f] \notin spoilt
  BY <1>1, <1>3 DEF Covers, Present
<1>8. f \notin targets => FrameRels(f) \cup BodyRels(f, T[f]) \subseteq D.rels
  BY <1>1, <1>7 DEF DbFramed
<1>9. ASSUME NEW x \in Chain(f)
      PROVE  /\ Row(G, x) = <<"Module", x>> /\ x[1] = langOf[f] /\ \A y : x # <<y>>
             /\ Row(G, <<langOf[f]>>) = <<"Language", <<langOf[f]>> >>
             /\ Rooted(x) \in G.edges /\ (Len(x) > 2 => Linked(x) \in G.edges /\ Above(x) \in Chain(f))
  <2>1. RealModule(G, x) /\ (Len(x) > 2 => Linked(x) \in G.edges) /\ <<x[1]>> \in DOMAIN G.nodes /\ Rooted(x) \in G.edges
    BY <1>3 DEF HasChain, HasRoots, Linked
  <2>2. x[1] = langOf[f] /\ langOf[f] \in Language /\ (\A y : x # <<y>>) /\ (Len(x) > 2 => Above(x) \in Chain(f))
    BY <1>3, ChainFacts, LanguageOfFile, DeepIsNoFile
  <2>3. G.nodes[<<langOf[f]>>].kind = "Language"
    BY <1>1, <2>1, <2>2 DEF Draws, Plain, PlainNode
  <2> QED BY <2>1, <2>2, <2>3 DEF RealModule, IsKind, Row
<1>10. ASSUME NEW x \in Chain(f) PROVE ShownAt(A, <<"Module", x>>) /\ ShownAt(A, <<"Language", <<x[1]>> >>)
  <2>1. ShownAt(A, Row(G, x)) /\ ShownAt(A, Row(G, <<langOf[f]>>))
    <3>1. x \in code /\ <<langOf[f]>> \in code
      BY <1>4
    <3> QED BY <3>1, CodeApplied DEF code
  <2>2. Row(G, x) = <<"Module", x>> /\ Row(G, <<langOf[f]>>) = <<"Language", <<x[1]>> >>
    BY <1>9
  <2> QED BY <2>1, <2>2
<1>11. /\ \A x : Rooted(x)[1] = "Contains" /\ Rooted(x)[2] = <<x[1]>> /\ Rooted(x)[3] = x
       /\ \A x : Linked(x)[1] = "Contains" /\ Linked(x)[2] = Above(x) /\ Linked(x)[3] = x
       /\ Parent(f)[1] = "Contains" /\ Parent(f)[2] = moduleOf[f] /\ Parent(f)[3] = <<f>>
  BY DEF Rooted, Linked, Parent
<1>12. ASSUME NEW x \in Chain(f) PROVE <<"Contains", <<"Language", <<x[1]>> >>, <<"Module", x>> >> \in A.rels
  <2> DEFINE e == Rooted(x)
             a == <<"Language", <<x[1]>> >>
             b == <<"Module", x>>
  <2> HIDE DEF e
  <2>1. /\ e \in G.edges /\ e[1] = "Contains" /\ e[2] = <<langOf[f]>> /\ e[2] \in code /\ e[3] \in code
        /\ a = Row(G, e[2]) /\ b = Row(G, e[3])
    <3>1. e \in G.edges /\ e[1] = "Contains" /\ e[2] = <<x[1]>> /\ e[3] = x /\ x[1] = langOf[f] /\ x \in code
      BY <1>4, <1>9, <1>11 DEF e
    <3>2. e[2] = <<langOf[f]>> /\ e[2] \in code
      BY <1>4, <3>1
    <3>3. a = Row(G, e[2])
      BY <1>9, <3>1, <3>2
    <3>4. b = Row(G, e[3])
      BY <1>9, <3>1
    <3> QED BY <3>1, <3>2, <3>3, <3>4
  <2> HIDE DEF a, b
  <2> QED BY <1>5, <1>6, <2>1 DEF a, b
<1>13. ASSUME NEW x \in Chain(f), Len(x) > 2
       PROVE  <<"Contains", <<"Module", Above(x)>>, <<"Module", x>> >> \in A.rels
  <2> DEFINE e == Linked(x)
             a == <<"Module", Above(x)>>
             b == <<"Module", x>>
             r == <<"Contains", a, b>>
  <2>1. /\ e \in G.edges /\ e[1] = "Contains" /\ e[2] \in code /\ e[3] \in code /\ e[3] = x
        /\ a = Row(G, e[2]) /\ b = Row(G, e[3])
    BY <1>4, <1>9, <1>11, <1>13
  <2>2. b[1] = "Module" /\ b[2] = x
    OBVIOUS
  <2> HIDE DEF e, a, b
  <2>3. ASSUME x \notin nodes PROVE r \in D.rels
    <3>1. b \in DOMAIN D.rows /\ ~D.rows[b].planned
      BY <1>5, <2>1, <2>3
    <3>2. x[1] = langOf[f]
      BY <1>9
    <3>3. PICK g \in Present(T0) : x \in Chain(g)
      BY <1>1, <2>2, <3>1, <3>2 DEF DbExact, Lies
    <3>4. g \in File /\ langOf[g] = x[1]
      BY <3>3, ChainFacts DEF Present
    <3>5. FrameRels(g) \subseteq D.rels
      BY <1>1, <3>2, <3>4 DEF DbFramed
    <3>6. r \in FrameRels(g)
      BY <1>13, <3>3 DEF FrameRels, a, b
    <3> QED BY <3>5, <3>6
  <2>4. <<"Contains", Row(G, e[2]), Row(G, e[3])>> \in A.rels
    BY <1>6, <2>1, <2>3
  <2> QED BY <2>1, <2>4 DEF a, b
<1>14. <<"Contains", <<"Module", moduleOf[f]>>, <<"File", <<f>> >> >> \in A.rels
  <2> DEFINE e == Parent(f)
             a == <<"Module", moduleOf[f]>>
             b == <<"File", <<f>> >>
             r == <<"Contains", a, b>>
  <2>1. moduleOf[f] \in Chain(f)
    BY <1>3, OwnModule
  <2>2. e \in G.edges
    BY <1>1, <1>3, <2>1 DEF HasParents
  <2>3. Row(G, <<f>>) = b
    BY <1>1, <1>3, FieldsOfANode DEF ShowsFiles, FileRow, Row
  <2>4. <<f>> \notin Chain(f)
    BY <1>9
  <2>5. /\ e[1] = "Contains" /\ e[2] \in code /\ e[3] \in code /\ e[3] \notin Chain(f)
        /\ a = Row(G, e[2]) /\ b = Row(G, e[3])
    BY <1>4, <1>9, <1>11, <2>1, <2>3, <2>4
  <2>6. r \in FrameRels(f)
    BY DEF FrameRels
  <2> HIDE DEF e, a, b
  <2>7. e[3] \notin nodes => r \in D.rels
    BY <1>5, <1>8, <2>5, <2>6
  <2>8. <<"Contains", Row(G, e[2]), Row(G, e[3])>> \in A.rels
    BY <1>6, <2>2, <2>5, <2>7
  <2> QED BY <2>5, <2>8 DEF a, b
<1>15. FrameRels(f) \subseteq A.rels
  <2> SUFFICES ASSUME NEW r \in FrameRels(f) PROVE r \in A.rels
    OBVIOUS
  <2>1. CASE r \in {<<"Contains", <<"Language", <<x[1]>> >>, <<"Module", x>> >> : x \in Chain(f)}
    BY <1>12, <2>1
  <2>2. CASE r \in {<<"Contains", <<"Module", Above(x)>>, <<"Module", x>> >> : x \in {y \in Chain(f) : Len(y) > 2}}
    BY <1>13, <2>2
  <2> QED BY <1>14, <2>1, <2>2 DEF FrameRels
<1>16. ASSUME NEW r \in BodyRels(f, T[f]) PROVE r \in A.rels
  <2> DEFINE e == Unrow(r)
  <2>1. e \in Body(f, T[f]) /\ e[1] = "Contains" /\ r = <<"Contains", Row(G, e[2]), Row(G, e[3])>>
    BY <1>1, <1>3, BodyIsValid
  <2>2. e \in G.edges
    BY <1>3, <2>1, <1>1 DEF Draws, HasBodies
  <2> HIDE DEF e
  <2>3. OfFile(e, f, T[f])
    BY <2>1 DEF OfFile
  <2>4. /\ e[2] = <<f>> \/ \E p \in Names(f, T[f]) : p[1] = e[2]
        /\ \E p \in Names(f, T[f]) : p[1] = e[3]
    BY <1>1, <1>3, <2>1, <2>3, EndsOfFile
  <2>5. e[2] \in code /\ e[3] \in code
    BY <1>4, <2>4
  <2>6. e[3] \notin Chain(f)
    BY <1>1, <1>3, <2>4, NoOtherName DEF Chain
  <2>7. e[3] \notin nodes => r \in D.rels
    BY <1>5, <1>8, <2>5, <2>6
  <2> QED BY <1>6, <2>1, <2>2, <2>5, <2>7
<1> QED BY <1>10, <1>15, <1>16

\* What is planned and was made lies where it was planned.
LEMMA AppliedPlans ==
    ASSUME NEW D, NEW T0, NEW spoilt, NEW G, NEW T, NEW hurt, NEW targets, NEW removed,
           Splices(D, T0, spoilt, G, T, hurt, targets, removed),
           NEW A, A = Applied(D, G, targets, removed),
           DbTells(A, T, hurt \cup spoilt), DbShows(A, T, hurt \cup spoilt), RowsPlain(A)
    PROVE  DbPlans(A, hurt \cup spoilt)
<1>1. /\ OwnNames /\ Legible /\ T \in Trees /\ Tells(G, T) /\ ShowsFiles(G, T) /\ HasPlans(G) /\ Settled(G)
      /\ DbPlans(D, spoilt) /\ DbTells(D, T0, spoilt)
      /\ \A f \in Present(T) : langOf[f] \notin hurt => <<f>> \in DOMAIN G.nodes
  BY DEF Splices, Complete, Keeps, DbDraws
<1> SUFFICES ASSUME NEW p \in Plans, NEW a \in DOMAIN A.rows, NEW b \in DOMAIN A.rows,
                    a[2] = p.parent, b[2] = p.fqn, ~A.rows[a].planned, ~A.rows[b].planned,
                    ValidPair("Contains", a[1], b[1]), LangOfFqn(p.fqn) \notin hurt \cup spoilt
             PROVE  <<"Contains", a, b>> \in A.rels
  BY DEF DbPlans
<1> DEFINE gone  == Disappearing(D, G, targets, removed)
           nodes == DeltaNodes(D, G, targets)
           bad   == hurt \cup spoilt
           Stands(k, g) == /\ g \in Present(T) /\ langOf[g] \notin bad /\ k[2] \in CodeAt(g, T[g])
                           /\ k[2] \notin Chain(g) /\ k = Row(G, k[2])
<1>2. gone = Disappearing(D, G, targets, removed) /\ nodes = DeltaNodes(D, G, targets)
  OBVIOUS
<1> HIDE DEF gone, nodes, bad
<1>3. /\ p \in Placeholders /\ p.parent # None /\ p.fqn \notin AllModules /\ p.fqn[1] \notin File
      /\ (\A l \in Language : p.fqn # <<l>>) /\ LangOfFqn(p.parent) = LangOfFqn(p.fqn)
  BY <1>1, NamesAssumption DEF Plans, Legible
<1>4. ASSUME NEW k \in DOMAIN A.rows, ~A.rows[k].planned
      PROVE  /\ k = <<k[1], k[2]>> /\ A.rows[k].kind = k[1] /\ PlainNode(k[2], A.rows[k])
             /\ k[1] \in {"Struct", "Function"} => IsDeclaration(A.rows[k])
  BY <1>4 DEF DbTells, RowsPlain, IsDeclaration
<1>5. ASSUME NEW k \in DOMAIN A.rows, ~A.rows[k].planned, k[1] \in {"Struct", "Function"}, LangOfFqn(k[2]) \notin bad
      PROVE  \E g \in File : Stands(k, g)
  <2> DEFINE n == A.rows[k]
             x == k[2]
             q == <<x, n>>
  <2>1. PICK g \in File : \E c \in Contents(g) : q \in Names(g, c) /\ (langOf[g] \notin bad => g \in Present(T) /\ c = T[g])
    BY <1>4, <1>5 DEF DbTells, bad
  <2>2. PICK c \in Contents(g) : q \in Names(g, c) /\ (langOf[g] \notin bad => g \in Present(T) /\ c = T[g])
    BY <2>1
  <2>3. q[1] = x /\ q[2] = n
    OBVIOUS
  <2> HIDE DEF q
  <2>4. Deep(x) /\ x[1] = langOf[g]
    BY <2>2, <2>3, NamesAreDeclarations
  <2>5. LangOfFqn(x) = langOf[g]
    <3>1. Len(x) # 1
      <4>1. PICK S : x \in Seq(S) /\ Len(x) > 1
        BY <2>4 DEF Deep
      <4>2. Len(x) \in Nat
        BY <4>1, LenProperties
      <4> QED BY <4>1, <4>2
    <3> QED BY <2>4, <3>1 DEF LangOfFqn
  <2>6. g \in Present(T) /\ langOf[g] \notin bad /\ q \in Names(g, T[g]) /\ T[g] \in Contents(g)
    BY <1>5, <2>2, <2>5
  <2>7. x \in DOMAIN G.nodes /\ G.nodes[x] = n
    BY <1>1, <2>3, <2>6 DEF Tells, HasNames, bad
  <2>8. k = Row(G, x)
    BY <1>4, <1>5, <2>7 DEF Row
  <2>9. x \in CodeAt(g, T[g])
    BY <2>3, <2>6 DEF CodeAt
  <2>10. x \notin Chain(g)
    BY <1>1, <2>3, <2>6, NoOtherName DEF Chain
  <2> QED BY <2>6, <2>8, <2>9, <2>10
<1>6. b[1] \in {"Struct", "Function"}
  <2>1. PlainNode(p.fqn, A.rows[b]) /\ A.rows[b].kind = b[1] /\ ~A.rows[b].planned
    BY <1>4
  <2>2. b[1] \in {"Module", "File", "Struct", "Function"}
    BY DEF ValidPair
  <2>3. b[1] # "Module"
    BY <1>3, <2>1, FieldsOfANode DEF PlainNode
  <2>4. b[1] # "File"
    <3> SUFFICES ASSUME b[1] = "File" PROVE FALSE
      OBVIOUS
    <3> DEFINE y == p.fqn
    <3>1. PICK f \in File : y = <<f>>
      BY <2>1 DEF PlainNode
    <3> HIDE DEF y
    <3>2. y[1] = f
      BY <3>1
    <3> QED BY <1>3, <3>2 DEF y
  <2> QED BY <2>2, <2>3, <2>4
<1>7. PICK g \in File : Stands(b, g)
  <2>1. LangOfFqn(b[2]) \notin bad
    BY DEF bad
  <2> QED BY <1>5, <1>6, <2>1
<1>8. \E f \in File : Stands(a, f)
  <2>1. a[1] \in {"File", "Struct"}
    BY <1>6 DEF ValidPair
  <2>2. LangOfFqn(a[2]) \notin bad
    BY <1>3 DEF bad
  <2>3. CASE a[1] = "Struct"
    BY <1>5, <2>2, <2>3
  <2>4. CASE a[1] = "File"
    <3>1. PICK f \in File : a[2] = <<f>>
      BY <1>4, <2>4 DEF PlainNode
    <3>2. a = <<"File", <<f>> >> /\ langOf[f] \notin bad
      <4>1. Len(a[2]) = 1 /\ a[2][1] = f
        BY <3>1
      <4> QED BY <1>4, <2>2, <2>4, <3>1, <4>1 DEF LangOfFqn
    <3>3. T[f] # Missing
      BY <3>2 DEF DbShows, bad
    <3>4. f \in Present(T) /\ <<f>> \in DOMAIN G.nodes
      BY <1>1, <3>2, <3>3 DEF Present, bad
    <3>5. G.nodes[<<f>>].kind = "File"
      BY <1>1, <3>4, FieldsOfANode DEF ShowsFiles, FileRow
    <3>6. a = Row(G, a[2])
      BY <3>1, <3>2, <3>5 DEF Row
    <3>7. a[2] \in CodeAt(f, T[f]) /\ a[2] \notin Chain(f)
      BY <3>1, ChainFacts, DeepIsNoFile DEF CodeAt
    <3> QED BY <3>2, <3>4, <3>6, <3>7
  <2> QED BY <2>1, <2>3, <2>4
<1>9. PICK f \in File : Stands(a, f)
  BY <1>8
<1> DEFINE e == PlanEdge(p)
<1>10. e[1] = "Contains" /\ e[2] = a[2] /\ e[3] = b[2]
  BY DEF PlanEdge
<1>11. ASSUME NEW k, NEW h \in File, Stands(k, h)
       PROVE  /\ k[2] \in DOMAIN G.nodes /\ G.nodes[k[2]].kind = k[1]
              /\ k[2] \notin nodes => k \in DOMAIN D.rows /\ ~D.rows[k].planned
  <2>1. /\ k[2] \in DOMAIN G.nodes
        /\ k[2] \notin nodes => Row(G, k[2]) \in DOMAIN D.rows /\ ~D.rows[Row(G, k[2])].planned
    BY <1>2, <1>11, CodeStands DEF bad
  <2> QED BY <1>11, <2>1 DEF Row
<1>12. e \in G.edges
  BY <1>1, <1>7, <1>9, <1>11 DEF HasPlans
<1> HIDE DEF e
<1>13. e[2] \notin nodes /\ e[3] \notin nodes => <<"Contains", a, b>> \in D.rels
  <2> SUFFICES ASSUME a[2] \notin nodes, b[2] \notin nodes PROVE <<"Contains", a, b>> \in D.rels
    BY <1>10
  <2>1. a \in DOMAIN D.rows /\ ~D.rows[a].planned /\ b \in DOMAIN D.rows /\ ~D.rows[b].planned
    BY <1>7, <1>9, <1>11
  <2> QED BY <1>1, <2>1 DEF DbPlans
<1>14. a = Row(G, e[2]) /\ b = Row(G, e[3]) /\ e[2] \in CodeAt(f, T[f]) /\ e[3] \in CodeAt(g, T[g])
  BY <1>7, <1>9, <1>10
<1>15. f \in Present(T) /\ g \in Present(T) /\ langOf[f] \notin hurt \cup spoilt /\ langOf[g] \notin hurt \cup spoilt
  BY <1>7, <1>9 DEF bad
<1>16. <<"Contains", Row(G, e[2]), Row(G, e[3])>> \in A.rels
  <2>1. e[2] \notin nodes /\ e[3] \notin nodes => <<"Contains", Row(G, e[2]), Row(G, e[3])>> \in D.rels
    BY <1>13, <1>14
  <2> HIDE DEF Stands
  <2> QED BY <1>2, <1>10, <1>12, <1>14, <1>15, <2>1, ContainsApplied
<1> QED BY <1>14, <1>16

LEMMA AppliedDraws ==
    ASSUME NEW D, NEW T0, NEW spoilt, NEW G, NEW T, NEW hurt, NEW targets, NEW removed,
           Splices(D, T0, spoilt, G, T, hurt, targets, removed),
           NEW A, A = Applied(D, G, targets, removed),
           DbTells(A, T, hurt \cup spoilt), DbShows(A, T, hurt \cup spoilt)
    PROVE  DbDraws(A, T, hurt \cup spoilt)
<1>1. RowsPlain(A) /\ RelsDrawn(A, T, hurt \cup spoilt) /\ DbExact(A, T, hurt \cup spoilt) /\ DbFramed(A, T, hurt \cup spoilt)
  BY AppliedPlain, AppliedDrawn, AppliedExact, AppliedFramed
<1> QED BY <1>1, AppliedPlans DEF DbDraws

-----------------------------------------------------------------------------
(* The steps                                                                 *)

\* A step of w, by what it leaves of the store, of its job and of its database.
LEMMA TreesStep ==
    ASSUME TreesInv, ModulesInv', NEW w \in Worktree, Apart(w),
           \/ /\ UNCHANGED index /\ \A v \in Worktree \ {w} : torn'[v] = torn[v]
              /\ storeHurt' = storeHurt \/ storeHurt' = Language
           \/ Overtakes(w),
           \A v \in Worktree : db'[v] = db[v] \/ db'[v] = None \/ (v = w /\ DbTrees(w)'),
           StoreDraws', RecordedDraws', JobDraws(w)', ~torn'[w] => CountsDraws(w)'
    PROVE  TreesInv'
<1>1. ASSUME NEW v \in Worktree \ {w} PROVE JobDraws(v)' /\ (~torn'[v] => CountsDraws(v)')
  <2>1. /\ job'[v] = job[v] /\ pc'[v] = pc[v] /\ tree'[v] = tree[v]
        /\ JobDraws(v) /\ (~torn[v] => CountsDraws(v))
    BY DEF Apart, TreesInv
  <2>2. JobDraws(v)'
    BY <2>1 DEF JobDraws, Sure
  <2>3. CASE /\ UNCHANGED index /\ torn'[v] = torn[v]
             /\ storeHurt' = storeHurt \/ storeHurt' = Language
    <3>1. \A l, T : Spans(l, T)' <=> Spans(l, T)
      BY <2>3 DEF Spans
    <3>2. \A f, T : Anchors(f, T)' <=> Anchors(f, T)
      BY <2>3 DEF Anchors, Spans
    <3>3. \A f \in Present(job[v].manifest) : langOf[f] \notin storeHurt' => langOf[f] \notin storeHurt
      BY <2>3, LanguageOfFile DEF Present
    <3>4. CountsDraws(v) => CountsDraws(v)'
      BY <2>1, <2>3, <3>1, <3>2, <3>3 DEF CountsDraws, MidSave, Sure, Present
    <3> QED BY <2>1, <2>2, <2>3, <3>4
  <2>4. CASE Overtakes(w)
    <3>1. torn'[v] = (torn[v] \/ ~Idle(v)) /\ torn \in [Worktree -> BOOLEAN]
      BY <2>4 DEF Overtakes, TreesInv, ModulesInv, DeclsInv, FilesInv, UnitsInv, IInv, TornOK
    <3>2. Idle(v) => CountsDraws(v)'
      BY <2>1 DEF Idle, CountsDraws, MidSave
    <3> QED BY <2>2, <3>1, <3>2
  <2> QED BY <2>2, <2>3, <2>4
<1>2. ASSUME NEW v \in Worktree PROVE DbTrees(v)'
  BY DEF TreesInv, DbTrees
<1> QED BY <1>1, <1>2 DEF TreesInv

\* One that writes no file of the store.
LEMMA QuietTrees ==
    ASSUME TreesInv, ModulesInv', NEW w \in Worktree, Apart(w), UNCHANGED <<index, manifest, scan>>,
           \A v \in Worktree \ {w} : torn'[v] = torn[v],
           \A v \in Worktree : db'[v] = db[v] \/ db'[v] = None \/ (v = w /\ DbTrees(w)'),
           storeHurt' = storeHurt \/ storeHurt' = Language,
           MidSave(w) => storeHurt' = Language, ~MidSave(w)',
           JobDraws(w)', ~torn'[w] => CountsDraws(w)'
    PROVE  TreesInv'
<1>1. StoreDraws'
  BY DEF TreesInv, StoreDraws
<1>2. RecordedDraws'
  <2>1. CASE storeHurt' = Language
    BY <2>1, LanguagesOfFiles DEF RecordedDraws, Stored
  <2>2. CASE storeHurt' = storeHurt /\ ~MidSave(w)
    <3>1. AtRest' => AtRest
      BY <2>2 DEF AtRest, Apart, MidSave
    <3>2. Stored' = Stored /\ \A f, T : Anchors(f, T)' <=> Anchors(f, T)
      BY <2>2 DEF Stored, Present, Anchors, Spans
    <3> QED BY <2>2, <3>1, <3>2 DEF RecordedDraws, TreesInv
  <2> QED BY <2>1, <2>2
<1> QED BY <1>1, <1>2, TreesStep

LEMMA NothingDraws ==
    /\ \A T : Draws(EmptyGraph, T)
    /\ UnitsDraw(<< >>)
<1>1. EmptyGraph.nodes = << >> /\ DOMAIN << >> = {} /\ EmptyGraph.edges = {}
  BY DEF EmptyGraph
<1> QED BY <1>1 DEF Draws, Plain, Drawn, HasBodies, UnitsDraw

\* Of a scan that counts on nothing yet, or is full, or over.
LEMMA EarlyTrees ==
    ASSUME TreesInv, ModulesInv', NEW w \in Worktree, Apart(w), UNCHANGED <<index, manifest, scan>>,
           \A v \in Worktree \ {w} : torn'[v] = torn[v],
           \A v \in Worktree : db'[v] = db[v] \/ db'[v] = None \/ (v = w /\ DbTrees(w)'),
           storeHurt' = storeHurt \/ storeHurt' = Language,
           MidSave(w) => storeHurt' = Language,
           job'[w].graph \in {job[w].graph, EmptyGraph}, job'[w].held \in {job[w].held, << >>},
           job'[w].warm => job[w].warm,
           pc'[w] \notin {"assemble"} \cup Saving, pc'[w] = "emit" => job'[w].full
    PROVE  TreesInv'
<1>1. tree'[w] = tree[w] /\ JobDraws(w)
  BY DEF Apart, TreesInv
<1>2. JobDraws(w)'
  BY <1>1, NothingDraws DEF JobDraws, Saving
<1>3. CountsDraws(w)' /\ ~MidSave(w)'
  BY DEF CountsDraws, MidSave, Saving
<1> QED BY <1>2, <1>3, QuietTrees

LEMMA PlanningTrees ==
    ASSUME TreesInv, ModulesInv', NEW w \in Worktree,
           \/ Start(w) \/ StartForced(w) \/ ReadRecordedKey(w) \/ Plan(w)
           \/ Probe(w) /\ UNCHANGED job /\ At(w, "probe", "recorded")
           \/ Diff(w) /\ GoesFull(w)
    PROVE  TreesInv'
<1>1. /\ Apart(w) /\ UNCHANGED <<head, tree, index, manifest, scan, state, storeHurt>> /\ ~MidSave(w)
      /\ \A v \in Worktree \ {w} : torn'[v] = torn[v]
  BY UnsavedApart DEF TreesInv, ModulesInv
<1>2. DOMAIN job = Worktree /\ JobOK(w) /\ pc \in [Worktree -> Steps] /\ DOMAIN db = Worktree
  BY DEF TreesInv, ModulesInv, DeclsInv, FilesInv, UnitsInv, IInv, JobsOK, DbsOK
<1>3. \A v \in Worktree : db'[v] = db[v] \/ db'[v] = None
  BY <1>2 DEF Start, StartForced, ReadRecordedKey, Plan, Probe, Diff, StepKeeps
<1> DEFINE Early == /\ job'[w].graph \in {job[w].graph, EmptyGraph} /\ job'[w].held \in {job[w].held, << >>}
                    /\ job'[w].warm => job[w].warm
                    /\ pc'[w] \notin {"assemble"} \cup Saving /\ (pc'[w] = "emit" => job'[w].full)
<1>4. Early => TreesInv'
  BY <1>1, <1>3, EarlyTrees
<1>5. CASE Start(w)
  <2>1. /\ At(w, "idle", "probe") /\ job' = [job EXCEPT ![w] = [NoJob EXCEPT !.key = Key(w)]]
    BY <1>5 DEF Start, Takes
  <2>2. Early
    BY <1>2, <2>1 DEF At, NoJob, Saving
  <2> QED BY <1>4, <2>2
<1>6. CASE StartForced(w)
  <2>1. /\ At(w, "idle", "emit")
        /\ job' = [job EXCEPT ![w] = [NoJob EXCEPT !.key = Key(w), !.full = TRUE, !.manifest = tree[w]]]
    BY <1>6 DEF StartForced, Takes
  <2>2. Early
    BY <1>2, <2>1 DEF At, NoJob, Saving
  <2> QED BY <1>4, <2>2
<1>7. CASE ReadRecordedKey(w) \/ (Probe(w) /\ UNCHANGED job /\ At(w, "probe", "recorded"))
  <2>1. /\ \/ job' = job
           \/ job' = [job EXCEPT ![w].recorded = IF scan = None THEN None ELSE scan.key]
        /\ At(w, "recorded", "plan") \/ At(w, "probe", "recorded")
    BY <1>7 DEF ReadRecordedKey
  <2>2. Early
    BY <1>2, <2>1 DEF At, Saving, JobOK, JobFields
  <2> QED BY <1>4, <2>2
<1>8. CASE (Plan(w) \/ Diff(w)) /\ GoesFull(w)
  <2>1. At(w, "plan", "emit") \/ At(w, "plan", "diff") \/ At(w, "diff", "emit")
    BY <1>8 DEF Plan, Diff
  <2>2. Early
    BY <1>2, <1>8, <2>1 DEF At, Saving, JobOK, JobFields, GoesFull
  <2> QED BY <1>4, <2>2
<1>9. CASE /\ At(w, "plan", "diff")
           /\ job' = [job EXCEPT ![w].manifest = tree[w],
                 ![w].targets = IF scan.sha = head[w] THEN {} ELSE GitDelta(w, scan.sha)]
  <2>1. Early
    BY <1>2, <1>9 DEF At, Saving, JobOK, JobFields
  <2> QED BY <1>4, <2>1
<1> QED BY <1>5, <1>6, <1>7, <1>8, <1>9 DEF Plan

\* What no change touched has its roots in the scaffolding.
LEMMA UnchangedAnchors ==
    ASSUME TreesInv, AtRest, scan # None, NEW T \in Tree,
           NEW f \in Present(T), langOf[f] \notin storeHurt,
           f \notin ManifestDelta(manifest, T) \/ scan.manifest = T
    PROVE  /\ Anchors(f, manifest) /\ manifest = scan.manifest
           /\ manifest # None /\ manifest \in Tree /\ langOf[f] \in Language
<1>1. langOf[f] \in Language
  BY LanguagesOfFiles
<1>2. manifest = scan.manifest /\ scan.manifest \in Trees
  BY <1>1 DEF TreesInv, ModulesInv, DeclsInv, FilesInv, UnitsInv, IInv, TornOK, StoreOK, StoreOfOneScan
<1>3. manifest # None /\ manifest \in Tree
  BY <1>2, TreesAreTrees, StoreAssumption
<1>4. manifest[f] = T[f]
  BY <1>2, <1>3 DEF ManifestDelta, Present
<1>5. f \in Stored
  BY <1>4 DEF Stored, Present
<1> QED BY <1>1, <1>2, <1>3, <1>5 DEF TreesInv, RecordedDraws

LEMMA ProbeTrees ==
    ASSUME TreesInv, ModulesInv', OwnNames, Legible, NEW w \in Worktree, Probe(w)
    PROVE  TreesInv'
<1>1. /\ Apart(w) /\ UNCHANGED <<head, tree, index, manifest, scan, state, storeHurt>> /\ ~MidSave(w)
      /\ \A v \in Worktree \ {w} : torn'[v] = torn[v]
  BY UnsavedApart DEF TreesInv, ModulesInv
<1>2. /\ DOMAIN job = Worktree /\ JobOK(w) /\ pc \in [Worktree -> Steps] /\ UNCHANGED <<torn, db>>
      /\ JobDraws(w) /\ UnitsInv
  BY DEF Probe, StepKeeps, history, TreesInv, ModulesInv, DeclsInv, FilesInv, UnitsInv, IInv, JobsOK
<1>3. CASE Warm(w) /\ At(w, "probe", "assemble")
           /\ job' = [job EXCEPT ![w].warm = TRUE, ![w].recorded = scan.key,
                         ![w].manifest = scan.manifest, ![w].candidates = Present(scan.manifest),
                         ![w].graph = Ingested(Joined(<< >>))]
  <2>1. pc[w] = "probe" /\ pc'[w] = "assemble"
    BY <1>2, <1>3 DEF At
  <2>2. /\ job'[w].graph = Ingested(Joined(<< >>)) /\ job'[w].held = job[w].held
        /\ job'[w].manifest = scan.manifest /\ job'[w].warm /\ job'[w].targets = job[w].targets
    BY <1>2, <1>3 DEF JobOK, JobFields
  <2>3. Present(scan.manifest) # {} /\ scan.manifest = tree[w]
    <3>1. JobOK(w)'
      BY DEF ModulesInv, DeclsInv, FilesInv, UnitsInv, IInv, JobsOK
    <3> QED BY <1>1, <1>3, <2>1, <2>2, <3>1 DEF Warm, JobOK
  <2>4. JobDraws(w)'
    <3>1. tree[w] \in Trees
      BY <1>2 DEF UnitsInv, IInv, RepoOK
    <3>2. OfTree(<< >>, tree[w])
      BY DEF OfTree
    <3>3. /\ Draws(job'[w].graph, tree[w]) /\ Exact(job'[w].graph, tree[w], {})
          /\ \A p \in Plans : PlanEdge(p) \in job'[w].graph.edges
      BY <2>2, <3>1, <3>2, IngestedDraws
    <3> QED BY <1>1, <1>2, <2>1, <2>2, <2>3, <3>3 DEF JobDraws, Saving
  <2>5. ASSUME ~torn[w], NEW f \in Present(scan.manifest), langOf[f] \notin storeHurt
        PROVE  Anchors(f, scan.manifest)
    <3>1. AtRest /\ scan # None
      BY <1>2, <1>3, <2>1, <2>5 DEF UnitsInv, CountsOn, Solo, AtRest, MidSave, Idle, Warm
    <3>2. scan.manifest \in Tree
      BY <1>2, <3>1, TreesAreTrees DEF UnitsInv, IInv, StoreOK
    <3>3. Anchors(f, manifest) /\ manifest = scan.manifest
      BY <2>5, <3>1, <3>2, UnchangedAnchors
    <3> QED BY <3>3
  <2>6. ~torn'[w] => CountsDraws(w)'
    <3> SUFFICES ASSUME ~torn'[w] PROVE CountsDraws(w)'
      OBVIOUS
    <3>1. \A f \in Present(scan.manifest) : langOf[f] \notin storeHurt =>
             /\ Roots(index.scaffolding[langOf[f]], f)
             /\ Spans(langOf[f], scan.manifest)
      BY <1>2, <2>5 DEF Anchors
    <3>2. \A l, T : Spans(l, T)' <=> Spans(l, T)
      BY <1>1 DEF Spans
    <3> QED BY <1>1, <2>1, <2>2, <3>1, <3>2 DEF CountsDraws, MidSave, Present
  <2>7. ~MidSave(w)'
    BY <2>1 DEF MidSave
  <2> QED BY <1>1, <1>2, <2>4, <2>6, <2>7, QuietTrees
<1>4. CASE UNCHANGED job /\ At(w, "probe", "recorded")
  BY <1>4, PlanningTrees
<1> QED BY <1>3, <1>4 DEF Probe

LEMMA DiffTrees ==
    ASSUME TreesInv, ModulesInv', NEW w \in Worktree, Diff(w)
    PROVE  TreesInv'
<1>1. /\ Apart(w) /\ UNCHANGED <<head, tree, index, manifest, scan, state, storeHurt>> /\ ~MidSave(w)
      /\ \A v \in Worktree \ {w} : torn'[v] = torn[v]
  BY UnsavedApart DEF TreesInv, ModulesInv
<1>2. /\ DOMAIN job = Worktree /\ JobOK(w) /\ pc \in [Worktree -> Steps] /\ UNCHANGED <<torn, db>>
      /\ JobDraws(w) /\ UnitsInv /\ At(w, "diff", "emit") /\ tree[w] \in Tree /\ StoreDraws
  BY TreesAreTrees
     DEF Diff, StepKeeps, history, TreesInv, ModulesInv, DeclsInv, FilesInv, UnitsInv, IInv, JobsOK, RepoOK
<1>3. CASE GoesFull(w)
  BY <1>3, PlanningTrees
<1>4. CASE job' = [job EXCEPT ![w].targets = Stage1(w), ![w].removed = RemovedFqns(w),
                              ![w].candidates = Reusable(w, Stage1(w))]
  <2>1. pc[w] = "diff" /\ pc'[w] = "emit"
    BY <1>2 DEF At
  <2>2. /\ job'[w].graph = job[w].graph /\ job'[w].held = job[w].held
        /\ job'[w].manifest = tree[w] /\ job'[w].targets = Stage1(w) /\ job'[w].warm = job[w].warm
    BY <1>2, <1>4, <2>1 DEF JobOK, JobFields
  <2>3. JobDraws(w)'
    BY <1>1, <1>2, <2>1, <2>2 DEF JobDraws, Saving
  <2>4. ASSUME ~torn[w], NEW f \in Present(tree[w]) \ Stage1(w), langOf[f] \notin storeHurt
        PROVE  /\ Roots(index.scaffolding[langOf[f]], f)
               /\ (\A g \in Stage1(w) : langOf[g] # langOf[f]) => Spans(langOf[f], tree[w])
    <3>1. AtRest /\ scan # None
      BY <1>2, <2>1, <2>4 DEF UnitsInv, CountsOn, Solo, Reuses, AtRest, MidSave, Idle
    <3>2. f \notin ManifestDelta(manifest, tree[w])
      BY <2>4 DEF Stage1
    <3>3. /\ Anchors(f, manifest) /\ manifest # None /\ manifest \in Tree /\ langOf[f] \in Language
      BY <1>2, <2>4, <3>1, <3>2, UnchangedAnchors
    <3> DEFINE l == langOf[f]
    <3>4. ASSUME \A g \in Stage1(w) : langOf[g] # l, NEW x \in index.scaffolding[l].modules
          PROVE  Lies(x, tree[w])
      <4>1. PICK h \in Present(manifest) : x \in Chain(h)
        BY <3>3, <3>4 DEF Anchors, Spans, Lies
      <4>2. h \in File /\ langOf[h] = x[1]
        BY <4>1, ChainFacts DEF Present
      <4>3. x[1] = l
        BY <1>2, <3>3, <3>4 DEF StoreDraws, ScaffoldingDraws
      <4>4. h \notin Stage1(w)
        BY <3>4, <4>2, <4>3
      <4>5. manifest[h] = tree[w][h]
        BY <3>3, <4>2, <4>4 DEF Stage1, ManifestDelta
      <4> QED BY <4>1, <4>5 DEF Lies, Present
    <3> QED BY <3>3, <3>4 DEF Anchors, Spans
  <2>5. ~torn'[w] => CountsDraws(w)'
    <3>1. \A l, T : Spans(l, T)' <=> Spans(l, T)
      BY <1>1 DEF Spans
    <3> QED BY <1>1, <1>2, <2>1, <2>2, <2>4, <3>1 DEF CountsDraws, MidSave, Present
  <2>6. ~MidSave(w)'
    BY <2>1 DEF MidSave
  <2> QED BY <1>1, <1>2, <2>3, <2>5, <2>6, QuietTrees
<1> QED BY <1>3, <1>4 DEF Diff

LEMMA EmitFactsTrees ==
    ASSUME TreesInv, ModulesInv', OwnNames, Legible, NEW w \in Worktree, EmitFacts(w)
    PROVE  TreesInv'
<1>1. /\ Apart(w) /\ UNCHANGED <<head, tree, index, manifest, scan, state, storeHurt>> /\ ~MidSave(w)
      /\ \A v \in Worktree \ {w} : torn'[v] = torn[v]
  BY UnsavedApart DEF TreesInv, ModulesInv
<1>2. /\ DOMAIN job = Worktree /\ JobOK(w) /\ pc \in [Worktree -> Steps] /\ UNCHANGED <<torn, db>>
      /\ JobDraws(w) /\ At(w, "emit", "assemble") /\ tree[w] \in Trees
      /\ (~torn[w] => CountsDraws(w)) /\ WarmOK(w)
  BY DEF EmitFacts, Emits, history, TreesInv, ModulesInv, DeclsInv, FilesInv, UnitsInv, OwnInv, IInv, JobsOK, RepoOK
<1> DEFINE stage1 == job[w].targets
           First(failed) == Spools(w, stage1, failed)
           Extra(failed) == IF job[w].full THEN {} ELSE Cascade(stage1, Ingested(Joined(First(failed))))
           All(one, two) == IF Extra(one) = {} THEN First(one)
                            ELSE SecondPass(w, First(one), stage1 \cup Extra(one), two)
<1>3. PICK one \in SUBSET Language, two \in SUBSET Language :
        job' = [job EXCEPT ![w].targets = stage1 \cup Extra(one),
                           ![w].candidates = @ \ (stage1 \cup Extra(one)),
                           ![w].graph = Ingested(Joined(All(one, two))),
                           ![w].hurt = one \cup two]
  BY DEF EmitFacts, Emits
<1> DEFINE extra   == Extra(one)
           targets == stage1 \cup extra
           spools  == All(one, two)
           G       == Ingested(Joined(spools))
<1>4. spools = IF extra = {} THEN First(one) ELSE SecondPass(w, First(one), targets, two)
  OBVIOUS
<1>5. pc[w] = "emit" /\ pc'[w] = "assemble"
  BY <1>2 DEF At
<1>6. /\ job'[w].hurt = one \cup two /\ job'[w].full = job[w].full
      /\ job'[w].manifest = tree[w] /\ job[w].manifest = tree[w]
      /\ job'[w].targets = targets /\ job'[w].held = job[w].held
      /\ job'[w].graph = G /\ job'[w].warm = job[w].warm
  BY <1>2, <1>3, <1>5 DEF JobOK, JobFields
<1>7. stage1 \subseteq targets
  OBVIOUS
<1>8. OfTree(spools, tree[w])
  <2>1. ASSUME NEW asked, NEW failed, NEW l \in DOMAIN Spools(w, asked, failed)
        PROVE  l \in Language /\ \E emitted : Spools(w, asked, failed)[l] = Stream(tree[w], l, emitted)
    BY LanguagesOfFiles DEF Spools, Spawned, Detected
  <2> HIDE DEF extra, targets, spools, First
  <2>2. CASE extra = {}
    BY <1>4, <2>1, <2>2 DEF OfTree, First
  <2>3. CASE extra # {}
    BY <1>4, <2>1, <2>3 DEF SecondPass, OfTree, First
  <2> QED BY <2>2, <2>3
<1> HIDE DEF extra, spools, Extra, All
<1>9. ASSUME NEW f \in Present(tree[w]), langOf[f] \notin one \cup two,
             targets = {} \/ \E g \in targets : langOf[g] = langOf[f]
      PROVE  langOf[f] \in DOMAIN spools
  <2>1. CASE extra = {}
    <3>1. spools = Spools(w, targets, one)
      BY <1>4, <2>1
    <3> HIDE DEF targets
    <3> QED BY <1>9, <3>1, PassWalks
  <2>2. CASE extra # {}
    <3>1. spools = SecondPass(w, First(one), targets, two)
      BY <1>4, <2>2
    <3> HIDE DEF targets, First
    <3>2. langOf[f] \in DOMAIN Spools(w, targets, two)
      BY <1>9, PassWalks
    <3> QED BY <3>1, <3>2 DEF SecondPass
  <2> QED BY <2>1, <2>2
<1> HIDE DEF targets, G, stage1
<1>10. /\ Draws(G, tree[w]) /\ Exact(G, tree[w], {}) /\ \A p \in Plans : PlanEdge(p) \in G.edges
       /\ \A f \in Present(tree[w]) : langOf[f] \in DOMAIN spools => HasRoots(G, f)
  <2>1. G = Ingested(Joined(spools))
    BY DEF G
  <2> QED BY <1>2, <1>8, <2>1, IngestedDraws
<1>11. ~job[w].warm
  BY <1>2, <1>5 DEF WarmOK
<1>12. JobDraws(w)'
  BY <1>1, <1>2, <1>5, <1>6, <1>9, <1>10, <1>11 DEF JobDraws, Sure, Saving
<1>13. ~torn'[w] => CountsDraws(w)'
  <2>1. \A l, T : Spans(l, T)' <=> Spans(l, T)
    BY <1>1 DEF Spans
  <2> QED BY <1>1, <1>2, <1>5, <1>6, <1>7, <2>1 DEF CountsDraws, MidSave, Present, stage1
<1>14. ~MidSave(w)'
  BY <1>5 DEF MidSave
<1> QED BY <1>1, <1>2, <1>12, <1>13, <1>14, QuietTrees

\* Of a file whose language nothing spoilt: its language was walked, or is replayed.
LEMMA WalkedOrRooted ==
    ASSUME TreesInv, NEW w \in Worktree, pc[w] = "assemble", NEW f \in Present(job[w].manifest),
           langOf[f] \notin job[w].hurt \cup (IF job[w].full THEN {} ELSE IF torn[w] THEN Language ELSE storeHurt)
    PROVE  \/ HasRoots(job[w].graph, f)
           \/ /\ ~job[w].full /\ langOf[f] \in Skipped(w)
              /\ Roots(index.scaffolding[langOf[f]], f)
<1>1. /\ JobDraws(w) /\ JobOK(w) /\ Reckons(w) /\ WarmOK(w) /\ (~torn[w] => CountsDraws(w))
      /\ f \in File /\ langOf[f] \in Language /\ job[w].manifest = tree[w]
  BY LanguagesOfFiles DEF TreesInv, ModulesInv, DeclsInv, FilesInv, UnitsInv, OwnInv, IInv, JobsOK, JobOK, Present
<1>2. f \in Sure(w)
  BY DEF Sure
<1>3. CASE ~job[w].warm /\ (job[w].targets = {} \/ \E g \in job[w].targets : langOf[g] = langOf[f])
  BY <1>1, <1>2, <1>3 DEF JobDraws
<1>4. CASE job[w].warm \/ (job[w].targets # {} /\ ~\E g \in job[w].targets : langOf[g] = langOf[f])
  <2>1. ~job[w].full /\ f \notin job[w].targets
    BY <1>1, <1>4 DEF WarmOK, JobOK
  <2>2. ~torn[w] /\ langOf[f] \notin storeHurt
    BY <1>1, <2>1
  <2>3. Roots(index.scaffolding[langOf[f]], f) /\ f \in job[w].candidates
    BY <1>1, <2>1, <2>2 DEF CountsDraws, Reckons
  <2>4. langOf[f] \in Skipped(w)
    <3>1. CASE job[w].warm
      BY <1>1, <3>1 DEF Skipped, Detected
    <3>2. CASE ~job[w].warm
      BY <1>4, <2>3, <3>2 DEF Skipped
    <3> QED BY <3>1, <3>2
  <2> QED BY <2>1, <2>3, <2>4
<1> QED BY <1>3, <1>4

\* The scaffolding a scan replays is of the tree's modules only.
LEMMA ReplayedLies ==
    ASSUME TreesInv, NEW w \in Worktree, pc[w] = "assemble", ~job[w].full, NEW l \in Skipped(w),
           l \notin (IF torn[w] THEN Language ELSE storeHurt)
    PROVE  l \in Language /\ \A x \in index.scaffolding[l].modules : x[1] = l /\ Lies(x, tree[w])
<1>1. /\ JobDraws(w) /\ JobFiles(w) /\ WarmOK(w) /\ (~torn[w] => CountsDraws(w)) /\ job[w].manifest = tree[w]
      /\ StoreDraws
  BY DEF TreesInv, ModulesInv, DeclsInv, FilesInv, UnitsInv, OwnInv, IInv, JobsOK, JobOK
<1>2. PICK f \in Present(tree[w]) : /\ langOf[f] = l /\ f \notin job[w].targets
                                    /\ \A g \in job[w].targets : langOf[g] # langOf[f]
  <2>1. CASE job[w].warm
    <3>1. job[w].targets = {} /\ Present(tree[w]) # {}
      BY <1>1, <2>1 DEF WarmOK, JobDraws
    <3> QED BY <2>1, <3>1 DEF Skipped, Detected
  <2>2. CASE ~job[w].warm
    <3>1. l \in {langOf[f] : f \in job[w].candidates} \ {langOf[f] : f \in job[w].targets}
      BY <2>2 DEF Skipped
    <3>2. PICK f \in job[w].candidates : langOf[f] = l
      BY <3>1
    <3>3. f \in Present(tree[w]) /\ \A g \in job[w].targets : langOf[g] # langOf[f]
      BY <1>1, <3>1, <3>2 DEF JobFiles
    <3> QED BY <3>2, <3>3
  <2> QED BY <2>1, <2>2
<1>3. l \in Language
  BY <1>2, LanguagesOfFiles
<1>4. ~torn[w] /\ l \notin storeHurt
  BY <1>3
<1>5. Spans(l, tree[w])
  BY <1>1, <1>2, <1>4 DEF CountsDraws
<1> QED BY <1>1, <1>3, <1>5 DEF Spans, StoreDraws, ScaffoldingDraws

LEMMA AssembleTrees ==
    ASSUME TreesInv, ModulesInv', OwnNames, NEW w \in Worktree, Assemble(w)
    PROVE  TreesInv'
<1> DEFINE units  == CachedUnits(w)
           scaffolding == {index.scaffolding[l] : l \in Skipped(w)}
           cached == WithCached(job[w].graph, units, scaffolding)
           more   == IF job[w].full THEN {} ELSE IF torn[w] THEN Language ELSE storeHurt
           G      == IF job[w].full THEN job[w].graph ELSE cached
           H      == job'[w].graph
           T      == tree[w]
<1>1. /\ UNCHANGED <<head, tree, index, manifest, scan, torn, storeHurt, db>>
      /\ At(w, "assemble", "index")
      /\ job' = [job EXCEPT ![w].graph = Finalized(IF job[w].full THEN @ ELSE cached),
                            ![w].held = index.units,
                            ![w].hurt = @ \cup more]
  BY DEF Assemble, StepKeeps, repo, store, history
<1>2. /\ JobOK(w) /\ DOMAIN job = Worktree /\ pc \in [Worktree -> Steps] /\ T \in Trees
      /\ JobFiles(w) /\ JobDecls(w) /\ JobModules(w) /\ JobDraws(w) /\ StoreDraws /\ DeclsInv
      /\ JobModules(w)'
  BY DEF TreesInv, ModulesInv, DeclsInv, FilesInv, UnitsInv, IInv, JobsOK, RepoOK
<1>3. Apart(w) /\ pc[w] = "assemble" /\ pc'[w] = "index" /\ job[w].manifest = T
  BY <1>1, <1>2 DEF Apart, At, JobOK
<1>4. /\ job'[w].hurt = job[w].hurt \cup more /\ job'[w].held = index.units
      /\ job'[w].manifest = T /\ job'[w].warm = job[w].warm
      /\ H = Finalized(G)
  BY <1>1, <1>2, <1>3 DEF JobOK, JobFields
<1>5. UnitsOf(units, T) /\ \A s \in scaffolding : ScaffoldingTells(s) /\ ScaffoldingRight(s)
  BY <1>2, <1>3, CachedAreUnits
<1>6. \A i \in DOMAIN units : UnitDraws(units[i], pathOrder[i], T[pathOrder[i]])
  <2> SUFFICES ASSUME NEW i \in DOMAIN units PROVE UnitDraws(units[i], pathOrder[i], T[pathOrder[i]])
    OBVIOUS
  <2> DEFINE key == <<pathOrder[i], job[w].manifest[pathOrder[i]]>>
  <2>1. key \in DOMAIN index.units /\ units[i] = index.units[key] /\ pathOrder[i] \in File
    BY <1>5 DEF CachedUnits, UnitsOf, Present
  <2> QED BY <1>2, <1>3, <2>1 DEF StoreDraws, UnitsDraw
<1>7. \A s \in scaffolding : \E l \in Language : ScaffoldingDraws(s, l)
  <2>1. Skipped(w) \subseteq Language
    BY <1>2, <1>3, LanguagesOfFiles DEF Skipped, Detected, JobFiles
  <2> QED BY <1>2, <2>1 DEF StoreDraws
<1>8. /\ \A f \in File : Roots(index.scaffolding[langOf[f]], f) /\ langOf[f] \in Skipped(w)
              => \E s \in scaffolding : Roots(s, f)
      /\ \A s \in scaffolding : \E l \in Skipped(w) : s = index.scaffolding[l]
  OBVIOUS
<1> HIDE DEF units, scaffolding
<1>9. /\ Draws(cached, T) /\ "edges" \in DOMAIN cached /\ Tells(cached, T) /\ ShowsFiles(cached, T)
      /\ \A p \in Plans : PlanEdge(p) \in job[w].graph.edges => PlanEdge(p) \in cached.edges
      /\ \A f \in File : HasRoots(job[w].graph, f) => HasRoots(cached, f)
      /\ \A s \in scaffolding : \A f \in File : Roots(s, f) => HasRoots(cached, f)
      /\ \A x : RealModule(cached, x) => \/ RealModule(job[w].graph, x) \/ Lies(x, T)
                                         \/ \E s \in scaffolding : x \in s.modules
  <2>1. "edges" \in DOMAIN cached
    BY DEF WithCached, Resolved
  <2>2. Tells(job[w].graph, T) /\ Draws(job[w].graph, T) /\ ShowsFiles(job[w].graph, T)
    BY <1>2 DEF JobDecls, JobDraws, JobFiles
  <2>3. \A s \in scaffolding : ScaffoldingTells(s) /\ ScaffoldingRight(s) /\ \E l \in Language : ScaffoldingDraws(s, l)
    BY <1>5, <1>7
  <2>4. Tells(cached, T)
    BY <1>2, <1>5, <2>2, SplicedTells
  <2>5. ShowsFiles(cached, T)
    <3>1. /\ \A i \in DOMAIN units :
               /\ i \in Int /\ pathOrder[i] \in File /\ T[pathOrder[i]] # Missing
               /\ UnitRight(units[i], pathOrder[i], T[pathOrder[i]])
          /\ \A i, j \in DOMAIN units : pathOrder[i] = pathOrder[j] => i = j
          /\ \A s \in scaffolding : ScaffoldingRight(s)
      BY <1>2, <1>3, CachedIsRight DEF DeclsInv, units, scaffolding
    <3> HIDE DEF T
    <3> QED BY <2>2, <3>1, SplicedShowsFiles
  <2> HIDE DEF T
  <2> QED BY <1>2, <1>5, <1>6, <2>1, <2>2, <2>3, <2>4, <2>5, SplicedDraws
<1>10. /\ Draws(G, T) /\ "edges" \in DOMAIN G /\ Tells(G, T) /\ ShowsFiles(G, T)
       /\ \A p \in Plans : PlanEdge(p) \in G.edges
  BY <1>2, <1>3, <1>9 DEF JobDecls, JobDraws, JobFiles, JobModules
<1>11. Exact(G, T, job[w].hurt \cup more)
  <2> SUFFICES ASSUME NEW x, RealModule(G, x), x[1] \notin job[w].hurt \cup more PROVE Lies(x, T)
    BY DEF Exact
  <2>1. \A y : RealModule(job[w].graph, y) => Lies(y, T)
    BY <1>2, <1>3 DEF JobDraws, Exact, RealModule, IsKind
  <2>2. CASE ~job[w].full /\ \E s \in scaffolding : x \in s.modules
    <3>1. PICK l \in Skipped(w) : x \in index.scaffolding[l].modules
      BY <1>8, <2>2
    <3>2. x[1] = l
      <4>1. l \in Language
        BY <1>2, <1>3, LanguagesOfFiles DEF Skipped, Detected, JobFiles
      <4> QED BY <1>2, <3>1, <4>1 DEF StoreDraws, ScaffoldingDraws
    <3>3. l \notin (IF torn[w] THEN Language ELSE storeHurt)
      BY <2>2, <3>2
    <3> HIDE DEF T
    <3> QED BY <1>3, <2>2, <3>1, <3>3, ReplayedLies DEF T
  <2> QED BY <1>9, <2>1, <2>2
<1>12. ASSUME NEW f \in Present(T), langOf[f] \notin job[w].hurt \cup more PROVE f \in File /\ HasRoots(G, f)
  <2>1. f \in File
    BY DEF Present
  <2>2. \/ HasRoots(job[w].graph, f)
        \/ ~job[w].full /\ langOf[f] \in Skipped(w) /\ Roots(index.scaffolding[langOf[f]], f)
    BY <1>3, <1>12, WalkedOrRooted
  <2>3. CASE HasRoots(job[w].graph, f)
    BY <1>9, <2>1, <2>3
  <2>4. CASE ~job[w].full /\ langOf[f] \in Skipped(w) /\ Roots(index.scaffolding[langOf[f]], f)
    BY <1>8, <1>9, <2>1, <2>4
  <2> QED BY <2>1, <2>2, <2>3, <2>4
<1>13. \A f \in Present(T) : langOf[f] \notin job[w].hurt \cup more => HasChain(H, f)
  BY <1>2, <1>3, <1>4 DEF JobModules, Sure, Saving
<1> HIDE DEF cached, more, G, T
<1>14. /\ Draws(H, T) /\ HasPlans(H) /\ Exact(H, T, job'[w].hurt) /\ \A e \in H.edges : ~Vague(e)
       /\ \A f \in File : HasRoots(G, f) /\ HasChain(H, f) => HasRoots(H, f)
  <2>1. H = Finalized(G)
    BY <1>4
  <2> HIDE DEF H
  <2> QED BY <1>2, <1>4, <1>10, <1>11, <2>1, FinalizedDraws
<1>15. \A f \in Sure(w)' : HasRoots(H, f)
  BY <1>4, <1>12, <1>13, <1>14 DEF Sure, Present, T
<1>16. JobDraws(w)'
  <2>1. tree'[w] = T /\ job'[w].held = index.units /\ UnitsDraw(index.units)
        /\ (job'[w].warm => Present(T) # {})
    BY <1>1, <1>2, <1>4 DEF StoreDraws, JobDraws, T
  <2> QED BY <1>3, <1>14, <1>15, <2>1 DEF JobDraws, H, UnitsDraw
<1>17. CountsDraws(w)' /\ ~MidSave(w) /\ ~MidSave(w)'
  BY <1>3 DEF CountsDraws, MidSave
<1> QED BY <1>1, <1>3, <1>16, <1>17, QuietTrees

LEMMA SaveIndexTrees ==
    ASSUME TreesInv, ModulesInv', OwnNames, Legible, NEW w \in Worktree, SaveIndex(w)
    PROVE  TreesInv'
<1> DEFINE G   == job[w].graph
           new == {<<f, job[w].manifest[f]>> : f \in NewUnits(w)}
           T   == tree[w]
<1>1. /\ At(w, "index", "manifest") /\ Overtakes(w) /\ UNCHANGED <<head, tree, job, db>>
      /\ index'.units = [u \in DOMAIN job[w].held \cup new |->
                           IF u \in new THEN UnitOf(G, u[1]) ELSE job[w].held[u]]
      /\ index'.scaffolding = [l \in Language |->
           IF ScaffoldingOf(G, l, langOf) = NoScaffolding THEN index.scaffolding[l]
           ELSE ScaffoldingOf(G, l, langOf)]
  BY DEF SaveIndex, repo
<1>2. /\ DOMAIN job = Worktree /\ pc \in [Worktree -> Steps] /\ JobModules(w) /\ StoreDraws /\ JobDecls(w)
      /\ JobDraws(w) /\ Assembled(w) /\ ShowsFiles(G, T) /\ T \in Trees /\ JobOK(w)
  BY DEF TreesInv, ModulesInv, DeclsInv, FilesInv, JobFiles, UnitsInv, IInv, JobsOK, RepoOK
<1>3. /\ Apart(w) /\ pc[w] = "index" /\ pc'[w] = "manifest" /\ pc[w] \in Saving /\ pc'[w] \in Saving
      /\ job[w].manifest = T
  BY <1>1, <1>2 DEF Apart, At, Saving, JobOK
<1>4. /\ ModulesRight(G) /\ HasParents(G) /\ Draws(G, T) /\ Exact(G, T, job[w].hurt) /\ Tells(G, T) /\ Settled(G)
      /\ \A f \in Sure(w) : /\ <<f>> \in DOMAIN G.nodes /\ HasChain(G, f) /\ HasRoots(G, f)
                            /\ f \in File /\ langOf[f] \in Language /\ langOf[f] \notin job[w].hurt
  BY <1>2, <1>3, LanguageOfFile DEF JobModules, JobDraws, JobDecls, Assembled, Sure, Present
<1>5. \A e \in G.edges : ~Vague(e)
  BY <1>2, <1>3 DEF JobDraws
<1>6. \A f \in NewUnits(w) : <<f>> \in DOMAIN G.nodes /\ f \in Present(T)
  BY <1>3 DEF NewUnits
<1> HIDE DEF G, T
<1>7. ASSUME NEW f \in File, NEW c, <<f, c>> \in DOMAIN index'.units
      PROVE  UnitDraws(index'.units[<<f, c>>], f, c)
  <2>1. CASE <<f, c>> \in new
    <3>1. f \in NewUnits(w) /\ c = T[f]
      BY <1>3, <2>1
    <3>2. index'.units[<<f, c>>] = UnitOf(G, f)
      BY <1>1, <2>1
    <3>3. UnitDraws(UnitOf(G, f), f, T[f])
      BY <1>2, <1>4, <1>5, <1>6, <3>1, UnitOfDraws
    <3> QED BY <3>1, <3>2, <3>3
  <2>2. CASE <<f, c>> \notin new
    BY <1>1, <1>2, <1>7, <2>2 DEF JobDraws, UnitsDraw
  <2> QED BY <2>1, <2>2
<1>8. ASSUME NEW l \in Language
      PROVE  LET s == ScaffoldingOf(G, l, langOf)
             IN  /\ ScaffoldingDraws(s, l)
                 /\ \A f \in File : Holds(s, f) /\ HasChain(G, f) /\ HasRoots(G, f) => Roots(s, f)
                 /\ l \notin job[w].hurt => \A x \in s.modules : Lies(x, T)
  BY <1>2, <1>4, <1>5, ScaffoldingOfDraws
<1>9. \A l \in Language : ScaffoldingDraws(index'.scaffolding[l], l)
  BY <1>1, <1>2, <1>8 DEF StoreDraws
<1>10. ASSUME NEW f \in Sure(w)
       PROVE  /\ Roots(index'.scaffolding[langOf[f]], f)
              /\ \A x \in index'.scaffolding[langOf[f]].modules : Lies(x, T)
  <2> DEFINE l == langOf[f]
             s == ScaffoldingOf(G, l, langOf)
  <2>1. Holds(s, f)
    BY <1>2, <1>4, ScaffoldingOfModules
  <2>2. index'.scaffolding[l] = IF s = NoScaffolding THEN index.scaffolding[l] ELSE s
    BY <1>1, <1>4
  <2>3. /\ Holds(s, f) => Roots(s, f)
        /\ \A x \in s.modules : Lies(x, T)
    BY <1>4, <1>8
  <2> HIDE DEF s, l
  <2>4. s # NoScaffolding
    <3>1. 2 \in 2..Len(moduleOf[f])
      <4>1. f \in File
        BY <1>4
      <4>2. moduleOf[f] \in Seq(STRING) /\ Len(moduleOf[f]) > 1
        BY <4>1, NamesAssumption
      <4>3. Len(moduleOf[f]) \in Nat
        BY <4>2, LenProperties
      <4> QED BY <4>2, <4>3
    <3>2. Chain(f) # {}
      BY <3>1 DEF Chain, Prefixes
    <3> QED BY <2>1, <3>2, NoScaffoldingModules
  <2> QED BY <2>1, <2>2, <2>3, <2>4 DEF l
<1>11. StoreDraws'
  BY <1>7, <1>9 DEF StoreDraws, UnitsDraw
<1>12. RecordedDraws'
  BY <1>3 DEF RecordedDraws, AtRest, MidSave
<1>13. JobDraws(w)'
  BY <1>1, <1>2, <1>3 DEF JobDraws, Sure, Saving
<1>14. CountsDraws(w)'
  BY <1>1, <1>3, <1>10 DEF CountsDraws, MidSave, Sure, Anchors, Spans
<1> QED BY <1>1, <1>3, <1>11, <1>12, <1>13, <1>14, TreesStep

LEMMA SaveManifestTrees ==
    ASSUME TreesInv, ModulesInv', NEW w \in Worktree, SaveManifest(w) \/ SaveScanRecord(w)
    PROVE  TreesInv'
<1>1. /\ At(w, "manifest", "scan") \/ At(w, "scan", "state")
      /\ Overtakes(w) /\ UNCHANGED <<head, tree, job, index, db>>
  BY DEF SaveManifest, SaveScanRecord, repo
<1>2. /\ DOMAIN job = Worktree /\ pc \in [Worktree -> Steps] /\ torn \in [Worktree -> BOOLEAN]
      /\ JobDraws(w) /\ (~torn[w] => CountsDraws(w))
  BY DEF TreesInv, ModulesInv, DeclsInv, FilesInv, UnitsInv, IInv, JobsOK, TornOK
<1>3. Apart(w) /\ pc[w] \in Saving /\ pc'[w] \in Saving /\ MidSave(w) /\ MidSave(w)'
  BY <1>1, <1>2 DEF Apart, At, Saving, MidSave
<1>4. StoreDraws' /\ RecordedDraws'
  BY <1>1, <1>3 DEF TreesInv, StoreDraws, RecordedDraws, AtRest
<1>5. JobDraws(w)'
  BY <1>1, <1>2, <1>3 DEF JobDraws, Sure, Saving
<1>6. torn'[w] = torn[w]
  BY <1>1, <1>2 DEF Overtakes
<1>7. ~torn'[w] => CountsDraws(w)'
  <2>1. \A f, T : Anchors(f, T)' <=> Anchors(f, T)
    BY <1>1 DEF Anchors, Spans
  <2>2. pc'[w] \notin {"emit", "assemble"}
    BY <1>3 DEF MidSave
  <2> QED BY <1>1, <1>2, <1>3, <1>6, <2>1, <2>2 DEF CountsDraws, Sure
<1> QED BY <1>1, <1>3, <1>4, <1>5, <1>7, TreesStep

\* The last save: what this scan kept is what the store records.
LEMMA SaveStateTrees ==
    ASSUME TreesInv, ModulesInv', NEW w \in Worktree, SaveState(w)
    PROVE  TreesInv'
<1>1. /\ At(w, "state", "build") /\ Overtakes(w) /\ UNCHANGED <<head, tree, job, index, manifest, scan, db>>
      /\ storeHurt' = IF torn[w] THEN Language ELSE job[w].hurt
  BY DEF SaveState, repo
<1>2. /\ DOMAIN job = Worktree /\ pc \in [Worktree -> Steps] /\ JobDraws(w) /\ Untorn(w)
      /\ (~torn[w] => CountsDraws(w))
  BY DEF TreesInv, ModulesInv, DeclsInv, FilesInv, UnitsInv, IInv, JobsOK, TornOK
<1>3. Apart(w) /\ pc[w] = "state" /\ pc'[w] = "build" /\ MidSave(w)
  BY <1>1, <1>2 DEF Apart, At, MidSave
<1>4. RecordedDraws'
  <2>1. CASE torn[w]
    BY <1>1, <2>1, LanguagesOfFiles DEF RecordedDraws, Stored
  <2>2. CASE ~torn[w]
    <3>1. Stored' = Sure(w) /\ manifest = job[w].manifest
      BY <1>1, <1>2, <1>3, <2>2 DEF Untorn, Stored, Sure, Present
    <3>2. \A f \in Sure(w) : Anchors(f, manifest)
      BY <1>2, <1>3, <2>2, <3>1 DEF CountsDraws
    <3>3. \A f, T : Anchors(f, T)' <=> Anchors(f, T)
      BY <1>1 DEF Anchors, Spans
    <3> QED BY <1>1, <3>1, <3>2, <3>3 DEF RecordedDraws
  <2> QED BY <2>1, <2>2
<1>5. JobDraws(w)'
  BY <1>1, <1>2, <1>3 DEF JobDraws, Sure, Saving
<1>6. CountsDraws(w)'
  BY <1>3 DEF CountsDraws, MidSave
<1>7. StoreDraws'
  BY <1>1 DEF TreesInv, StoreDraws
<1> QED BY <1>1, <1>3, <1>4, <1>5, <1>6, <1>7, TreesStep

\* The database a scan leaves draws the tree it was for.
LEMMA BuiltDraws ==
    ASSUME TreesInv, ModulesInv', OwnNames, Legible, NEW w \in Worktree, Build(w)
    PROVE  DbTrees(w)'
<1> DEFINE seed == db[w]
           G    == job[w].graph
           hurt == job[w].hurt
           T       == tree[w]
           targets == job[w].targets
           removed == job[w].removed
           D == seed.graph
           T0 == seed.key.tree
           spoilt == seed.hurt
<1>1. /\ pc[w] = "build" /\ DOMAIN db = Worktree /\ JobOK(w) /\ T \in Trees
      /\ JobFiles(w) /\ JobDecls(w) /\ JobModules(w) /\ JobDraws(w) /\ Assembled(w)
      /\ DbFiles(w) /\ DbDecls(w) /\ DbTrees(w) /\ DbDecls(w)' /\ DbFiles(w)'
  BY DEF Build, At, TreesInv, ModulesInv, DeclsInv, FilesInv, UnitsInv, IInv, DbsOK, JobsOK, RepoOK
<1>2. pc[w] \in Saving /\ job[w].key.tree = T /\ job[w].manifest = T
  BY <1>1 DEF JobOK, Saving, Idle, Key
<1>3. Complete(G, T, hurt)
  <2>1. /\ Tells(G, T) /\ ShowsFiles(G, T) /\ Settled(G) /\ Draws(G, T) /\ ModulesRight(G) /\ HasParents(G)
        /\ HasPlans(G) /\ Exact(G, T, hurt) /\ \A e \in G.edges : ~Vague(e)
    BY <1>1, <1>2 DEF JobFiles, JobDecls, JobModules, JobDraws, Assembled
  <2>2. ASSUME NEW f \in Present(T), langOf[f] \notin hurt
        PROVE  <<f>> \in DOMAIN G.nodes /\ HasChain(G, f) /\ HasRoots(G, f)
    <3>1. f \in Sure(w)
      BY <1>2, <2>2 DEF Sure
    <3> QED BY <1>1, <1>2, <3>1 DEF Assembled, JobModules, JobDraws
  <2> HIDE DEF G, T, hurt
  <2> QED BY <2>1, <2>2 DEF Complete
<1>4. CASE Seedable(w)
  <2>1. /\ db'[w].key = job[w].key /\ db'[w].hurt = hurt \cup spoilt
        /\ db'[w].graph = Applied(D, G, targets, removed)
    BY <1>1, <1>4 DEF Build
  <2>2. /\ Keeps(D, T0, spoilt)
        /\ job[w].recorded # None /\ ~job[w].full /\ seed.key = job[w].recorded
    BY <1>1, <1>4 DEF Seedable, DbDecls, DbFiles, DbTrees, Keeps
  <2>3. Covers(targets, removed, T0, T, hurt)
    <3>1. /\ targets \subseteq File
          /\ \A x \in removed : \E f \in File \ Present(T) : x \in NamesOf(f)
      BY <1>1 DEF JobDecls
    <3>2. \A f \in File : langOf[f] \notin hurt /\ f \notin targets => T0[f] = T[f]
      BY <1>1, <1>2, <2>2 DEF Assembled, Unmoved
    <3> HIDE DEF targets, removed, T0, T, hurt
    <3> QED BY <3>1, <3>2 DEF Covers
  <2>4. db'[w] # None => DbTells(db'[w].graph, T, hurt \cup spoilt) /\ DbShows(db'[w].graph, T, hurt \cup spoilt)
    BY <1>1, <1>2, <2>1 DEF DbDecls, DbFiles
  <2>5. Splices(D, T0, spoilt, G, T, hurt, targets, removed)
    <3> HIDE DEF D, T0, spoilt, G, T, hurt, targets, removed
    <3> QED BY <1>1, <1>3, <2>2, <2>3 DEF Splices
  <2> HIDE DEF D, T0, spoilt, G, T, hurt, targets, removed
  <2>6. db'[w] # None => DbDraws(db'[w].graph, T, hurt \cup spoilt)
    BY <2>1, <2>4, <2>5, AppliedDraws
  <2> QED BY <1>2, <2>1, <2>6 DEF DbTrees
<1>5. CASE ~Seedable(w)
  <2>1. /\ db'[w].key = job[w].key /\ db'[w].hurt = hurt /\ db'[w].graph = Loaded(G)
    BY <1>1, <1>5 DEF Build
  <2> HIDE DEF G, hurt, T
  <2>2. DbDraws(db'[w].graph, T, hurt)
    BY <1>1, <1>3, <2>1, LoadedDraws DEF Complete
  <2> QED BY <1>2, <2>1, <2>2 DEF DbTrees
<1> QED BY <1>4, <1>5

LEMMA EndTrees ==
    ASSUME TreesInv, ModulesInv', OwnNames, Legible, NEW w \in Worktree, Build(w) \/ KillScan(w) \/ RecordFails(w)
    PROVE  TreesInv'
<1>1. /\ \/ pc' = [pc EXCEPT ![w] = "idle"] /\ job' = [job EXCEPT ![w] = NoJob]
            /\ torn' = [torn EXCEPT ![w] = FALSE]
         \/ pc' = [pc EXCEPT ![w] = "build"] /\ UNCHANGED <<job, torn>> /\ (pc[w] = "index" \/ MidSave(w))
      /\ storeHurt' = IF MidSave(w) THEN Language ELSE storeHurt
      /\ UNCHANGED <<head, tree, index, manifest, scan, state>>
  BY DEF Build, KillScan, RecordFails, At, Ends, MidSave, repo, store
<1>2. /\ DOMAIN job = Worktree /\ pc \in [Worktree -> Steps] /\ torn \in [Worktree -> BOOLEAN] /\ JobDraws(w)
      /\ DOMAIN db = Worktree
  BY DEF TreesInv, ModulesInv, DeclsInv, FilesInv, UnitsInv, IInv, JobsOK, TornOK, DbsOK
<1>3. Apart(w) /\ \A v \in Worktree \ {w} : torn'[v] = torn[v]
  BY <1>1, <1>2 DEF Apart
<1>4. \A v \in Worktree : db'[v] = db[v] \/ db'[v] = None \/ (v = w /\ DbTrees(w)')
  <2>1. CASE Build(w)
    <3>1. \A v \in Worktree \ {w} : db'[v] = db[v]
      BY <1>2, <2>1 DEF Build
    <3> QED BY <2>1, <3>1, BuiltDraws
  <2>2. CASE KillScan(w) \/ RecordFails(w)
    BY <1>2, <2>2 DEF KillScan, RecordFails
  <2> QED BY <2>1, <2>2
<1>5. CASE pc' = [pc EXCEPT ![w] = "idle"] /\ job' = [job EXCEPT ![w] = NoJob]
  <2>1. pc'[w] = "idle" /\ job'[w].graph = EmptyGraph /\ job'[w].held = << >> /\ ~job'[w].warm
    BY <1>2, <1>5, NoJobTells DEF NoJob
  <2>2. pc'[w] \notin {"assemble", "emit"} \cup Saving
    BY <2>1 DEF Saving
  <2> QED BY <1>1, <1>3, <1>4, <2>1, <2>2, EarlyTrees
<1>6. CASE pc' = [pc EXCEPT ![w] = "build"] /\ UNCHANGED <<job, torn>> /\ (pc[w] = "index" \/ MidSave(w))
  <2>1. pc[w] \in Saving /\ pc'[w] = "build"
    BY <1>2, <1>6 DEF MidSave, Saving
  <2>2. JobDraws(w)'
    BY <1>1, <1>2, <1>6, <2>1 DEF JobDraws, Sure, Saving
  <2>3. CountsDraws(w)' /\ ~MidSave(w)'
    BY <2>1 DEF CountsDraws, MidSave
  <2> QED BY <1>1, <1>3, <1>4, <1>6, <2>2, <2>3, QuietTrees
<1> QED BY <1>1, <1>5, <1>6

LEMMA SameTrees ==
    ASSUME TreesInv, ModulesInv', UNCHANGED <<index, manifest, scan, storeHurt, pc, job, torn, db>>,
           UNCHANGED tree \/ \A v \in Worktree : Idle(v)
    PROVE  TreesInv'
<1>1. StoreDraws'
  BY DEF TreesInv, StoreDraws
<1>2. /\ \A f, T : Anchors(f, T)' <=> Anchors(f, T)
      /\ \A l, T : Spans(l, T)' <=> Spans(l, T)
  BY DEF Anchors, Spans
<1>3. RecordedDraws'
  <2>1. AtRest' = AtRest /\ Stored' = Stored
    BY DEF AtRest, MidSave, Stored, Present
  <2> QED BY <1>2, <2>1 DEF RecordedDraws, TreesInv
<1>4. ASSUME NEW w \in Worktree PROVE JobDraws(w)' /\ (~torn'[w] => CountsDraws(w)') /\ DbTrees(w)'
  <2>1. JobDraws(w) /\ (~torn[w] => CountsDraws(w)) /\ DbTrees(w) /\ JobOK(w)
    BY DEF TreesInv, ModulesInv, DeclsInv, FilesInv, UnitsInv, IInv, JobsOK
  <2>2. JobDraws(w)'
    <3>1. CASE UNCHANGED tree
      BY <2>1, <3>1 DEF JobDraws, Sure
    <3>2. CASE Idle(w)
      <4>1. /\ pc'[w] \notin {"assemble"} \cup Saving
            /\ job'[w].graph = EmptyGraph /\ job'[w].held = << >> /\ ~job'[w].warm
        BY <2>1, <3>2, NoJobTells DEF JobOK, Idle, NoJob, Saving
      <4> QED BY <4>1, NothingDraws DEF JobDraws
    <3> QED BY <3>1, <3>2
  <2>3. CountsDraws(w) => CountsDraws(w)'
    BY <1>2 DEF CountsDraws, MidSave, Sure, Present
  <2> QED BY <2>1, <2>2, <2>3 DEF DbTrees
<1> QED BY <1>1, <1>3, <1>4 DEF TreesInv

LEMMA InitTrees == Init => TreesInv
<1> SUFFICES ASSUME Init PROVE TreesInv
  OBVIOUS
<1>1. ModulesInv
  BY InitModules
<1>2. /\ scan = None /\ \A w \in Worktree : pc[w] = "idle" /\ job[w] = NoJob /\ db[w] = None
      /\ index.units = << >> /\ index.scaffolding = [l \in Language |-> NoScaffolding]
  BY DEF Init
<1>3. StoreDraws
  BY <1>2, NothingDraws, NoScaffoldingDraws DEF StoreDraws
<1>4. \A w \in Worktree : JobDraws(w)
  <2>1. ~NoJob.warm
    BY DEF NoJob
  <2> QED BY <1>2, <2>1, NoJobTells, NothingDraws DEF JobDraws, Saving
<1>5. \A w \in Worktree : CountsDraws(w) /\ DbTrees(w)
  BY <1>2 DEF CountsDraws, MidSave, DbTrees
<1> QED BY <1>1, <1>2, <1>3, <1>4, <1>5 DEF TreesInv, RecordedDraws

LEMMA NextTrees == ASSUME OwnNames, Legible PROVE TreesInv /\ [Next]_vars => TreesInv'
<1> SUFFICES ASSUME TreesInv, [Next]_vars PROVE TreesInv'
  OBVIOUS
<1>1. ModulesInv'
  BY NextModules DEF TreesInv
<1>2. CASE UNCHANGED vars
  BY <1>1, <1>2, SameTrees DEF vars, store, history, repo
<1>3. CASE \E w \in Worktree : \/ \E f \in File : \E c \in contentsOf[f] : EditFile(w, f, c)
                               \/ CommitTree(w)
                               \/ \E c \in 1..Len(commits) : Checkout(w, c)
  <2>1. Moves
    BY <1>3 DEF EditFile, CommitTree, Checkout
  <2> QED BY <1>1, <2>1, SameTrees DEF Moves, store, history
<1>4. CASE \E w \in Worktree : Start(w) \/ StartForced(w)
  BY <1>1, <1>4, PlanningTrees
<1>5. CASE \E w \in Worktree : ScanStep(w)
  BY <1>1, <1>5, PlanningTrees, ProbeTrees, DiffTrees, EmitFactsTrees, AssembleTrees,
     SaveIndexTrees, SaveManifestTrees, SaveStateTrees, EndTrees DEF ScanStep
<1>6. CASE \E w \in Worktree : KillScan(w) \/ RecordFails(w)
  BY <1>1, <1>6, EndTrees
<1> QED BY <1>2, <1>3, <1>4, <1>5, <1>6 DEF Next

LEMMA TreesAlways == ASSUME OwnNames, Legible PROVE Spec => []TreesInv
<1>1. TreesInv /\ [Next]_vars => TreesInv'
  BY NextTrees
<1> QED BY <1>1, InitTrees, PTL DEF Spec

-----------------------------------------------------------------------------
(* What a rebuild draws                                                      *)

\* The files walked with a file: those of its language.
Walked(T, f) == {g \in Present(T) : langOf[g] = langOf[f]}

\* The graph a rebuild loads is whole, of a stream with every file.
LEMMA WholeGraph ==
    ASSUME OwnNames, Legible, NEW T \in Trees, NEW S, S = WholeStream(T), NEW G, G = Finalized(Ingested(S))
    PROVE  /\ TreeStream(S, T, Present(T)) /\ Complete(G, T, {}) /\ Rebuild(T) = Loaded(G)
           /\ \A f \in Present(T) : \A d \in declares[f][T[f]] : RefEdges(T, Walked(T, f), f, d) \subseteq S.edges
           /\ \A m \in S.modules : \E f \in Present(T) : m[1] = langOf[f]
<1> DEFINE spools == [l \in Language |-> Stream(T, l, File)]
           files == {r.path : r \in S.files}
<1>1. /\ OfTree(spools, T) /\ S = Joined(spools) /\ DOMAIN spools = Language
      /\ \A l \in DOMAIN spools : l \in Language /\ \E emitted : spools[l] = Stream(T, l, emitted)
  BY DEF OfTree, WholeStream
<1>2. ASSUME NEW f \in Present(T)
      PROVE  /\ f \in File /\ langOf[f] \in DOMAIN spools /\ <<f>> \in DOMAIN Ingested(S).nodes /\ f \in files
             /\ \A d \in declares[f][T[f]] : RefEdges(T, Walked(T, f), f, d) \subseteq S.edges
  <2>1. langOf[f] \in Language /\ f \in File
    BY LanguagesOfFiles DEF Present
  <2> DEFINE l == langOf[f]
             R == Stream(T, l, File)
             fs == {g \in Present(T) : langOf[g] = l} \cap File
  <2>2. spools[l] = R /\ l \in DOMAIN spools
    BY <2>1
  <2>3. f \in fs /\ DeclsOf(T, f) = declares[f][T[f]]
    BY <2>1 DEF DeclsOf, Present
  <2>4. R.edges = EdgesOf(T, fs) /\ R.files = {[path |-> g, parent |-> moduleOf[g], body |-> T[g]] : g \in fs}
    BY DEF Stream, Spool
  <2>5. S.edges = UNION {spools[k]["edges"] : k \in DOMAIN spools}
        /\ S.files = UNION {spools[k]["files"] : k \in DOMAIN spools}
    BY <1>1 DEF Joined, EmptyStream
  <2>6. R.edges \subseteq S.edges /\ R.files \subseteq S.files
    BY <2>2, <2>5
  <2>7. [path |-> f, parent |-> moduleOf[f], body |-> T[f]] \in S.files
    BY <2>3, <2>4, <2>6
  <2>8. f \in files
    BY <2>7
  <2>9. fs = Walked(T, f)
    BY DEF Walked, Present
  <2> HIDE DEF spools, fs, R, files
  <2>10. Real(Ingested(Joined(spools)), <<f>>)
    BY <2>1, <2>2, EmittedFile DEF R
  <2>11. \A d \in declares[f][T[f]] : RefEdges(T, fs, f, d) \subseteq EdgesOf(T, fs)
    BY <2>3 DEF EdgesOf
  <2> QED BY <1>1, <2>1, <2>2, <2>4, <2>6, <2>8, <2>9, <2>10, <2>11 DEF Real
<1> HIDE DEF spools
<1> DEFINE I == Ingested(S)
<1>3. Modest(S, T) /\ S.planned = Placeholders
  BY <1>1, JoinedIsModest
<1>4. TreeStream(S, T, Present(T))
  <2>1. TreeStream(S, T, files)
    BY <1>1, JoinedIsOfTree
  <2>2. files = Present(T)
    BY <1>2, <2>1 DEF TreeStream, FactsOf
  <2> QED BY <2>1, <2>2
<1>5. /\ Tells(I, T) /\ ShowsFiles(I, T) /\ Draws(I, T) /\ Exact(I, T, {}) /\ "edges" \in DOMAIN I
      /\ \A p \in Plans : PlanEdge(p) \in I.edges
      /\ ModulesRight(I) /\ HasParents(I)
      /\ \A f \in Present(T) : HasRoots(I, f) /\ HasChain(I, f)
  <2>1. Tells(I, T) /\ ShowsFiles(I, T)
    BY <1>3, <1>4, IngestedTells, IngestedShowsFiles
  <2>2. "edges" \in DOMAIN I
    BY DEF Ingested, WithEdges
  <2>3. /\ Draws(I, T) /\ Exact(I, T, {}) /\ \A p \in Plans : PlanEdge(p) \in I.edges
        /\ \A f \in Present(T) : langOf[f] \in DOMAIN spools => HasRoots(I, f)
    BY <1>1, IngestedDraws
  <2>4. /\ ModulesRight(I) /\ HasParents(I)
        /\ \A f \in Present(T) : langOf[f] \in DOMAIN spools => HasChain(I, f)
    BY <1>1, IngestedModules
  <2> QED BY <1>2, <2>1, <2>2, <2>3, <2>4
<1>6. G.nodes = I.nodes
  BY FinalizedNodes
<1>7. \A f \in Present(T) : f \in File /\ <<f>> \in DOMAIN I.nodes
  BY <1>2
<1> HIDE DEF I
<1>8. G = Finalized(I)
  BY DEF I
<1>9. Tells(G, T) /\ ShowsFiles(G, T) /\ Settled(G)
  BY <1>5, <1>8, FinalizedTells, FinalizedShowsFiles, FinalizedIsSettled
<1>10. /\ ModulesRight(G) /\ HasParents(G)
       /\ \A f \in File : HasChain(I, f) => HasChain(G, f)
  BY <1>5, <1>8, <1>9, FinalizedModules
<1>11. /\ Draws(G, T) /\ \A e \in G.edges : ~Vague(e)
       /\ HasPlans(G) /\ Exact(G, T, {})
       /\ \A f \in File : HasRoots(I, f) /\ HasChain(G, f) => HasRoots(G, f)
  BY <1>5, <1>8, FinalizedDraws
<1>12. \A f \in Present(T) : <<f>> \in DOMAIN G.nodes /\ HasChain(G, f) /\ HasRoots(G, f)
  BY <1>5, <1>6, <1>7, <1>10, <1>11
<1>13. Complete(G, T, {})
  BY <1>9, <1>10, <1>11, <1>12 DEF Complete
<1>14. \A m \in S.modules : \E f \in Present(T) : m[1] = langOf[f]
  <2> SUFFICES ASSUME NEW m \in S.modules PROVE \E f \in Present(T) : m[1] = langOf[f]
    OBVIOUS
  <2>1. S.modules = UNION {spools[k]["modules"] : k \in DOMAIN spools}
    BY <1>1 DEF Joined, EmptyStream
  <2>2. PICK l \in DOMAIN spools : m \in spools[l].modules
    BY <2>1
  <2>3. PICK emitted : spools[l] = Stream(T, l, emitted)
    BY <1>1
  <2> DEFINE R == Stream(T, l, emitted)
  <2>4. m \in R.modules /\ l \in Language
    BY <1>1, <2>2, <2>3
  <2> HIDE DEF R
  <2>5. \A x \in R.modules : \E g \in Present(T) : x[2] \in Chain(g) /\ x[1] = langOf[g]
    BY <2>4, StreamParts DEF R
  <2> QED BY <2>4, <2>5
<1>15. Rebuild(T) = Loaded(G)
  BY DEF Rebuild
<1> QED BY <1>2, <1>4, <1>13, <1>14, <1>15

LEMMA RebuildDraws ==
    ASSUME OwnNames, Legible, NEW T \in Trees
    PROVE  Keeps(Rebuild(T), T, {})
<1> DEFINE G == Finalized(Ingested(WholeStream(T)))
<1>1. Complete(G, T, {}) /\ Rebuild(T) = Loaded(G)
  BY WholeGraph
<1> HIDE DEF G
<1>2. DbDraws(Loaded(G), T, {})
  BY <1>1, LoadedDraws DEF Complete
<1> QED BY <1>1, <1>2, RebuildTells, RebuildShows DEF Keeps

\* A rebuild has the languages of the files there are.
LEMMA RebuildLanguages ==
    ASSUME OwnNames, Legible, NEW T \in Trees, NEW k \in DOMAIN Rebuild(T).rows, k[1] = "Language"
    PROVE  \E f \in Present(T) : k = <<"Language", <<langOf[f]>> >>
<1> DEFINE S == WholeStream(T)
           G == Finalized(Ingested(S))
<1>1. /\ TreeStream(S, T, Present(T)) /\ Rebuild(T) = Loaded(G)
      /\ \A m \in S.modules : \E f \in Present(T) : m[1] = langOf[f]
  BY WholeGraph
<1>2. G.nodes = Ingested(S).nodes /\ S.planned = Placeholders
  BY <1>1, FinalizedNodes DEF TreeStream
<1> HIDE DEF G, S
<1>3. PICK x \in DOMAIN G.nodes : k = Row(G, x)
  BY <1>1, RowsLoaded
<1> DEFINE n == G.nodes[x]
<1>4. k = <<n.kind, x>> /\ n.kind = "Language"
  BY <1>3 DEF Row
<1> DEFINE structs == {<<StructFqn(s), NodeOf("Struct", s.path, None, s.body)>> : s \in S.structs}
           functions == {<<FunctionFqn(S.functions, d), NodeOf("Function", d.path, d.params, d.body)>> :
                            d \in Admitted(S)}
           modules == {<<m[2], Bare("Module")>> : m \in {y \in S.modules : y[2] \notin Shadowed(S)}}
           roots == {<< <<m[1]>>, Bare("Language")>> : m \in S.modules}
           sources == {<< <<r.path>>, NodeOf("File", r.path, None, r.body)>> : r \in S.files}
           pairs == structs \cup functions \cup modules \cup roots \cup sources
<1>5. DeclaredNodes(S) = AsFunction(pairs)
  BY DEF DeclaredNodes
<1>6. x \in DOMAIN DeclaredNodes(S) /\ n = DeclaredNodes(S)[x]
  <2>1. \/ x \in DOMAIN DeclaredNodes(S) /\ n = DeclaredNodes(S)[x]
        \/ \E p \in Placeholders : n = Planned(p.kind)
        \/ n = Bare("Unresolved")
    BY <1>2, <1>3, IngestedAre
  <2>2. \A p \in Placeholders : p.kind # "Language"
    BY NamesAssumption
  <2> QED BY <1>4, <2>1, <2>2, FieldsOfANode
<1>7. \E p \in pairs : p[1] = x /\ n = p[2]
  <2> HIDE DEF pairs, n
  <2> QED BY <1>5, <1>6, DescribedByPairs
<1> HIDE DEF n
<1>8. PICK p \in pairs : p[1] = x /\ n = p[2]
  BY <1>7
<1>9. p \in roots
  <2>1. p \notin structs /\ p \notin functions /\ p \notin modules /\ p \notin sources
    BY <1>4, <1>8, FieldsOfANode
  <2> QED BY <2>1
<1>10. PICK m \in S.modules : p = << <<m[1]>>, Bare("Language")>>
  BY <1>9
<1>11. PICK f \in Present(T) : m[1] = langOf[f]
  BY <1>1
<1>12. x = <<langOf[f]>>
  BY <1>8, <1>10, <1>11
<1> QED BY <1>4, <1>12

\* A rebuild has every reference of the tree to a declaration there is.
LEMMA RebuildRefers ==
    ASSUME OwnNames, Legible, NEW T \in Trees, NEW f \in Present(T), NEW d \in Named(f, T[f]),
           NEW table, NEW kind, NEW ref,
           \/ table = "Calls" /\ kind = "Function" /\ ref \in d.calls /\ d.kind = "Function"
           \/ table = "Uses" /\ kind = "Struct" /\ ref \in d.uses,
           NEW g \in Present(T), g = ref[1], NEW y \in Named(g, T[g]), y.kind = kind, y.name = ref[2],
           NEW a, a = <<d.kind, FqnIn(f, T[f], d)>>, NEW b, b = <<kind, FqnIn(g, T[g], y)>>
    PROVE  <<table, a, b>> \in Rebuild(T).rels
<1> DEFINE S == WholeStream(T)
           G == Finalized(Ingested(S))
<1>1. /\ TreeStream(S, T, Present(T)) /\ Rebuild(T) = Loaded(G) /\ Complete(G, T, {})
      /\ \A h \in Present(T) : \A x \in declares[h][T[h]] : RefEdges(T, Walked(T, h), h, x) \subseteq S.edges
  BY WholeGraph
<1>2. /\ f \in File /\ T[f] \in Contents(f) /\ d \in declares[f][T[f]] /\ d.kind \in {"Struct", "Function"}
      /\ g \in File /\ T[g] \in Contents(g) /\ y \in declares[g][T[g]]
      /\ DeclsOf(T, g) = declares[g][T[g]]
  BY ContentsOfTrees, NamedAreNames DEF DeclsOf, Present
<1> DEFINE from == Id(f, d)
           to == Id(g, y)
           e == <<table, from, to>>
<1>3. g \in Walked(T, f)
  <2>1. langOf[g] = langOf[f]
    BY <1>2, NamesAssumption DEF Contents
  <2> QED BY <2>1 DEF Walked
<1> HIDE DEF from, to
<1>4. to \in Referents(T, Walked(T, f), ref, kind)
  BY <1>2, <1>3 DEF Referents, to
<1>5. \A unresolved : e \in RefersTo(from, ref, Referents(T, Walked(T, f), ref, kind), table, unresolved)
  BY <1>4 DEF RefersTo
<1>6. e \in RefEdges(T, Walked(T, f), f, d)
  BY <1>5 DEF RefEdges, from
<1>7. e \in S.edges /\ e[1] = table /\ e[2] = from /\ e[3] = to /\ table \in {"Calls", "Uses"}
  BY <1>1, <1>2, <1>6
<1> HIDE DEF S, e
<1> DEFINE x == FqnIn(f, T[f], d)
           z == FqnIn(g, T[g], y)
           h == Resolution(S, e)
<1>8. ResolveEnd(S, from) = x /\ ResolveEnd(S, to) = z
  BY <1>1, <1>2, ResolvedIds DEF from, to
<1>9. h = <<table, x, z>> /\ h[1] = table /\ h[2] = x /\ h[3] = z
  BY <1>7, <1>8 DEF Resolution
<1>10. h \in Ingested(S).edges
  BY <1>7 DEF Ingested, WithEdges, StreamEdges, Resolution
<1>11. G.nodes = Ingested(S).nodes
  BY FinalizedNodes
<1>12. G.edges = {i \in Ingested(S).edges :
                    /\ i[2] \in DOMAIN Ingested(S).nodes /\ i[3] \in DOMAIN Ingested(S).nodes
                    /\ ValidPair(i[1], Ingested(S).nodes[i[2]].kind, Ingested(S).nodes[i[3]].kind)}
  BY DEF Finalized, Ingested, WithEdges
<1> HIDE DEF G
<1>13. HasNames(G.nodes, f, T[f]) /\ HasNames(G.nodes, g, T[g])
  BY <1>1 DEF Complete, Tells
<1>14. /\ x \in DOMAIN G.nodes /\ G.nodes[x].kind = d.kind
       /\ z \in DOMAIN G.nodes /\ G.nodes[z].kind = kind
  BY <1>2, <1>13, NamedAreNames DEF HasNames
<1> HIDE DEF x, z, h
<1>15. ValidPair(table, d.kind, kind)
  BY <1>2 DEF ValidPair
<1>16. h \in G.edges
  BY <1>9, <1>10, <1>11, <1>12, <1>14, <1>15
<1>17. a = Row(G, h[2]) /\ b = Row(G, h[3])
  BY <1>9, <1>14 DEF Row, x, z
<1>18. <<h[1], a, b>> \in Loaded(G).rels
  BY <1>16, <1>17 DEF Loaded
<1> QED BY <1>1, <1>9, <1>18

-----------------------------------------------------------------------------
(* Two databases of one tree show the same of it                             *)

LEMMA LangOfModule ==
    ASSUME NEW x \in AllModules
    PROVE  LangOfFqn(x) = x[1]
<1>1. PICK f \in File : x \in Chain(f)
  BY DEF AllModules
<1> DEFINE n == Len(x)
<1>2. n \in Nat /\ n > 1
  BY <1>1, ChainFacts
<1> HIDE DEF n
<1>3. n # 1
  BY <1>2
<1> QED BY <1>3 DEF LangOfFqn, n

LEMMA LangOfFile ==
    ASSUME NEW f \in File
    PROVE  LangOfFqn(<<f>>) = langOf[f]
<1> QED BY DEF LangOfFqn

\* A row of a language neither has spoilt.
LEMMA SeenRow ==
    ASSUME OwnNames, Legible, NEW T \in Trees, NEW D, NEW E, NEW hurt, NEW spoilt,
           Keeps(D, T, hurt), Keeps(E, T, spoilt),
           NEW k \in Shown(D), LangOfFqn(k[2]) \notin hurt \cup spoilt, k[1] # "Language"
    PROVE  k \in Shown(E) /\ E.rows[k] = D.rows[k]
<1> DEFINE n == D.rows[k]
           x == k[2]
<1>1. /\ k \in DOMAIN D.rows /\ k[1] # "Unresolved" /\ ~n.planned
      /\ k = <<k[1], x>> /\ n.kind = k[1] /\ PlainNode(x, n)
  BY DEF Shown, Keeps, DbTells, DbDraws, RowsPlain
<1>2. k[1] \in {"Module", "File", "Struct", "Function"}
  BY <1>1 DEF PlainNode
<1>3. CASE k[1] \in {"Struct", "Function"}
  <2> DEFINE r == <<k, D.rows[k]>>
  <2>1. r \in ShownRows(D) /\ r[1] = k /\ r[2] = D.rows[k]
    BY DEF ShownRows
  <2> HIDE DEF r
  <2>2. r \in Declared(ShownRows(D))
    BY <1>3, <2>1 DEF Declared
  <2>3. r \in Declared(ShownRows(E))
    BY <2>1, <2>2, SameDeclarations DEF Keeps
  <2>4. PICK j \in Shown(E) : r = <<j, E.rows[j]>>
    BY <2>3 DEF Declared, ShownRows
  <2> QED BY <2>1, <2>4
<1>4. CASE k[1] = "File"
  <2>1. PICK f \in File : x = <<f>>
    BY <1>1, <1>4 DEF PlainNode
  <2>2. langOf[f] \notin hurt \cup spoilt
    BY <2>1, LangOfFile
  <2>3. k = <<"File", <<f>> >>
    BY <1>1, <1>4, <2>1
  <2>4. T[f] # Missing /\ n = FileRow(f, T)
    BY <1>1, <2>2, <2>3 DEF Keeps, DbShows
  <2>5. k \in DOMAIN E.rows /\ E.rows[k] = FileRow(f, T)
    BY <2>2, <2>3, <2>4 DEF Keeps, DbShows
  <2> QED BY <1>1, <2>4, <2>5 DEF Shown
<1>5. CASE k[1] = "Module"
  <2>1. n = Bare("Module") /\ x \in AllModules
    BY <1>1, <1>5, FieldsOfANode DEF PlainNode
  <2>2. x[1] \notin hurt \cup spoilt
    BY <2>1, LangOfModule
  <2>3. PICK f \in Present(T) : x \in Chain(f)
    BY <1>1, <1>5, <2>2 DEF Keeps, DbDraws, DbExact, Lies
  <2>4. f \in File /\ langOf[f] = x[1]
    BY <2>3, ChainFacts DEF Present
  <2>5. ShownAt(E, <<"Module", x>>)
    BY <2>2, <2>3, <2>4 DEF Keeps, DbDraws, DbFramed
  <2>6. k \in DOMAIN E.rows /\ ~E.rows[k].planned
    BY <1>1, <1>5, <2>5 DEF ShownAt
  <2>7. E.rows[k].kind = "Module" /\ PlainNode(x, E.rows[k])
    BY <1>5, <2>6 DEF Keeps, DbTells, DbDraws, RowsPlain
  <2>8. E.rows[k] = Bare("Module")
    BY <2>6, <2>7, FieldsOfANode DEF PlainNode
  <2> QED BY <1>5, <2>1, <2>6, <2>8 DEF Shown
<1> QED BY <1>2, <1>3, <1>4, <1>5

\* What a file contains, by its ends.
LEMMA BodyEnds ==
    ASSUME NEW f \in File, NEW c \in Contents(f), NEW r \in BodyRels(f, c)
    PROVE  /\ r = <<"Contains", r[2], r[3]>>
           /\ r[2] = <<"File", <<f>> >> \/ \E p \in Names(f, c) : r[2] = <<p[2].kind, p[1]>>
           /\ \E p \in Names(f, c) : r[3] = <<p[2].kind, p[1]>>
<1>1. \A d \in Named(f, c) : \E p \in Names(f, c) : <<d.kind, FqnIn(f, c, d)>> = <<p[2].kind, p[1]>>
  <2> SUFFICES ASSUME NEW d \in Named(f, c)
               PROVE  \E p \in Names(f, c) : <<d.kind, FqnIn(f, c, d)>> = <<p[2].kind, p[1]>>
    OBVIOUS
  <2>1. PICK p \in Names(f, c) : p[1] = FqnIn(f, c, d) /\ p[2].kind = d.kind
    BY NamedAreNames
  <2> QED BY <2>1
<1>2. CASE r \in {<<"Contains", <<"File", <<f>> >>, <<d.kind, FqnIn(f, c, d)>> >> : d \in Named(f, c)}
  <2>1. PICK d \in Named(f, c) : r = <<"Contains", <<"File", <<f>> >>, <<d.kind, FqnIn(f, c, d)>> >>
    BY <1>2
  <2> QED BY <1>1, <2>1
<1>3. CASE r \in {<<"Contains", <<"Struct", FqnIn(f, c, q[1])>>, <<q[2].kind, FqnIn(f, c, q[2])>> >> :
             q \in {p \in Named(f, c) \X Named(f, c) :
                       p[1].kind = "Struct" /\ p[2].within = Append(p[1].within, p[1].name)}}
  <2>1. PICK q \in Named(f, c) \X Named(f, c) :
           /\ q[1].kind = "Struct"
           /\ r = <<"Contains", <<"Struct", FqnIn(f, c, q[1])>>, <<q[2].kind, FqnIn(f, c, q[2])>> >>
    BY <1>3
  <2>2. q[1] \in Named(f, c) /\ q[2] \in Named(f, c)
    OBVIOUS
  <2>3. r = <<"Contains", <<q[1].kind, FqnIn(f, c, q[1])>>, <<q[2].kind, FqnIn(f, c, q[2])>> >>
    BY <2>1
  <2> QED BY <1>1, <2>2, <2>3
<1> QED BY <1>2, <1>3 DEF BodyRels

\* What contains what is a row of its own kind, at the one FQN there is.
LEMMA ContainedEnds ==
    ASSUME OwnNames, Legible, NEW D, NEW T, NEW hurt, Keeps(D, T, hurt),
           NEW r \in ShownRels(D), r[1] = "Contains"
    PROVE  /\ r = <<"Contains", r[2], r[3]>> /\ r[2] \in Shown(D) /\ r[3] \in Shown(D)
           /\ ValidPair("Contains", r[2][1], r[3][1])
           /\ r[3][1] \in {"Struct", "Function", "File", "Module"}
           /\ r[2][1] \in {"Struct", "Function", "File", "Module"} \/ \E l \in Language : r[2] = <<"Language", <<l>> >>
           /\ \A x \in AllModules : (r[2][2] = x => r[2] = <<"Module", x>>) /\ (r[3][2] = x => r[3] = <<"Module", x>>)
           /\ \A l \in Language : r[2][2] = <<l>> => r[2] = <<"Language", <<l>> >>
           /\ \A f \in File : /\ r[2][2] = <<f>> => r[2] = <<"File", <<f>> >>
                              /\ r[3][2] = <<f>> => r[3] = <<"File", <<f>> >>
           /\ \A f \in File : \A c \in Contents(f) : \A p \in Names(f, c) :
                 (r[2][2] = p[1] => r[2] = <<p[2].kind, p[1]>>) /\ (r[3][2] = p[1] => r[3] = <<p[2].kind, p[1]>>)
<1> DEFINE a == r[2]
           b == r[3]
<1>1. /\ r = <<"Contains", a, b>> /\ a \in Shown(D) /\ b \in Shown(D)
      /\ a \in DOMAIN D.rows /\ b \in DOMAIN D.rows /\ ValidPair("Contains", a[1], b[1])
      /\ DbTells(D, T, hurt) /\ RowsPlain(D)
  BY DEF ShownRels, Shown, Keeps, DbDraws, RelsDrawn
<1>2. /\ a[1] \in {"Language", "Struct", "Function", "File", "Module"}
      /\ b[1] \in {"Struct", "Function", "File", "Module"}
  BY <1>1 DEF ValidPair
<1>3. a = <<a[1], a[2]>> /\ b = <<b[1], b[2]>> /\ D.rows[a].kind = a[1] /\ PlainNode(a[2], D.rows[a])
  BY <1>1 DEF DbTells, RowsPlain
<1>4. a[1] = "Language" <=> \E l \in Language : a[2] = <<l>>
  BY <1>3 DEF PlainNode
<1> HIDE DEF a, b
<1>5. ASSUME NEW k \in DOMAIN D.rows, k[1] \in {"Struct", "Function", "File", "Module"}
      PROVE  /\ \A x \in AllModules : k[2] = x => k = <<"Module", x>>
             /\ \A f \in File : k[2] = <<f>> => k = <<"File", <<f>> >>
             /\ \A f \in File : \A c \in Contents(f) : \A p \in Names(f, c) : k[2] = p[1] => k = <<p[2].kind, p[1]>>
  BY <1>1, <1>5, CodeRows
<1>6. ASSUME a[1] = "Language"
      PROVE  /\ a[2] \notin AllModules /\ \A f \in File : a[2] # <<f>>
             /\ \A f \in File : \A c \in Contents(f) : \A p \in Names(f, c) : a[2] # p[1]
             /\ \E l \in Language : a = <<"Language", <<l>> >>
  <2>1. PICK l \in Language : a[2] = <<l>>
    BY <1>4, <1>6
  <2>2. a[2] \notin AllModules
    BY <2>1, ModulesApart
  <2>3. ASSUME NEW f \in File PROVE a[2] # <<f>>
    BY <2>1, NamesAssumption
  <2>4. ASSUME NEW f \in File, NEW c \in Contents(f), NEW p \in Names(f, c) PROVE a[2] # p[1]
    <3>1. Deep(p[1])
      BY NamesAreDeclarations
    <3>2. p[1] # <<l>>
      BY <3>1, DeepIsNoFile
    <3> QED BY <2>1, <3>2
  <2> QED BY <1>3, <1>6, <2>1, <2>2, <2>3, <2>4
<1>7. \A l \in Language : a[2] = <<l>> => a = <<"Language", <<l>> >>
  BY <1>3, <1>4
<1>8. a[1] # "Language" => a[1] \in {"Struct", "Function", "File", "Module"}
  BY <1>2
<1> QED BY <1>1, <1>2, <1>5, <1>6, <1>7, <1>8 DEF a, b

\* A containment of a language neither has spoilt.
LEMMA SeenContains ==
    ASSUME OwnNames, Legible, NEW T \in Trees, NEW D, NEW E, NEW hurt, NEW spoilt,
           Keeps(D, T, hurt), Keeps(E, T, spoilt),
           NEW r \in ShownRels(D), r[1] = "Contains", LangOfFqn(r[2][2]) \notin hurt \cup spoilt
    PROVE  r \in ShownRels(E)
<1> DEFINE a == r[2]
           b == r[3]
           e == Unrow(r)
<1>1. /\ r = <<"Contains", a, b>> /\ a \in Shown(D) /\ b \in Shown(D)
      /\ ValidPair("Contains", a[1], b[1])
      /\ b[1] \in {"Struct", "Function", "File", "Module"}
      /\ a[1] \in {"Struct", "Function", "File", "Module"} \/ \E l \in Language : a = <<"Language", <<l>> >>
  BY ContainedEnds
<1>2. /\ \A x \in AllModules : (a[2] = x => a = <<"Module", x>>) /\ (b[2] = x => b = <<"Module", x>>)
      /\ \A l \in Language : a[2] = <<l>> => a = <<"Language", <<l>> >>
      /\ \A f \in File : (a[2] = <<f>> => a = <<"File", <<f>> >>) /\ (b[2] = <<f>> => b = <<"File", <<f>> >>)
      /\ \A f \in File : \A c \in Contents(f) : \A p \in Names(f, c) :
            (a[2] = p[1] => a = <<p[2].kind, p[1]>>) /\ (b[2] = p[1] => b = <<p[2].kind, p[1]>>)
  BY ContainedEnds
<1>3. e = <<"Contains", a[2], b[2]>> /\ e[1] = "Contains" /\ e[2] = a[2] /\ e[3] = b[2]
  BY <1>1 DEF Unrow
<1>4. \/ Hierarchic(e)
      \/ \E f \in File : \E c \in Contents(f) : OfFile(e, f, c) /\ (langOf[f] \notin hurt => T[f] = c)
  <2>1. r \in D.rels
    BY DEF ShownRels
  <2>2. ~Unresolves(e)
    BY <1>3 DEF Unresolves
  <2> QED BY <2>1, <2>2 DEF Keeps, DbDraws, RelsDrawn
<1>5. LangOfFqn(a[2]) \notin hurt \cup spoilt
  OBVIOUS
<1> HIDE DEF a, b, e
<1>6. SUFFICES r \in E.rels /\ a \in Shown(E) /\ b \in Shown(E)
  BY DEF ShownRels, a, b
<1>7. LangOfFqn(b[2]) \notin hurt \cup spoilt => b \in Shown(E)
  BY <1>1, SeenRow
<1>8. a[1] # "Language" => a \in Shown(E)
  BY <1>1, <1>5, SeenRow
<1>9. ASSUME NEW f \in File, LangOfFqn(b[2]) = langOf[f], langOf[f] \notin hurt \cup spoilt,
             NEW x \in Chain(f), b = <<"Module", x>>
      PROVE  \E g \in Present(T) : x \in Chain(g) /\ langOf[g] = langOf[f]
  <2>1. b[1] = "Module" /\ b[2] = x /\ x[1] = langOf[f]
    BY <1>9, ChainFacts
  <2>2. b \in DOMAIN D.rows /\ ~D.rows[b].planned
    BY <1>1 DEF Shown
  <2>3. PICK g \in Present(T) : x \in Chain(g)
    BY <1>9, <2>1, <2>2 DEF Keeps, DbDraws, DbExact, Lies
  <2>4. langOf[g] = x[1]
    BY <2>3, ChainFacts DEF Present
  <2> QED BY <2>1, <2>3, <2>4
<1>10. ASSUME NEW g \in Present(T), langOf[g] \notin spoilt
       PROVE  /\ FrameRels(g) \subseteq E.rels
              /\ \A x \in Chain(g) : ShownAt(E, <<"Language", <<x[1]>> >>)
  BY <1>10 DEF Keeps, DbDraws, DbFramed
<1>11. ASSUME NEW x \in AllModules, e = Rooted(x) PROVE r \in E.rels /\ a \in Shown(E) /\ b \in Shown(E)
  <2>1. PICK f \in File : x \in Chain(f)
    BY DEF AllModules
  <2>2. a[2] = <<x[1]>> /\ b[2] = x /\ x[1] = langOf[f] /\ langOf[f] \in Language
    BY <1>3, <1>11, <2>1, ChainFacts, LanguageOfFile DEF Rooted
  <2>3. a = <<"Language", <<x[1]>> >> /\ b = <<"Module", x>>
    BY <1>2, <2>2
  <2>4. LangOfFqn(a[2]) = x[1] /\ LangOfFqn(b[2]) = x[1]
    <3>1. x[1] \notin File
      BY <2>2, NamesAssumption
    <3>2. LangOfFqn(<<x[1]>>) = x[1]
      BY <3>1 DEF LangOfFqn
    <3> QED BY <2>2, <3>2, LangOfModule
  <2>5. PICK g \in Present(T) : x \in Chain(g) /\ langOf[g] = langOf[f]
    BY <1>5, <1>9, <2>1, <2>2, <2>3, <2>4
  <2>6. FrameRels(g) \subseteq E.rels /\ ShownAt(E, a)
    BY <1>5, <1>10, <2>2, <2>3, <2>4, <2>5
  <2>7. r \in FrameRels(g)
    BY <1>1, <2>3, <2>5 DEF FrameRels
  <2>8. a \in Shown(E)
    BY <2>3, <2>6 DEF ShownAt, Shown
  <2> QED BY <1>5, <1>7, <2>4, <2>6, <2>7, <2>8
<1>12. ASSUME NEW x \in AllModules, Len(x) > 2, e = Linked(x) PROVE r \in E.rels /\ a \in Shown(E) /\ b \in Shown(E)
  <2>1. PICK f \in File : x \in Chain(f)
    BY DEF AllModules
  <2>2. /\ a[2] = Above(x) /\ b[2] = x /\ x[1] = langOf[f]
        /\ Above(x) \in Chain(f) /\ Above(x) \in AllModules /\ Above(x)[1] = langOf[f]
    BY <1>3, <1>12, <2>1, ChainFacts DEF Linked
  <2>3. a = <<"Module", Above(x)>> /\ b = <<"Module", x>>
    BY <1>2, <2>2
  <2>4. LangOfFqn(a[2]) = langOf[f] /\ LangOfFqn(b[2]) = langOf[f]
    BY <2>2, LangOfModule
  <2>5. PICK g \in Present(T) : x \in Chain(g) /\ langOf[g] = langOf[f]
    BY <1>5, <1>9, <2>1, <2>2, <2>3, <2>4
  <2>6. FrameRels(g) \subseteq E.rels
    BY <1>5, <1>10, <2>4, <2>5
  <2>7. r \in FrameRels(g)
    <3>1. r = <<"Contains", <<"Module", Above(x)>>, <<"Module", x>> >>
      BY <1>1, <2>3
    <3> QED BY <1>12, <2>5, <3>1 DEF FrameRels
  <2> QED BY <1>5, <1>7, <1>8, <2>3, <2>4, <2>6, <2>7
<1>13. ASSUME NEW f \in File, e = Parent(f) PROVE r \in E.rels /\ a \in Shown(E) /\ b \in Shown(E)
  <2>1. a[2] = moduleOf[f] /\ b[2] = <<f>> /\ moduleOf[f] \in AllModules /\ moduleOf[f][1] = langOf[f]
    BY <1>3, <1>13, OwnModule DEF Parent
  <2>2. a = <<"Module", moduleOf[f]>> /\ b = <<"File", <<f>> >>
    BY <1>2, <2>1
  <2>3. LangOfFqn(a[2]) = langOf[f] /\ LangOfFqn(b[2]) = langOf[f]
    BY <2>1, LangOfModule, LangOfFile
  <2>4. f \in Present(T)
    <3>1. b \in DOMAIN D.rows
      BY <1>1 DEF Shown
    <3> QED BY <1>5, <2>2, <2>3, <3>1 DEF Keeps, DbShows, Present
  <2>5. FrameRels(f) \subseteq E.rels
    BY <1>5, <1>10, <2>3, <2>4
  <2>6. r \in FrameRels(f)
    BY <1>1, <2>2 DEF FrameRels
  <2> QED BY <1>5, <1>7, <1>8, <2>2, <2>3, <2>5, <2>6
<1>14. ASSUME NEW p \in Plans, e = PlanEdge(p) PROVE r \in E.rels /\ a \in Shown(E) /\ b \in Shown(E)
  <2>1. a[2] = p.parent /\ b[2] = p.fqn /\ p \in Placeholders /\ p.parent # None
    BY <1>3, <1>14 DEF PlanEdge, Plans
  <2>2. LangOfFqn(b[2]) \notin hurt \cup spoilt
    BY <1>5, <2>1 DEF Legible
  <2>3. a[1] # "Language"
    <3> SUFFICES ASSUME a[1] = "Language" PROVE FALSE
      OBVIOUS
    <3>1. b[1] = "Module"
      BY <1>1 DEF ValidPair
    <3>2. b \in DOMAIN D.rows /\ ~D.rows[b].planned /\ PlainNode(b[2], D.rows[b]) /\ D.rows[b].kind = b[1]
      BY <1>1 DEF Shown, Keeps, DbDraws, RowsPlain, DbTells
    <3>3. b[2] \in AllModules
      BY <3>1, <3>2, FieldsOfANode DEF PlainNode
    <3> QED BY <2>1, <3>3 DEF Legible
  <2>4. a \in Shown(E) /\ b \in Shown(E)
    BY <1>7, <1>8, <2>2, <2>3
  <2>5. /\ a \in DOMAIN E.rows /\ b \in DOMAIN E.rows /\ ~E.rows[a].planned /\ ~E.rows[b].planned
    BY <2>4 DEF Shown
  <2>6. <<"Contains", a, b>> \in E.rels
    BY <1>1, <2>1, <2>2, <2>5 DEF Keeps, DbDraws, DbPlans
  <2> QED BY <1>1, <2>4, <2>6
<1>15. ASSUME NEW f \in File, NEW c \in Contents(f), OfFile(e, f, c), langOf[f] \notin hurt => T[f] = c
       PROVE  r \in E.rels /\ a \in Shown(E) /\ b \in Shown(E)
  <2>1. e \in Body(f, c)
    BY <1>3, <1>15, EndsOfFile
  <2>2. PICK q \in BodyRels(f, c) : e = Unrow(q)
    BY <2>1 DEF Body
  <2>3. a[2] = q[2][2] /\ b[2] = q[3][2]
    BY <1>3, <2>2 DEF Unrow
  <2>4. /\ q = <<"Contains", q[2], q[3]>>
        /\ q[2] = <<"File", <<f>> >> \/ \E p \in Names(f, c) : q[2] = <<p[2].kind, p[1]>>
        /\ \E p \in Names(f, c) : q[3] = <<p[2].kind, p[1]>>
    BY BodyEnds
  <2>5. a = q[2] /\ LangOfFqn(a[2]) = langOf[f] /\ a[1] # "Language"
    <3>1. CASE q[2] = <<"File", <<f>> >>
      <4>1. a[2] = <<f>>
        BY <2>3, <3>1
      <4> QED BY <1>2, <3>1, <4>1, LangOfFile
    <3>2. CASE \E p \in Names(f, c) : q[2] = <<p[2].kind, p[1]>>
      <4>1. PICK p \in Names(f, c) : q[2] = <<p[2].kind, p[1]>>
        BY <3>2
      <4>2. a[2] = p[1]
        BY <2>3, <4>1
      <4>3. p[2].kind \in {"Struct", "Function"}
        BY NamesAreDeclarations DEF IsDeclaration
      <4> QED BY <1>2, <4>1, <4>2, <4>3, LangOfName
    <3> QED BY <2>4, <3>1, <3>2
  <2>6. b = q[3] /\ LangOfFqn(b[2]) = langOf[f]
    <3>1. PICK p \in Names(f, c) : q[3] = <<p[2].kind, p[1]>>
      BY <2>4
    <3>2. b[2] = p[1]
      BY <2>3, <3>1
    <3> QED BY <1>2, <3>1, <3>2, LangOfName
  <2>7. r = q
    BY <1>1, <2>4, <2>5, <2>6
  <2>8. f \in Present(T) /\ T[f] = c /\ langOf[f] \notin spoilt
    BY <1>5, <1>15, <2>5 DEF Present, Contents
  <2>9. r \in E.rels
    BY <2>7, <2>8 DEF Keeps, DbDraws, DbFramed
  <2> QED BY <1>5, <1>7, <1>8, <2>5, <2>6, <2>9
<1> QED BY <1>4, <1>11, <1>12, <1>13, <1>14, <1>15 DEF Hierarchic

\* A reference of a language nothing has spoilt is the tree's: the name referred
\* to is the one the declaration at the other end still has.
LEMMA SeenReference ==
    ASSUME OwnNames, Legible, NEW T \in Trees, NEW D, NEW hurt, Keeps(D, T, hurt),
           NEW r \in ShownRels(D), r[1] # "Contains", LangOfFqn(r[2][2]) \notin hurt
    PROVE  r \in ShownRels(Rebuild(T))
<1> DEFINE a == r[2]
           b == r[3]
           e == Unrow(r)
<1>1. /\ r \in D.rels /\ r = <<r[1], a, b>> /\ a \in Shown(D) /\ b \in Shown(D)
      /\ a \in DOMAIN D.rows /\ b \in DOMAIN D.rows /\ ValidPair(r[1], a[1], b[1]) /\ b[1] # "Unresolved"
      /\ DbTells(D, T, hurt) /\ RowsPlain(D) /\ LangOfFqn(a[2]) \notin hurt
  BY DEF ShownRels, Shown, Keeps, DbDraws, RelsDrawn
<1>2. /\ r[1] \in {"Calls", "Uses"} /\ a[1] \in {"Struct", "Function"}
      /\ r[1] = "Calls" => a[1] = "Function" /\ b[1] = "Function"
      /\ r[1] = "Uses" => b[1] = "Struct"
  BY <1>1 DEF ValidPair
<1>3. e[1] = r[1] /\ e[2] = a[2] /\ e[3] = b[2]
  BY DEF Unrow
<1>4. \E f \in File : \E c \in Contents(f) : OfFile(e, f, c) /\ (langOf[f] \notin hurt => T[f] = c)
  <2>1. ~Unresolves(e)
    BY <1>2, <1>3 DEF Unresolves
  <2>2. ~Hierarchic(e)
    BY <1>2, <1>3 DEF Hierarchic, Rooted, Linked, Parent, PlanEdge
  <2> QED BY <1>1, <2>1, <2>2 DEF Keeps, DbDraws, RelsDrawn
<1> HIDE DEF a, b, e
<1>f. PICK f \in File : \E c \in Contents(f) : OfFile(e, f, c) /\ (langOf[f] \notin hurt => T[f] = c)
  BY <1>4
<1>5. PICK c \in Contents(f) : OfFile(e, f, c) /\ (langOf[f] \notin hurt => T[f] = c)
  BY <1>f
<1>6. RefersAs(e, f, c) /\ \E p \in Names(f, c) : p[1] = a[2]
  BY <1>2, <1>3, <1>5, EndsOfFile
<1>7. ASSUME NEW k \in DOMAIN D.rows, k[1] \in {"Struct", "Function"}, NEW g \in File, NEW i \in Contents(g),
             NEW p \in Names(g, i), p[1] = k[2]
      PROVE  k = <<p[2].kind, p[1]>>
  BY <1>1, <1>7, CodeRows
<1>8. LangOfFqn(a[2]) = langOf[f] /\ langOf[f] \notin hurt /\ T[f] = c /\ f \in Present(T)
  <2>1. LangOfFqn(a[2]) = langOf[f]
    BY <1>6, LangOfName
  <2> QED BY <1>1, <1>5, <2>1 DEF Present, Contents
<1>9. PICK d \in Named(f, c) : /\ a[2] = FqnIn(f, c, d)
                               /\ \/ r[1] = "Calls" /\ \E x \in d.calls : Meant(x, "Function", b[2])
                                  \/ r[1] = "Uses" /\ \E x \in d.uses : Meant(x, "Struct", b[2])
  BY <1>3, <1>6 DEF RefersAs
<1>10. a = <<d.kind, FqnIn(f, T[f], d)>> /\ d \in declares[f][c] /\ d \in Named(f, T[f])
  <2>1. PICK p \in Names(f, c) : p[1] = FqnIn(f, c, d) /\ p[2].kind = d.kind
    BY NamedAreNames
  <2> QED BY <1>1, <1>2, <1>7, <1>8, <1>9, <2>1, NamedAreNames
<1>11. ASSUME NEW kind, NEW ref, Meant(ref, kind, b[2]),
              \/ r[1] = "Calls" /\ kind = "Function" /\ ref \in d.calls
              \/ r[1] = "Uses" /\ kind = "Struct" /\ ref \in d.uses
       PROVE  r \in Rebuild(T).rels /\ LangOfFqn(b[2]) = langOf[f]
  <2> DEFINE h == ref[1]
  <2>1. h \in File /\ langOf[h] = langOf[f]
    BY <1>10, <1>11, NamesAssumption DEF Contents
  <2>2. b[1] = kind /\ kind \in {"Struct", "Function"} /\ (r[1] = "Calls" => d.kind = "Function")
    <3>1. a[1] = d.kind
      BY <1>10
    <3> QED BY <1>2, <1>11, <3>1
  <2>i. PICK i \in Contents(h) :
           \E x \in declares[h][i] : x.kind = kind /\ x.name = ref[2] /\ b[2] = FqnIn(h, i, x)
    BY <1>11 DEF Meant
  <2>3. PICK x \in declares[h][i] : x.kind = kind /\ x.name = ref[2] /\ b[2] = FqnIn(h, i, x)
    BY <2>i
  <2>g. PICK g \in File : \E j \in Contents(g) :
           <<b[2], D.rows[b]>> \in Names(g, j) /\ (langOf[g] \notin hurt => g \in Present(T) /\ j = T[g])
    <3>1. IsDeclaration(D.rows[b])
      <4>1. D.rows[b].kind = b[1] /\ ~D.rows[b].planned
        BY <1>1 DEF DbTells, Shown
      <4> QED BY <2>2, <4>1 DEF IsDeclaration
    <3> QED BY <1>1, <3>1 DEF DbTells
  <2>4. PICK j \in Contents(g) :
           <<b[2], D.rows[b]>> \in Names(g, j) /\ (langOf[g] \notin hurt => g \in Present(T) /\ j = T[g])
    BY <2>g
  <2>5. PICK q \in Names(g, j) : q[1] = b[2]
    <3> DEFINE q == <<b[2], D.rows[b]>>
    <3>1. q \in Names(g, j) /\ q[1] = b[2]
      BY <2>4
    <3> HIDE DEF q
    <3> QED BY <3>1
  <2>6. b = <<q[2].kind, q[1]>> /\ q[2].kind = kind
    <3>1. b = <<q[2].kind, q[1]>>
      BY <1>1, <1>7, <2>2, <2>5
    <3> QED BY <2>2, <3>1
  <2> HIDE DEF h
  <2>7. x \in Named(h, i)
    <3>1. CASE kind = "Struct"
      BY <2>3, <3>1 DEF Named
    <3>2. CASE kind = "Function"
      <4> SUFFICES ASSUME NEW s \in StructsOf(h, i), StructFqn(s) = FunctionFqn(FunctionsOf(h, i), RecordOf(h, i, x))
                   PROVE  FALSE
        BY <2>3, <3>2 DEF Named
      <4> DEFINE p == <<StructFqn(s), NodeOf("Struct", h, None, i)>>
      <4>1. p \in Names(h, i)
        BY DEF Names, StructPairs
      <4>2. p[1] = b[2] /\ p[2].kind = "Struct"
        BY <2>3, <3>2, FieldsOfANode DEF FqnIn
      <4> HIDE DEF p
      <4>3. p[2].kind = q[2].kind
        BY <2>1, <2>5, <4>1, <4>2, OneOwner
      <4> QED BY <2>6, <3>2, <4>2, <4>3
    <3> QED BY <2>2, <3>1, <3>2
  <2>8. g = h
    <3>1. PICK p \in Names(h, i) : p[1] = b[2]
      BY <2>1, <2>3, <2>7, NamedAreNames
    <3> QED BY <2>1, <2>5, <3>1, OneOwner
  <2>9. g \in Present(T) /\ j = T[g] /\ langOf[g] = langOf[f]
    BY <1>8, <2>1, <2>4, <2>8
  <2>10. PICK y \in Named(g, j) : q[1] = FqnIn(g, j, y) /\ q[2].kind = y.kind
    BY <2>5, NamedAreNames
  <2>11. y.name = ref[2]
    <3>1. FqnIn(g, j, y) = FqnIn(h, i, x)
      BY <2>3, <2>5, <2>10
    <3> QED BY <2>1, <2>3, <2>7, <3>1 DEF Legible
  <2>12. b = <<kind, FqnIn(g, T[g], y)>> /\ y \in Named(g, T[g]) /\ y.kind = kind
    BY <2>6, <2>9, <2>10
  <2>13. <<r[1], a, b>> \in Rebuild(T).rels
    BY <1>8, <1>10, <1>11, <2>2, <2>8, <2>9, <2>11, <2>12, RebuildRefers DEF h
  <2>14. LangOfFqn(b[2]) = langOf[f]
    BY <2>5, <2>9, LangOfName
  <2> QED BY <1>1, <2>13, <2>14
<1>12. r \in Rebuild(T).rels /\ LangOfFqn(b[2]) = langOf[f]
  BY <1>9, <1>11
<1>13. Keeps(Rebuild(T), T, {})
  BY RebuildDraws
<1>14. a \in Shown(Rebuild(T)) /\ b \in Shown(Rebuild(T))
  <2>1. b[1] # "Language" /\ a[1] # "Language"
    BY <1>2
  <2> DEFINE E == Rebuild(T)
  <2> HIDE DEF E
  <2>2. Keeps(E, T, {})
    BY <1>13 DEF E
  <2>3. a \in Shown(E) /\ b \in Shown(E)
    BY <1>1, <1>8, <1>12, <2>1, <2>2, SeenRow
  <2> QED BY <2>3 DEF E
<1> QED BY <1>12, <1>14 DEF ShownRels, a, b

LEMMA RebuiltRels ==
    ASSUME NEW T \in Trees
    PROVE  Rebuilt(T).rels = ShownRels(Rebuild(T))
<1>1. \A U, D : Described(U, D).tree = U /\ Described(U, D).rels = ShownRels(D)
  BY DEF Described
<1>2. \E r \in Rebuilds : r.tree = T
  BY <1>1 DEF Rebuilds
<1>3. \A r \in Rebuilds : r.tree = T => r.rels = ShownRels(Rebuild(T))
  BY <1>1 DEF Rebuilds
<1>4. Rebuilt(T) \in Rebuilds /\ Rebuilt(T).tree = T
  BY <1>2 DEF Rebuilt
<1> QED BY <1>3, <1>4

\* The root of a language of the tree, as a rebuild has it.
LEMMA SeenLanguage ==
    ASSUME OwnNames, Legible, NEW T \in Trees, NEW D, NEW hurt, Keeps(D, T, hurt),
           NEW k \in Shown(Rebuild(T)), k[1] = "Language", LangOfFqn(k[2]) \notin hurt
    PROVE  k \in Shown(D) /\ D.rows[k] = Rebuild(T).rows[k]
<1> DEFINE E == Rebuild(T)
<1>1. Keeps(E, T, {}) /\ k \in DOMAIN E.rows /\ E.rows[k].kind = "Language"
  BY RebuildDraws DEF Shown, Keeps, DbTells
<1>2. PICK f \in Present(T) : k = <<"Language", <<langOf[f]>> >>
  BY <1>1, RebuildLanguages
<1> HIDE DEF E
<1>3. f \in File /\ langOf[f] \in Language /\ langOf[f] \notin File
  BY LanguagesOfFiles, NamesAssumption DEF Present
<1>4. langOf[f] \notin hurt
  <2>1. LangOfFqn(<<langOf[f]>>) = langOf[f]
    BY <1>3 DEF LangOfFqn
  <2>2. k[2] = <<langOf[f]>>
    BY <1>2
  <2> QED BY <2>1, <2>2
<1>5. moduleOf[f] \in Chain(f) /\ moduleOf[f][1] = langOf[f]
  BY <1>3, OwnModule
<1>6. ShownAt(D, k)
  BY <1>2, <1>4, <1>5 DEF Keeps, DbDraws, DbFramed
<1>7. k \in Shown(D)
  BY <1>6 DEF ShownAt, Shown
<1>8. D.rows[k].kind = "Language" /\ PlainNode(k[2], D.rows[k])
  BY <1>6 DEF ShownAt, Keeps, DbTells, DbDraws, RowsPlain
<1>9. PlainNode(k[2], E.rows[k])
  BY <1>1 DEF Keeps, DbDraws, RowsPlain
<1>10. D.rows[k] = Bare("Language") /\ E.rows[k] = Bare("Language")
  BY <1>1, <1>8, <1>9 DEF PlainNode
<1> QED BY <1>7, <1>10 DEF E

\* A fresh database has what the invariants say of a database of its tree.
LEMMA FreshKeeps ==
    ASSUME TreesInv, NEW w \in Worktree, Fresh(w)
    PROVE  /\ Keeps(db[w].graph, tree[w], db[w].hurt) /\ tree[w] \in Trees
           /\ \A l : l \in Sound(w) => l \notin db[w].hurt
<1>1. db[w] # None /\ db[w].key.tree = tree[w]
  BY DEF Fresh, Key
<1>2. DbTells(db[w].graph, tree[w], db[w].hurt) /\ tree[w] \in Trees
  BY <1>1 DEF TreesInv, ModulesInv, DeclsInv, DbDecls, FilesInv, UnitsInv, IInv, RepoOK
<1>3. DbShows(db[w].graph, tree[w], db[w].hurt)
  BY <1>1 DEF TreesInv, ModulesInv, DeclsInv, FilesInv, DbFiles
<1>4. DbDraws(db[w].graph, tree[w], db[w].hurt)
  BY <1>1 DEF TreesInv, DbTrees
<1> QED BY <1>2, <1>3, <1>4 DEF Keeps, Sound

\* Where each file has names of its own and FQNs are read one way, a fresh database
\* shows no file, module, declaration, containment or reference its tree does not
\* have, in any language no fault has touched: everything it shows a rebuild of the
\* tree shows too, the same, whatever was scanned, spliced, reused, killed or
\* overtaken in between and in whichever worktree.
THEOREM FreshShowsTheTree == ASSUME OwnNames, Legible PROVE Spec => []FreshShowsTree
<1>1. ASSUME TreesInv, FreshFiles, FreshDeclarations PROVE FreshShowsTree
  <2> SUFFICES ASSUME NEW w \in Worktree, Fresh(w)
               PROVE  /\ {r \in Rows(db[w].graph, Sound(w)) : r[1][1] # "Language"} \subseteq Rebuilt(tree[w]).rows
                      /\ Rels(db[w].graph, Sound(w)) \subseteq Rebuilt(tree[w]).rels
    BY <1>1 DEF FreshShowsTree
  <2> DEFINE T == tree[w]
             D == db[w].graph
             hurt == db[w].hurt
             langs == Sound(w)
  <2>1. Keeps(D, T, hurt) /\ T \in Trees /\ \A l : l \in langs => l \notin hurt
    BY <1>1, FreshKeeps
  <2>2. /\ Keeps(Rebuild(T), T, {})
        /\ Rebuilt(T).rows = ShownRows(Rebuild(T)) /\ Rebuilt(T).rels = ShownRels(Rebuild(T))
    BY <2>1, RebuildDraws, RebuiltRows, RebuiltRels
  <2> HIDE DEF T, D, hurt, langs
  <2>3. ASSUME NEW r \in Rows(D, langs), r[1][1] # "Language" PROVE r \in ShownRows(Rebuild(T))
    <3>1. PICK k \in Shown(D) : r = <<k, D.rows[k]>>
      BY DEF Rows, ShownRows
    <3>2. k[1] # "Language" /\ LangOfFqn(k[2]) \notin hurt
      BY <2>1, <2>3, <3>1 DEF Rows
    <3>3. k \in Shown(Rebuild(T)) /\ Rebuild(T).rows[k] = D.rows[k]
      BY <2>1, <2>2, <3>2, SeenRow
    <3> QED BY <3>1, <3>3 DEF ShownRows
  <2>4. ASSUME NEW r \in Rels(D, langs) PROVE r \in ShownRels(Rebuild(T))
    <3>1. r \in ShownRels(D) /\ LangOfFqn(r[2][2]) \notin hurt
      BY <2>1 DEF Rels
    <3>2. CASE r[1] = "Contains"
      BY <2>1, <2>2, <3>1, <3>2, SeenContains
    <3>3. CASE r[1] # "Contains"
      BY <2>1, <3>1, <3>3, SeenReference
    <3> QED BY <3>2, <3>3
  <2>5. /\ {r \in Rows(D, langs) : r[1][1] # "Language"} \subseteq Rebuilt(T).rows
        /\ Rels(D, langs) \subseteq Rebuilt(T).rels
    BY <2>2, <2>3, <2>4
  <2> QED BY <2>5 DEF T, D, langs
<1> QED BY <1>1, TreesAlways, FreshHasTheFiles, FreshHasTheDeclarations, PTL

\* Under the same hypotheses it misses none of the tree's languages, modules, files
\* and declarations, nor the containment of any: what a rebuild of the tree shows
\* of them is there, the same, however the database came to be.
THEOREM FreshMissesNothingOfTheTree == ASSUME OwnNames, Legible PROVE Spec => []FreshMissesNothing
<1>1. ASSUME TreesInv PROVE FreshMissesNothing
  <2> SUFFICES ASSUME NEW w \in Worktree, Fresh(w)
               PROVE  /\ {x \in Rebuilt(tree[w]).rows : LangOfFqn(x[1][2]) \in Sound(w)} \subseteq ShownRows(db[w].graph)
                      /\ {r \in Rebuilt(tree[w]).rels : r[1] = "Contains" /\ LangOfFqn(r[2][2]) \in Sound(w)}
                            \subseteq ShownRels(db[w].graph)
    BY DEF FreshMissesNothing
  <2> DEFINE T == tree[w]
             D == db[w].graph
             hurt == db[w].hurt
             langs == Sound(w)
  <2>1. Keeps(D, T, hurt) /\ T \in Trees /\ \A l : l \in langs => l \notin hurt
    BY <1>1, FreshKeeps
  <2>2. /\ Keeps(Rebuild(T), T, {})
        /\ Rebuilt(T).rows = ShownRows(Rebuild(T)) /\ Rebuilt(T).rels = ShownRels(Rebuild(T))
    BY <2>1, RebuildDraws, RebuiltRows, RebuiltRels
  <2> HIDE DEF T, D, hurt, langs
  <2>3. ASSUME NEW x \in ShownRows(Rebuild(T)), LangOfFqn(x[1][2]) \in langs PROVE x \in ShownRows(D)
    <3>1. PICK k \in Shown(Rebuild(T)) : x = <<k, Rebuild(T).rows[k]>>
      BY DEF ShownRows
    <3>2. LangOfFqn(k[2]) \notin hurt
      BY <2>1, <2>3, <3>1
    <3>3. k \in Shown(D) /\ D.rows[k] = Rebuild(T).rows[k]
      <4>1. CASE k[1] = "Language"
        BY <2>1, <3>2, <4>1, SeenLanguage
      <4>2. CASE k[1] # "Language"
        BY <2>1, <2>2, <3>2, <4>2, SeenRow
      <4> QED BY <4>1, <4>2
    <3> QED BY <3>1, <3>3 DEF ShownRows
  <2>4. ASSUME NEW r \in ShownRels(Rebuild(T)), r[1] = "Contains", LangOfFqn(r[2][2]) \in langs
        PROVE  r \in ShownRels(D)
    BY <2>1, <2>2, <2>4, SeenContains
  <2>5. /\ {x \in Rebuilt(T).rows : LangOfFqn(x[1][2]) \in langs} \subseteq ShownRows(D)
        /\ {r \in Rebuilt(T).rels : r[1] = "Contains" /\ LangOfFqn(r[2][2]) \in langs} \subseteq ShownRels(D)
    BY <2>2, <2>3, <2>4
  <2> QED BY <2>5 DEF T, D, langs
<1> QED BY <1>1, TreesAlways, PTL

=============================================================================
