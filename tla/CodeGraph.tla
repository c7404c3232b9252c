------------------------------ MODULE CodeGraph ------------------------------
(***************************************************************************)
(* The code graph and what apg does to it: ingest of a record stream, the  *)
(* splice of cached units, the finalizing pass, the units, indexes and     *)
(* scaffolding taken from it, the full load into a database and the delta  *)
(* splice into a seeded one.  Pure operators.                              *)
(*                                                                         *)
(* An FQN is a sequence of segments, the language first: a module is       *)
(* <<lang, s1, ..>>, a declaration its scope and a name, an overloaded     *)
(* function one segment more.  A file's FQN is <<path>>.  A declaration is *)
(* known in a stream by an opaque id, a tuple beginning with "id".         *)
(***************************************************************************)
EXTENDS Integers, Sequences, FiniteSets

CONSTANT None   \* no location, no parameters, no body; no record

NodeOf(kind, path, params, body) ==
    [kind |-> kind, path |-> path, params |-> params, body |-> body, planned |-> FALSE]
Bare(kind)    == NodeOf(kind, None, None, None)
Planned(kind) == [Bare(kind) EXCEPT !.planned = TRUE]

\* The function a set of pairs describes.
AsFunction(pairs) == [x \in {p[1] : p \in pairs} |-> (CHOOSE p \in pairs : p[1] = x)[2]]

\* What R leads to from S, S included.
Reach(R, S) ==
    LET within[n \in Nat] ==
            IF n = 0 THEN S
            ELSE LET W == within[n - 1] IN W \cup {p[2] : p \in {q \in R : q[1] \in W}}
    IN  within[Cardinality(R)]

Edges(G, table) == {<<e[2], e[3]>> : e \in {x \in G.edges : x[1] = table}}

IsKind(G, fqn, kind) == fqn \in DOMAIN G.nodes /\ G.nodes[fqn].kind = kind
Located(node) == node.kind \in {"Struct", "Function"} /\ node.path # None
EmptyGraph == [nodes |-> << >>, edges |-> {}]

-----------------------------------------------------------------------------
(* Ingest.  A stream is a record of sets: languages, modules <<lang, fqn>>,*)
(* moduleEdges, structs, functions, files, unresolved, planned, and edges  *)
(* <<table, from, to>> whose ends are ids or FQNs.                         *)

EmptyStream == [modules |-> {}, moduleEdges |-> {}, structs |-> {}, functions |-> {},
                files |-> {}, unresolved |-> {}, planned |-> {}, edges |-> {}]

StructFqn(s) == Append(s.parent, s.name)

\* render_function_fqns, of a declaration among those of its stream.
FunctionFqn(decls, d) ==
    LET group == {e \in decls : e.parent = d.parent /\ e.name = d.name}
        plain == Append(d.parent, d.name)
        twins == {e \in group : e.params = d.params}
    IN  IF d.name = "init" /\ \E e \in group : e.lang = "go" THEN Append(plain, d.path)
        ELSE IF Cardinality(group) = 1 THEN plain
        ELSE IF (\A e \in group : e.lang = "py") /\ Cardinality(twins) > 1
        THEN plain \o <<d.params, d.path>>
        ELSE Append(plain, d.params)

\* A struct of the same FQN wins over a function, a type over a module.
StructNames(S) == {StructFqn(s) : s \in S.structs}
Admitted(S)    == {d \in S.functions : FunctionFqn(S.functions, d) \notin StructNames(S)}
TypeNames(S)   == StructNames(S) \cup {FunctionFqn(S.functions, d) : d \in Admitted(S)}
Shadowed(S)    == {m[2] : m \in S.modules} \cap TypeNames(S)

\* id_to_fqn, and the identity of everything that is no id.
ResolveEnd(S, x) ==
    IF \E s \in S.structs : s.id = x THEN StructFqn(CHOOSE s \in S.structs : s.id = x)
    ELSE IF \E d \in Admitted(S) : d.id = x
    THEN FunctionFqn(S.functions, CHOOSE d \in Admitted(S) : d.id = x)
    ELSE x

\* What the stream declares, whatever the order: a declaration takes the place
\* of a planned placeholder and of an unresolved target.
DeclaredNodes(S) ==
    AsFunction(
      {<<StructFqn(s), NodeOf("Struct", s.path, None, s.body)>> : s \in S.structs}
        \cup {<<FunctionFqn(S.functions, d), NodeOf("Function", d.path, d.params, d.body)>> :
                 d \in Admitted(S)}
        \cup {<<m[2], Bare("Module")>> : m \in {x \in S.modules : x[2] \notin Shadowed(S)}}
        \cup {<< <<m[1]>>, Bare("Language")>> : m \in S.modules}
        \cup {<< <<f.path>>, NodeOf("File", f.path, None, f.body)>> : f \in S.files})

Overlaid(declared, planned, unresolved) ==
    [x \in DOMAIN declared \cup DOMAIN planned \cup unresolved |->
        IF x \in DOMAIN declared THEN declared[x]
        ELSE IF x \in DOMAIN planned THEN planned[x] ELSE Bare("Unresolved")]

IngestedNodes(S) ==
    Overlaid(DeclaredNodes(S), AsFunction({<<p.fqn, Planned(p.kind)>> : p \in S.planned}),
             S.unresolved)

\* Containment the ingestor derives: language to module, module to file, file
\* to every declaration located in it.
DerivedEdges(S, G) ==
    {<<"Contains", <<m[1]>>, m[2]>> : m \in {x \in S.modules : IsKind(G, x[2], "Module")}}
      \cup {<<"Contains", f.parent, <<f.path>> >> :
               f \in {x \in S.files : IsKind(G, x.parent, "Module")}}
      \cup {<<"Contains", <<G.nodes[x].path>>, x>> :
               x \in {y \in DOMAIN G.nodes : /\ Located(G.nodes[y])
                                             /\ IsKind(G, <<G.nodes[y].path>>, "File")}}
      \cup {<<"Contains", p.parent, p.fqn>> : p \in {x \in S.planned : x.parent # None}}

\* Pass C: a shadowed module is no parent; the far end of an unresolved edge is
\* a foreign name.
StreamEdges(S) ==
    {<<"Contains", e[1], e[2]>> : e \in {x \in S.moduleEdges : x[1] \notin Shadowed(S)}}
      \cup {<<e[1], ResolveEnd(S, e[2]),
              IF e[1] \in {"UnresolvedCall", "UnresolvedUse"} THEN e[3] ELSE ResolveEnd(S, e[3])>> :
               e \in S.edges}

WithEdges(S, G) == [G EXCEPT !.edges = DerivedEdges(S, G) \cup StreamEdges(S)]

Ingested(S) == WithEdges(S, [nodes |-> IngestedNodes(S), edges |-> {}])

\* The declared pairs of the five code tables.
ValidPair(table, a, b) ==
    CASE table = "Contains" -> <<a, b>> \in
            {<<"Language", "Module">>, <<"Module", "Module">>, <<"Module", "File">>,
             <<"File", "Struct">>, <<"File", "Function">>, <<"Struct", "Struct">>,
             <<"Struct", "Function">>}
      [] table = "Calls"          -> a = "Function" /\ b = "Function"
      [] table = "Uses"           -> a \in {"Function", "Struct"} /\ b = "Struct"
      [] table = "UnresolvedCall" -> a = "Function" /\ b = "Unresolved"
      [] table = "UnresolvedUse"  -> a \in {"Function", "Struct"} /\ b = "Unresolved"
      [] OTHER -> FALSE

\* finalize_graph: dangling edges and wrong kinds go.
Finalized(G) ==
    [G EXCEPT !.edges = {e \in @ : /\ e[2] \in DOMAIN G.nodes /\ e[3] \in DOMAIN G.nodes
                                   /\ ValidPair(e[1], G.nodes[e[2]].kind, G.nodes[e[3]].kind)}]

-----------------------------------------------------------------------------
(* Units, scaffolding and indexes taken from a graph.                      *)

\* file_key_of: the file a node's edges are authored by.
FileKeyOf(G, x) ==
    CASE x \notin DOMAIN G.nodes -> None
      [] IsKind(G, x, "File") -> x[1]
      [] x \in DOMAIN G.nodes /\ Located(G.nodes[x]) -> G.nodes[x].path
      [] OTHER -> None

\* FileIndex: the rows, the edges and the module edges in a file's buckets.
FileRows(G, f)  == {x \in DOMAIN G.nodes : FileKeyOf(G, x) = f}
FileEdges(G, f) == {e \in G.edges : FileKeyOf(G, e[2]) = f}
ModuleEdgesOf(G, f) == {e \in G.edges : e[1] = "Contains" /\ e[3] = <<f>> /\ IsKind(G, e[2], "Module")}

\* The unit of a file, with the unresolved targets its edges name.
UnitOf(G, f) ==
    LET own     == FileEdges(G, f)
        modules == ModuleEdgesOf(G, f)
        carried == {e[3] : e \in {x \in own : x[1] \in {"UnresolvedCall", "UnresolvedUse"}}}
    IN  [modules |-> {e[2] : e \in modules}, edges |-> own \cup modules,
         nodes |-> [x \in FileRows(G, f) \cup (carried \cap DOMAIN G.nodes) |-> G.nodes[x]]]

\* ModuleScaffolding::extract, the share of one language: the components of the
\* module hierarchy its files anchor, with their language root.
ScaffoldingOf(G, lang, langOf) ==
    LET real     == {x \in DOMAIN G.nodes : IsKind(G, x, "Module") /\ ~G.nodes[x].planned}
        hierarchy == {e \in Edges(G, "Contains") : e[1] \in real /\ e[2] \in real}
        anchored == {e[1] : e \in {x \in Edges(G, "Contains") :
                        x[1] \in real /\ IsKind(G, x[2], "File") /\ langOf[x[2][1]] = lang}}
        modules  == real \cap Reach(hierarchy \cup {<<e[2], e[1]>> : e \in hierarchy}, anchored)
        roots    == {e \in Edges(G, "Contains") : e[2] \in modules /\ IsKind(G, e[1], "Language")}
    IN  [modules |-> modules, edges |-> {e \in hierarchy : e[1] \in modules},
         languages |-> {e[1] : e \in roots}, languageEdges |-> roots]

NoScaffolding == [modules |-> {}, edges |-> {}, languages |-> {}, languageEdges |-> {}]

\* file_signature, by file: what a dependent can observe.
SignaturesOf(G, f) ==
    {<<G.nodes[x].kind, x, G.nodes[x].params>> :
        x \in {y \in DOMAIN G.nodes : Located(G.nodes[y]) /\ G.nodes[y].path = f}}

\* overload_key: an overload's FQN carries one segment more than its scope's
\* other members, the rendered parameters.
ScopeOf(G, x) == LET bare == IF x[Len(x)] = G.nodes[x].params THEN SubSeq(x, 1, Len(x) - 1) ELSE x
                 IN  SubSeq(bare, 1, Len(bare) - 1)

\* OverloadIndex: the function scopes of a file.
ScopesOf(G, f) ==
    {ScopeOf(G, x) : x \in {y \in DOMAIN G.nodes :
                               IsKind(G, y, "Function") /\ G.nodes[y].path = f}}

\* DepIndex: file to file.  An unresolved target lies in no file.
DependsOn(G) ==
    {d \in {<<FileKeyOf(G, e[2]), FileKeyOf(G, e[3])>> :
               e \in {x \in G.edges : x[1] # "Contains"}} :
        d[1] # d[2] /\ d[1] # None /\ d[2] # None}

-----------------------------------------------------------------------------
(* Cached units spliced into an ingested graph.                            *)

\* A fresh node keeps its FQN, but for a placeholder.
Yields(old, new) == \/ old.kind = "Unresolved" /\ new.kind # "Unresolved"
                    \/ old.planned /\ ~new.planned

\* The first unit in order that declares an FQN; an unresolved target only when
\* none declares it.
CachedNode(units, x) ==
    LET holders == {i \in DOMAIN units : x \in DOMAIN units[i].nodes}
        real    == {i \in holders : units[i].nodes[x].kind # "Unresolved"}
        first   == CHOOSE i \in (IF real = {} THEN holders ELSE real) :
                       \A j \in (IF real = {} THEN holders ELSE real) : i <= j
    IN  units[first].nodes[x]

MergedNodes(nodes, units) ==
    LET cached == UNION {DOMAIN units[i].nodes : i \in DOMAIN units}
    IN  [x \in DOMAIN nodes \cup cached |->
            IF x \notin DOMAIN nodes THEN CachedNode(units, x)
            ELSE IF x \in cached /\ Yields(nodes[x], CachedNode(units, x))
            THEN CachedNode(units, x) ELSE nodes[x]]

\* Modules of units and of the skipped languages' scaffolding are admitted where
\* nothing real stands.
WithModules(nodes, modules, languages) ==
    [x \in DOMAIN nodes \cup modules \cup languages |->
        IF x \in modules /\ (x \notin DOMAIN nodes \/ nodes[x].planned) THEN Bare("Module")
        ELSE IF x \in DOMAIN nodes THEN nodes[x] ELSE Bare("Language")]

\* Unresolved edges whose target turned out to be real.
Resolved(G) ==
    LET Real(e) == CASE e[1] = "UnresolvedCall" -> IsKind(G, e[2], "Function") /\ IsKind(G, e[3], "Function")
                     [] e[1] = "UnresolvedUse"  -> Located(G.nodes[e[2]]) /\ IsKind(G, e[3], "Struct")
                     [] OTHER -> FALSE
        edges   == {IF Real(e) THEN <<IF e[1] = "UnresolvedCall" THEN "Calls" ELSE "Uses", e[2], e[3]>>
                    ELSE e : e \in G.edges}
        named   == {e[3] : e \in {x \in edges : x[1] \in {"UnresolvedCall", "UnresolvedUse"}}}
    IN  [edges |-> edges,
         nodes |-> [x \in {y \in DOMAIN G.nodes : G.nodes[y].kind # "Unresolved" \/ y \in named}
                       |-> G.nodes[x]]]

\* splice_cached.
WithCached(G, units, scaffolding) ==
    LET modules == (UNION {units[i].modules : i \in DOMAIN units})
                     \cup (UNION {s.modules : s \in scaffolding})
        nodes   == WithModules(MergedNodes(G.nodes, units), modules,
                               UNION {s.languages : s \in scaffolding})
        replay  == {<<"Contains", e[1], e[2]>> :
                       e \in UNION {s.edges \cup s.languageEdges : s \in scaffolding}}
        cached  == {e \in UNION {units[i].edges : i \in DOMAIN units} :
                       e[2] \in DOMAIN nodes /\ e[3] \in DOMAIN nodes}
    IN  Resolved([nodes |-> nodes, edges |-> G.edges \cup replay \cup cached])

-----------------------------------------------------------------------------
(* The database: rows by <<table, fqn>>, rels <<table, row, row>>.         *)

Row(G, x) == <<G.nodes[x].kind, x>>

\* The full load: one row per node, one rel per edge.
Loaded(G) == [rows |-> AsFunction({<<Row(G, x), G.nodes[x]>> : x \in DOMAIN G.nodes}),
              rels |-> {<<e[1], Row(G, e[2]), Row(G, e[3])>> : e \in G.edges}]

RowsOf(D, table) == {k \in DOMAIN D.rows : k[1] = table}

\* module_file_subtrees: the files under a seeded module.
Subtree(D, m) ==
    LET below == {<<r[2], r[3]>> : r \in {x \in D.rels : x[1] = "Contains" /\ x[2][1] = "Module"}}
    IN  {k[2][1] : k \in {y \in Reach(below, {<<"Module", m>>}) : y[1] = "File"}}

SeededModules(D) == {k[2] : k \in RowsOf(D, "Module")}

\* A seeded placeholder the assembled graph now declares.
Heals(D, G, x) == /\ Row(G, x) \in DOMAIN D.rows /\ D.rows[Row(G, x)].planned
                  /\ ~G.nodes[x].planned

\* Step 1: the nodes of the assembled graph the splice writes.
DeltaNodes(D, G, targets) ==
    {x \in DOMAIN G.nodes :
        LET node == G.nodes[x] IN
        CASE node.kind = "Language" -> TRUE
          [] node.kind = "Module" ->
                \/ x \notin SeededModules(D) \/ Heals(D, G, x)
                \/ ~D.rows[<<"Module", x>>].planned /\ Subtree(D, x) \cap targets # {}
          [] node.kind \in {"File", "Struct", "Function"} ->
                node.path \in targets \/ (Heals(D, G, x) /\ node.path # None)
          [] OTHER -> FALSE}

\* Step 2: the seed rows the target set owns, the modules wholly inside it, and
\* the declarations of removed files.
DeleteScope(D, targets, removed) ==
    {k \in DOMAIN D.rows :
        \/ k[1] \in {"Struct", "Function", "File"} /\ D.rows[k].path \in targets
        \/ /\ k[1] = "Module" /\ ~D.rows[k].planned
           /\ Subtree(D, k[2]) # {} /\ Subtree(D, k[2]) \subseteq targets
        \/ k[1] \in {"Function", "Struct", "File", "Module"} /\ k[2] \in removed
             /\ ~D.rows[k].planned}

Disappearing(D, G, targets, removed) ==
    {k \in DeleteScope(D, targets, removed) : k[2] \notin DeltaNodes(D, G, targets)}

\* Step 3: the rels its own tables let a node author.
Authors(table, k) ==
    CASE k[1] = "Function" -> table # "Contains"
      [] k[1] = "Struct"   -> table \in {"Uses", "UnresolvedUse", "Contains"}
      [] k[1] \in {"File", "Module"} -> table = "Contains"
      [] OTHER -> FALSE

\* Step 6, endpoint_label: the graph's kind, else a seeded row that is no
\* placeholder.
LabelledEnd(D, G, x) ==
    IF x \in DOMAIN G.nodes THEN {Row(G, x)}
    ELSE {k \in DOMAIN D.rows : /\ k[2] = x /\ ~D.rows[k].planned
                                /\ k[1] \in {"Function", "Struct", "File", "Module"}}

\* The edges a delta merges: those its nodes author, and additively a Contains
\* from a module it left alone to a child it wrote.
Merging(delta, e) == e[2] \in delta \/ (e[1] = "Contains" /\ e[3] \in delta)

MergedRels(D, G, targets, removed) ==
    LET delta == DeltaNodes(D, G, targets)
        gone  == {k[2] : k \in Disappearing(D, G, targets, removed)}
    IN  {r \in UNION {{<<e[1], a, b>> : a \in LabelledEnd(D, G, e[2]), b \in LabelledEnd(D, G, e[3])} :
                  e \in {x \in G.edges : Merging(delta, x) /\ x[3] \notin gone}} :
            ValidPair(r[1], r[2][1], r[3][1])}

\* upsert_node: on a row that stands, a placeholder leaves the status as it is.
Upserted(D, node, k) ==
    IF node.planned /\ k \in DOMAIN D.rows /\ ~D.rows[k].planned
    THEN [node EXCEPT !.planned = FALSE] ELSE node

\* The delta application, steps 3 to 8.
Applied(D, G, targets, removed) ==
    LET delta    == {Row(G, x) : x \in DeltaNodes(D, G, targets)}
        gone     == Disappearing(D, G, targets, removed)
        kept     == {r \in D.rels : ~(r[2] \in delta \cup gone /\ Authors(r[1], r[2]))}
        merged   == MergedRels(D, G, targets, removed)
        targeted == {r[3] : r \in {x \in merged : x[1] \in {"UnresolvedCall", "UnresolvedUse"}}}
        rows     == (DOMAIN D.rows \cup delta \cup targeted) \ gone
        rels     == {r \in kept \cup merged : r[2] \in rows /\ r[3] \in rows}
        named    == {r[3] : r \in rels}
    IN  [rows |-> [k \in {y \in rows : y[1] # "Unresolved" \/ y \in named} |->
                      IF k \in delta \cup targeted THEN Upserted(D, G.nodes[k[2]], k) ELSE D.rows[k]],
         rels |-> rels]

=============================================================================
