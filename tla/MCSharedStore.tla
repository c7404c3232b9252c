---------------------------- MODULE MCSharedStore ----------------------------
(* f: a struct with a method that calls the overloads of n and uses a       *)
(* struct; g and k overload n in a nested module, where g has the struct; h *)
(* is of another language.  Content c of g changes a signature, drops the   *)
(* struct and realizes a planned function.  In the Lost instance there are  *)
(* f and g alone, and f only uses the struct.                               *)
EXTENDS SharedStore, TLC

CONSTANTS w1, w2, f, g, k, h, a, c

Decl(kind, within, name, params, calls, uses) ==
    [kind |-> kind, within |-> within, name |-> name, params |-> params,
     calls |-> calls, uses |-> uses]
Fn(name, params) == Decl("Function", << >>, name, params, {}, {})
Struct(name)     == Decl("Struct", << >>, name, None, {}, {})

MCLang   == f :> "cpp" @@ g :> "cpp" @@ k :> "cpp" @@ h :> "go"
MCModule == f :> <<"cpp", "p">> @@ g :> <<"cpp", "p", "q">> @@ k :> <<"cpp", "p", "q">>
              @@ h :> <<"go", "r">>
MCOrder  == <<f, g, h, k>>
DeclaresWith(fCalls) ==
    f :> (a :> {Struct("S"), Decl("Function", <<"S">>, "m", "()", fCalls, {<<g, "T">>})})
 @@ g :> (a :> {Fn("n", "()"), Struct("T")} @@ c :> {Fn("n", "(T)"), Fn("z", "()")})
 @@ k :> (a :> {Fn("n", "(int)")})
 @@ h :> (a :> {Fn("init", "()")})
MCDeclares == DeclaresWith({<<g, "n">>})
MCPlaceholders == {[fqn |-> <<"cpp", "p", "q", "z">>, kind |-> "Function",
                    parent |-> <<"cpp", "p", "q">>]}
MCContents == f :> {a, Missing} @@ g :> {a, c} @@ k :> {a} @@ h :> {a}
MCFirst    == [x \in {f, g, k, h} |-> a]

\* The worktrees are interchangeable.
Sym == Permutations(Worktree)

LostDeclares == DeclaresWith({})
LostContents == f :> {a} @@ g :> {a, c} @@ k :> {} @@ h :> {}
LostFirst    == [MCFirst EXCEPT ![k] = Missing, ![h] = Missing]
=============================================================================
