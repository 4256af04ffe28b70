-------------------------- MODULE MCHotReloadState --------------------------
(* HotReloadState on versions of one small script: a counter n, a table t with
   a field k, a second table u, and functions f, g and h. *)
EXTENDS HotReloadState, TLC

CONSTANTS v1, v2, v3, v4, v5

\* Expressions and bodies.
num(i) == [is |-> "int", val |-> i]
tbl(x, y) == [is |-> "table", val |-> [k |-> x, l |-> y]]
ref(x) == [is |-> "name", val |-> x]
fn(what, x, tag) == [is |-> "func", val |-> [does |-> what, name |-> x, tag |-> tag]]

\* Statements.
decl(x, v) == [op |-> "decl", name |-> x, expr |-> v]
func(x, v) == [op |-> "func", name |-> x, expr |-> v]
assign(x, v) == [op |-> "assign", name |-> x, expr |-> v]
setfield(x, key, v) == [op |-> "setfield", name |-> x, key |-> key, expr |-> v]
docall(x) == [op |-> "call", name |-> x]
fail == [op |-> "fail"]

\* n := 0; t := {k = 1}; u := {}; t.l = u; func f: n += 1; func g: f()
VersionA == <<decl("n", num(0)), decl("t", tbl(Num(1), Nil)), decl("u", tbl(Nil, Nil)),
              setfield("t", "l", ref("u")),
              func("f", fn("bump", "n", 1)), func("g", fn("call", "f", 1))>>
\* n := 7; t := {k = 5, l = 2}; func f changed; f(); n = 9; h new
VersionB == <<decl("n", num(7)), decl("t", tbl(Num(5), Num(2))),
              func("f", fn("bump", "n", 2)), docall("f"), assign("n", num(9)),
              func("h", fn("reset", "t", 1))>>
\* like A with t built empty and h kept, g a literal
VersionC == <<decl("t", tbl(Nil, Num(3))), func("f", fn("bump", "n", 1)),
              decl("g", fn("call", "f", 1)), func("h", fn("reset", "t", 1)), docall("h")>>
\* changes everything it can reach and then fails
VersionD == <<setfield("t", "k", tbl(Num(8), Nil)), setfield("u", "k", num(4)),
              decl("u", tbl(Num(4), Nil)), func("f", fn("bump", "n", 3)),
              decl("m", num(1)), docall("g"), fail>>
\* calls, reads a table that version C never declared, and assigns to a name
\* that is not defined
VersionE == <<docall("f"), setfield("t", "l", ref("u")), assign("m", num(2))>>

\* The versions are programs of the kind that the theorems are about.
ASSUME UsualPrograms == OneDeclaration /\ FunctionsOnlyDeclared /\ ScalarsApart({"n", "m"})

Versions == v1 :> VersionA @@ v2 :> VersionB @@ v3 :> VersionC @@ v4 :> VersionD @@ v5 :> VersionE
=============================================================================
