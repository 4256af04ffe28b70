--------------------------- MODULE HotReloadState ---------------------------
(***************************************************************************)
(* What HotInstance.applyProgram does to the state of a persistent VM      *)
(* (hotloader.go, vm.go and the interpreter's global environment): the new *)
(* program is rewritten so that existing state survives, its top level     *)
(* runs statement by statement, and then either the preserved state is     *)
(* merged back or, after an error, the globals are rolled back from a deep *)
(* snapshot.                                                               *)
(*                                                                         *)
(* A global is a name bound to a cell (runtime.Upvalue).  In the tree-     *)
(* walking engine a closure captures the cells of the names its body uses; *)
(* in the bytecode engine it finds globals by name, and the host can only  *)
(* call it while the instance has a bytecode VM.  A program is a sequence  *)
(* of the statements that the rewriting tells apart, and a function body   *)
(* does one of the things that tell two cells of one name apart: it adds   *)
(* one to a global, assigns it a new table, or calls what it holds.        *)
(***************************************************************************)
EXTENDS Integers, FiniteSets, Sequences

CONSTANTS
    Names,      \* names of globals
    Keys,       \* keys of table fields
    Programs,   \* the versions of the source file
    Code,       \* the statements of each version
    Engines,    \* the engines of the instance: "tree", "bytecode"
    None,       \* no program
    MaxApplies, \* bound: programs applied to the instance
    MaxCalls    \* bound: host calls

(* What a program is made of.  A body is that of a function literal; a table
   constructor holds constants. *)
Constant == {<<"nil", 0>>} \cup ({"int"} \X Int)
Body == [does : {"bump", "reset", "call"}, name : Names, tag : Int]
Literal == [is : {"func"}, val : Body]
Expr == [is : {"int"}, val : Int] \cup [is : {"table"}, val : [Keys -> Constant]]
          \cup Literal \cup [is : {"name"}, val : Names]
Stmt == [op : {"decl", "assign"}, name : Names, expr : Expr]
          \cup [op : {"func"}, name : Names, expr : Literal]
          \cup [op : {"setfield"}, name : Names, key : Keys, expr : Expr]
          \cup [op : {"call"}, name : Names] \cup [op : {"fail"}]

ASSUME ReloadAssumption ==
    /\ Engines \subseteq {"tree", "bytecode"} /\ IsFiniteSet(Names)
    /\ None \notin Programs /\ Code \in [Programs -> Seq(Stmt)]

VARIABLES
    engine,  \* the engine the options of the VM chose
    env,     \* interp.globals: the cell of each name, 0 when unbound
    cells,   \* the values of the cells, in order of creation
    tabs,    \* the fields of the tables, in order of creation
    funs,    \* the closures, in order of creation
    bvm,     \* whether vm.bvm is set
    applied, \* inst.appliedSnapshot.program
    run,     \* the program being applied and the state it started from
    budget   \* applications, host calls and rollbacks so far

vars == <<engine, env, cells, tabs, funs, bvm, applied, run, budget>>

-----------------------------------------------------------------------------
(* Values and cells. *)

Nil == <<"nil", 0>>
Num(i) == <<"int", i>>
Tab(t) == <<"tab", t>>
Fun(f) == <<"fun", f>>

IsTable(v) == v[1] = "tab"
IsFunction(v) == v[1] = "fun"

Bound(n) == n \in Names /\ env[n] # 0
Value(n) == IF Bound(n) THEN cells[env[n]] ELSE Nil

Idle == [prog |-> None, rest |-> <<>>, preserve |-> FALSE, env |-> [n \in Names |-> 0],
         values |-> [n \in Names |-> Nil], heap |-> <<>>]

(* Between two operations of the instance. *)
Ready == run.prog = None

(* The globals of the snapshot that applyProgram takes first. *)
Before == {n \in Names : run.env[n] # 0}

(* A closure over the environment e.  FreeVars finds the cells that exist when
   the closure is made; the bytecode engine captures no global. *)
Closure(b, e) ==
    [body |-> b,
     cap |-> [n \in Names |-> IF engine = "tree" /\ n = b.name THEN e[n] ELSE 0]]

(* The cell that closure f uses for a name: the captured one, or what the
   name denotes now. *)
CellOf(f, n) == IF funs[f].cap[n] # 0 THEN funs[f].cap[n] ELSE env[n]

-----------------------------------------------------------------------------
(* hotReloadProgram: the statements of the new program that will run. *)

(* The entry of hotReloadFunctionFingerprints for a name: the last statement
   that declares it.  Fingerprints of functions and of declared values differ
   in the type they start with. *)
Previous(n) ==
    LET is == {i \in 1..Len(Code[applied]) :
                 Code[applied][i].op \in {"func", "decl"} /\ Code[applied][i].name = n}
    IN  IF is = {} THEN [op |-> "none"]
        ELSE Code[applied][CHOOSE i \in is : \A j \in is : j <= i]

(* Mutant: only unchanged functions are preserved. *)
PreserveOnlyFunctions(s) ==
    /\ Bound(s.name)
    /\ IsFunction(Value(s.name))
    /\ Previous(s.name) = s

ShouldPreserveDeclaredName(s) ==
    /\ Bound(s.name)
    /\ ~IsTable(Value(s.name))
    /\ IsFunction(Value(s.name)) => Previous(s.name) = s

HasStateBinding(n) == Bound(n) /\ ~IsFunction(Value(n))

(* Mutant: a function is taken for unchanged when its name is declared. *)
SkipByName(s) ==
    \/ s.op = "func" /\ Previous(s.name).op = "func"
    \/ s.op = "decl" /\ ShouldPreserveDeclaredName(s)
    \/ s.op = "assign" /\ HasStateBinding(s.name)

ShouldSkip(s) ==
    \/ s.op = "func" /\ Previous(s.name) = s
    \/ s.op = "decl" /\ ShouldPreserveDeclaredName(s)
    \/ s.op = "assign" /\ HasStateBinding(s.name)

Rewritten(p) ==
    LET kept[i \in 0..Len(Code[p])] ==
          IF i = 0 THEN <<>>
          ELSE IF ShouldSkip(Code[p][i]) THEN kept[i - 1]
          ELSE Append(kept[i - 1], Code[p][i])
    IN  kept[Len(Code[p])]

-----------------------------------------------------------------------------
(* Statements.  The expressions are constants, table constructors, function
   literals and names. *)

Eval(x) ==
    CASE x.is = "int"   -> Num(x.val)
      [] x.is = "table" -> Tab(Len(tabs) + 1)
      [] x.is = "func"  -> Fun(Len(funs) + 1)
      [] OTHER          -> Value(x.val)

(* The objects after evaluating x. *)
TabsAfter(x) == IF x.is = "table" THEN Append(tabs, x.val) ELSE tabs
FunsAfter(x, e) == IF x.is = "func" THEN Append(funs, Closure(x.val, e)) ELSE funs

Allocate(x, e) == tabs' = TabsAfter(x) /\ funs' = FunsAfter(x, e)

(* Environment.Define makes a new cell, also for a name that has one. *)
Redefined(n) == [env EXCEPT ![n] = Len(cells) + 1]

ExecDeclare(s) ==
    /\ Allocate(s.expr, env)
    /\ cells' = Append(cells, Eval(s.expr))
    /\ env' = Redefined(s.name)

(* The name is defined before the closure is made. *)
ExecFuncDecl(s) ==
    /\ Allocate(s.expr, Redefined(s.name))
    /\ cells' = Append(cells, Eval(s.expr))
    /\ env' = Redefined(s.name)

(* Environment.Set writes the cell in place. *)
ExecAssign(s) ==
    /\ Bound(s.name)
    /\ Allocate(s.expr, env)
    /\ cells' = [cells EXCEPT ![env[s.name]] = Eval(s.expr)]
    /\ env' = env

ExecSetField(s) ==
    /\ IsTable(Value(s.name))
    /\ tabs' = [TabsAfter(s.expr) EXCEPT ![Value(s.name)[2]][s.key] = Eval(s.expr)]
    /\ funs' = FunsAfter(s.expr, env)
    /\ UNCHANGED <<env, cells>>

(* The function that runs when f is called: f, or the one it calls. *)
Callee(f) ==
    IF funs[f].body.does = "call" THEN cells[CellOf(f, funs[f].body.name)][2] ELSE f

(* Whether the call finds a function, and a number to add to. *)
Runs(f) ==
    /\ funs[f].body.does = "call" =>
          CellOf(f, funs[f].body.name) # 0 /\ IsFunction(cells[CellOf(f, funs[f].body.name)])
    /\ LET b == funs[Callee(f)].body
           c == CellOf(Callee(f), b.name)
       IN  c # 0 /\ (b.does = "bump" => cells[c][1] = "int")

CallFunction(f) ==
    LET b == funs[Callee(f)].body
        c == CellOf(Callee(f), b.name)
    IN  /\ \/ /\ b.does = "bump"
              /\ cells' = [cells EXCEPT ![c] = Num(cells[c][2] + 1)]
              /\ tabs' = tabs
           \/ /\ b.does = "reset"
              /\ tabs' = Append(tabs, [k \in Keys |-> Nil])
              /\ cells' = [cells EXCEPT ![c] = Tab(Len(tabs) + 1)]
        /\ UNCHANGED <<env, funs>>

ExecCall(s) ==
    /\ IsFunction(Value(s.name)) /\ Runs(Value(s.name)[2])
    /\ CallFunction(Value(s.name)[2])

Exec(s) ==
    \/ s.op = "decl" /\ ExecDeclare(s)
    \/ s.op = "func" /\ ExecFuncDecl(s)
    \/ s.op = "assign" /\ ExecAssign(s)
    \/ s.op = "setfield" /\ ExecSetField(s)
    \/ s.op = "call" /\ ExecCall(s)

HasExpr(s) == s.op \notin {"call", "fail"}

(* The statement raises an error: an explicit one, an assignment to a name
   that is not defined, a field of or a call to something else.  The tree
   engine also refuses to read a name that is not defined, which the bytecode
   engine reads as nil. *)
Fails(s) ==
    \/ s.op = "fail"
    \/ engine = "tree" /\ HasExpr(s) /\ s.expr.is = "name" /\ ~Bound(s.expr.val)
    \/ s.op = "assign" /\ ~Bound(s.name)
    \/ s.op = "setfield" /\ ~IsTable(Value(s.name))
    \/ s.op = "call" /\ ~(IsFunction(Value(s.name)) /\ Runs(Value(s.name)[2]))

-----------------------------------------------------------------------------
(* The rollback: hotReloadRestoreGlobals. *)

OldTables == {run.values[n][2] : n \in {m \in Names : IsTable(run.values[m])}}

WithNested(R) ==
    R \cup {t \in 1..Len(run.heap) : \E r \in R, k \in Keys : run.heap[r][k] = Tab(t)}

(* The tables reachable from the globals when the snapshot was taken. *)
Reachable ==
    LET reach[i \in 0..Len(run.heap)] ==
          IF i = 0 THEN OldTables ELSE WithNested(reach[i - 1])
    IN  {t \in 1..Len(run.heap) : t \in reach[Len(run.heap)]}

(* The deep snapshot holds one clone per reachable table (nobody can see the
   clones before a rollback, so they are made here). *)
CloneOf(t, R) == Len(tabs) + Cardinality({r \in R : r <= t})

(* Mutant: nested tables are left out of the snapshot. *)
CloneFieldsFlat(t, R) ==
    [k \in Keys |-> IF IsTable(run.heap[t][k]) THEN Nil ELSE run.heap[t][k]]

CloneFields(t, R) ==
    [k \in Keys |-> IF IsTable(run.heap[t][k]) THEN Tab(CloneOf(run.heap[t][k][2], R))
                    ELSE run.heap[t][k]]

(* Mutant: the nested tables of the snapshot are dropped. *)
RestoredShallow ==
    LET R == Reachable
    IN  [t \in 1..Len(tabs) |-> IF t \in OldTables THEN CloneFields(t, R) ELSE tabs[t]]

(* hotReloadRestoreTable copies the fields of the clone, whose nested tables
   are clones too, into the global's own table. *)
RestoredTabs ==
    LET R == Reachable
    IN  [t \in 1..(Len(tabs) + Cardinality(R)) |->
           IF t > Len(tabs) THEN CloneFields(CHOOSE r \in R : CloneOf(r, R) = t, R)
           ELSE IF t \in OldTables THEN CloneFields(t, R)
           ELSE tabs[t]]

(* Interpreter.ReplaceGlobals: a new environment, hence new cells. *)
ReplaceGlobals(globals, values) ==
    LET rank(n) == Cardinality({m \in globals : run.env[m] <= run.env[n]})
    IN  /\ cells' = cells \o [i \in 1..Cardinality(globals) |->
                               values[CHOOSE n \in globals : rank(n) = i]]
        /\ env' = [n \in Names |-> IF n \in globals THEN Len(cells) + rank(n) ELSE 0]

-----------------------------------------------------------------------------
(* The state that survives: preserveHotReloadState. *)

(* The globals that were state before and still are. *)
Preserved ==
    {n \in Before : /\ Bound(n)
                    /\ ~IsFunction(Value(n)) /\ ~IsFunction(run.values[n])}

(* The pairs <<existing table, fresh table>> of the globals that hold one. *)
MergeRoots ==
    {<<run.values[n][2], Value(n)[2]>> :
        n \in {m \in Preserved : IsTable(run.values[m]) /\ IsTable(Value(m))}}

(* The pairs P and those that a pair of P holds in the same field, the first
   table in the heap ts and the second one in the heap us. *)
WithNestedPairs(ts, us, P) ==
    P \cup
    UNION {{<<ts[p[1]][k][2], us[p[2]][k][2]>> :
              k \in {l \in Keys : IsTable(ts[p[1]][l]) /\ IsTable(us[p[2]][l])}} : p \in P}

(* The pairs that hotReloadMergeTables visits from a root, in the heap ts. *)
MergePairs(ts, root) ==
    LET pairs[i \in 0..Len(ts)] ==
          IF i = 0 THEN {root} ELSE WithNestedPairs(ts, ts, pairs[i - 1])
    IN  pairs[Len(ts)]

(* Mutant: the merge takes the fresh field. *)
MergeFieldFresh(old, fresh) == IF fresh = Nil THEN old ELSE fresh

(* A field that is missing gets the fresh value, a function is replaced by a
   function, and any other field stays. *)
MergeField(old, fresh) ==
    IF old = Nil \/ (IsFunction(old) /\ IsFunction(fresh)) THEN fresh ELSE old

MergeTables(ts, root) ==
    LET P == MergePairs(ts, root)
    IN  [t \in 1..Len(ts) |->
           IF \E p \in P : p[1] = t
             THEN LET fresh == (CHOOSE p \in P : p[1] = t)[2]
                  IN  [k \in Keys |-> MergeField(ts[t][k], ts[fresh][k])]
             ELSE ts[t]]

(* The globals are visited in the order of a Go map: any. *)
MergeOrders ==
    {o \in [1..Cardinality(MergeRoots) -> MergeRoots] : \A r \in MergeRoots : \E i \in DOMAIN o : o[i] = r}

MergedBy(order) ==
    LET merged[i \in 0..Len(order)] ==
          IF i = 0 THEN tabs ELSE MergeTables(merged[i - 1], order[i])
    IN  merged[Len(order)]

MergedTabs(order) == [t \in 1..Len(tabs) |-> MergedBy(order)[t]]

(* Mutant: the merged tables are not assigned back to their globals. *)
PreserveOnlyMerges ==
    /\ \E o \in MergeOrders : tabs' = MergedTabs(o)
    /\ UNCHANGED <<env, cells, funs>>

(* AssignGlobal writes the old value into the cell of the name. *)
PreserveHotReloadState ==
    /\ \E o \in MergeOrders : tabs' = MergedTabs(o)
    /\ cells' = [c \in 1..Len(cells) |->
                   IF \E n \in Preserved : env[n] = c
                     THEN run.values[CHOOSE n \in Preserved : env[n] = c] ELSE cells[c]]
    /\ UNCHANGED <<env, funs>>

-----------------------------------------------------------------------------
(* The operations of the instance. *)

Init ==
    /\ engine \in Engines
    /\ env = [n \in Names |-> 0]
    /\ cells = <<>> /\ tabs = <<>> /\ funs = <<>>
    /\ bvm = FALSE
    /\ applied = None
    /\ run = Idle
    /\ budget = [applies |-> 0, calls |-> 0, rollbacks |-> 0]

(* applyProgram begins: for LoadInstance with preserve false, for Reload with
   preserve true and the program rewritten. *)
Apply(p) ==
    /\ Ready
    /\ budget.applies < MaxApplies
    /\ run' = [prog |-> p,
               rest |-> IF applied = None THEN Code[p] ELSE Rewritten(p),
               preserve |-> applied # None,
               env |-> env,
               values |-> [n \in Names |-> Value(n)],
               heap |-> tabs]
    /\ budget' = [budget EXCEPT !.applies = @ + 1]
    /\ UNCHANGED <<env, cells, tabs, funs, bvm, applied>>

(* vm.RunContext: the next statement of the top level. *)
Statement ==
    /\ ~Ready /\ run.rest # <<>>
    /\ ~Fails(Head(run.rest))
    /\ Exec(Head(run.rest))
    /\ run' = [run EXCEPT !.rest = Tail(@)]
    /\ UNCHANGED <<bvm, applied, budget>>

(* The top level has run: the state is preserved and the program recorded. *)
Commit ==
    /\ ~Ready /\ run.rest = <<>>
    /\ IF run.preserve THEN PreserveHotReloadState ELSE UNCHANGED <<env, cells, tabs, funs>>
    /\ bvm' = (engine = "bytecode")
    /\ applied' = run.prog
    /\ run' = Idle
    /\ UNCHANGED budget

(* A statement fails (a done context counts as one: see the "fail" statement):
   hotReloadRestoreGlobals, which also drops the bytecode VM. *)
Rollback ==
    /\ ~Ready /\ run.rest # <<>>
    /\ Fails(Head(run.rest))
    /\ tabs' = RestoredTabs
    /\ ReplaceGlobals(Before, run.values)
    /\ bvm' = FALSE
    /\ run' = Idle
    /\ budget' = [budget EXCEPT !.rollbacks = @ + 1]
    /\ UNCHANGED <<funs, applied>>

(* Where inst.Call sends a function: the bytecode VM when there is one, else
   the tree walker, which knows nothing of bytecode closures. *)
Callable == engine = "tree" \/ bvm

Call(n) ==
    /\ Ready /\ applied # None
    /\ budget.calls < MaxCalls
    /\ Callable
    /\ IsFunction(Value(n)) /\ Runs(Value(n)[2])
    /\ CallFunction(Value(n)[2])
    /\ budget' = [budget EXCEPT !.calls = @ + 1]
    /\ UNCHANGED <<bvm, applied, run>>

Next ==
    /\ \/ \E p \in Programs : Apply(p)
       \/ Statement
       \/ Commit
       \/ Rollback
       \/ \E n \in Names : Call(n)
    /\ UNCHANGED engine

Spec == Init /\ [][Next]_vars

-----------------------------------------------------------------------------
(* Properties. *)

(* Names are bound to cells, values refer to objects that exist: the clones of
   a rollback included. *)
TypeOK ==
    /\ env \in [Names -> 0..Len(cells)]
    /\ \A c \in 1..Len(cells) :
          \/ IsTable(cells[c]) /\ cells[c][2] \in 1..Len(tabs)
          \/ IsFunction(cells[c]) /\ cells[c][2] \in 1..Len(funs)
          \/ cells[c][1] \in {"nil", "int"}
    /\ \A t \in 1..Len(tabs), k \in Keys :
          IsTable(tabs[t][k]) => tabs[t][k][2] \in 1..Len(tabs)
    /\ bvm \in BOOLEAN
    /\ applied \in Programs \cup {None}

Committed == ~Ready /\ Ready' /\ run.rest = <<>>
RolledBack == ~Ready /\ Ready' /\ run.rest # <<>>

(* "Existing scalar globals are preserved; existing table globals keep
   identity": whatever a reloaded top level declared, assigned or called, the
   globals that were state have the value they had before the reload. *)
ReloadKeepsState ==
    [][Committed /\ run.preserve =>
         \A n \in Before :
            ~IsFunction(run.values[n]) /\ ~IsFunction(Value(n)') => Value(n)' = run.values[n]]_vars

(* "New table fields and defaults are merged into existing tables": a field
   that is state survives the defaults of the new program, in the tables of the
   globals and in those nested in them. *)
ReloadKeepsFields ==
    [][Committed /\ run.preserve =>
         \A t \in 1..Len(run.heap), k \in Keys :
            tabs[t][k] # Nil /\ ~IsFunction(tabs[t][k]) => tabs'[t][k] = tabs[t][k]]_vars

(* What programs keep to, for the two properties that follow: a program declares
   a name once, names of functions are not assigned, and some names hold numbers
   while the others never do. *)
OneDeclaration ==
    \A p \in Programs : \A i, j \in 1..Len(Code[p]) :
        /\ Code[p][i].op \in {"func", "decl"} /\ Code[p][j].op \in {"func", "decl"}
        /\ Code[p][i].name = Code[p][j].name
        => i = j

FunctionNames ==
    {n \in Names : \E p \in Programs : \E i \in 1..Len(Code[p]) :
                      Code[p][i].op = "func" /\ Code[p][i].name = n}

ResetsOneOf(s, S) ==
    HasExpr(s) /\ s.expr.is = "func" /\ s.expr.val.does = "reset" /\ s.expr.val.name \in S

FunctionsOnlyDeclared ==
    \A p \in Programs : \A i \in 1..Len(Code[p]) :
        /\ Code[p][i].op = "assign" => Code[p][i].name \notin FunctionNames
        /\ ~ResetsOneOf(Code[p][i], FunctionNames)

ScalarExpr(x, S) == x.is = "int" \/ (x.is = "name" /\ x.val \in S)
ScalarsApart(S) ==
    \A p \in Programs : \A i \in 1..Len(Code[p]) :
        /\ Code[p][i].op \in {"decl", "assign"} =>
              (Code[p][i].name \in S <=> ScalarExpr(Code[p][i].expr, S))
        /\ Code[p][i].op = "func" => Code[p][i].name \notin S
        /\ ~ResetsOneOf(Code[p][i], S)

(* "Changed functions are replaced": between operations, the functions that
   the applied program declares have the bodies it gives them, after any
   sequence of reloads that skip what they take for unchanged, and failed
   reloads in between. *)
FunctionsAreCurrent ==
    Ready /\ applied # None =>
        \A i \in 1..Len(Code[applied]) :
            LET s == Code[applied][i]
            IN  s.op = "func" /\ Previous(s.name) = s =>
                    IsFunction(Value(s.name)) /\ funs[Value(s.name)[2]].body = s.expr.val

(* The pairs of tables that one path of fields leads to, from a table of a
   global in the heap of the snapshot and in the heap ts. *)
SamePath(ts) ==
    LET same[i \in 0..Len(run.heap)] ==
          IF i = 0 THEN {<<t, t>> : t \in OldTables}
          ELSE WithNestedPairs(run.heap, ts, same[i - 1])
    IN  same[Len(run.heap)]

(* "Runtime failure restores previous globals", as the host sees them: the
   same names are bound to the same values, and whatever path of fields it
   follows from their tables, it finds a table where there was one and the old
   value where there was none. *)
RollbackRestores ==
    [][RolledBack =>
         /\ {n \in Names : Bound(n)'} = Before
         /\ \A n \in Before : Value(n)' = run.values[n]
         /\ \A p \in SamePath(tabs'), k \in Keys :
               \/ tabs'[p[2]][k] = run.heap[p[1]][k] /\ ~IsTable(run.heap[p[1]][k])
               \/ IsTable(tabs'[p[2]][k]) /\ IsTable(run.heap[p[1]][k])]_vars

(* The functions of the instance and its host use one copy of the scalar state:
   the cell a live function uses for a number is the global's cell. *)
OneCopy ==
    \A n, m \in Names :
        IsFunction(Value(n)) /\ Value(m)[1] = "int" => CellOf(Value(n)[2], m) = env[m]

(* "State stays live": reloads that succeed, whatever they skip, declare again
   or assign, never leave a function with a copy of its own. *)
StateIsShared == Ready /\ budget.rollbacks = 0 => OneCopy

(* "Runtime failure restores previous globals": a reload that fails leaves one
   copy of the state too. *)
RollbackKeepsSharing == Ready => OneCopy
=============================================================================
