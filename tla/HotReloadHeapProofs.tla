------------------------- MODULE HotReloadHeapProofs -------------------------
(***************************************************************************)
(* Theorems about what HotReloadState does to tables and functions, for    *)
(* any programs: the merge, the deep snapshot and the rewriting are loops, *)
(* and each gets an induction over its passes.                             *)
(***************************************************************************)
EXTENDS HotReloadStateProofs, WellFoundedInduction

-----------------------------------------------------------------------------
(* Induction, as a fact about sets of numbers. *)

LEMMA LeastNumber ==
    ASSUME NEW T, T \subseteq Nat, T # {}
    PROVE  \E n \in T : \A m \in T : n <= m
<1>1. PICK R : R = OpToRel(<, Nat)
  OBVIOUS
<1>2. IsWellFoundedOn(R, Nat)
  BY <1>1, NatLessThanWellFounded, Zenon
<1>3. PICK n \in T : \A m \in T : <<m, n>> \notin R
  BY <1>2, WFMin, Zenon
<1>4. R = {ss \in Nat \X Nat : ss[1] < ss[2]}
  BY <1>1 DEF OpToRel
<1>5. ASSUME NEW m \in T PROVE n <= m
  <2>1. m \in Nat /\ n \in Nat /\ <<m, n>> \in Nat \X Nat /\ <<m, n>> \notin R
    BY <1>3
  <2>2. <<m, n>>[1] = m /\ <<m, n>>[2] = n
    OBVIOUS
  <2>3. ~(<<m, n>>[1] < <<m, n>>[2])
    BY <1>4, <2>1, Zenon
  <2>4. QED
    BY <2>1, <2>2, <2>3
<1>6. QED
  BY <1>5

LEMMA Passes ==
    ASSUME NEW N \in Nat, NEW S, 0 \in S, \A n \in 0..N : n < N /\ n \in S => n + 1 \in S
    PROVE  \A n \in 0..N : n \in S
<1>1. SUFFICES ASSUME NEW k \in 0..N, k \notin S PROVE FALSE
  OBVIOUS
<1>2. PICK T : T = {n \in 0..N : n \notin S}
  OBVIOUS
<1>3. PICK n \in T : \A m \in T : n <= m
  BY <1>1, <1>2, LeastNumber
<1>4. n # 0
  BY <1>2
<1>5. n - 1 \in 0..N /\ n - 1 \in S
  BY <1>2, <1>3, <1>4
<1>6. QED
  BY <1>2, <1>5

-----------------------------------------------------------------------------
(* The merge keeps what is state. *)

Merging(f, order, n) ==
    f = [i \in 0..n |-> IF i = 0 THEN tabs ELSE MergeTables(f[i - 1], order[i])]

LEMMA MergingExists ==
    ASSUME NEW order, NEW N \in Nat
    PROVE  \E f : Merging(f, order, N)
<1>1. PICK S : S = {n \in 0..N : \E f : Merging(f, order, n)}
  OBVIOUS
<1>2. 0 \in S
  <2>1. PICK f : f = [i \in 0..0 |-> tabs]
    OBVIOUS
  <2>2. Merging(f, order, 0)
    BY <2>1 DEF Merging
  <2>3. QED
    BY <1>1, <2>2
<1>3. ASSUME NEW n \in 0..N, n < N, n \in S PROVE n + 1 \in S
  <2>1. PICK f : Merging(f, order, n)
    BY <1>1, <1>3
  <2>2. PICK g : g = [i \in 0..(n + 1) |-> IF i = n + 1 THEN MergeTables(f[n], order[n + 1]) ELSE f[i]]
    OBVIOUS
  <2>3. \A i \in 0..n : g[i] = f[i]
    BY <2>2
  <2>4. ASSUME NEW i \in 0..(n + 1)
        PROVE  g[i] = IF i = 0 THEN tabs ELSE MergeTables(g[i - 1], order[i])
    <3>1. CASE i = n + 1
      BY <2>2, <2>3, <3>1
    <3>2. CASE i \in 0..n
      <4>1. f[i] = IF i = 0 THEN tabs ELSE MergeTables(f[i - 1], order[i])
        BY <2>1, <3>2 DEF Merging
      <4>2. i # 0 => i - 1 \in 0..n
        BY <3>2
      <4>3. QED
        BY <2>3, <3>2, <4>1, <4>2
    <3>3. QED
      BY <3>1, <3>2
  <2>5. Merging(g, order, n + 1)
    BY <2>2, <2>4 DEF Merging
  <2>6. QED
    BY <1>1, <1>3, <2>5
<1>4. QED
  BY <1>1, <1>2, <1>3, Passes

LEMMA MergingIs ==
    ASSUME NEW order, Len(order) \in Nat
    PROVE  \E f : Merging(f, order, Len(order)) /\ MergedBy(order) = f[Len(order)]
<1>1. \E f : Merging(f, order, Len(order))
  BY MergingExists
<1>2. QED
  BY <1>1, Zenon DEF Merging, MergedBy

(* What a merge may not touch. *)
IsState(v) == v # Nil /\ ~IsFunction(v)
KeepsFields(ts, us) ==
    /\ IsSeq(us) /\ Len(us) = Len(ts)
    /\ \A t \in 1..Len(ts), k \in Keys : IsState(ts[t][k]) => us[t][k] = ts[t][k]

LEMMA MergeKeeps ==
    ASSUME NEW ts, IsSeq(ts), NEW root
    PROVE  KeepsFields(ts, MergeTables(ts, root))
<1>1. PICK P, us : P = MergePairs(ts, root) /\ us = MergeTables(ts, root)
  OBVIOUS
<1>2. us = [t \in 1..Len(ts) |->
              IF \E p \in P : p[1] = t
                THEN [k \in Keys |-> MergeField(ts[t][k], ts[(CHOOSE p \in P : p[1] = t)[2]][k])]
                ELSE ts[t]]
  BY <1>1 DEF MergeTables
<1>3. IsSeq(us) /\ Len(us) = Len(ts)
  BY <1>2 DEF IsSeq
<1>4. ASSUME NEW t \in 1..Len(ts), NEW k \in Keys, IsState(ts[t][k]) PROVE us[t][k] = ts[t][k]
  <2>1. \A x : MergeField(ts[t][k], x) = ts[t][k]
    BY <1>4 DEF MergeField, IsState
  <2>2. QED
    BY <1>2, <2>1
<1>5. QED
  BY <1>1, <1>3, <1>4 DEF KeepsFields

LEMMA OrdersAreFinite ==
    ASSUME NEW o \in MergeOrders
    PROVE  Len(o) \in Nat /\ \A i \in 1..Len(o) : o[i] \in MergeRoots
<1>1. PICK G : G = {m \in Preserved : IsTable(run.values[m]) /\ IsTable(Value(m))}
  OBVIOUS
<1>2. G \subseteq Names /\ IsFiniteSet(G)
  BY <1>1, ReloadAssumption, FS_Subset DEF Preserved, Before
<1>3. MergeRoots = {<<run.values[n][2], Value(n)[2]>> : n \in G}
  BY <1>1 DEF MergeRoots
<1>4. PICK h : h = [n \in G |-> <<run.values[n][2], Value(n)[2]>>]
  OBVIOUS
<1>5. h \in Surjection(G, MergeRoots)
  BY <1>3, <1>4 DEF Surjection
<1>6. IsFiniteSet(MergeRoots)
  BY <1>2, <1>5, FS_Surjection
<1>7. Cardinality(MergeRoots) \in Nat
  BY <1>6, FS_CardinalityType
<1>8. o \in [1..Cardinality(MergeRoots) -> MergeRoots]
  BY DEF MergeOrders
<1>9. QED
  BY <1>7, <1>8

LEMMA MergesKeep ==
    ASSUME NEW o \in MergeOrders, IsSeq(tabs)
    PROVE  KeepsFields(tabs, MergedTabs(o))
<1>1. Len(o) \in Nat
  BY OrdersAreFinite
<1>2. PICK f : Merging(f, o, Len(o)) /\ MergedBy(o) = f[Len(o)]
  BY <1>1, MergingIs
<1>3. PICK S : S = {n \in 0..Len(o) : KeepsFields(tabs, f[n])}
  OBVIOUS
<1>4. 0 \in S
  <2>1. f[0] = tabs
    BY <1>1, <1>2 DEF Merging
  <2>2. KeepsFields(tabs, tabs)
    BY DEF KeepsFields
  <2>3. QED
    BY <1>1, <1>3, <2>1, <2>2
<1>5. ASSUME NEW n \in 0..Len(o), n < Len(o), n \in S PROVE n + 1 \in S
  <2>1. f[n + 1] = MergeTables(f[n], o[n + 1])
    BY <1>1, <1>2, <1>5 DEF Merging
  <2>2. KeepsFields(tabs, f[n])
    BY <1>3, <1>5
  <2>3. KeepsFields(f[n], f[n + 1])
    BY <2>1, <2>2, MergeKeeps DEF KeepsFields
  <2>4. KeepsFields(tabs, f[n + 1])
    BY <2>2, <2>3 DEF KeepsFields
  <2>5. QED
    BY <1>1, <1>3, <1>5, <2>4
<1>6. KeepsFields(tabs, f[Len(o)])
  <2>1. \A n \in 0..Len(o) : n \in S
    BY <1>1, <1>4, <1>5, Passes
  <2>2. QED
    BY <1>1, <1>3, <2>1
<1>7. MergedTabs(o) = f[Len(o)]
  <2>1. PICK ts : ts = f[Len(o)]
    OBVIOUS
  <2>2. MergedTabs(o) = [t \in 1..Len(tabs) |-> ts[t]]
    BY <1>2, <2>1 DEF MergedTabs
  <2>3. QED
    BY <1>6, <2>1, <2>2 DEF KeepsFields, IsSeq
<1>8. QED
  BY <1>6, <1>7

(* The defaults of a reloaded program never replace a field that is state, in
   whatever order hotReloadMergeTables meets the globals and however their
   tables are nested or shared. *)
THEOREM ReloadKeepsFieldsHolds == Spec => ReloadKeepsFields
<1>1. ASSUME Inv, [Next]_vars, Committed, run.preserve,
             NEW t \in 1..Len(run.heap), NEW k \in Keys, tabs[t][k] # Nil, ~IsFunction(tabs[t][k])
      PROVE  tabs'[t][k] = tabs[t][k]
  <2>1. ~UNCHANGED vars
    BY <1>1 DEF Committed, Ready, vars
  <2>2. PreserveHotReloadState
    BY <1>1, <2>1, Ends DEF Committed, Commit
  <2>3. PICK o \in MergeOrders : tabs' = MergedTabs(o)
    BY <2>2 DEF PreserveHotReloadState
  <2>4. KeepsFields(tabs, tabs')
    BY <1>1, <2>3, MergesKeep DEF Inv, Cells
  <2>5. t \in 1..Len(tabs)
    BY <1>1 DEF Inv, Cells, Snapshot, IsSeq
  <2>6. QED
    BY <1>1, <2>4, <2>5 DEF KeepsFields, IsState
<1>2. Inv /\ [Next]_vars =>
        [Committed /\ run.preserve =>
           \A t \in 1..Len(run.heap), k \in Keys :
              tabs[t][k] # Nil /\ ~IsFunction(tabs[t][k]) => tabs'[t][k] = tabs[t][k]]_vars
  BY <1>1
<1>3. QED
  BY <1>2, BindingsHold, PTL DEF Spec, ReloadKeepsFields

-----------------------------------------------------------------------------
(* Values, tables and closures of a state with t tables, f functions and n
   cells. *)

IsValue(v, t, f) ==
    \/ v = Nil
    \/ \E i \in Int : v = Num(i)
    \/ \E i \in 1..t : v = Tab(i)
    \/ \E i \in 1..f : v = Fun(i)

IsFields(r, t, f) == r = [k \in Keys |-> r[k]] /\ \A k \in Keys : IsValue(r[k], t, f)

Heap(ts, t, f) == \A i \in 1..Len(ts) : IsFields(ts[i], t, f)

IsClosure(c, n) == c.body \in Body /\ c.cap \in [Names -> 0..n]

(* A cell belongs to one name, in the closures too. *)
Owned(fs, e) ==
    \A f \in 1..Len(fs) : \A x, y \in Names : fs[f].cap[x] # 0 /\ fs[f].cap[x] = e[y] => x = y

Types ==
    /\ \A c \in 1..Len(cells) : IsValue(cells[c], Len(tabs), Len(funs))
    /\ Heap(tabs, Len(tabs), Len(funs))
    /\ IsSeq(funs) /\ (\A f \in 1..Len(funs) : IsClosure(funs[f], Len(cells)))
    /\ Owned(funs, env)

RunTypes ==
    /\ run.prog \in Programs \cup {None} /\ run.rest \in Seq(Stmt)
    /\ applied \in Programs \cup {None} /\ bvm \in BOOLEAN
    /\ \A n \in Names : IsValue(run.values[n], Len(run.heap), Len(funs))
    /\ Heap(run.heap, Len(run.heap), Len(funs))

TypeInv == Inv /\ Types /\ RunTypes

LEMMA ValueKinds ==
    ASSUME NEW v, NEW t \in Nat, NEW f \in Nat, IsValue(v, t, f)
    PROVE  /\ v[1] \in {"nil", "int", "tab", "fun"}
           /\ IsTable(v) => v[2] \in 1..t /\ v = Tab(v[2])
           /\ IsFunction(v) => v[2] \in 1..f
           /\ v[1] = "int" => v[2] \in Int
  BY DEF IsValue, Nil, Num, Tab, Fun, IsTable, IsFunction

LEMMA ValueGrows ==
    ASSUME NEW v, NEW t \in Nat, NEW f \in Nat, NEW t2 \in Nat, NEW f2 \in Nat, t <= t2, f <= f2,
           IsValue(v, t, f)
    PROVE  IsValue(v, t2, f2)
<1>1. 1..t \subseteq 1..t2 /\ 1..f \subseteq 1..f2
  OBVIOUS
<1>2. QED
  BY <1>1, Zenon DEF IsValue

LEMMA HeapGrows ==
    ASSUME NEW ts, NEW t \in Nat, NEW f \in Nat, NEW t2 \in Nat, NEW f2 \in Nat, t <= t2, f <= f2,
           Heap(ts, t, f)
    PROVE  Heap(ts, t2, f2)
<1>1. ASSUME NEW i \in 1..Len(ts) PROVE IsFields(ts[i], t2, f2)
  <2>1. IsFields(ts[i], t, f)
    BY DEF Heap
  <2>2. QED
    BY <2>1, ValueGrows DEF IsFields
<1>2. QED
  BY <1>1 DEF Heap

LEMMA Sizes ==
    ASSUME Inv
    PROVE  /\ Len(cells) \in Nat /\ Len(tabs) \in Nat /\ Len(run.heap) \in Nat
           /\ Len(run.heap) <= Len(tabs) /\ IsSeq(cells) /\ IsSeq(tabs)
           /\ env \in [Names -> 0..Len(cells)]
           /\ \A x, y \in Names : env[x] # 0 /\ env[x] = env[y] => x = y
  BY DEF Inv, Cells, Snapshot, IsSeq, Bindings

LEMMA ValueTyped ==
    ASSUME Inv, Types, NEW n
    PROVE  IsValue(Value(n), Len(tabs), Len(funs))
<1>1. CASE Bound(n)
  <2>1. env[n] \in 1..Len(cells)
    BY <1>1, Sizes DEF Bound
  <2>2. QED
    BY <1>1, <2>1 DEF Value, Types
<1>2. CASE ~Bound(n)
  BY <1>2 DEF Value, IsValue
<1>3. QED
  BY <1>1, <1>2

(* Evaluating an expression: what there is afterwards. *)
LEMMA AfterEval ==
    ASSUME Inv, Types, NEW x \in Expr, NEW N \in Nat, Len(cells) <= N, NEW e \in [Names -> 0..N],
           NEW ts, ts = TabsAfter(x), NEW fs, fs = FunsAfter(x, e)
    PROVE  /\ IsSeq(ts) /\ Len(tabs) <= Len(ts) /\ IsSeq(fs) /\ Len(funs) <= Len(fs)
           /\ Len(ts) \in Nat /\ Len(fs) \in Nat
           /\ Heap(ts, Len(ts), Len(fs)) /\ IsValue(Eval(x), Len(ts), Len(fs))
           /\ \A f \in 1..Len(fs) : IsClosure(fs[f], N)
           /\ \A f \in 1..Len(funs) : fs[f] = funs[f]
           /\ \A f \in 1..Len(fs) : f \notin 1..Len(funs) => \A n \in Names : fs[f].cap[n] \in {0, e[n]}
           /\ \A f \in 1..Len(fs) : f \notin 1..Len(funs) => x.is = "func" /\ fs[f].body = x.val
<1>1. Len(tabs) \in Nat /\ Len(funs) \in Nat /\ IsSeq(tabs) /\ IsSeq(funs) /\ Len(cells) \in Nat
  BY Sizes DEF Types, IsSeq
<1>2. \A f \in 1..Len(funs) : IsClosure(funs[f], N)
  <2>1. 0..Len(cells) \subseteq 0..N
    BY <1>1
  <2>2. QED
    BY <2>1 DEF Types, IsClosure
<1>3. CASE x.is = "table"
  <2>1. ts = Append(tabs, x.val) /\ fs = funs /\ Eval(x) = Tab(Len(tabs) + 1)
    BY <1>3 DEF TabsAfter, FunsAfter, Eval
  <2>2. x.val \in [Keys -> Constant]
    BY <1>3 DEF Expr, Literal
  <2>3. IsSeq(ts) /\ Len(ts) = Len(tabs) + 1 /\ ts[Len(tabs) + 1] = x.val /\ \A i \in 1..Len(tabs) : ts[i] = tabs[i]
    BY <1>1, <2>1, Added
  <2>4. IsFields(x.val, Len(ts), Len(fs))
    <3>1. \A v \in Constant : IsValue(v, Len(ts), Len(fs))
      <4>1. ASSUME NEW v \in Constant PROVE v = Nil \/ \E i \in Int : v = Num(i)
        BY DEF Constant, Nil, Num
      <4>2. QED
        BY <4>1 DEF IsValue
    <3>2. QED
      BY <2>2, <3>1 DEF IsFields
  <2>5. ASSUME NEW i \in 1..Len(ts) PROVE IsFields(ts[i], Len(ts), Len(fs))
    <3>1. CASE i = Len(tabs) + 1
      BY <2>3, <2>4, <3>1
    <3>2. CASE i \in 1..Len(tabs)
      <4>1. Heap(tabs, Len(ts), Len(fs))
        BY <1>1, <2>1, <2>3, HeapGrows DEF Types
      <4>2. QED
        BY <2>3, <3>2, <4>1 DEF Heap
    <3>3. QED
      BY <1>1, <2>3, <3>1, <3>2
  <2>6. IsValue(Tab(Len(tabs) + 1), Len(ts), Len(fs))
    BY <1>1, <2>3 DEF IsValue
  <2>7. QED
    BY <1>1, <1>2, <2>1, <2>3, <2>5, <2>6 DEF Heap
<1>4. CASE x.is = "func"
  <2>1. ts = tabs /\ fs = Append(funs, Closure(x.val, e)) /\ Eval(x) = Fun(Len(funs) + 1)
    BY <1>4 DEF TabsAfter, FunsAfter, Eval
  <2>2. x.val \in Body
    BY <1>4 DEF Expr, Literal
  <2>3. PICK c : c = Closure(x.val, e)
    OBVIOUS
  <2>4. IsSeq(fs) /\ Len(fs) = Len(funs) + 1 /\ fs[Len(funs) + 1] = c /\ \A i \in 1..Len(funs) : fs[i] = funs[i]
    BY <1>1, <2>1, <2>3, Added
  <2>5. c.body = x.val /\ c.cap \in [Names -> 0..N] /\ \A n \in Names : c.cap[n] \in {0, e[n]}
    BY <2>3 DEF Closure
  <2>6. IsClosure(c, N)
    BY <2>2, <2>5 DEF IsClosure
  <2>7. Heap(ts, Len(ts), Len(fs))
    BY <1>1, <2>1, <2>4, HeapGrows DEF Types
  <2>8. IsValue(Fun(Len(funs) + 1), Len(ts), Len(fs))
    BY <1>1, <2>4 DEF IsValue
  <2>9. \A f \in 1..Len(fs) : f \in 1..Len(funs) \/ f = Len(funs) + 1
    BY <1>1, <2>4
  <2>10. Len(fs) \in Nat /\ Len(funs) <= Len(fs)
    BY <1>1, <2>4
  <2>11. \A f \in 1..Len(fs) : IsClosure(fs[f], N)
    BY <1>2, <2>4, <2>6, <2>9
  <2>12. \A f \in 1..Len(fs) : f \notin 1..Len(funs) => fs[f] = c
    BY <2>4, <2>9
  <2>13. QED
    BY <1>1, <1>4, <2>1, <2>4, <2>5, <2>7, <2>8, <2>10, <2>11, <2>12
<1>5. CASE x.is \notin {"table", "func"}
  <2>1. ts = tabs /\ fs = funs
    BY <1>5 DEF TabsAfter, FunsAfter
  <2>2. IsValue(Eval(x), Len(tabs), Len(funs))
    <3>1. CASE x.is = "int"
      <4>1. x.val \in Int /\ Eval(x) = Num(x.val)
        BY <3>1 DEF Expr, Literal, Eval
      <4>2. QED
        BY <4>1 DEF IsValue
    <3>2. CASE x.is # "int"
      BY <1>5, <3>2, ValueTyped DEF Eval
    <3>3. QED
      BY <3>1, <3>2
  <2>3. QED
    BY <1>1, <1>2, <2>1, <2>2 DEF Types
<1>6. QED
  BY <1>3, <1>4, <1>5

(* What a statement does to the objects: none goes away. *)
Grows == Types' /\ Len(funs) <= Len(funs') /\ \A f \in 1..Len(funs) : funs'[f] = funs[f]

LEMMA DefineTypes ==
    ASSUME Inv, Types, NEW x \in Expr, NEW n \in Names, NEW e \in {env, Redefined(n)},
           Allocate(x, e), cells' = Append(cells, Eval(x)), env' = Redefined(n)
    PROVE  Grows
<1>1. Len(cells) \in Nat /\ Len(tabs) \in Nat /\ Len(funs) \in Nat /\ IsSeq(cells)
      /\ env \in [Names -> 0..Len(cells)] /\ \A u, v \in Names : env[u] # 0 /\ env[u] = env[v] => u = v
  BY Sizes DEF Types, IsSeq
<1>2. Len(cells') = Len(cells) + 1 /\ cells'[Len(cells) + 1] = Eval(x) /\ \A i \in 1..Len(cells) : cells'[i] = cells[i]
  BY <1>1, Added
<1>3. env' = [u \in Names |-> IF u = n THEN Len(cells) + 1 ELSE env[u]]
  BY <1>1 DEF Redefined
<1>4. env' \in [Names -> 0..(Len(cells) + 1)] /\ env \in [Names -> 0..(Len(cells) + 1)]
  <2>1. \A u \in Names : env[u] \in 0..(Len(cells) + 1)
    BY <1>1
  <2>2. QED
    BY <1>1, <1>3, <2>1
<1>5. e \in [Names -> 0..(Len(cells) + 1)] /\ (e = env \/ e = env')
  BY <1>4
<1>6. tabs' = TabsAfter(x) /\ funs' = FunsAfter(x, e)
  BY DEF Allocate
<1>7. /\ Len(tabs) <= Len(tabs') /\ IsSeq(funs') /\ Len(funs) <= Len(funs')
      /\ Len(tabs') \in Nat /\ Len(funs') \in Nat
      /\ Heap(tabs', Len(tabs'), Len(funs')) /\ IsValue(Eval(x), Len(tabs'), Len(funs'))
      /\ \A f \in 1..Len(funs') : IsClosure(funs'[f], Len(cells) + 1)
      /\ \A f \in 1..Len(funs) : funs'[f] = funs[f]
      /\ \A f \in 1..Len(funs') : f \notin 1..Len(funs) => \A u \in Names : funs'[f].cap[u] \in {0, e[u]}
  <2>1. PICK ts, fs : ts = TabsAfter(x) /\ fs = FunsAfter(x, e)
    OBVIOUS
  <2>2. PICK N \in Nat : N = Len(cells) + 1 /\ Len(cells) <= N
    BY <1>1
  <2>3. /\ Len(tabs) <= Len(ts) /\ IsSeq(fs) /\ Len(funs) <= Len(fs)
        /\ Len(ts) \in Nat /\ Len(fs) \in Nat
        /\ Heap(ts, Len(ts), Len(fs)) /\ IsValue(Eval(x), Len(ts), Len(fs))
        /\ \A f \in 1..Len(fs) : IsClosure(fs[f], N)
        /\ \A f \in 1..Len(funs) : fs[f] = funs[f]
        /\ \A f \in 1..Len(fs) : f \notin 1..Len(funs) => \A u \in Names : fs[f].cap[u] \in {0, e[u]}
    BY <1>5, <2>1, <2>2, AfterEval
  <2>4. QED
    BY <1>6, <2>1, <2>2, <2>3
<1>8. ASSUME NEW c \in 1..Len(cells') PROVE IsValue(cells'[c], Len(tabs'), Len(funs'))
  <2>1. CASE c = Len(cells) + 1
    BY <1>2, <1>7, <2>1
  <2>2. CASE c \in 1..Len(cells)
    <3>1. IsValue(cells[c], Len(tabs), Len(funs))
      BY <2>2 DEF Types
    <3>2. QED
      BY <1>1, <1>2, <1>7, <2>2, <3>1, ValueGrows
  <2>3. QED
    BY <1>1, <1>2, <2>1, <2>2
<1>9. ASSUME NEW f \in 1..Len(funs'), NEW u \in Names, NEW v \in Names,
             funs'[f].cap[u] # 0, funs'[f].cap[u] = env'[v]
      PROVE  u = v
  <2>1. CASE f \in 1..Len(funs)
    <3>1. funs'[f].cap[u] = funs[f].cap[u] /\ funs[f].cap[u] \in 0..Len(cells)
      BY <1>7, <2>1 DEF Types, IsClosure
    <3>2. v # n
      BY <1>1, <1>3, <1>9, <3>1
    <3>3. funs[f].cap[u] = env[v]
      BY <1>3, <1>9, <3>1, <3>2
    <3>4. QED
      BY <1>9, <2>1, <3>1, <3>3 DEF Types, Owned
  <2>2. CASE f \notin 1..Len(funs)
    <3>1. e[u] # 0 /\ e[u] = env'[v]
      BY <1>7, <1>9, <2>2
    <3>2. QED
      BY <1>1, <1>3, <1>5, <3>1
  <2>3. QED
    BY <2>1, <2>2
<1>10. QED
  BY <1>2, <1>7, <1>8, <1>9 DEF Grows, Types, Owned

LEMMA WriteTypes ==
    ASSUME Inv, Types, NEW v, NEW c,
           Len(tabs) <= Len(tabs'), Len(tabs') \in Nat, IsSeq(funs'), Len(funs) <= Len(funs'),
           Heap(tabs', Len(tabs'), Len(funs')), IsValue(v, Len(tabs'), Len(funs')),
           \A f \in 1..Len(funs') : IsClosure(funs'[f], Len(cells)),
           \A f \in 1..Len(funs) : funs'[f] = funs[f],
           \A f \in 1..Len(funs') : f \notin 1..Len(funs) => \A u \in Names : funs'[f].cap[u] \in {0, env[u]},
           cells' = [cells EXCEPT ![c] = v], env' = env
    PROVE  Grows
<1>1. Len(cells) \in Nat /\ Len(tabs) \in Nat /\ Len(funs) \in Nat /\ Len(funs') \in Nat /\ IsSeq(cells)
      /\ env \in [Names -> 0..Len(cells)] /\ \A x, y \in Names : env[x] # 0 /\ env[x] = env[y] => x = y
  BY Sizes DEF Types, IsSeq
<1>2. Len(cells') = Len(cells) /\ \A i \in 1..Len(cells) : cells'[i] = IF i = c THEN v ELSE cells[i]
  <2>1. DOMAIN cells = 1..Len(cells)
    BY <1>1 DEF IsSeq
  <2>2. cells' = [i \in 1..Len(cells) |-> IF i = c THEN v ELSE cells[i]]
    BY <2>1
  <2>3. QED
    BY <1>1, <2>2
<1>3. ASSUME NEW i \in 1..Len(cells') PROVE IsValue(cells'[i], Len(tabs'), Len(funs'))
  <2>1. IsValue(cells[i], Len(tabs), Len(funs))
    BY <1>2 DEF Types
  <2>2. IsValue(cells[i], Len(tabs'), Len(funs'))
    BY <1>1, <2>1, ValueGrows
  <2>3. QED
    BY <1>2, <2>2
<1>4. ASSUME NEW f \in 1..Len(funs'), NEW u \in Names, NEW w \in Names,
             funs'[f].cap[u] # 0, funs'[f].cap[u] = env[w]
      PROVE  u = w
  <2>1. CASE f \in 1..Len(funs)
    BY <1>4, <2>1 DEF Types, Owned
  <2>2. CASE f \notin 1..Len(funs)
    BY <1>1, <1>4, <2>2
  <2>3. QED
    BY <2>1, <2>2
<1>5. QED
  BY <1>2, <1>3, <1>4 DEF Grows, Types, Owned

(* The cell that a call writes: it is the cell of the name in the body of the
   function that runs. *)
LEMMA CallCells ==
    ASSUME Inv, Types, NEW f \in 1..Len(funs), Runs(f)
    PROVE  LET g == Callee(f)
               c == CellOf(g, funs[g].body.name)
           IN  /\ g \in 1..Len(funs) /\ funs[g].body \in Body /\ c \in 1..Len(cells)
               /\ funs[g].body.does = "bump" => cells[c][1] = "int"
               /\ \A n \in Names : c = env[n] => n = funs[g].body.name
<1>1. Len(cells) \in Nat /\ Len(tabs) \in Nat /\ Len(funs) \in Nat
      /\ env \in [Names -> 0..Len(cells)] /\ \A u, v \in Names : env[u] # 0 /\ env[u] = env[v] => u = v
  BY Sizes DEF Types, IsSeq
<1>2. ASSUME NEW h \in 1..Len(funs), NEW n \in Names PROVE CellOf(h, n) \in 0..Len(cells)
  BY <1>1 DEF CellOf, Types, IsClosure
<1>3. PICK g : g = Callee(f)
  OBVIOUS
<1>4. g \in 1..Len(funs)
  <2>1. CASE funs[f].body.does = "call"
    <3>1. PICK d : d = CellOf(f, funs[f].body.name)
      OBVIOUS
    <3>2. funs[f].body.name \in Names
      BY DEF Types, IsClosure, Body
    <3>3. d # 0 /\ IsFunction(cells[d])
      BY <2>1, <3>1, Zenon DEF Runs
    <3>4. g = cells[d][2]
      BY <1>3, <2>1, <3>1, Zenon DEF Callee
    <3>5. d \in 0..Len(cells)
      BY <1>2, <3>1, <3>2
    <3>6. d \in 1..Len(cells)
      BY <1>1, <3>3, <3>5
    <3>7. IsValue(cells[d], Len(tabs), Len(funs))
      BY <3>6 DEF Types
    <3>8. QED
      BY <1>1, <3>3, <3>4, <3>7, ValueKinds
  <2>2. CASE funs[f].body.does # "call"
    BY <1>3, <2>2 DEF Callee
  <2>3. QED
    BY <2>1, <2>2
<1>5. funs[g].body \in Body /\ funs[g].body.name \in Names
  BY <1>4 DEF Types, IsClosure, Body
<1>6. PICK c : c = CellOf(g, funs[g].body.name)
  OBVIOUS
<1>7. c \in 1..Len(cells) /\ (funs[g].body.does = "bump" => cells[c][1] = "int")
  BY <1>1, <1>2, <1>3, <1>4, <1>5, <1>6 DEF Runs
<1>8. ASSUME NEW n \in Names, c = env[n] PROVE n = funs[g].body.name
  BY <1>1, <1>4, <1>5, <1>6, <1>7, <1>8 DEF CellOf, Types, Owned
<1>9. QED
  BY <1>3, <1>4, <1>5, <1>6, <1>7, <1>8

LEMMA CallTypes ==
    ASSUME Inv, Types, NEW f \in 1..Len(funs), Runs(f), CallFunction(f)
    PROVE  Grows
<1>1. PICK g, c : g = Callee(f) /\ c = CellOf(g, funs[g].body.name)
  OBVIOUS
<1>2. g \in 1..Len(funs) /\ c \in 1..Len(cells) /\ (funs[g].body.does = "bump" => cells[c][1] = "int")
  BY <1>1, CallCells
<1>3. Len(cells) \in Nat /\ Len(tabs) \in Nat /\ Len(funs) \in Nat /\ IsSeq(tabs)
      /\ env' = env /\ funs' = funs
  BY Sizes DEF Types, IsSeq, CallFunction
<1>4. IsSeq(funs') /\ (\A h \in 1..Len(funs') : IsClosure(funs'[h], Len(cells)))
  BY <1>3 DEF Types
<1>5. /\ Len(funs) <= Len(funs') /\ (\A h \in 1..Len(funs) : funs'[h] = funs[h])
      /\ \A h \in 1..Len(funs') : h \notin 1..Len(funs) => \A u \in Names : funs'[h].cap[u] \in {0, env[u]}
  BY <1>3
<1>6. ASSUME NEW v, cells' = [cells EXCEPT ![c] = v], Len(tabs) <= Len(tabs'), Len(tabs') \in Nat,
             Heap(tabs', Len(tabs'), Len(funs')), IsValue(v, Len(tabs'), Len(funs'))
      PROVE  Grows
  BY <1>3, <1>4, <1>5, <1>6, WriteTypes
<1>7. CASE funs[g].body.does = "bump" /\ cells' = [cells EXCEPT ![c] = Num(cells[c][2] + 1)] /\ tabs' = tabs
  <2>1. IsValue(cells[c], Len(tabs), Len(funs))
    BY <1>2 DEF Types
  <2>2. cells[c][2] \in Int
    BY <1>2, <1>3, <1>7, <2>1, ValueKinds
  <2>3. IsValue(Num(cells[c][2] + 1), Len(tabs'), Len(funs'))
    BY <2>2 DEF IsValue
  <2>4. Heap(tabs', Len(tabs'), Len(funs')) /\ Len(tabs) <= Len(tabs') /\ Len(tabs') \in Nat
    BY <1>3, <1>7 DEF Types
  <2>5. QED
    BY <1>6, <1>7, <2>3, <2>4
<1>8. CASE cells' = [cells EXCEPT ![c] = Tab(Len(tabs) + 1)] /\ tabs' = Append(tabs, [k \in Keys |-> Nil])
  <2>1. Len(tabs') = Len(tabs) + 1 /\ tabs'[Len(tabs) + 1] = [k \in Keys |-> Nil] /\ \A i \in 1..Len(tabs) : tabs'[i] = tabs[i]
    BY <1>3, <1>8, Added
  <2>2. IsValue(Tab(Len(tabs) + 1), Len(tabs'), Len(funs'))
    BY <1>3, <2>1 DEF IsValue
  <2>3. Heap(tabs, Len(tabs'), Len(funs'))
    BY <1>3, <2>1, HeapGrows DEF Types
  <2>4. IsFields([k \in Keys |-> Nil], Len(tabs'), Len(funs'))
    BY DEF IsFields, IsValue
  <2>5. \A i \in 1..Len(tabs') : i \in 1..Len(tabs) \/ i = Len(tabs) + 1
    BY <1>3, <2>1
  <2>6. Heap(tabs', Len(tabs'), Len(funs'))
    BY <2>1, <2>3, <2>4, <2>5 DEF Heap
  <2>7. Len(tabs) <= Len(tabs') /\ Len(tabs') \in Nat
    BY <1>3, <2>1
  <2>8. QED
    BY <1>6, <1>8, <2>2, <2>6, <2>7
<1>9. QED
  BY <1>1, <1>7, <1>8 DEF CallFunction

LEMMA StmtKinds ==
    ASSUME NEW s \in Stmt
    PROVE  /\ s.op \in {"decl", "assign", "func", "setfield", "call", "fail"}
           /\ s.op # "fail" => s.name \in Names
           /\ HasExpr(s) => s.expr \in Expr
           /\ s.op = "func" => s.expr.is = "func"
           /\ s.op = "setfield" => s.key \in Keys
<1>1. Literal \subseteq Expr
  BY DEF Expr
<1>2. CASE s \in [op : {"decl", "assign"}, name : Names, expr : Expr]
  BY <1>2
<1>3. CASE s \in [op : {"func"}, name : Names, expr : Literal]
  BY <1>1, <1>3 DEF Literal
<1>4. CASE s \in [op : {"setfield"}, name : Names, key : Keys, expr : Expr]
  BY <1>4
<1>5. CASE s \in [op : {"call"}, name : Names] \cup [op : {"fail"}]
  BY <1>5 DEF HasExpr
<1>6. QED
  BY <1>2, <1>3, <1>4, <1>5 DEF Stmt

LEMMA AssignTypes ==
    ASSUME Inv, Types, NEW s \in Stmt, s.op = "assign", ExecAssign(s)
    PROVE  Grows
<1>1. s.expr \in Expr
  BY StmtKinds DEF HasExpr
<1>2. Len(cells) \in Nat /\ env \in [Names -> 0..Len(cells)] /\ Len(cells) <= Len(cells)
  BY Sizes
<1>3. PICK ts, fs, v : ts = TabsAfter(s.expr) /\ fs = FunsAfter(s.expr, env) /\ v = Eval(s.expr)
  OBVIOUS
<1>4. tabs' = ts /\ funs' = fs /\ cells' = [cells EXCEPT ![env[s.name]] = v] /\ env' = env
  BY <1>3 DEF ExecAssign, Allocate
<1>5. /\ Len(tabs) <= Len(ts) /\ IsSeq(fs) /\ Len(funs) <= Len(fs) /\ Len(ts) \in Nat
      /\ Heap(ts, Len(ts), Len(fs)) /\ IsValue(v, Len(ts), Len(fs))
      /\ \A f \in 1..Len(fs) : IsClosure(fs[f], Len(cells))
      /\ \A f \in 1..Len(funs) : fs[f] = funs[f]
      /\ \A f \in 1..Len(fs) : f \notin 1..Len(funs) => \A n \in Names : fs[f].cap[n] \in {0, env[n]}
  BY <1>1, <1>2, <1>3, AfterEval
<1>6. QED
  BY <1>4, <1>5, WriteTypes

LEMMA SetFieldTypes ==
    ASSUME Inv, Types, NEW s \in Stmt, s.op = "setfield", ExecSetField(s)
    PROVE  Grows
<1>1. s.expr \in Expr /\ s.key \in Keys
  BY StmtKinds DEF HasExpr
<1>2. Len(cells) \in Nat /\ env \in [Names -> 0..Len(cells)] /\ Len(cells) <= Len(cells)
      /\ Len(tabs) \in Nat /\ Len(funs) \in Nat
      /\ \A x, y \in Names : env[x] # 0 /\ env[x] = env[y] => x = y
  BY Sizes DEF Types, IsSeq
<1>3. PICK ts, fs, v, t : ts = TabsAfter(s.expr) /\ fs = FunsAfter(s.expr, env) /\ v = Eval(s.expr)
                          /\ t = Value(s.name)[2]
  OBVIOUS
<1>4. tabs' = [ts EXCEPT ![t][s.key] = v] /\ funs' = fs /\ cells' = cells /\ env' = env
  BY <1>3 DEF ExecSetField
<1>5. /\ IsSeq(ts) /\ Len(tabs) <= Len(ts) /\ IsSeq(fs) /\ Len(funs) <= Len(fs)
      /\ Len(ts) \in Nat /\ Len(fs) \in Nat
      /\ Heap(ts, Len(ts), Len(fs)) /\ IsValue(v, Len(ts), Len(fs))
      /\ \A f \in 1..Len(fs) : IsClosure(fs[f], Len(cells))
      /\ \A f \in 1..Len(funs) : fs[f] = funs[f]
      /\ \A f \in 1..Len(fs) : f \notin 1..Len(funs) => \A n \in Names : fs[f].cap[n] \in {0, env[n]}
  BY <1>1, <1>2, <1>3, AfterEval
<1>6. tabs' = [i \in 1..Len(ts) |-> IF i = t THEN [ts[t] EXCEPT ![s.key] = v] ELSE ts[i]]
  <2>1. DOMAIN ts = 1..Len(ts)
    BY <1>5 DEF IsSeq
  <2>2. QED
    BY <1>4, <2>1
<1>7. Len(tabs') = Len(ts)
  BY <1>5, <1>6
<1>8. ASSUME NEW i \in 1..Len(tabs') PROVE IsFields(tabs'[i], Len(ts), Len(fs))
  <2>1. IsFields(ts[i], Len(ts), Len(fs))
    BY <1>5, <1>7 DEF Heap
  <2>2. CASE i # t
    BY <1>6, <1>7, <2>1, <2>2
  <2>3. CASE i = t
    <3>1. PICK r, q : r = ts[i] /\ q = tabs'[i]
      OBVIOUS
    <3>2. DOMAIN r = Keys /\ \A k \in Keys : IsValue(r[k], Len(ts), Len(fs))
      BY <2>1, <3>1 DEF IsFields
    <3>3. q = [k \in Keys |-> IF k = s.key THEN v ELSE r[k]]
      BY <1>6, <1>7, <2>3, <3>1, <3>2
    <3>4. \A k \in Keys : IsValue(q[k], Len(ts), Len(fs))
      BY <1>5, <3>2, <3>3
    <3>5. QED
      BY <3>1, <3>3, <3>4 DEF IsFields
  <2>4. QED
    BY <2>2, <2>3
<1>9. Heap(tabs', Len(tabs'), Len(funs'))
  BY <1>4, <1>7, <1>8 DEF Heap
<1>10. ASSUME NEW c \in 1..Len(cells') PROVE IsValue(cells'[c], Len(tabs'), Len(funs'))
  <2>1. IsValue(cells[c], Len(tabs), Len(funs))
    BY <1>4 DEF Types
  <2>2. QED
    BY <1>2, <1>4, <1>5, <1>7, <2>1, ValueGrows
<1>11. ASSUME NEW f \in 1..Len(funs'), NEW u \in Names, NEW w \in Names,
             funs'[f].cap[u] # 0, funs'[f].cap[u] = env'[w]
      PROVE  u = w
  <2>1. CASE f \in 1..Len(funs)
    BY <1>4, <1>5, <1>11, <2>1 DEF Types, Owned
  <2>2. CASE f \notin 1..Len(funs)
    BY <1>2, <1>4, <1>5, <1>11, <2>2
  <2>3. QED
    BY <2>1, <2>2
<1>12. QED
  BY <1>4, <1>5, <1>9, <1>10, <1>11 DEF Grows, Types, Owned

LEMMA ExecTypes ==
    ASSUME Inv, Types, NEW s \in Stmt, Exec(s)
    PROVE  Grows
<1>1. CASE s.op = "decl" /\ ExecDeclare(s)
  <2>1. s.expr \in Expr /\ s.name \in Names
    BY <1>1, StmtKinds DEF HasExpr
  <2>2. Allocate(s.expr, env) /\ cells' = Append(cells, Eval(s.expr)) /\ env' = Redefined(s.name)
    BY <1>1 DEF ExecDeclare
  <2>3. QED
    BY <2>1, <2>2, DefineTypes
<1>2. CASE s.op = "func" /\ ExecFuncDecl(s)
  <2>1. s.expr \in Expr /\ s.name \in Names
    BY <1>2, StmtKinds DEF HasExpr
  <2>2. Allocate(s.expr, Redefined(s.name)) /\ cells' = Append(cells, Eval(s.expr)) /\ env' = Redefined(s.name)
    BY <1>2 DEF ExecFuncDecl
  <2>3. QED
    BY <2>1, <2>2, DefineTypes
<1>3. CASE s.op = "assign" /\ ExecAssign(s)
  BY <1>3, AssignTypes
<1>4. CASE s.op = "setfield" /\ ExecSetField(s)
  BY <1>4, SetFieldTypes
<1>5. CASE s.op = "call" /\ ExecCall(s)
  <2>1. IsFunction(Value(s.name)) /\ Runs(Value(s.name)[2]) /\ CallFunction(Value(s.name)[2])
    BY <1>5 DEF ExecCall
  <2>2. Value(s.name)[2] \in 1..Len(funs)
    BY <2>1, ValueTyped, ValueKinds, Sizes DEF Types, IsSeq
  <2>3. QED
    BY <2>1, <2>2, CallTypes
<1>6. QED
  BY <1>1, <1>2, <1>3, <1>4, <1>5 DEF Exec

-----------------------------------------------------------------------------
(* The rewriting keeps the statements that are not skipped, in order. *)

Keeping(f, p, n) ==
    f = [i \in 0..n |-> IF i = 0 THEN <<>>
                        ELSE IF ShouldSkip(Code[p][i]) THEN f[i - 1]
                        ELSE Append(f[i - 1], Code[p][i])]

LEMMA KeepingExists ==
    ASSUME NEW p, NEW N \in Nat
    PROVE  \E f : Keeping(f, p, N)
<1> DEFINE Step(r, i) == IF ShouldSkip(Code[p][i]) THEN r ELSE Append(r, Code[p][i])
<1>1. PICK S : S = {n \in 0..N : \E f : Keeping(f, p, n)}
  OBVIOUS
<1>2. 0 \in S
  <2>1. PICK f : f = [i \in 0..0 |-> <<>>]
    OBVIOUS
  <2>2. Keeping(f, p, 0)
    BY <2>1 DEF Keeping
  <2>3. QED
    BY <1>1, <2>2
<1>3. ASSUME NEW n \in 0..N, n < N, n \in S PROVE n + 1 \in S
  <2>1. PICK f : Keeping(f, p, n)
    BY <1>1, <1>3
  <2>2. \A i \in 0..n : f[i] = IF i = 0 THEN <<>> ELSE Step(f[i - 1], i)
    BY <2>1 DEF Keeping
  <2> HIDE DEF Step
  <2>3. PICK g : g = [i \in 0..(n + 1) |-> IF i = n + 1 THEN Step(f[n], n + 1) ELSE f[i]]
    OBVIOUS
  <2>4. \A i \in 0..n : g[i] = f[i]
    BY <2>3
  <2>5. ASSUME NEW i \in 0..(n + 1) PROVE g[i] = IF i = 0 THEN <<>> ELSE Step(g[i - 1], i)
    <3>1. CASE i = n + 1
      BY <2>3, <2>4, <3>1
    <3>2. CASE i \in 0..n
      <4>1. i # 0 => i - 1 \in 0..n
        BY <3>2
      <4>2. QED
        BY <2>2, <2>4, <3>2, <4>1
    <3>3. QED
      BY <3>1, <3>2
  <2>6. g = [i \in 0..(n + 1) |-> IF i = 0 THEN <<>> ELSE Step(g[i - 1], i)]
    BY <2>3, <2>5
  <2>7. Keeping(g, p, n + 1)
    BY <2>6 DEF Keeping, Step
  <2>8. QED
    BY <1>1, <1>3, <2>7
<1>4. QED
  BY <1>1, <1>2, <1>3, Passes

LEMMA KeepingIs ==
    ASSUME NEW p, Len(Code[p]) \in Nat
    PROVE  \E f : Keeping(f, p, Len(Code[p])) /\ Rewritten(p) = f[Len(Code[p])]
<1>1. \E f : Keeping(f, p, Len(Code[p]))
  BY KeepingExists
<1>2. QED
  BY <1>1, Zenon DEF Keeping, Rewritten

(* The statements q are those of the first n of p that are not skipped. *)
KeptOf(q, p, n) ==
    /\ q \in Seq(Stmt)
    /\ \A j \in 1..Len(q) : \E i \in 1..n : q[j] = Code[p][i] /\ ~ShouldSkip(Code[p][i])
    /\ \A i \in 1..n : ShouldSkip(Code[p][i]) \/ \E j \in 1..Len(q) : q[j] = Code[p][i]

IsDeclaration(s) == s.op \in {"func", "decl"}

(* No name is declared twice by the statements q. *)
Once(q) ==
    \A i, j \in 1..Len(q) :
        IsDeclaration(q[i]) /\ IsDeclaration(q[j]) /\ q[i].name = q[j].name => i = j

LEMMA KeptStep ==
    ASSUME NEW p \in Programs, NEW n \in Nat, n + 1 \in 1..Len(Code[p]), NEW q, KeptOf(q, p, n),
           NEW r, r = IF ShouldSkip(Code[p][n + 1]) THEN q ELSE Append(q, Code[p][n + 1])
    PROVE  KeptOf(r, p, n + 1)
<1>1. PICK s : s = Code[p][n + 1] /\ s \in Stmt
  <2>1. Code[p] \in Seq(Stmt)
    BY ReloadAssumption
  <2>2. QED
    BY <2>1
<1>2. \A i \in 1..(n + 1) : i \in 1..n \/ i = n + 1
  OBVIOUS
<1>3. 1..n \subseteq 1..(n + 1) /\ n + 1 \in 1..(n + 1)
  OBVIOUS
<1>4. CASE ShouldSkip(s)
  <2>1. r = q
    BY <1>1, <1>4
  <2>2. QED
    BY <1>1, <1>2, <1>3, <1>4, <2>1, Zenon DEF KeptOf
<1>5. CASE ~ShouldSkip(s)
  <2>1. r = Append(q, s) /\ q \in Seq(Stmt)
    BY <1>1, <1>5 DEF KeptOf
  <2>2. r \in Seq(Stmt) /\ Len(r) = Len(q) + 1 /\ r[Len(q) + 1] = s /\ (\A j \in 1..Len(q) : r[j] = q[j])
        /\ Len(q) \in Nat
    BY <1>1, <2>1
  <2>3. (\A j \in 1..Len(r) : j \in 1..Len(q) \/ j = Len(q) + 1) /\ 1..Len(q) \subseteq 1..Len(r)
        /\ Len(q) + 1 \in 1..Len(r)
    BY <2>2
  <2>4. ASSUME NEW j \in 1..Len(r) PROVE \E i \in 1..(n + 1) : r[j] = Code[p][i] /\ ~ShouldSkip(Code[p][i])
    <3>1. CASE j \in 1..Len(q)
      <4>1. PICK i \in 1..n : q[j] = Code[p][i] /\ ~ShouldSkip(Code[p][i])
        BY <3>1 DEF KeptOf
      <4>2. QED
        BY <1>3, <2>2, <3>1, <4>1
    <3>2. CASE j = Len(q) + 1
      BY <1>1, <1>3, <1>5, <2>2, <3>2
    <3>3. QED
      BY <2>3, <3>1, <3>2
  <2>5. ASSUME NEW i \in 1..(n + 1) PROVE ShouldSkip(Code[p][i]) \/ \E j \in 1..Len(r) : r[j] = Code[p][i]
    <3>1. CASE i \in 1..n
      <4>1. ShouldSkip(Code[p][i]) \/ \E j \in 1..Len(q) : q[j] = Code[p][i]
        BY <3>1 DEF KeptOf
      <4>2. QED
        BY <2>2, <2>3, <4>1
    <3>2. CASE i = n + 1
      BY <1>1, <2>2, <2>3, <3>2
    <3>3. QED
      BY <1>2, <3>1, <3>2
  <2>6. QED
    BY <2>2, <2>4, <2>5 DEF KeptOf
<1>6. QED
  BY <1>4, <1>5

LEMMA OnceStep ==
    ASSUME NEW p \in Programs, NEW n \in Nat, n + 1 \in 1..Len(Code[p]), NEW q, KeptOf(q, p, n),
           OneDeclaration, Once(q)
    PROVE  Once(Append(q, Code[p][n + 1]))
<1>1. PICK s, r : s = Code[p][n + 1] /\ s \in Stmt /\ r = Append(q, s)
  <2>1. Code[p] \in Seq(Stmt)
    BY ReloadAssumption
  <2>2. Code[p][n + 1] \in Stmt
    BY <2>1
  <2>3. QED
    BY <2>2, Zenon
<1>2. q \in Seq(Stmt)
  BY DEF KeptOf
<1>3. Len(r) = Len(q) + 1 /\ r[Len(q) + 1] = s /\ (\A j \in 1..Len(q) : r[j] = q[j]) /\ Len(q) \in Nat
  BY <1>1, <1>2
<1>4. ASSUME NEW j \in 1..Len(q), IsDeclaration(q[j]), IsDeclaration(s), q[j].name = s.name PROVE FALSE
  <2>1. PICK i \in 1..n : q[j] = Code[p][i]
    BY DEF KeptOf
  <2>2. i \in 1..Len(Code[p]) /\ i # n + 1
    <3>1. Len(Code[p]) \in Nat
      BY ReloadAssumption
    <3>2. QED
      BY <3>1
  <2>3. QED
    BY <1>1, <1>4, <2>1, <2>2 DEF OneDeclaration, IsDeclaration
<1>5. \A j \in 1..Len(r) : j \in 1..Len(q) \/ j = Len(q) + 1
  BY <1>3
<1>6. ASSUME NEW i \in 1..Len(r), NEW j \in 1..Len(r), IsDeclaration(r[i]), IsDeclaration(r[j]), r[i].name = r[j].name
      PROVE  i = j
  <2>1. CASE i \in 1..Len(q) /\ j \in 1..Len(q)
    BY <1>3, <1>6, <2>1 DEF Once
  <2>2. CASE i \in 1..Len(q) /\ j = Len(q) + 1
    BY <1>3, <1>4, <1>6, <2>2
  <2>3. CASE i = Len(q) + 1 /\ j \in 1..Len(q)
    BY <1>3, <1>4, <1>6, <2>3
  <2>4. QED
    BY <1>5, <2>1, <2>2, <2>3
<1>7. QED
  BY <1>1, <1>6 DEF Once

LEMMA RewrittenIs ==
    ASSUME NEW p \in Programs
    PROVE  /\ KeptOf(Rewritten(p), p, Len(Code[p]))
           /\ OneDeclaration => Once(Rewritten(p))
<1>1. PICK N \in Nat : N = Len(Code[p])
  BY ReloadAssumption
<1>2. PICK f : Keeping(f, p, N) /\ Rewritten(p) = f[N]
  BY <1>1, KeepingIs
<1>3. PICK S : S = {n \in 0..N : KeptOf(f[n], p, n) /\ (OneDeclaration => Once(f[n]))}
  OBVIOUS
<1>4. 0 \in S
  <2>1. f[0] = <<>>
    BY <1>2 DEF Keeping
  <2>2. KeptOf(<<>>, p, 0) /\ Once(<<>>)
    BY DEF KeptOf, Once
  <2>3. QED
    BY <1>3, <2>1, <2>2
<1>5. ASSUME NEW n \in 0..N, n < N, n \in S PROVE n + 1 \in S
  <2>1. PICK q, r : q = f[n] /\ r = f[n + 1]
    OBVIOUS
  <2>2. r = IF ShouldSkip(Code[p][n + 1]) THEN q ELSE Append(q, Code[p][n + 1])
    <3> DEFINE Step(t, i) == IF ShouldSkip(Code[p][i]) THEN t ELSE Append(t, Code[p][i])
    <3>1. \A i \in 0..N : f[i] = IF i = 0 THEN <<>> ELSE Step(f[i - 1], i)
      BY <1>2 DEF Keeping
    <3> HIDE DEF Step
    <3>2. PICK m \in 0..N : m = n + 1 /\ m # 0 /\ m - 1 = n
      BY <1>5
    <3>3. f[m] = Step(f[m - 1], m)
      BY <3>1, <3>2, Zenon
    <3>4. f[n + 1] = Step(f[n], n + 1)
      BY <3>2, <3>3
    <3>5. QED
      BY <2>1, <3>4 DEF Step
  <2>3. KeptOf(q, p, n) /\ (OneDeclaration => Once(q)) /\ n + 1 \in 1..Len(Code[p]) /\ n \in Nat
    BY <1>1, <1>3, <1>5, <2>1
  <2>4. KeptOf(r, p, n + 1)
    BY <2>2, <2>3, KeptStep
  <2>5. OneDeclaration => Once(r)
    BY <2>2, <2>3, OnceStep
  <2>6. QED
    BY <1>1, <1>3, <1>5, <2>1, <2>4, <2>5
<1>6. N \in S
  <2>1. \A n \in 0..N : n \in S
    BY <1>4, <1>5, Passes
  <2>2. QED
    BY <2>1
<1>7. QED
  BY <1>1, <1>2, <1>3, <1>6

-----------------------------------------------------------------------------
(* The pairs of tables that a merge visits, or that a path leads to. *)

Pairing(f, ts, us, P, n) ==
    f = [i \in 0..n |-> IF i = 0 THEN P ELSE WithNestedPairs(ts, us, f[i - 1])]

LEMMA PairingExists ==
    ASSUME NEW ts, NEW us, NEW P, NEW N \in Nat
    PROVE  \E f : Pairing(f, ts, us, P, N)
<1>1. PICK S : S = {n \in 0..N : \E f : Pairing(f, ts, us, P, n)}
  OBVIOUS
<1>2. 0 \in S
  <2>1. PICK f : f = [i \in 0..0 |-> P]
    OBVIOUS
  <2>2. Pairing(f, ts, us, P, 0)
    BY <2>1 DEF Pairing
  <2>3. QED
    BY <1>1, <2>2
<1>3. ASSUME NEW n \in 0..N, n < N, n \in S PROVE n + 1 \in S
  <2>1. PICK f : Pairing(f, ts, us, P, n)
    BY <1>1, <1>3
  <2>2. PICK g : g = [i \in 0..(n + 1) |-> IF i = n + 1 THEN WithNestedPairs(ts, us, f[n]) ELSE f[i]]
    OBVIOUS
  <2>3. \A i \in 0..n : g[i] = f[i]
    BY <2>2
  <2>4. ASSUME NEW i \in 0..(n + 1)
        PROVE  g[i] = IF i = 0 THEN P ELSE WithNestedPairs(ts, us, g[i - 1])
    <3>1. CASE i = n + 1
      BY <2>2, <2>3, <3>1
    <3>2. CASE i \in 0..n
      <4>1. f[i] = IF i = 0 THEN P ELSE WithNestedPairs(ts, us, f[i - 1])
        BY <2>1, <3>2 DEF Pairing
      <4>2. i # 0 => i - 1 \in 0..n
        BY <3>2
      <4>3. QED
        BY <2>3, <3>2, <4>1, <4>2
    <3>3. QED
      BY <3>1, <3>2
  <2>5. Pairing(g, ts, us, P, n + 1)
    BY <2>2, <2>4 DEF Pairing
  <2>6. QED
    BY <1>1, <1>3, <2>5
<1>4. QED
  BY <1>1, <1>2, <1>3, Passes

LEMMA MergePairsIs ==
    ASSUME NEW ts, NEW root, Len(ts) \in Nat
    PROVE  \E f : Pairing(f, ts, ts, {root}, Len(ts)) /\ MergePairs(ts, root) = f[Len(ts)]
<1>1. \E f : Pairing(f, ts, ts, {root}, Len(ts))
  BY PairingExists
<1>2. QED
  BY <1>1, Zenon DEF Pairing, MergePairs

(* The pairs stay in a set that holds the first ones and those nested in its own. *)
LEMMA PairsClosed ==
    ASSUME NEW ts, NEW us, NEW P, NEW N \in Nat, NEW f, Pairing(f, ts, us, P, N),
           NEW S, P \subseteq S,
           \A p \in S, k \in Keys :
              IsTable(ts[p[1]][k]) /\ IsTable(us[p[2]][k]) => <<ts[p[1]][k][2], us[p[2]][k][2]>> \in S
    PROVE  f[N] \subseteq S
<1>1. PICK T : T = {n \in 0..N : f[n] \subseteq S}
  OBVIOUS
<1>2. 0 \in T
  BY <1>1 DEF Pairing
<1>3. ASSUME NEW n \in 0..N, n < N, n \in T PROVE n + 1 \in T
  <2>1. PICK Q : Q = f[n] /\ Q \subseteq S
    BY <1>1, <1>3
  <2>2. f[n + 1] = WithNestedPairs(ts, us, Q)
    BY <1>3, <2>1 DEF Pairing
  <2>3. ASSUME NEW x \in WithNestedPairs(ts, us, Q) PROVE x \in S
    BY <2>1, <2>3 DEF WithNestedPairs
  <2>4. QED
    BY <1>1, <1>3, <2>2, <2>3
<1>4. QED
  BY <1>1, <1>2, <1>3, Passes

LEMMA MergePairsTyped ==
    ASSUME NEW ts, Len(ts) \in Nat, NEW F \in Nat, Heap(ts, Len(ts), F),
           NEW root \in (1..Len(ts)) \X (1..Len(ts))
    PROVE  MergePairs(ts, root) \subseteq (1..Len(ts)) \X (1..Len(ts))
<1>1. PICK f : Pairing(f, ts, ts, {root}, Len(ts)) /\ MergePairs(ts, root) = f[Len(ts)]
  BY MergePairsIs
<1>2. PICK S : S = (1..Len(ts)) \X (1..Len(ts))
  OBVIOUS
<1>3. ASSUME NEW t \in 1..Len(ts), NEW k \in Keys, IsTable(ts[t][k]) PROVE ts[t][k][2] \in 1..Len(ts)
  <2>1. IsValue(ts[t][k], Len(ts), F)
    BY DEF Heap, IsFields
  <2>2. QED
    BY <1>3, <2>1, ValueKinds
<1>4. \A p \in S, k \in Keys :
         IsTable(ts[p[1]][k]) /\ IsTable(ts[p[2]][k]) => <<ts[p[1]][k][2], ts[p[2]][k][2]>> \in S
  BY <1>2, <1>3
<1>5. {root} \subseteq S
  BY <1>2
<1>6. f[Len(ts)] \subseteq S
  <2>1. PICK P : P = {root}
    OBVIOUS
  <2>2. Pairing(f, ts, ts, P, Len(ts)) /\ P \subseteq S
    BY <1>1, <1>5, <2>1
  <2>3. QED
    BY <1>4, <2>2, PairsClosed
<1>7. QED
  BY <1>1, <1>2, <1>6

LEMMA MergeTyped ==
    ASSUME NEW ts, IsSeq(ts), NEW F \in Nat, Heap(ts, Len(ts), F),
           NEW root \in (1..Len(ts)) \X (1..Len(ts))
    PROVE  LET us == MergeTables(ts, root)
           IN  IsSeq(us) /\ Len(us) = Len(ts) /\ Heap(us, Len(us), F)
<1>1. PICK P, us : P = MergePairs(ts, root) /\ us = MergeTables(ts, root)
  OBVIOUS
<1>2. us = [t \in 1..Len(ts) |->
              IF \E p \in P : p[1] = t
                THEN [k \in Keys |-> MergeField(ts[t][k], ts[(CHOOSE p \in P : p[1] = t)[2]][k])]
                ELSE ts[t]]
  BY <1>1 DEF MergeTables
<1>3. IsSeq(us) /\ Len(us) = Len(ts) /\ Len(ts) \in Nat
  BY <1>2 DEF IsSeq
<1>4. P \subseteq (1..Len(ts)) \X (1..Len(ts))
  BY <1>1, <1>3, MergePairsTyped
<1>5. ASSUME NEW t \in 1..Len(ts) PROVE IsFields(us[t], Len(ts), F)
  <2>1. \A i \in 1..Len(ts), k \in Keys : IsValue(ts[i][k], Len(ts), F)
    BY DEF Heap, IsFields
  <2>2. CASE \E p \in P : p[1] = t
    <3>1. PICK p : p = CHOOSE q \in P : q[1] = t
      OBVIOUS
    <3>2. p \in P
      BY <2>2, <3>1
    <3>3. PICK g \in 1..Len(ts) : g = p[2]
      BY <1>4, <3>2
    <3>4. us[t] = [k \in Keys |-> MergeField(ts[t][k], ts[g][k])]
      BY <1>2, <2>2, <3>1, <3>3
    <3>5. \A k \in Keys : IsValue(MergeField(ts[t][k], ts[g][k]), Len(ts), F)
      BY <2>1 DEF MergeField
    <3>6. QED
      BY <3>4, <3>5 DEF IsFields
  <2>3. CASE ~\E p \in P : p[1] = t
    <3>1. us[t] = ts[t]
      BY <1>2, <2>3
    <3>2. QED
      BY <3>1 DEF Heap
  <2>4. QED
    BY <2>2, <2>3
<1>6. QED
  BY <1>1, <1>3, <1>5 DEF Heap

LEMMA MergesTyped ==
    ASSUME Inv, Types, RunTypes, NEW o \in MergeOrders
    PROVE  LET us == MergedTabs(o)
           IN  IsSeq(us) /\ Len(us) = Len(tabs) /\ Heap(us, Len(us), Len(funs))
<1>1. Len(o) \in Nat /\ \A i \in 1..Len(o) : o[i] \in MergeRoots
  BY OrdersAreFinite
<1>2. PICK f : Merging(f, o, Len(o)) /\ MergedBy(o) = f[Len(o)]
  BY <1>1, MergingIs
<1>3. Len(tabs) \in Nat /\ Len(funs) \in Nat /\ IsSeq(tabs) /\ Len(run.heap) \in Nat /\ Len(run.heap) <= Len(tabs)
  BY Sizes DEF Types, IsSeq
<1>4. MergeRoots \subseteq (1..Len(tabs)) \X (1..Len(tabs))
  <2>1. ASSUME NEW n \in Names, IsTable(run.values[n]) PROVE run.values[n][2] \in 1..Len(tabs)
    <3>1. run.values[n][2] \in 1..Len(run.heap)
      BY <1>3, <2>1, ValueKinds DEF RunTypes
    <3>2. QED
      BY <1>3, <3>1
  <2>2. ASSUME NEW n, IsTable(Value(n)) PROVE Value(n)[2] \in 1..Len(tabs)
    BY <1>3, <2>2, ValueTyped, ValueKinds
  <2>3. ASSUME NEW r \in MergeRoots PROVE r \in (1..Len(tabs)) \X (1..Len(tabs))
    <3>1. PICK n \in Names : IsTable(run.values[n]) /\ IsTable(Value(n)) /\ r = <<run.values[n][2], Value(n)[2]>>
      BY DEF MergeRoots, Preserved, Before
    <3>2. QED
      BY <2>1, <2>2, <3>1
  <2>4. QED
    BY <2>3
<1>5. PICK S : S = {n \in 0..Len(o) : IsSeq(f[n]) /\ Len(f[n]) = Len(tabs) /\ Heap(f[n], Len(tabs), Len(funs))}
  OBVIOUS
<1>6. 0 \in S
  <2>1. f[0] = tabs
    BY <1>1, <1>2 DEF Merging
  <2>2. QED
    BY <1>1, <1>3, <1>5, <2>1 DEF Types
<1>7. ASSUME NEW n \in 0..Len(o), n < Len(o), n \in S PROVE n + 1 \in S
  <2>1. PICK ts, us : ts = f[n] /\ us = f[n + 1]
    OBVIOUS
  <2>2. us = MergeTables(ts, o[n + 1])
    BY <1>1, <1>2, <1>7, <2>1 DEF Merging
  <2>3. IsSeq(ts) /\ Len(ts) = Len(tabs) /\ Heap(ts, Len(ts), Len(funs))
    BY <1>5, <1>7, <2>1
  <2>4. o[n + 1] \in (1..Len(ts)) \X (1..Len(ts))
    BY <1>1, <1>4, <1>7, <2>3
  <2>5. IsSeq(us) /\ Len(us) = Len(ts) /\ Heap(us, Len(us), Len(funs))
    BY <1>3, <2>2, <2>3, <2>4, MergeTyped
  <2>6. QED
    BY <1>1, <1>5, <1>7, <2>1, <2>3, <2>5
<1>8. PICK us : us = f[Len(o)] /\ IsSeq(us) /\ Len(us) = Len(tabs) /\ Heap(us, Len(tabs), Len(funs))
  <2>1. \A n \in 0..Len(o) : n \in S
    BY <1>1, <1>6, <1>7, Passes
  <2>2. QED
    BY <1>1, <1>5, <2>1
<1>9. MergedTabs(o) = us
  <2>1. MergedTabs(o) = [t \in 1..Len(tabs) |-> us[t]]
    BY <1>2, <1>8 DEF MergedTabs
  <2>2. QED
    BY <1>8, <2>1 DEF IsSeq
<1>10. QED
  BY <1>8, <1>9

-----------------------------------------------------------------------------
(* The deep snapshot: what is reachable is closed, and has a clone each. *)

Reaching(f, n) == f = [i \in 0..n |-> IF i = 0 THEN OldTables ELSE WithNested(f[i - 1])]

LEMMA ReachingExists ==
    ASSUME NEW N \in Nat
    PROVE  \E f : Reaching(f, N)
<1>1. PICK S : S = {n \in 0..N : \E f : Reaching(f, n)}
  OBVIOUS
<1>2. 0 \in S
  <2>1. PICK f : f = [i \in 0..0 |-> OldTables]
    OBVIOUS
  <2>2. Reaching(f, 0)
    BY <2>1 DEF Reaching
  <2>3. QED
    BY <1>1, <2>2
<1>3. ASSUME NEW n \in 0..N, n < N, n \in S PROVE n + 1 \in S
  <2>1. PICK f : Reaching(f, n)
    BY <1>1, <1>3
  <2>2. PICK g : g = [i \in 0..(n + 1) |-> IF i = n + 1 THEN WithNested(f[n]) ELSE f[i]]
    OBVIOUS
  <2>3. \A i \in 0..n : g[i] = f[i]
    BY <2>2
  <2>4. ASSUME NEW i \in 0..(n + 1)
        PROVE  g[i] = IF i = 0 THEN OldTables ELSE WithNested(g[i - 1])
    <3>1. CASE i = n + 1
      BY <2>2, <2>3, <3>1
    <3>2. CASE i \in 0..n
      <4>1. f[i] = IF i = 0 THEN OldTables ELSE WithNested(f[i - 1])
        BY <2>1, <3>2 DEF Reaching
      <4>2. i # 0 => i - 1 \in 0..n
        BY <3>2
      <4>3. QED
        BY <2>3, <3>2, <4>1, <4>2
    <3>3. QED
      BY <3>1, <3>2
  <2>5. Reaching(g, n + 1)
    BY <2>2, <2>4 DEF Reaching
  <2>6. QED
    BY <1>1, <1>3, <2>5
<1>4. N \in S
  <2>1. \A n \in 0..N : n \in S
    BY <1>2, <1>3, Passes
  <2>2. QED
    BY <2>1
<1>5. QED
  BY <1>1, <1>4

LEMMA ReachingIs ==
    ASSUME Len(run.heap) \in Nat
    PROVE  \E f : /\ Reaching(f, Len(run.heap))
                  /\ Reachable = {t \in 1..Len(run.heap) : t \in f[Len(run.heap)]}
<1>1. \E f : Reaching(f, Len(run.heap))
  BY ReachingExists
<1>2. QED
  BY <1>1, Zenon DEF Reaching, Reachable

(* The passes add tables until one adds none, and there are enough of them. *)
LEMMA ReachableClosed ==
    ASSUME Inv
    PROVE  /\ OldTables \subseteq Reachable /\ Reachable \subseteq 1..Len(run.heap)
           /\ WithNested(Reachable) = Reachable
<1>1. PICK N \in Nat : N = Len(run.heap)
  BY Sizes
<1>2. PICK f : Reaching(f, N) /\ Reachable = {t \in 1..N : t \in f[N]}
  BY <1>1, ReachingIs
<1>3. f[0] = OldTables /\ \A n \in 0..N : n < N => f[n + 1] = WithNested(f[n])
  BY <1>2 DEF Reaching
<1>4. OldTables \subseteq 1..N
  BY <1>1 DEF OldTables, Inv, Snapshot, Points
<1>5. \A R : R \subseteq WithNested(R) /\ (R \subseteq 1..N => WithNested(R) \subseteq 1..N)
  BY <1>1 DEF WithNested
<1>6. ASSUME NEW R, R \subseteq 1..N PROVE IsFiniteSet(R) /\ Cardinality(R) \in Nat /\ Cardinality(R) <= N
  <2>1. IsFiniteSet(1..N) /\ Cardinality(1..N) = N
    BY FS_Interval
  <2>2. QED
    BY <1>6, <2>1, FS_Subset, FS_CardinalityType
<1>7. PICK S : S = {n \in 0..N : /\ OldTables \subseteq f[n] /\ f[n] \subseteq 1..N
                                 /\ WithNested(f[n]) = f[n] \/ Cardinality(f[n]) >= n + 1}
  OBVIOUS
<1>8. 0 \in S
  <2>1. CASE OldTables = {}
    <3>1. WithNested({}) = {}
      BY DEF WithNested
    <3>2. QED
      BY <1>3, <1>4, <1>7, <2>1, <3>1
  <2>2. CASE OldTables # {}
    <3>1. Cardinality(OldTables) # 0
      BY <1>4, <1>6, <2>2, FS_EmptySet
    <3>2. Cardinality(OldTables) \in Nat
      BY <1>4, <1>6
    <3>3. Cardinality(OldTables) >= 0 + 1
      BY <3>1, <3>2
    <3>4. OldTables \subseteq f[0] /\ f[0] \subseteq 1..N /\ Cardinality(f[0]) >= 0 + 1
      BY <1>3, <1>4, <3>3
    <3>5. QED
      BY <1>7, <3>4
  <2>3. QED
    BY <2>1, <2>2
<1>9. ASSUME NEW n \in 0..N, n < N, n \in S PROVE n + 1 \in S
  <2>1. PICK R, Q : R = f[n] /\ Q = f[n + 1]
    OBVIOUS
  <2>2. Q = WithNested(R)
    BY <1>3, <1>9, <2>1
  <2>3. OldTables \subseteq R /\ R \subseteq 1..N /\ (WithNested(R) = R \/ Cardinality(R) >= n + 1)
    BY <1>7, <1>9, <2>1
  <2>4. R \subseteq Q /\ Q \subseteq 1..N
    BY <1>5, <2>2, <2>3
  <2>5. WithNested(Q) = Q \/ Cardinality(Q) >= n + 2
    <3>1. CASE WithNested(R) = R
      BY <2>2, <3>1
    <3>2. CASE WithNested(R) # R
      <4>1. Cardinality(R) >= n + 1 /\ R # Q
        BY <2>2, <2>3, <3>2
      <4>2. IsFiniteSet(Q) /\ Cardinality(Q) \in Nat /\ Cardinality(R) \in Nat
        BY <1>6, <2>3, <2>4
      <4>3. R \in SUBSET Q
        BY <2>4
      <4>4. Cardinality(R) <= Cardinality(Q) /\ Cardinality(R) # Cardinality(Q)
        BY <4>1, <4>2, <4>3, FS_Subset
      <4>5. QED
        BY <4>1, <4>2, <4>4
    <3>3. QED
      BY <3>1, <3>2
  <2>6. QED
    BY <1>7, <1>9, <2>1, <2>3, <2>4, <2>5
<1>10. N \in S
  <2>1. \A n \in 0..N : n \in S
    BY <1>8, <1>9, Passes
  <2>2. QED
    BY <2>1
<1>11. PICK R : R = f[N] /\ OldTables \subseteq R /\ R \subseteq 1..N
                /\ (WithNested(R) = R \/ Cardinality(R) >= N + 1)
  BY <1>7, <1>10
<1>12. WithNested(R) = R
  BY <1>6, <1>11
<1>13. Reachable = R
  BY <1>2, <1>11
<1>14. QED
  BY <1>1, <1>11, <1>12, <1>13

LEMMA NestedReachable ==
    ASSUME Inv, RunTypes, Len(funs) \in Nat, NEW r \in Reachable, NEW k \in Keys, IsTable(run.heap[r][k])
    PROVE  run.heap[r][k][2] \in Reachable
<1>1. r \in 1..Len(run.heap) /\ WithNested(Reachable) = Reachable /\ Len(run.heap) \in Nat
  BY ReachableClosed, Sizes
<1>2. PICK v : v = run.heap[r][k]
  OBVIOUS
<1>3. IsValue(v, Len(run.heap), Len(funs))
  BY <1>1, <1>2 DEF RunTypes, Heap, IsFields
<1>4. v[2] \in 1..Len(run.heap) /\ v = Tab(v[2])
  BY <1>1, <1>2, <1>3, ValueKinds
<1>5. v[2] \in WithNested(Reachable)
  BY <1>2, <1>4 DEF WithNested
<1>6. QED
  BY <1>1, <1>2, <1>5

(* The clones are numbered after the tables there are. *)
LEMMA Clones ==
    ASSUME Inv, NEW R, R = Reachable
    PROVE  /\ Cardinality(R) \in Nat
           /\ \A r \in R : CloneOf(r, R) \in (Len(tabs) + 1)..(Len(tabs) + Cardinality(R))
           /\ \A r, q \in R : CloneOf(r, R) = CloneOf(q, R) => r = q
           /\ \A t \in (Len(tabs) + 1)..(Len(tabs) + Cardinality(R)) : \E r \in R : CloneOf(r, R) = t
<1>1. R \subseteq 1..Len(run.heap) /\ Len(run.heap) \in Nat /\ Len(tabs) \in Nat
  BY ReachableClosed, Sizes
<1>2. IsFiniteSet(R)
  <2>1. IsFiniteSet(1..Len(run.heap))
    BY <1>1, FS_Interval
  <2>2. QED
    BY <1>1, <2>1, FS_Subset
<1>3. PICK e : e = [r \in R |-> r]
  OBVIOUS
<1>4. (\A r \in R : e[r] \in Nat) /\ \A r, q \in R : e[r] = e[q] => r = q
  BY <1>1, <1>3
<1>5. /\ Cardinality(R) \in Nat
      /\ \A n \in R : Rank(R, e, n) \in 1..Cardinality(R)
      /\ \A n, m \in R : Rank(R, e, n) = Rank(R, e, m) => n = m
      /\ \A i \in 1..Cardinality(R) : \E n \in R : Rank(R, e, n) = i
  BY <1>2, <1>4, Ranks
<1>6. ASSUME NEW r \in R PROVE CloneOf(r, R) = Len(tabs) + Rank(R, e, r)
  <2>1. {m \in R : e[m] <= e[r]} = {q \in R : q <= r}
    BY <1>3
  <2>2. QED
    BY <2>1 DEF CloneOf, Rank
<1>7. ASSUME NEW r \in R PROVE CloneOf(r, R) \in (Len(tabs) + 1)..(Len(tabs) + Cardinality(R))
  BY <1>1, <1>5, <1>6
<1>8. ASSUME NEW r \in R, NEW q \in R, CloneOf(r, R) = CloneOf(q, R) PROVE r = q
  <2>1. Rank(R, e, r) = Rank(R, e, q)
    BY <1>1, <1>5, <1>6, <1>8
  <2>2. QED
    BY <1>5, <2>1
<1>9. ASSUME NEW t \in (Len(tabs) + 1)..(Len(tabs) + Cardinality(R)) PROVE \E r \in R : CloneOf(r, R) = t
  <2>1. t - Len(tabs) \in 1..Cardinality(R)
    BY <1>1, <1>5
  <2>2. PICK r \in R : Rank(R, e, r) = t - Len(tabs)
    BY <1>5, <2>1
  <2>3. CloneOf(r, R) = t
    BY <1>1, <1>6, <2>2
  <2>4. QED
    BY <2>3
<1>10. QED
  BY <1>5, <1>7, <1>8, <1>9

LEMMA RestoredDeep ==
    ASSUME Inv, tabs' = RestoredTabs, NEW R, R = Reachable
    PROVE  /\ Len(tabs') = Len(tabs) + Cardinality(R)
           /\ \A r \in R : tabs'[CloneOf(r, R)] = CloneFields(r, R)
           /\ \A t \in 1..Len(tabs) : t \notin OldTables => tabs'[t] = tabs[t]
<1>1. Len(tabs) \in Nat
  BY Sizes
<1>2. tabs' = [t \in 1..(Len(tabs) + Cardinality(R)) |->
                 IF t > Len(tabs) THEN CloneFields(CHOOSE r \in R : CloneOf(r, R) = t, R)
                 ELSE IF t \in OldTables THEN CloneFields(t, R)
                 ELSE tabs[t]]
  BY DEF RestoredTabs
<1>3. /\ Cardinality(R) \in Nat
      /\ \A r \in R : CloneOf(r, R) \in (Len(tabs) + 1)..(Len(tabs) + Cardinality(R))
      /\ \A r, q \in R : CloneOf(r, R) = CloneOf(q, R) => r = q
  BY Clones
<1>4. Len(tabs') = Len(tabs) + Cardinality(R)
  BY <1>1, <1>2, <1>3
<1>5. ASSUME NEW r \in R PROVE tabs'[CloneOf(r, R)] = CloneFields(r, R)
  <2>1. PICK t : t = CloneOf(r, R)
    OBVIOUS
  <2>2. t > Len(tabs) /\ t \in 1..(Len(tabs) + Cardinality(R))
    BY <1>1, <1>3, <2>1
  <2>3. tabs'[t] = CloneFields(CHOOSE q \in R : CloneOf(q, R) = t, R)
    BY <1>2, <2>2
  <2>4. (CHOOSE q \in R : CloneOf(q, R) = t) = r
    BY <1>3, <2>1
  <2>5. QED
    BY <2>1, <2>3, <2>4
<1>6. ASSUME NEW t \in 1..Len(tabs), t \notin OldTables PROVE tabs'[t] = tabs[t]
  <2>1. t \in 1..(Len(tabs) + Cardinality(R)) /\ ~(t > Len(tabs))
    BY <1>1, <1>3
  <2>2. QED
    BY <1>2, <1>6, <2>1
<1>7. QED
  BY <1>4, <1>5, <1>6

LEMMA CloneTyped ==
    ASSUME Inv, Types, RunTypes, NEW R, R = Reachable, NEW r \in R
    PROVE  IsFields(CloneFields(r, R), Len(tabs) + Cardinality(R), Len(funs))
<1>1. Len(tabs) \in Nat /\ Len(funs) \in Nat /\ Len(run.heap) \in Nat /\ Len(run.heap) <= Len(tabs)
  BY Sizes DEF Types, IsSeq
<1>2. /\ Cardinality(R) \in Nat
      /\ \A q \in R : CloneOf(q, R) \in (Len(tabs) + 1)..(Len(tabs) + Cardinality(R))
  BY Clones
<1>3. r \in 1..Len(run.heap)
  BY ReachableClosed
<1>4. PICK c, N : c = CloneFields(r, R) /\ N = Len(tabs) + Cardinality(R) /\ N \in Nat
  <2>1. Len(tabs) + Cardinality(R) \in Nat
    BY <1>1, <1>2
  <2>2. QED
    BY <2>1
<1>5. c = [k \in Keys |-> IF IsTable(run.heap[r][k]) THEN Tab(CloneOf(run.heap[r][k][2], R)) ELSE run.heap[r][k]]
  BY <1>4 DEF CloneFields
<1>6. ASSUME NEW k \in Keys PROVE IsValue(c[k], N, Len(funs))
  <2>1. CASE IsTable(run.heap[r][k])
    <3>1. run.heap[r][k][2] \in R
      BY <1>1, <2>1, NestedReachable
    <3>2. PICK q \in 1..N : c[k] = Tab(q)
      <4>1. CloneOf(run.heap[r][k][2], R) \in 1..N
        BY <1>1, <1>2, <1>4, <3>1
      <4>2. QED
        BY <1>5, <2>1, <4>1
    <3>3. QED
      BY <3>2 DEF IsValue
  <2>2. CASE ~IsTable(run.heap[r][k])
    <3>1. IsValue(run.heap[r][k], Len(run.heap), Len(funs))
      BY <1>3 DEF RunTypes, Heap, IsFields
    <3>2. IsValue(run.heap[r][k], N, Len(funs))
      BY <1>1, <1>2, <1>4, <3>1, ValueGrows
    <3>3. QED
      BY <1>5, <2>2, <3>2
  <2>3. QED
    BY <2>1, <2>2
<1>7. QED
  BY <1>4, <1>5, <1>6 DEF IsFields

LEMMA RollbackTypes ==
    ASSUME Inv, Types, RunTypes, Rollback
    PROVE  Types'
<1>1. tabs' = RestoredTabs /\ ReplaceGlobals(Before, run.values) /\ funs' = funs
  BY DEF Rollback
<1>2. PICK R : R = Reachable
  OBVIOUS
<1>3. /\ Len(tabs) \in Nat /\ Len(cells) \in Nat /\ Len(funs) \in Nat
      /\ Len(run.heap) \in Nat /\ Len(run.heap) <= Len(tabs)
  BY Sizes DEF Types, IsSeq
<1>4. /\ Len(tabs') = Len(tabs) + Cardinality(R) /\ Cardinality(R) \in Nat
      /\ \A r \in R : tabs'[CloneOf(r, R)] = CloneFields(r, R)
      /\ \A t \in 1..Len(tabs) : t \notin OldTables => tabs'[t] = tabs[t]
      /\ \A t \in OldTables : t \in R /\ tabs'[t] = CloneFields(t, R)
      /\ \A t \in (Len(tabs) + 1)..(Len(tabs) + Cardinality(R)) : \E r \in R : CloneOf(r, R) = t
  BY <1>1, <1>2, RestoredDeep, Restored, Clones, ReachableClosed
<1>5. Len(tabs') \in Nat /\ Len(tabs) <= Len(tabs') /\ Len(run.heap) <= Len(tabs')
  BY <1>3, <1>4
<1>6. ASSUME NEW t \in 1..Len(tabs') PROVE IsFields(tabs'[t], Len(tabs'), Len(funs))
  <2>1. CASE t \in OldTables
    BY <1>2, <1>4, <2>1, CloneTyped
  <2>2. CASE t \in 1..Len(tabs) /\ t \notin OldTables
    <3>1. Heap(tabs, Len(tabs'), Len(funs))
      BY <1>3, <1>5, HeapGrows DEF Types
    <3>2. QED
      BY <1>4, <2>2, <3>1 DEF Heap
  <2>3. CASE t \in (Len(tabs) + 1)..(Len(tabs) + Cardinality(R))
    BY <1>2, <1>4, <2>3, CloneTyped
  <2>4. QED
    BY <1>3, <1>4, <2>1, <2>2, <2>3
<1>7. /\ IsSeq(cells') /\ Len(cells') = Len(cells) + Cardinality(Before) /\ Cardinality(Before) \in Nat
      /\ \A i \in 1..Len(cells) : cells'[i] = cells[i]
      /\ \A i \in 1..Cardinality(Before) :
            \E n \in Before : cells'[Len(cells) + i] = run.values[n]
      /\ \A n \in Names : env'[n] # 0 <=> n \in Before
      /\ \A n \in Before : env'[n] > Len(cells)
  BY <1>1, Replaced
<1>8. ASSUME NEW c \in 1..Len(cells') PROVE IsValue(cells'[c], Len(tabs'), Len(funs))
  <2>1. CASE c \in 1..Len(cells)
    <3>1. IsValue(cells[c], Len(tabs), Len(funs))
      BY <2>1 DEF Types
    <3>2. QED
      BY <1>3, <1>5, <1>7, <2>1, <3>1, ValueGrows
  <2>2. CASE c \notin 1..Len(cells)
    <3>1. c - Len(cells) \in 1..Cardinality(Before) /\ c = Len(cells) + (c - Len(cells))
      BY <1>3, <1>7, <2>2
    <3>2. PICK n \in Names : cells'[c] = run.values[n]
      BY <1>7, <3>1 DEF Before
    <3>3. IsValue(run.values[n], Len(run.heap), Len(funs))
      BY DEF RunTypes
    <3>4. QED
      BY <1>3, <1>5, <3>2, <3>3, ValueGrows
  <2>3. QED
    BY <2>1, <2>2
<1>9. ASSUME NEW f \in 1..Len(funs)
      PROVE  IsClosure(funs[f], Len(cells')) /\ \A u, w \in Names : funs[f].cap[u] # 0 => funs[f].cap[u] # env'[w]
  <2>1. IsClosure(funs[f], Len(cells))
    BY DEF Types
  <2>2. 0..Len(cells) \subseteq 0..Len(cells')
    BY <1>3, <1>7
  <2>3. \A u \in Names : funs[f].cap[u] \in 0..Len(cells)
    BY <2>1 DEF IsClosure
  <2>4. \A w \in Names : env'[w] = 0 \/ env'[w] > Len(cells)
    BY <1>7
  <2>5. QED
    BY <1>3, <2>1, <2>2, <2>3, <2>4 DEF IsClosure
<1>10. QED
  BY <1>1, <1>6, <1>8, <1>9 DEF Types, Heap, Owned

LEMMA CommitTypes ==
    ASSUME Inv, Types, RunTypes, Commit
    PROVE  Types'
<1>1. CASE UNCHANGED <<env, cells, tabs, funs>>
  BY <1>1 DEF Types, Heap, Owned, IsSeq
<1>2. CASE PreserveHotReloadState
  <2>1. PICK o \in MergeOrders : tabs' = MergedTabs(o)
    BY <1>2 DEF PreserveHotReloadState
  <2>2. IsSeq(tabs') /\ Len(tabs') = Len(tabs) /\ Heap(tabs', Len(tabs'), Len(funs)) /\ env' = env /\ funs' = funs
    BY <1>2, <2>1, MergesTyped DEF PreserveHotReloadState
  <2>3. /\ Len(tabs) \in Nat /\ Len(cells) \in Nat /\ Len(funs) \in Nat
        /\ Len(run.heap) \in Nat /\ Len(run.heap) <= Len(tabs)
    BY Sizes DEF Types, IsSeq
  <2>4. /\ Len(cells') = Len(cells)
        /\ \A c \in 1..Len(cells) :
                 cells'[c] = cells[c] \/ \E n \in Preserved : cells'[c] = run.values[n]
    BY <1>2, PreserveValues
  <2>5. ASSUME NEW c \in 1..Len(cells') PROVE IsValue(cells'[c], Len(tabs'), Len(funs'))
    <3>1. CASE cells'[c] = cells[c]
      BY <2>2, <2>4, <3>1 DEF Types
    <3>2. CASE \E n \in Preserved : cells'[c] = run.values[n]
      <4>1. PICK n \in Names : cells'[c] = run.values[n]
        BY <3>2 DEF Preserved, Before
      <4>2. IsValue(run.values[n], Len(run.heap), Len(funs))
        BY DEF RunTypes
      <4>3. QED
        BY <2>2, <2>3, <4>1, <4>2, ValueGrows
    <3>3. QED
      BY <2>4, <3>1, <3>2
  <2>6. QED
    BY <2>2, <2>4, <2>5 DEF Types, Owned
<1>3. QED
  BY <1>1, <1>2 DEF Commit

LEMMA ApplyTypes ==
    ASSUME TypeInv, NEW p \in Programs, Apply(p)
    PROVE  Types' /\ RunTypes'
<1>1. /\ run'.prog = p /\ run'.rest = (IF applied = None THEN Code[p] ELSE Rewritten(p))
      /\ run'.values = [n \in Names |-> Value(n)] /\ run'.heap = tabs
      /\ UNCHANGED <<env, cells, tabs, funs, bvm, applied>>
  BY DEF Apply
<1>2. Types'
  BY <1>1 DEF TypeInv, Types, Heap, Owned, IsSeq
<1>3. run'.rest \in Seq(Stmt)
  BY <1>1, ReloadAssumption, RewrittenIs DEF KeptOf
<1>4. \A n \in Names : IsValue(run'.values[n], Len(run'.heap), Len(funs'))
  BY <1>1, ValueTyped DEF TypeInv
<1>5. QED
  BY <1>1, <1>2, <1>3, <1>4 DEF TypeInv, Types, RunTypes

LEMMA IdleTypes ==
    ASSUME run' = Idle, applied' \in Programs \cup {None}, bvm' \in BOOLEAN
    PROVE  RunTypes'
<1>1. run'.prog = None /\ run'.rest = <<>> /\ run'.values = [n \in Names |-> Nil] /\ run'.heap = <<>>
  BY DEF Idle
<1>2. Len(<<>>) = 0 /\ <<>> \in Seq(Stmt)
  OBVIOUS
<1>3. QED
  BY <1>1, <1>2 DEF RunTypes, Heap, IsValue

LEMMA GrowsRunTypes ==
    ASSUME Inv, Types, RunTypes, Grows, run'.prog = run.prog, run'.values = run.values, run'.heap = run.heap,
           run'.rest \in Seq(Stmt), bvm' = bvm, applied' = applied
    PROVE  RunTypes'
<1>1. Len(funs) \in Nat /\ Len(funs') \in Nat /\ Len(funs) <= Len(funs') /\ Len(run.heap) \in Nat
  BY Sizes DEF Types, Grows, IsSeq
<1>2. \A n \in Names : IsValue(run.values[n], Len(run.heap), Len(funs'))
  BY <1>1, ValueGrows DEF RunTypes
<1>3. Heap(run.heap, Len(run.heap), Len(funs'))
  BY <1>1, HeapGrows DEF RunTypes
<1>4. QED
  BY <1>2, <1>3 DEF RunTypes

LEMMA CallGrows ==
    ASSUME Inv, Types, NEW n, IsFunction(Value(n)), Runs(Value(n)[2]), CallFunction(Value(n)[2])
    PROVE  Grows
<1>1. Value(n)[2] \in 1..Len(funs)
  BY ValueTyped, ValueKinds, Sizes DEF Types, IsSeq
<1>2. QED
  BY <1>1, CallTypes

LEMMA TypeStep ==
    ASSUME TypeInv, [Next]_vars
    PROVE  TypeInv'
<1>1. Inv' /\ Inv /\ Types /\ RunTypes
  BY StepInv DEF TypeInv
<1>2. ASSUME NEW p \in Programs, Apply(p) PROVE TypeInv'
  BY <1>1, <1>2, ApplyTypes DEF TypeInv
<1>3. CASE Statement
  <2>1. run.rest \in Seq(Stmt) /\ run.rest # <<>>
    BY <1>1, <1>3 DEF RunTypes, Statement
  <2>2. Head(run.rest) \in Stmt /\ Tail(run.rest) \in Seq(Stmt)
    BY <2>1
  <2>3. Grows
    BY <1>1, <1>3, <2>2, ExecTypes DEF Statement
  <2>4. /\ run'.prog = run.prog /\ run'.values = run.values /\ run'.heap = run.heap
        /\ run'.rest = Tail(run.rest) /\ bvm' = bvm /\ applied' = applied
    BY <1>1, <1>3 DEF Statement, Inv, Snapshot
  <2>5. RunTypes'
    BY <1>1, <2>2, <2>3, <2>4, GrowsRunTypes
  <2>6. QED
    BY <1>1, <2>3, <2>5 DEF TypeInv, Grows
<1>4. CASE Commit
  <2>1. run' = Idle /\ applied' = run.prog /\ bvm' = (engine = "bytecode")
    BY <1>4 DEF Commit
  <2>2. RunTypes'
    BY <1>1, <2>1, IdleTypes DEF RunTypes
  <2>3. QED
    BY <1>1, <1>4, <2>2, CommitTypes DEF TypeInv
<1>5. CASE Rollback
  <2>1. run' = Idle /\ applied' = applied /\ bvm' = FALSE
    BY <1>5 DEF Rollback
  <2>2. RunTypes'
    BY <1>1, <2>1, IdleTypes DEF RunTypes
  <2>3. QED
    BY <1>1, <1>5, <2>2, RollbackTypes DEF TypeInv
<1>6. ASSUME NEW n \in Names, Call(n) PROVE TypeInv'
  <2>1. Grows /\ run' = run /\ bvm' = bvm /\ applied' = applied
    BY <1>1, <1>6, CallGrows DEF Call
  <2>2. RunTypes'
    BY <1>1, <2>1, GrowsRunTypes DEF RunTypes
  <2>3. QED
    BY <1>1, <2>1, <2>2 DEF TypeInv, Grows
<1>7. CASE UNCHANGED vars
  BY <1>1, <1>7 DEF vars, TypeInv, Types, RunTypes, Heap, Owned, IsSeq
<1>8. QED
  BY <1>2, <1>3, <1>4, <1>5, <1>6, <1>7 DEF Next

LEMMA TypeInit ==
    ASSUME Init
    PROVE  TypeInv
<1>1. Inv
  BY InitInv
<1>2. cells = <<>> /\ tabs = <<>> /\ funs = <<>> /\ applied = None /\ bvm = FALSE /\ run.prog = None
      /\ run.rest = <<>> /\ run.values = [n \in Names |-> Nil] /\ run.heap = <<>>
  BY DEF Init, Idle
<1>3. Len(<<>>) = 0 /\ <<>> \in Seq(Stmt) /\ IsSeq(<<>>)
  BY DEF IsSeq
<1>4. Types
  BY <1>2, <1>3 DEF Types, Heap, Owned
<1>5. RunTypes
  <2>1. \A n \in Names : IsValue(run.values[n], Len(run.heap), Len(funs))
    BY <1>2 DEF IsValue
  <2>2. Heap(run.heap, Len(run.heap), Len(funs))
    BY <1>2, <1>3 DEF Heap
  <2>3. applied \in Programs \cup {None} /\ bvm \in BOOLEAN /\ run.prog \in Programs \cup {None}
        /\ run.rest \in Seq(Stmt)
    BY <1>2, <1>3
  <2>4. QED
    BY <2>1, <2>2, <2>3 DEF RunTypes
<1>6. QED
  BY <1>1, <1>4, <1>5 DEF TypeInv

LEMMA TypesHold == Spec => []TypeInv
<1>1. Init => TypeInv
  BY TypeInit
<1>2. TypeInv /\ [Next]_vars => TypeInv'
  BY TypeStep
<1>3. QED
  BY <1>1, <1>2, PTL DEF Spec

(* Whatever is applied, fails, is merged and is called: names are bound to
   cells that exist, and cells and table fields refer to tables and functions
   that exist, also in the clones that hotReloadRestoreGlobals puts in place of
   the nested tables of a rolled back global. *)
THEOREM TypeCorrect == Spec => []TypeOK
<1>1. TypeInv => TypeOK
  <2>1. SUFFICES ASSUME TypeInv PROVE TypeOK
    OBVIOUS
  <2>2. Inv /\ Types /\ RunTypes
    BY <2>1 DEF TypeInv
  <2>3. Len(tabs) \in Nat /\ Len(funs) \in Nat /\ env \in [Names -> 0..Len(cells)]
    BY <2>2, Sizes DEF Types, IsSeq
  <2>4. \A c \in 1..Len(cells) :
          \/ IsTable(cells[c]) /\ cells[c][2] \in 1..Len(tabs)
          \/ IsFunction(cells[c]) /\ cells[c][2] \in 1..Len(funs)
          \/ cells[c][1] \in {"nil", "int"}
    <3>1. ASSUME NEW c \in 1..Len(cells)
          PROVE  \/ IsTable(cells[c]) /\ cells[c][2] \in 1..Len(tabs)
                 \/ IsFunction(cells[c]) /\ cells[c][2] \in 1..Len(funs)
                 \/ cells[c][1] \in {"nil", "int"}
      <4>1. IsValue(cells[c], Len(tabs), Len(funs))
        BY <2>2 DEF Types
      <4>2. QED
        BY <2>3, <4>1, ValueKinds DEF IsTable, IsFunction
    <3>2. QED
      BY <3>1
  <2>5. ASSUME NEW t \in 1..Len(tabs), NEW k \in Keys, IsTable(tabs[t][k])
        PROVE  tabs[t][k][2] \in 1..Len(tabs)
    <3>1. IsValue(tabs[t][k], Len(tabs), Len(funs))
      BY <2>2 DEF Types, Heap, IsFields
    <3>2. QED
      BY <2>3, <2>5, <3>1, ValueKinds
  <2>6. QED
    BY <2>2, <2>3, <2>4, <2>5 DEF TypeOK, RunTypes
<1>2. QED
  BY <1>1, TypesHold, PTL

-----------------------------------------------------------------------------
(* The rollback restores whole tables. *)

LEMMA SamePathIs ==
    ASSUME NEW us, Len(run.heap) \in Nat
    PROVE  \E f : /\ Pairing(f, run.heap, us, {<<t, t>> : t \in OldTables}, Len(run.heap))
                  /\ SamePath(us) = f[Len(run.heap)]
<1>1. \E f : Pairing(f, run.heap, us, {<<t, t>> : t \in OldTables}, Len(run.heap))
  BY PairingExists
<1>2. QED
  BY <1>1, Zenon DEF Pairing, SamePath

(* A path that the snapshot and the restored heap share leads to a table and to
   one with the fields of its clone. *)
LEMMA PathsLeadToClones ==
    ASSUME Inv, Types, RunTypes, tabs' = RestoredTabs, NEW p \in SamePath(tabs')
    PROVE  p[1] \in Reachable /\ tabs'[p[2]] = CloneFields(p[1], Reachable)
<1>1. PICK R, h, us, P : R = Reachable /\ h = run.heap /\ us = tabs' /\ P = {<<t, t>> : t \in OldTables}
  OBVIOUS
<1>2. Len(h) \in Nat /\ Len(funs) \in Nat
  BY <1>1, Sizes DEF Types, IsSeq
<1>3. PICK f : Pairing(f, h, us, P, Len(h)) /\ SamePath(us) = f[Len(h)]
  BY <1>1, <1>2, SamePathIs
<1>4. PICK S : S = {<<t, t>> : t \in OldTables} \cup {<<r, CloneOf(r, R)>> : r \in R}
  OBVIOUS
<1>5. ASSUME NEW q \in S PROVE q[1] \in R /\ us[q[2]] = CloneFields(q[1], R)
  <2>1. CASE \E t \in OldTables : q = <<t, t>>
    BY <1>1, <2>1, Restored, ReachableClosed
  <2>2. CASE \E r \in R : q = <<r, CloneOf(r, R)>>
    BY <1>1, <2>2, RestoredDeep
  <2>3. QED
    BY <1>4, <2>1, <2>2
<1>6. ASSUME NEW q \in S, NEW k \in Keys, IsTable(h[q[1]][k]), IsTable(us[q[2]][k])
      PROVE  <<h[q[1]][k][2], us[q[2]][k][2]>> \in S
  <2>1. PICK r \in R : r = q[1] /\ us[q[2]] = CloneFields(r, R)
    BY <1>5
  <2>2. us[q[2]][k] = Tab(CloneOf(h[r][k][2], R))
    BY <1>1, <1>6, <2>1 DEF CloneFields
  <2>3. h[r][k][2] \in R
    BY <1>1, <1>2, <1>6, <2>1, NestedReachable
  <2>4. us[q[2]][k][2] = CloneOf(h[r][k][2], R)
    BY <2>2 DEF Tab
  <2>5. QED
    BY <1>4, <2>1, <2>3, <2>4
<1>7. f[Len(h)] \subseteq S
  <2>1. P \subseteq S
    BY <1>1, <1>4
  <2>2. QED
    BY <1>2, <1>3, <1>6, <2>1, PairsClosed
<1>8. QED
  BY <1>1, <1>3, <1>5, <1>7

(* A reload that fails leaves the host with the globals it had: the same names,
   the same values, and on every path of fields from the globals' tables what
   was there when hotReloadRestoreGlobals took its snapshot, however deeply the
   failed program wrote into the tables and whatever tables they share. *)
THEOREM RollbackRestoresHolds == Spec => RollbackRestores
<1>1. ASSUME TypeInv, [Next]_vars, RolledBack
      PROVE  /\ {n \in Names : Bound(n)'} = Before
             /\ \A n \in Before : Value(n)' = run.values[n]
             /\ \A p \in SamePath(tabs'), k \in Keys :
                   \/ tabs'[p[2]][k] = run.heap[p[1]][k] /\ ~IsTable(run.heap[p[1]][k])
                   \/ IsTable(tabs'[p[2]][k]) /\ IsTable(run.heap[p[1]][k])
  <2>1. ~UNCHANGED vars
    BY <1>1 DEF RolledBack, Ready, vars
  <2>2. Inv /\ Types /\ RunTypes
    BY <1>1 DEF TypeInv
  <2>3. Rollback
    BY <1>1, <2>1, <2>2, Ends DEF RolledBack
  <2>4. tabs' = RestoredTabs /\ ReplaceGlobals(Before, run.values)
    BY <2>3 DEF Rollback
  <2>5. /\ \A n \in Names : env'[n] # 0 <=> n \in Before
        /\ \A n \in Before : cells'[env'[n]] = run.values[n]
    BY <2>2, <2>4, Replaced
  <2>6. {n \in Names : Bound(n)'} = Before
    BY <2>5 DEF Bound, Before
  <2>7. \A n \in Before : Value(n)' = run.values[n]
    BY <2>5 DEF Value, Bound, Before
  <2>8. ASSUME NEW p \in SamePath(tabs'), NEW k \in Keys
        PROVE  \/ tabs'[p[2]][k] = run.heap[p[1]][k] /\ ~IsTable(run.heap[p[1]][k])
               \/ IsTable(tabs'[p[2]][k]) /\ IsTable(run.heap[p[1]][k])
    <3>1. tabs'[p[2]] = CloneFields(p[1], Reachable)
      BY <2>2, <2>4, PathsLeadToClones
    <3>2. tabs'[p[2]][k] = IF IsTable(run.heap[p[1]][k]) THEN Tab(CloneOf(run.heap[p[1]][k][2], Reachable))
                           ELSE run.heap[p[1]][k]
      BY <3>1 DEF CloneFields
    <3>3. QED
      BY <3>2 DEF IsTable, Tab
  <2>9. QED
    BY <2>6, <2>7, <2>8
<1>2. TypeInv /\ [Next]_vars =>
        [RolledBack =>
           /\ {n \in Names : Bound(n)'} = Before
           /\ \A n \in Before : Value(n)' = run.values[n]
           /\ \A p \in SamePath(tabs'), k \in Keys :
                 \/ tabs'[p[2]][k] = run.heap[p[1]][k] /\ ~IsTable(run.heap[p[1]][k])
                 \/ IsTable(tabs'[p[2]][k]) /\ IsTable(run.heap[p[1]][k])]_vars
  BY <1>1
<1>3. QED
  BY <1>2, TypesHold, PTL DEF Spec, RollbackRestores

-----------------------------------------------------------------------------
(* What statements and calls do to the values of the globals. *)

(* Name n gets the value v and the others keep theirs. *)
Wrote(n, v) == Value(n)' = v /\ \A m \in Names : m # n => Value(m)' = Value(m) /\ env'[m] = env[m]

(* A call adds to the number of a global, or gives one a new table. *)
Called ==
    /\ env' = env /\ funs' = funs
    /\ \E f \in 1..Len(funs) : \A m \in Names :
          \/ Value(m)' = Value(m)
          \/ /\ m = funs[f].body.name
             /\ \/ Value(m)[1] = "int" /\ Value(m)'[1] = "int"
                \/ funs[f].body.does = "reset" /\ Value(m)'[1] = "tab"

(* The closures after statement s: the old ones, and one of its literal. *)
Closed(s) ==
    \A f \in 1..Len(funs') :
        \/ f \in 1..Len(funs) /\ funs'[f] = funs[f]
        \/ /\ HasExpr(s) /\ s.expr.is = "func" /\ funs'[f].body = s.expr.val
           /\ \A n \in Names : funs'[f].cap[n] \in {0, env[n], env'[n]}

LEMMA DefineValues ==
    ASSUME Inv, NEW n \in Names, NEW v, cells' = Append(cells, v), env' = Redefined(n)
    PROVE  Wrote(n, v)
<1>1. Len(cells) \in Nat /\ IsSeq(cells) /\ env \in [Names -> 0..Len(cells)]
  BY Sizes
<1>2. cells'[Len(cells) + 1] = v /\ \A i \in 1..Len(cells) : cells'[i] = cells[i]
  BY <1>1, Added
<1>3. env'[n] = Len(cells) + 1 /\ \A m \in Names : m # n => env'[m] = env[m]
  BY <1>1 DEF Redefined
<1>4. Value(n)' = v
  BY <1>1, <1>2, <1>3 DEF Value, Bound
<1>5. ASSUME NEW m \in Names, m # n PROVE Value(m)' = Value(m)
  BY <1>1, <1>2, <1>3, <1>5 DEF Value, Bound
<1>6. QED
  BY <1>3, <1>4, <1>5 DEF Wrote

LEMMA WriteValues ==
    ASSUME Inv, NEW c \in 1..Len(cells), NEW v, cells' = [cells EXCEPT ![c] = v], env' = env
    PROVE  \A m \in Names : Value(m)' = IF env[m] = c THEN v ELSE Value(m)
<1>1. Len(cells) \in Nat /\ IsSeq(cells) /\ env \in [Names -> 0..Len(cells)]
  BY Sizes
<1>2. \A i \in 1..Len(cells) : cells'[i] = IF i = c THEN v ELSE cells[i]
  BY <1>1 DEF IsSeq
<1>3. ASSUME NEW m \in Names PROVE Value(m)' = IF env[m] = c THEN v ELSE Value(m)
  <2>1. CASE env[m] = 0
    BY <1>1, <2>1 DEF Value, Bound
  <2>2. CASE env[m] # 0
    <3>1. env[m] \in 1..Len(cells)
      BY <1>1, <2>2
    <3>2. Value(m) = cells[env[m]] /\ Value(m)' = cells'[env[m]]
      BY <2>2 DEF Value, Bound
    <3>3. QED
      BY <1>2, <3>1, <3>2
  <2>3. QED
    BY <2>1, <2>2
<1>4. QED
  BY <1>3

LEMMA CallValues ==
    ASSUME Inv, Types, NEW f \in 1..Len(funs), Runs(f), CallFunction(f)
    PROVE  Called
<1>1. PICK g, c, b : g = Callee(f) /\ b = funs[g].body /\ c = CellOf(g, b.name)
  OBVIOUS
<1>2. g \in 1..Len(funs) /\ c \in 1..Len(cells) /\ (b.does = "bump" => cells[c][1] = "int")
      /\ \A n \in Names : c = env[n] => n = b.name
  BY <1>1, CallCells
<1>3. env' = env /\ funs' = funs /\ Len(cells) \in Nat /\ env \in [Names -> 0..Len(cells)]
  BY Sizes DEF CallFunction
<1>4. PICK v : /\ cells' = [cells EXCEPT ![c] = v]
               /\ \/ b.does = "bump" /\ v[1] = "int"
                  \/ b.does = "reset" /\ v[1] = "tab"
  <2>1. \/ b.does = "bump" /\ cells' = [cells EXCEPT ![c] = Num(cells[c][2] + 1)]
        \/ b.does = "reset" /\ cells' = [cells EXCEPT ![c] = Tab(Len(tabs) + 1)]
    BY <1>1 DEF CallFunction
  <2>2. (\A x : Num(x)[1] = "int") /\ \A x : Tab(x)[1] = "tab"
    BY DEF Num, Tab
  <2>3. CASE b.does = "bump"
    <3>1. PICK v : v = Num(cells[c][2] + 1)
      OBVIOUS
    <3>2. cells' = [cells EXCEPT ![c] = v] /\ v[1] = "int"
      BY <2>1, <2>2, <2>3, <3>1
    <3>3. QED
      BY <2>3, <3>2
  <2>4. CASE b.does = "reset"
    <3>1. PICK v : v = Tab(Len(tabs) + 1)
      OBVIOUS
    <3>2. cells' = [cells EXCEPT ![c] = v] /\ v[1] = "tab"
      BY <2>1, <2>2, <2>4, <3>1
    <3>3. QED
      BY <2>4, <3>2
  <2>5. QED
    BY <2>1, <2>3, <2>4
<1>5. \A m \in Names : Value(m)' = IF env[m] = c THEN v ELSE Value(m)
  BY <1>2, <1>3, <1>4, WriteValues
<1>6. ASSUME NEW m \in Names
      PROVE  \/ Value(m)' = Value(m)
             \/ /\ m = funs[g].body.name
                /\ \/ Value(m)[1] = "int" /\ Value(m)'[1] = "int"
                   \/ funs[g].body.does = "reset" /\ Value(m)'[1] = "tab"
  <2>1. CASE env[m] # c
    BY <1>5, <2>1
  <2>2. CASE env[m] = c
    <3>1. Value(m) = cells[c] /\ Value(m)' = v /\ m = b.name
      BY <1>2, <1>5, <2>2 DEF Value, Bound
    <3>2. QED
      BY <1>1, <1>2, <1>4, <3>1
  <2>3. QED
    BY <2>1, <2>2
<1>7. QED
  BY <1>2, <1>3, <1>6 DEF Called

LEMMA ClosureMade ==
    ASSUME Inv, Types, NEW s \in Stmt, HasExpr(s), NEW e \in {env, Redefined(s.name)},
           funs' = FunsAfter(s.expr, e), env' = e \/ e = env
    PROVE  Closed(s)
<1>1. s.expr \in Expr /\ s.name \in Names
  BY StmtKinds DEF HasExpr
<1>2. Len(cells) \in Nat /\ env \in [Names -> 0..Len(cells)] /\ IsSeq(funs) /\ Len(funs) \in Nat
  BY Sizes DEF Types, IsSeq
<1>3. CASE s.expr.is = "func"
  <2>1. PICK x, c : x = s.expr.val /\ c = Closure(x, e)
    OBVIOUS
  <2>2. funs' = Append(funs, c)
    BY <1>3, <2>1 DEF FunsAfter
  <2>3. Len(funs') = Len(funs) + 1 /\ funs'[Len(funs) + 1] = c /\ \A i \in 1..Len(funs) : funs'[i] = funs[i]
    BY <1>2, <2>2, Added
  <2>4. c.body = x /\ \A n \in Names : c.cap[n] \in {0, e[n]}
    BY <2>1 DEF Closure
  <2>5. \A n \in Names : c.cap[n] \in {0, env[n], env'[n]}
    BY <2>4
  <2>6. \A f \in 1..Len(funs') : f \in 1..Len(funs) \/ f = Len(funs) + 1
    BY <1>2, <2>3
  <2>7. QED
    BY <1>3, <2>1, <2>3, <2>4, <2>5, <2>6 DEF Closed
<1>4. CASE s.expr.is # "func"
  BY <1>4 DEF FunsAfter, Closed
<1>5. QED
  BY <1>3, <1>4

LEMMA ExecValues ==
    ASSUME Inv, Types, NEW s \in Stmt, Exec(s)
    PROVE  /\ Closed(s)
           /\ \/ IsDeclaration(s) /\ Wrote(s.name, Eval(s.expr))
              \/ s.op = "assign" /\ Bound(s.name) /\ Wrote(s.name, Eval(s.expr)) /\ env' = env
              \/ s.op = "setfield" /\ env' = env /\ \A m \in Names : Value(m)' = Value(m)
              \/ s.op = "call" /\ Called
<1>1. CASE s.op = "decl" /\ ExecDeclare(s)
  <2>1. s.name \in Names /\ HasExpr(s)
    BY <1>1, StmtKinds DEF HasExpr
  <2>2. funs' = FunsAfter(s.expr, env) /\ cells' = Append(cells, Eval(s.expr)) /\ env' = Redefined(s.name)
    BY <1>1 DEF ExecDeclare, Allocate
  <2>3. Wrote(s.name, Eval(s.expr))
    BY <2>1, <2>2, DefineValues
  <2>4. Closed(s)
    BY <2>1, <2>2, ClosureMade
  <2>5. QED
    BY <1>1, <2>3, <2>4 DEF IsDeclaration
<1>2. CASE s.op = "func" /\ ExecFuncDecl(s)
  <2>1. s.name \in Names /\ HasExpr(s)
    BY <1>2, StmtKinds DEF HasExpr
  <2>2. funs' = FunsAfter(s.expr, Redefined(s.name)) /\ cells' = Append(cells, Eval(s.expr)) /\ env' = Redefined(s.name)
    BY <1>2 DEF ExecFuncDecl, Allocate
  <2>3. Wrote(s.name, Eval(s.expr))
    BY <2>1, <2>2, DefineValues
  <2>4. Closed(s)
    BY <2>1, <2>2, ClosureMade
  <2>5. QED
    BY <1>2, <2>3, <2>4 DEF IsDeclaration
<1>3. CASE s.op = "assign" /\ ExecAssign(s)
  <2>1. s.name \in Names /\ HasExpr(s)
    BY <1>3, StmtKinds DEF HasExpr
  <2>2. PICK c, v : c = env[s.name] /\ v = Eval(s.expr)
    OBVIOUS
  <2>3. funs' = FunsAfter(s.expr, env) /\ cells' = [cells EXCEPT ![c] = v] /\ env' = env /\ Bound(s.name)
    BY <1>3, <2>2 DEF ExecAssign, Allocate
  <2>4. Len(cells) \in Nat /\ env \in [Names -> 0..Len(cells)]
        /\ \A x, y \in Names : env[x] # 0 /\ env[x] = env[y] => x = y
    BY Sizes
  <2>5. c \in 1..Len(cells)
    BY <2>1, <2>2, <2>3, <2>4 DEF Bound
  <2>6. \A m \in Names : Value(m)' = IF env[m] = c THEN v ELSE Value(m)
    BY <2>3, <2>5, WriteValues
  <2>7. Wrote(s.name, v)
    BY <2>1, <2>2, <2>3, <2>4, <2>5, <2>6 DEF Wrote
  <2>8. Closed(s)
    BY <2>1, <2>3, ClosureMade
  <2>9. QED
    BY <1>3, <2>2, <2>3, <2>7, <2>8
<1>4. CASE s.op = "setfield" /\ ExecSetField(s)
  <2>1. env' = env /\ cells' = cells /\ funs' = FunsAfter(s.expr, env)
    BY <1>4 DEF ExecSetField
  <2>2. Closed(s)
    BY <1>4, <2>1, ClosureMade DEF HasExpr
  <2>3. QED
    BY <1>4, <2>1, <2>2 DEF Value, Bound
<1>5. CASE s.op = "call" /\ ExecCall(s)
  <2>1. IsFunction(Value(s.name)) /\ Runs(Value(s.name)[2]) /\ CallFunction(Value(s.name)[2])
    BY <1>5 DEF ExecCall
  <2>2. Value(s.name)[2] \in 1..Len(funs)
    BY <2>1, ValueTyped, ValueKinds, Sizes DEF Types, IsSeq
  <2>3. Called
    BY <2>1, <2>2, CallValues
  <2>4. QED
    BY <1>5, <2>3 DEF Called, Closed
<1>6. QED
  BY <1>1, <1>2, <1>3, <1>4, <1>5 DEF Exec

-----------------------------------------------------------------------------
(* The functions that the applied program declares. *)

Declared(p) == {Code[p][i] : i \in {j \in 1..Len(Code[p]) : Code[p][j].op = "func"}}
IsCurrent(fs, v, s) == IsFunction(v) /\ fs[v[2]].body = s.expr.val

FromProgram(p, q) == \A j \in 1..Len(q) : \E i \in 1..Len(Code[p]) : q[j] = Code[p][i]

(* What reloads that skip unchanged functions rest on: between operations all
   functions of the applied program are current; while a program runs its
   functions are current or still to be declared, and the snapshot has the
   current functions of the program before. *)
FunctionsInv ==
    /\ Ready /\ applied # None => \A s \in Declared(applied) : IsCurrent(funs, Value(s.name), s)
    /\ ~Ready => /\ FromProgram(run.prog, run.rest)
                 /\ \A s \in Declared(run.prog) : \/ IsCurrent(funs, Value(s.name), s)
                                                  \/ \E j \in 1..Len(run.rest) : run.rest[j] = s
                 /\ applied # None => \A s \in Declared(applied) : IsCurrent(funs, run.values[s.name], s)
    /\ \A n \in Names : run.env[n] = 0 => run.values[n] = Nil
    /\ \A f \in 1..Len(funs) : funs[f].body.does = "reset" => funs[f].body.name \notin FunctionNames

LEMMA CodeKinds ==
    ASSUME NEW p \in Programs
    PROVE  Len(Code[p]) \in Nat /\ Code[p] \in Seq(Stmt) /\ \A i \in 1..Len(Code[p]) : Code[p][i] \in Stmt
<1>1. Code[p] \in Seq(Stmt)
  BY ReloadAssumption
<1>2. QED
  BY <1>1

LEMMA DeclaredKinds ==
    ASSUME NEW p \in Programs, NEW s \in Declared(p)
    PROVE  s \in Stmt /\ s.op = "func" /\ s.name \in Names /\ s.name \in FunctionNames /\ s.expr.is = "func"
<1>1. PICK i \in 1..Len(Code[p]) : Code[p][i].op = "func" /\ s = Code[p][i]
  BY DEF Declared
<1>2. s \in Stmt
  BY <1>1, CodeKinds
<1>3. s.name \in Names /\ s.expr.is = "func"
  BY <1>1, <1>2, StmtKinds
<1>4. QED
  BY <1>1, <1>2, <1>3 DEF FunctionNames

LEMMA DeclaredOnce ==
    ASSUME OneDeclaration, NEW p \in Programs, NEW s \in Declared(p), NEW i \in 1..Len(Code[p]),
           IsDeclaration(Code[p][i]), Code[p][i].name = s.name
    PROVE  Code[p][i] = s
<1>1. PICK j \in 1..Len(Code[p]) : Code[p][j].op = "func" /\ s = Code[p][j]
  BY DEF Declared
<1>2. QED
  BY <1>1 DEF OneDeclaration, IsDeclaration

(* The fingerprint that a reload compares with is that of a declaration. *)
LEMMA PreviousDeclared ==
    ASSUME OneDeclaration, applied \in Programs, NEW s, s.op = "func", Previous(s.name) = s
    PROVE  s \in Declared(applied)
<1>1. PICK D : D = {i \in 1..Len(Code[applied]) :
                      Code[applied][i].op \in {"func", "decl"} /\ Code[applied][i].name = s.name}
  OBVIOUS
<1>2. Previous(s.name) = IF D = {} THEN [op |-> "none"]
                         ELSE Code[applied][CHOOSE i \in D : \A j \in D : j <= i]
  BY <1>1 DEF Previous
<1>3. D # {}
  <2>1. [op |-> "none"].op = "none"
    OBVIOUS
  <2>2. QED
    BY <1>2, <2>1
<1>4. PICK i \in D : TRUE
  BY <1>3
<1>5. Len(Code[applied]) \in Nat
  BY CodeKinds
<1>6. \A j \in D : j = i /\ j <= i
  BY <1>1, <1>4, <1>5 DEF OneDeclaration
<1>7. (CHOOSE k \in D : \A j \in D : j <= k) = i
  BY <1>4, <1>6
<1>8. s = Code[applied][i]
  BY <1>2, <1>3, <1>7
<1>9. QED
  BY <1>1, <1>8 DEF Declared

(* Closures do not change, so that a current function stays current. *)
LEMMA CurrentStays ==
    ASSUME Grows, NEW s, NEW v, NEW t \in Nat, Len(funs) \in Nat, IsValue(v, t, Len(funs)), IsCurrent(funs, v, s)
    PROVE  IsCurrent(funs', v, s)
<1>1. v[2] \in 1..Len(funs)
  BY ValueKinds DEF IsCurrent
<1>2. QED
  BY <1>1 DEF IsCurrent, Grows

LEMMA NamesOfFunctions ==
    ASSUME FunctionsOnlyDeclared, NEW p \in Programs, NEW i \in 1..Len(Code[p])
    PROVE  /\ Code[p][i].op = "assign" => Code[p][i].name \notin FunctionNames
           /\ ~ResetsOneOf(Code[p][i], FunctionNames)
  BY DEF FunctionsOnlyDeclared

LEMMA BodiesStay ==
    ASSUME FunctionsOnlyDeclared, NEW p \in Programs, NEW i \in 1..Len(Code[p]), NEW s, s = Code[p][i],
           FunctionsInv, Closed(s)
    PROVE  \A f \in 1..Len(funs') : funs'[f].body.does = "reset" => funs'[f].body.name \notin FunctionNames
<1>1. ~ResetsOneOf(s, FunctionNames)
  BY NamesOfFunctions
<1>2. QED
  BY <1>1 DEF Closed, FunctionsInv, ResetsOneOf

(* A call never replaces a function that a program declares. *)
LEMMA CalledKeepsFunctions ==
    ASSUME FunctionsInv, Called, NEW n \in FunctionNames, IsFunction(Value(n))
    PROVE  Value(n)' = Value(n)
<1>1. n \in Names
  BY DEF FunctionNames
<1>2. QED
  BY <1>1 DEF Called, FunctionsInv, IsFunction

LEMMA FunctionsStatement ==
    ASSUME OneDeclaration, FunctionsOnlyDeclared, TypeInv, FunctionsInv, Statement
    PROVE  FunctionsInv'
<1>1. PICK s, q : s = Head(run.rest) /\ q = Tail(run.rest)
  OBVIOUS
<1>2. Inv /\ Types /\ RunTypes /\ ~Ready /\ Exec(s) /\ run.rest \in Seq(Stmt) /\ run.rest # <<>>
      /\ applied' = applied
  BY <1>1 DEF TypeInv, RunTypes, Statement
<1>3. /\ run'.prog = run.prog /\ run'.values = run.values /\ run'.heap = run.heap /\ run'.env = run.env
      /\ run'.rest = q /\ ~Ready'
  BY <1>1, <1>2 DEF Statement, Inv, Snapshot, Ready
<1>4. /\ s \in Stmt /\ s = run.rest[1] /\ 1 \in 1..Len(run.rest)
      /\ \A j \in 1..Len(q) : q[j] = run.rest[j + 1] /\ j + 1 \in 1..Len(run.rest)
      /\ \A j \in 1..Len(run.rest) : j = 1 \/ (j - 1 \in 1..Len(q) /\ run.rest[j] = q[j - 1])
  BY <1>1, <1>2
<1>5. PICK p \in Programs : p = run.prog
  BY <1>2 DEF RunTypes, Ready
<1>6. PICK i \in 1..Len(Code[p]) : s = Code[p][i]
  BY <1>2, <1>4, <1>5 DEF FunctionsInv, FromProgram
<1>7. Grows /\ Closed(s) /\ Len(funs) \in Nat /\ Len(tabs) \in Nat /\ Len(run.heap) \in Nat
  BY <1>2, <1>4, ExecTypes, ExecValues, Sizes DEF Types, IsSeq
<1>8. \/ IsDeclaration(s) /\ Wrote(s.name, Eval(s.expr))
      \/ s.op = "assign" /\ Wrote(s.name, Eval(s.expr))
      \/ s.op = "setfield" /\ \A m \in Names : Value(m)' = Value(m)
      \/ s.op = "call" /\ Called
  BY <1>2, <1>4, ExecValues
<1>9. ASSUME NEW d \in Declared(p), d # s PROVE IsCurrent(funs, Value(d.name), d) => IsCurrent(funs', Value(d.name)', d)
  <2>1. SUFFICES ASSUME IsCurrent(funs, Value(d.name), d) PROVE IsCurrent(funs', Value(d.name)', d)
    OBVIOUS
  <2>2. d.name \in Names /\ d.name \in FunctionNames /\ d.op = "func"
    BY DeclaredKinds
  <2>3. IsCurrent(funs', Value(d.name), d)
    BY <1>2, <1>7, <2>1, ValueTyped, CurrentStays
  <2>4. Value(d.name)' = Value(d.name)
    <3>1. CASE IsDeclaration(s) /\ Wrote(s.name, Eval(s.expr))
      <4>1. d.name # s.name
        BY <1>6, <1>9, <3>1, DeclaredOnce
      <4>2. QED
        BY <2>2, <3>1, <4>1 DEF Wrote
    <3>2. CASE s.op = "assign" /\ Wrote(s.name, Eval(s.expr))
      <4>1. d.name # s.name
        BY <1>6, <2>2, <3>2, NamesOfFunctions
      <4>2. QED
        BY <2>2, <3>2, <4>1 DEF Wrote
    <3>3. CASE s.op = "setfield" /\ \A m \in Names : Value(m)' = Value(m)
      BY <2>2, <3>3
    <3>4. CASE s.op = "call" /\ Called
      BY <2>1, <2>2, <3>4, CalledKeepsFunctions DEF IsCurrent
    <3>5. QED
      BY <1>8, <3>1, <3>2, <3>3, <3>4
  <2>5. QED
    BY <2>3, <2>4
<1>10. s \in Declared(p) => IsCurrent(funs', Value(s.name)', s)
  <2>1. SUFFICES ASSUME s \in Declared(p) PROVE IsCurrent(funs', Value(s.name)', s)
    OBVIOUS
  <2>2. s.op = "func" /\ s.expr.is = "func"
    BY <2>1, DeclaredKinds
  <2>3. Value(s.name)' = Fun(Len(funs) + 1)
    BY <1>8, <2>2 DEF Wrote, Eval
  <2>4. funs' = Append(funs, Closure(s.expr.val, Redefined(s.name)))
    BY <1>2, <2>2 DEF Exec, ExecFuncDecl, Allocate, FunsAfter
  <2>5. PICK c : c = Closure(s.expr.val, Redefined(s.name))
    OBVIOUS
  <2>6. funs'[Len(funs) + 1] = c /\ c.body = s.expr.val
    BY <1>2, <2>4, <2>5, Added DEF Types, Closure
  <2>7. QED
    BY <2>3, <2>6 DEF IsCurrent, IsFunction, Fun
<1>11. ASSUME NEW d \in Declared(p)
       PROVE  IsCurrent(funs', Value(d.name)', d) \/ \E j \in 1..Len(q) : q[j] = d
  <2>1. CASE d = s
    BY <1>10, <2>1
  <2>2. CASE d # s /\ IsCurrent(funs, Value(d.name), d)
    BY <1>9, <2>2
  <2>3. CASE d # s /\ \E j \in 1..Len(run.rest) : run.rest[j] = d
    BY <1>4, <2>3
  <2>4. QED
    BY <1>2, <1>5, <2>1, <2>2, <2>3 DEF FunctionsInv
<1>12. FromProgram(run'.prog, run'.rest)
  BY <1>2, <1>3, <1>4 DEF FunctionsInv, FromProgram
<1>13. ASSUME applied # None, NEW d \in Declared(applied) PROVE IsCurrent(funs', run.values[d.name], d)
  <2>1. IsCurrent(funs, run.values[d.name], d)
    BY <1>2, <1>13 DEF FunctionsInv
  <2>2. d.name \in Names
    BY <1>2, <1>13, DeclaredKinds DEF RunTypes
  <2>3. IsValue(run.values[d.name], Len(run.heap), Len(funs))
    BY <1>2, <2>2 DEF RunTypes
  <2>4. QED
    BY <1>7, <2>1, <2>3, CurrentStays
<1>14. \A f \in 1..Len(funs') : funs'[f].body.does = "reset" => funs'[f].body.name \notin FunctionNames
  BY <1>6, <1>7, BodiesStay
<1>15. \A n \in Names : run'.env[n] = 0 => run'.values[n] = Nil
  BY <1>3 DEF FunctionsInv
<1>16. QED
  BY <1>2, <1>3, <1>5, <1>11, <1>12, <1>13, <1>14, <1>15 DEF FunctionsInv

LEMMA FunctionsApply ==
    ASSUME OneDeclaration, TypeInv, FunctionsInv, NEW p \in Programs, Apply(p)
    PROVE  FunctionsInv'
<1>1. Inv /\ Types /\ RunTypes /\ Ready
  BY DEF TypeInv, Apply
<1>2. /\ run'.prog = p /\ run'.rest = (IF applied = None THEN Code[p] ELSE Rewritten(p))
      /\ run'.env = env /\ run'.values = [n \in Names |-> Value(n)]
      /\ UNCHANGED <<env, cells, tabs, funs, applied>>
  BY DEF Apply
<1>3. ~Ready' /\ \A m : Value(m)' = Value(m)
  BY <1>2, ReloadAssumption DEF Ready, Value, Bound
<1>4. applied # None => KeptOf(run'.rest, p, Len(Code[p]))
  BY <1>2, RewrittenIs
<1>5. FromProgram(p, run'.rest)
  <2>1. CASE applied = None
    BY <1>2, <2>1 DEF FromProgram
  <2>2. CASE applied # None
    BY <1>4, <2>2 DEF FromProgram, KeptOf
  <2>3. QED
    BY <2>1, <2>2
<1>6. ASSUME NEW s \in Declared(p)
      PROVE  IsCurrent(funs, Value(s.name), s) \/ \E j \in 1..Len(run'.rest) : run'.rest[j] = s
  <2>1. PICK i \in 1..Len(Code[p]) : Code[p][i].op = "func" /\ s = Code[p][i]
    BY DEF Declared
  <2>2. CASE applied = None
    BY <1>2, <2>1, <2>2
  <2>3. CASE applied # None /\ \E j \in 1..Len(run'.rest) : run'.rest[j] = s
    BY <2>3
  <2>4. CASE applied # None /\ ShouldSkip(s)
    <3>1. Previous(s.name) = s
      BY <2>1, <2>4 DEF ShouldSkip
    <3>2. s \in Declared(applied)
      BY <1>1, <2>1, <2>4, <3>1, PreviousDeclared DEF RunTypes
    <3>3. QED
      BY <1>1, <2>4, <3>2 DEF FunctionsInv
  <2>5. QED
    BY <1>4, <2>1, <2>2, <2>3, <2>4 DEF KeptOf
<1>7. ASSUME applied # None, NEW s \in Declared(applied) PROVE IsCurrent(funs, run'.values[s.name], s)
  <2>1. s.name \in Names
    BY <1>1, <1>7, DeclaredKinds DEF RunTypes
  <2>2. QED
    BY <1>1, <1>2, <1>7, <2>1 DEF FunctionsInv
<1>8. \A n \in Names : run'.env[n] = 0 => run'.values[n] = Nil
  BY <1>2 DEF Value, Bound
<1>9. QED
  BY <1>2, <1>3, <1>5, <1>6, <1>7, <1>8 DEF FunctionsInv

LEMMA FunctionsIdle ==
    ASSUME FunctionsInv, run' = Idle, funs' = funs,
           applied' # None => \A s \in Declared(applied') : IsCurrent(funs, Value(s.name)', s)
    PROVE  FunctionsInv'
<1>1. run'.prog = None /\ run'.env = [n \in Names |-> 0] /\ run'.values = [n \in Names |-> Nil]
  BY DEF Idle
<1>2. QED
  BY <1>1 DEF FunctionsInv, Ready

LEMMA FunctionsCommit ==
    ASSUME TypeInv, FunctionsInv, Commit
    PROVE  FunctionsInv'
<1>1. Inv /\ Types /\ RunTypes /\ ~Ready /\ run.rest = <<>> /\ run' = Idle /\ applied' = run.prog
  BY DEF TypeInv, Commit
<1>2. run.prog \in Programs /\ funs' = funs
  BY <1>1 DEF RunTypes, Ready, Commit, PreserveHotReloadState
<1>3. ASSUME NEW s \in Declared(run.prog) PROVE IsCurrent(funs, Value(s.name)', s)
  <2>1. IsCurrent(funs, Value(s.name), s)
    BY <1>1 DEF FunctionsInv
  <2>2. s.name \in Names /\ IsFunction(Value(s.name))
    BY <1>2, <2>1, DeclaredKinds DEF IsCurrent
  <2>3. Value(s.name)' = Value(s.name)
    <3>1. CASE PreserveHotReloadState
      <4>1. env' = env /\ \A n \in Names \ Preserved : env[n] # 0 => cells'[env[n]] = cells[env[n]]
        BY <1>1, <3>1, PreserveValues
      <4>2. s.name \notin Preserved
        BY <2>2 DEF Preserved
      <4>3. QED
        BY <2>2, <4>1, <4>2 DEF Value, Bound
    <3>2. CASE UNCHANGED <<env, cells, tabs, funs>>
      BY <3>2 DEF Value, Bound
    <3>3. QED
      BY <3>1, <3>2 DEF Commit
  <2>4. QED
    BY <2>1, <2>3
<1>4. QED
  BY <1>1, <1>2, <1>3, FunctionsIdle

LEMMA FunctionsRollback ==
    ASSUME TypeInv, FunctionsInv, Rollback
    PROVE  FunctionsInv'
<1>1. Inv /\ Types /\ RunTypes /\ ~Ready /\ run' = Idle /\ applied' = applied /\ funs' = funs
      /\ ReplaceGlobals(Before, run.values)
  BY DEF TypeInv, Rollback
<1>2. /\ \A n \in Names : env'[n] # 0 <=> n \in Before
      /\ \A n \in Before : cells'[env'[n]] = run.values[n]
  BY <1>1, Replaced
<1>3. ASSUME applied # None, NEW s \in Declared(applied) PROVE IsCurrent(funs, Value(s.name)', s)
  <2>1. IsCurrent(funs, run.values[s.name], s)
    BY <1>1, <1>3 DEF FunctionsInv
  <2>2. s.name \in Names /\ run.values[s.name] # Nil
    BY <1>1, <1>3, <2>1, DeclaredKinds DEF IsCurrent, IsFunction, Nil, RunTypes
  <2>3. s.name \in Before
    BY <2>2 DEF FunctionsInv, Before
  <2>4. Value(s.name)' = run.values[s.name]
    BY <1>2, <2>2, <2>3 DEF Value, Bound
  <2>5. QED
    BY <2>1, <2>4
<1>4. QED
  BY <1>1, <1>3, FunctionsIdle

LEMMA FunctionsCall ==
    ASSUME TypeInv, FunctionsInv, NEW n \in Names, Call(n)
    PROVE  FunctionsInv'
<1>1. Inv /\ Types /\ RunTypes /\ Ready /\ applied # None /\ run' = run /\ applied' = applied
      /\ IsFunction(Value(n)) /\ Runs(Value(n)[2]) /\ CallFunction(Value(n)[2])
  BY DEF TypeInv, Call
<1>2. Value(n)[2] \in 1..Len(funs)
  BY <1>1, ValueTyped, ValueKinds, Sizes DEF Types, IsSeq
<1>3. Called /\ funs' = funs
  BY <1>1, <1>2, CallValues DEF Called
<1>4. ASSUME NEW s \in Declared(applied) PROVE IsCurrent(funs, Value(s.name)', s)
  <2>1. IsCurrent(funs, Value(s.name), s)
    BY <1>1 DEF FunctionsInv
  <2>2. s.name \in FunctionNames
    BY <1>1, DeclaredKinds DEF RunTypes
  <2>3. Value(s.name)' = Value(s.name)
    BY <1>3, <2>1, <2>2, CalledKeepsFunctions DEF IsCurrent
  <2>4. QED
    BY <2>1, <2>3
<1>5. QED
  BY <1>1, <1>3, <1>4 DEF FunctionsInv, Ready

LEMMA FunctionsStep ==
    ASSUME OneDeclaration, FunctionsOnlyDeclared, TypeInv, FunctionsInv, [Next]_vars
    PROVE  FunctionsInv'
<1>1. CASE UNCHANGED vars
  <2>1. (\A m : Value(m)' = Value(m)) /\ Ready' = Ready
    BY <1>1 DEF vars, Value, Bound, Ready
  <2>2. QED
    BY <1>1, <2>1 DEF vars, FunctionsInv
<1>2. QED
  BY <1>1, FunctionsStatement, FunctionsApply, FunctionsCommit, FunctionsRollback, FunctionsCall DEF Next

LEMMA FunctionsInit ==
    ASSUME Init
    PROVE  FunctionsInv
<1>1. funs = <<>> /\ applied = None /\ run.prog = None /\ run.values = [n \in Names |-> Nil]
  BY DEF Init, Idle
<1>2. QED
  BY <1>1 DEF FunctionsInv, Ready

(* After any reloads, failed ones included, the functions of the applied
   program have the bodies it gives them, although each reload runs only the
   declarations that hotReloadFunctionFingerprints does not find unchanged: for
   programs that declare a name once and assign no function's name. *)
THEOREM FunctionsStayCurrent ==
    ASSUME OneDeclaration, FunctionsOnlyDeclared
    PROVE  Spec => []FunctionsAreCurrent
<1>1. TypeInv /\ FunctionsInv => FunctionsAreCurrent
  <2>1. SUFFICES ASSUME TypeInv, FunctionsInv, Ready, applied # None, NEW i \in 1..Len(Code[applied]),
                        Code[applied][i].op = "func"
                 PROVE  /\ IsFunction(Value(Code[applied][i].name))
                        /\ funs[Value(Code[applied][i].name)[2]].body = Code[applied][i].expr.val
    BY DEF FunctionsAreCurrent
  <2>2. Code[applied][i] \in Declared(applied)
    BY <2>1 DEF Declared
  <2>3. QED
    BY <2>1, <2>2 DEF FunctionsInv, IsCurrent
<1>2. Init => TypeInv /\ FunctionsInv
  BY TypeInit, FunctionsInit
<1>3. TypeInv /\ FunctionsInv /\ [Next]_vars => TypeInv' /\ FunctionsInv'
  BY TypeStep, FunctionsStep
<1>4. QED
  BY <1>1, <1>2, <1>3, PTL DEF Spec

-----------------------------------------------------------------------------
(* The numbers of an instance, in the names S. *)

IsKind(S, n, v) == IF n \in S THEN v[1] \in {"nil", "int"} ELSE v[1] # "int"

(* What keeps the numbers in one cell per name: a closure has the cell that the
   name has, or none; and a declaration that a reload still runs is the first
   of its name, because ShouldPreserveDeclaredName skips every other one. *)
NumbersInv(S) ==
    /\ \A n \in Names : IsKind(S, n, Value(n)) /\ IsKind(S, n, run.values[n])
    /\ \A f \in 1..Len(funs) :
          /\ \A m \in S : funs[f].cap[m] \in {0, env[m]}
          /\ funs[f].body.does = "reset" => funs[f].body.name \notin S
    /\ Ready /\ applied = None => \A n \in Names : env[n] = 0
    /\ ~Ready => /\ FromProgram(run.prog, run.rest) /\ Once(run.rest)
                 /\ \A j \in 1..Len(run.rest) :
                       run.rest[j].op = "decl" /\ run.rest[j].name \in S => env[run.rest[j].name] = 0

Budget ==
    /\ budget = [applies |-> budget.applies, calls |-> budget.calls, rollbacks |-> budget.rollbacks]
    /\ budget.rollbacks \in Nat

SharedInv(S) == Budget /\ (budget.rollbacks = 0 => NumbersInv(S))

LEMMA ScalarStatements ==
    ASSUME NEW S, ScalarsApart(S), NEW p \in Programs, NEW i \in 1..Len(Code[p]), NEW s, s = Code[p][i]
    PROVE  /\ s.op \in {"decl", "assign"} => (s.name \in S <=> ScalarExpr(s.expr, S))
           /\ s.op = "func" => s.name \notin S
           /\ ~ResetsOneOf(s, S)
  BY DEF ScalarsApart

LEMMA EvalKind ==
    ASSUME NEW S \in SUBSET Names, NumbersInv(S), NEW x \in Expr
    PROVE  IF ScalarExpr(x, S) THEN Eval(x)[1] \in {"nil", "int"} ELSE Eval(x)[1] # "int"
<1>1. CASE x.is = "int"
  BY <1>1 DEF ScalarExpr, Eval, Num
<1>2. CASE x.is = "table"
  BY <1>2 DEF ScalarExpr, Eval, Tab
<1>3. CASE x.is = "func"
  BY <1>3 DEF ScalarExpr, Eval, Fun
<1>4. CASE x.is = "name"
  <2>1. x.val \in Names
    BY <1>4 DEF Expr, Literal
  <2>2. Eval(x) = Value(x.val)
    BY <1>4 DEF Eval
  <2>3. ScalarExpr(x, S) <=> x.val \in S
    BY <1>4 DEF ScalarExpr
  <2>4. QED
    BY <2>1, <2>2, <2>3 DEF NumbersInv, IsKind
<1>5. QED
  BY <1>1, <1>2, <1>3, <1>4 DEF Expr, Literal

LEMMA CalledKinds ==
    ASSUME NEW S \in SUBSET Names, NumbersInv(S), Called
    PROVE  \A n \in Names : IsKind(S, n, Value(n)')
<1>1. PICK f \in 1..Len(funs) : \A m \in Names :
          \/ Value(m)' = Value(m)
          \/ /\ m = funs[f].body.name
             /\ \/ Value(m)[1] = "int" /\ Value(m)'[1] = "int"
                \/ funs[f].body.does = "reset" /\ Value(m)'[1] = "tab"
  BY DEF Called
<1>2. ASSUME NEW n \in Names PROVE IsKind(S, n, Value(n)')
  <2>1. IsKind(S, n, Value(n))
    BY DEF NumbersInv
  <2>2. CASE Value(n)' = Value(n)
    BY <2>1, <2>2
  <2>3. CASE Value(n)[1] = "int" /\ Value(n)'[1] = "int"
    BY <2>1, <2>3 DEF IsKind
  <2>4. CASE n = funs[f].body.name /\ funs[f].body.does = "reset" /\ Value(n)'[1] = "tab"
    <3>1. n \notin S
      BY <2>4 DEF NumbersInv
    <3>2. QED
      BY <2>4, <3>1 DEF IsKind
  <2>5. QED
    BY <1>1, <2>2, <2>3, <2>4
<1>3. QED
  BY <1>2

LEMMA SharedStatement ==
    ASSUME NEW S \in SUBSET Names, ScalarsApart(S), TypeInv, NumbersInv(S), Statement
    PROVE  NumbersInv(S)'
<1>1. PICK s, q : s = Head(run.rest) /\ q = Tail(run.rest)
  OBVIOUS
<1>2. Inv /\ Types /\ RunTypes /\ ~Ready /\ Exec(s) /\ run.rest \in Seq(Stmt) /\ run.rest # <<>>
  BY <1>1 DEF TypeInv, RunTypes, Statement
<1>3. run'.prog = run.prog /\ run'.values = run.values /\ run'.rest = q /\ ~Ready'
  BY <1>1, <1>2 DEF Statement, Inv, Snapshot, Ready
<1>4. /\ s \in Stmt /\ s = run.rest[1] /\ 1 \in 1..Len(run.rest) /\ Len(q) \in Nat
      /\ \A j \in 1..Len(q) : q[j] = run.rest[j + 1] /\ j + 1 \in 1..Len(run.rest)
  BY <1>1, <1>2
<1>5. PICK p \in Programs : p = run.prog
  BY <1>2 DEF RunTypes, Ready
<1>6. PICK i \in 1..Len(Code[p]) : s = Code[p][i]
  BY <1>2, <1>4, <1>5 DEF NumbersInv, FromProgram
<1>7. /\ s.op \in {"decl", "assign"} => (s.name \in S <=> ScalarExpr(s.expr, S))
      /\ s.op = "func" => s.name \notin S /\ ~ScalarExpr(s.expr, S)
      /\ ~ResetsOneOf(s, S)
      /\ HasExpr(s) => s.expr \in Expr
      /\ s.op # "fail" => s.name \in Names
  BY <1>4, <1>6, ScalarStatements, StmtKinds DEF ScalarExpr
<1>8. /\ Closed(s)
      /\ \/ IsDeclaration(s) /\ Wrote(s.name, Eval(s.expr))
         \/ s.op = "assign" /\ Wrote(s.name, Eval(s.expr)) /\ env' = env
         \/ s.op = "setfield" /\ env' = env /\ \A m \in Names : Value(m)' = Value(m)
         \/ s.op = "call" /\ Called
  BY <1>2, <1>4, ExecValues
<1>9. ASSUME NEW n \in Names PROVE IsKind(S, n, Value(n)')
  <2>1. IsKind(S, n, Value(n))
    BY DEF NumbersInv
  <2>2. CASE (IsDeclaration(s) \/ s.op = "assign") /\ Wrote(s.name, Eval(s.expr))
    <3>1. CASE n # s.name
      BY <2>1, <2>2, <3>1 DEF Wrote
    <3>2. CASE n = s.name
      <4>1. (n \in S <=> ScalarExpr(s.expr, S)) /\ s.expr \in Expr
        BY <1>7, <2>2, <3>2 DEF IsDeclaration, HasExpr
      <4>2. IF ScalarExpr(s.expr, S) THEN Eval(s.expr)[1] \in {"nil", "int"} ELSE Eval(s.expr)[1] # "int"
        BY <4>1, EvalKind
      <4>3. QED
        BY <2>2, <3>2, <4>1, <4>2 DEF Wrote, IsKind
    <3>3. QED
      BY <3>1, <3>2
  <2>3. CASE \A m \in Names : Value(m)' = Value(m)
    BY <2>1, <2>3
  <2>4. CASE Called
    BY <2>4, CalledKinds
  <2>5. QED
    BY <1>8, <2>2, <2>3, <2>4
(* A number gets a new cell only when no closure has one of it. *)
<1>10. ASSUME NEW m \in S PROVE env'[m] = env[m] \/ (s.op = "decl" /\ m = s.name /\ env[m] = 0 /\ ScalarExpr(s.expr, S))
  <2>1. CASE IsDeclaration(s) /\ Wrote(s.name, Eval(s.expr)) /\ m = s.name
    <3>1. s.op = "decl" /\ ScalarExpr(s.expr, S)
      BY <1>7, <2>1 DEF IsDeclaration
    <3>2. QED
      BY <1>2, <1>4, <2>1, <3>1 DEF NumbersInv
  <2>2. CASE IsDeclaration(s) /\ Wrote(s.name, Eval(s.expr)) /\ m # s.name
    BY <2>2 DEF Wrote
  <2>3. CASE env' = env
    BY <2>3
  <2>4. QED
    BY <1>8, <2>1, <2>2, <2>3 DEF Called
<1>11. ASSUME NEW f \in 1..Len(funs'), NEW m \in S PROVE funs'[f].cap[m] \in {0, env'[m]}
  <2>1. CASE f \in 1..Len(funs) /\ funs'[f] = funs[f]
    <3>1. funs'[f].cap[m] \in {0, env[m]}
      BY <2>1 DEF NumbersInv
    <3>2. QED
      BY <1>10, <3>1
  <2>2. CASE HasExpr(s) /\ s.expr.is = "func" /\ \A n \in Names : funs'[f].cap[n] \in {0, env[n], env'[n]}
    <3>1. env'[m] = env[m]
      BY <1>10, <2>2 DEF ScalarExpr
    <3>2. QED
      BY <2>2, <3>1
  <2>3. QED
    BY <1>8, <2>1, <2>2 DEF Closed
<1>12. ASSUME NEW f \in 1..Len(funs'), funs'[f].body.does = "reset" PROVE funs'[f].body.name \notin S
  BY <1>7, <1>8, <1>12 DEF Closed, NumbersInv, ResetsOneOf
<1>13. FromProgram(run.prog, q)
  <2>1. FromProgram(run.prog, run.rest)
    BY <1>2 DEF NumbersInv
  <2>2. QED
    BY <1>4, <2>1 DEF FromProgram
<1>14. Once(q)
  <2>1. Once(run.rest)
    BY <1>2 DEF NumbersInv
  <2>2. ASSUME NEW a \in 1..Len(q), NEW b \in 1..Len(q),
               IsDeclaration(q[a]), IsDeclaration(q[b]), q[a].name = q[b].name
        PROVE  a = b
    <3>1. PICK c \in 1..Len(run.rest), d \in 1..Len(run.rest) :
              c = a + 1 /\ d = b + 1 /\ run.rest[c] = q[a] /\ run.rest[d] = q[b]
      BY <1>4
    <3>2. c = d
      BY <2>1, <2>2, <3>1 DEF Once
    <3>3. QED
      BY <1>4, <3>1, <3>2
  <2>3. QED
    BY <2>2 DEF Once
<1>15. ASSUME NEW j \in 1..Len(q), q[j].op = "decl", q[j].name \in S PROVE env'[q[j].name] = 0
  <2>1. env[q[j].name] = 0
    <3>1. j + 1 \in 1..Len(run.rest) /\ run.rest[j + 1] = q[j]
      BY <1>4, <1>15
    <3>2. \A c \in 1..Len(run.rest) :
              run.rest[c].op = "decl" /\ run.rest[c].name \in S => env[run.rest[c].name] = 0
      BY <1>2 DEF NumbersInv
    <3>3. QED
      BY <1>15, <3>1, <3>2
  <2>2. ~(s.op = "decl" /\ q[j].name = s.name)
    <3>1. SUFFICES ASSUME s.op = "decl", q[j].name = s.name PROVE FALSE
      OBVIOUS
    <3>2. j + 1 = 1
      BY <1>2, <1>4, <1>15, <3>1 DEF NumbersInv, Once, IsDeclaration
    <3>3. QED
      BY <1>4, <3>2
  <2>3. QED
    BY <1>10, <1>15, <2>1, <2>2
<1>16. \A n \in Names : IsKind(S, n, run'.values[n])
  BY <1>3 DEF NumbersInv
<1>17. QED
  BY <1>3, <1>9, <1>11, <1>12, <1>13, <1>14, <1>15, <1>16 DEF NumbersInv

LEMMA SharedApply ==
    ASSUME NEW S \in SUBSET Names, OneDeclaration, TypeInv, NumbersInv(S), NEW p \in Programs, Apply(p)
    PROVE  NumbersInv(S)'
<1>1. Inv /\ Types /\ RunTypes /\ Ready
  BY DEF TypeInv, Apply
<1>2. /\ run'.prog = p /\ run'.rest = (IF applied = None THEN Code[p] ELSE Rewritten(p))
      /\ run'.values = [n \in Names |-> Value(n)] /\ UNCHANGED <<env, cells, tabs, funs, applied>>
  BY DEF Apply
<1>3. ~Ready' /\ \A m : Value(m)' = Value(m)
  BY <1>2, ReloadAssumption DEF Ready, Value, Bound
<1>4. PICK r : r = run'.rest
  OBVIOUS
<1>5. /\ FromProgram(p, r) /\ Once(r)
      /\ \A j \in 1..Len(r) : r[j].op = "decl" /\ r[j].name \in S => env[r[j].name] = 0
  <2>1. CASE applied = None
    <3>1. r = Code[p] /\ \A n \in Names : env[n] = 0
      BY <1>1, <1>2, <1>4, <2>1 DEF NumbersInv
    <3>2. Once(r) /\ FromProgram(p, r)
      BY <3>1 DEF Once, FromProgram, OneDeclaration, IsDeclaration
    <3>3. QED
      BY <3>1, <3>2
  <2>2. CASE applied # None
    <3>1. KeptOf(r, p, Len(Code[p])) /\ Once(r)
      BY <1>2, <1>4, <2>2, RewrittenIs
    <3>2. ASSUME NEW j \in 1..Len(r), r[j].op = "decl", r[j].name \in S PROVE env[r[j].name] = 0
      <4>1. ~ShouldSkip(r[j])
        BY <3>1 DEF KeptOf
      <4>2. ~ShouldPreserveDeclaredName(r[j])
        BY <3>2, <4>1 DEF ShouldSkip
      <4>3. Value(r[j].name)[1] \in {"nil", "int"}
        BY <3>2 DEF NumbersInv, IsKind
      <4>4. ~Bound(r[j].name)
        BY <4>2, <4>3 DEF ShouldPreserveDeclaredName, IsTable, IsFunction
      <4>5. QED
        BY <3>2, <4>4 DEF Bound
    <3>3. QED
      BY <3>1, <3>2 DEF KeptOf, FromProgram
  <2>3. QED
    BY <2>1, <2>2
<1>6. \A n \in Names : IsKind(S, n, Value(n)') /\ IsKind(S, n, run'.values[n])
  BY <1>2, <1>3 DEF NumbersInv
<1>7. \A f \in 1..Len(funs') :
          /\ \A m \in S : funs'[f].cap[m] \in {0, env'[m]}
          /\ funs'[f].body.does = "reset" => funs'[f].body.name \notin S
  BY <1>2 DEF NumbersInv
<1>8. QED
  BY <1>2, <1>3, <1>4, <1>5, <1>6, <1>7 DEF NumbersInv

LEMMA SharedCommit ==
    ASSUME NEW S \in SUBSET Names, TypeInv, NumbersInv(S), Commit
    PROVE  NumbersInv(S)'
<1>1. Inv /\ RunTypes /\ ~Ready /\ run' = Idle /\ applied' = run.prog /\ applied' # None
  BY DEF TypeInv, Commit, Ready
<1>2. Ready' /\ run'.values = [n \in Names |-> Nil] /\ env' = env /\ funs' = funs
  BY <1>1 DEF Ready, Idle, Commit, PreserveHotReloadState
<1>3. ASSUME NEW n \in Names PROVE IsKind(S, n, Value(n)')
  <2>1. IsKind(S, n, Value(n)) /\ IsKind(S, n, run.values[n])
    BY DEF NumbersInv
  <2>2. CASE PreserveHotReloadState
    <3>1. /\ \A m \in Preserved : cells'[env[m]] = run.values[m]
          /\ \A m \in Names \ Preserved : env[m] # 0 => cells'[env[m]] = cells[env[m]]
      BY <1>1, <2>2, PreserveValues
    <3>2. Value(n)' = Value(n) \/ Value(n)' = run.values[n]
      BY <1>2, <3>1 DEF Value, Bound
    <3>3. QED
      BY <2>1, <3>2
  <2>3. CASE UNCHANGED <<env, cells, tabs, funs>>
    BY <2>1, <2>3 DEF Value, Bound
  <2>4. QED
    BY <2>2, <2>3 DEF Commit
<1>4. \A n \in Names : IsKind(S, n, run'.values[n])
  BY <1>2 DEF IsKind, Nil
<1>5. \A f \in 1..Len(funs') :
          /\ \A m \in S : funs'[f].cap[m] \in {0, env'[m]}
          /\ funs'[f].body.does = "reset" => funs'[f].body.name \notin S
  BY <1>2 DEF NumbersInv
<1>6. QED
  BY <1>1, <1>2, <1>3, <1>4, <1>5 DEF NumbersInv

LEMMA SharedCall ==
    ASSUME NEW S \in SUBSET Names, TypeInv, NumbersInv(S), NEW n \in Names, Call(n)
    PROVE  NumbersInv(S)'
<1>1. Inv /\ Types /\ Ready /\ applied # None /\ run' = run /\ applied' = applied
      /\ IsFunction(Value(n)) /\ Runs(Value(n)[2]) /\ CallFunction(Value(n)[2])
  BY DEF TypeInv, Call
<1>2. Value(n)[2] \in 1..Len(funs)
  BY <1>1, ValueTyped, ValueKinds, Sizes DEF Types, IsSeq
<1>3. Called /\ funs' = funs /\ env' = env
  BY <1>1, <1>2, CallValues DEF Called
<1>4. \A m \in Names : IsKind(S, m, Value(m)')
  BY <1>3, CalledKinds
<1>5. Ready'
  BY <1>1 DEF Ready
<1>6. QED
  BY <1>1, <1>3, <1>4, <1>5 DEF NumbersInv

LEMMA SharedStep ==
    ASSUME NEW S \in SUBSET Names, OneDeclaration, ScalarsApart(S), TypeInv, SharedInv(S), [Next]_vars
    PROVE  SharedInv(S)'
<1>1. CASE Rollback
  <2>1. budget' = [budget EXCEPT !.rollbacks = budget.rollbacks + 1]
    BY <1>1 DEF Rollback
  <2>2. Budget' /\ budget'.rollbacks = budget.rollbacks + 1 /\ budget'.rollbacks # 0
    BY <2>1 DEF SharedInv, Budget
  <2>3. QED
    BY <2>2 DEF SharedInv
<1>2. CASE ~Rollback
  <2>1. Budget' /\ budget'.rollbacks = budget.rollbacks
    BY <1>2 DEF Next, Apply, Statement, Commit, Call, vars, SharedInv, Budget
  <2>2. SUFFICES ASSUME budget.rollbacks = 0 PROVE NumbersInv(S)'
    BY <2>1 DEF SharedInv
  <2>3. NumbersInv(S)
    BY <2>2 DEF SharedInv
  <2>4. CASE UNCHANGED vars
    <3>1. (\A m : Value(m)' = Value(m)) /\ Ready' = Ready
      BY <2>4 DEF vars, Value, Bound, Ready
    <3>2. QED
      BY <2>3, <2>4, <3>1 DEF vars, NumbersInv
  <2>5. QED
    BY <1>2, <2>3, <2>4, SharedStatement, SharedApply, SharedCommit, SharedCall DEF Next
<1>3. QED
  BY <1>1, <1>2

LEMMA SharedInit ==
    ASSUME Init, NEW S \in SUBSET Names
    PROVE  SharedInv(S)
<1>1. /\ funs = <<>> /\ env = [n \in Names |-> 0] /\ run.prog = None /\ run.values = [n \in Names |-> Nil]
      /\ budget = [applies |-> 0, calls |-> 0, rollbacks |-> 0]
  BY DEF Init, Idle
<1>2. \A n \in Names : Value(n) = Nil
  BY <1>1 DEF Value, Bound
<1>3. \A n \in Names : IsKind(S, n, Nil)
  BY DEF IsKind, Nil
<1>4. NumbersInv(S)
  BY <1>1, <1>2, <1>3 DEF NumbersInv, Ready
<1>5. Budget
  BY <1>1 DEF Budget
<1>6. QED
  BY <1>4, <1>5 DEF SharedInv

(* Reloads that succeed leave the functions and the host with one copy of the
   numbers, although Environment.Define gives a declared name a new cell that
   closures made before do not see: the rewriting runs no declaration of a
   number that exists.  For programs that declare a name once and in which some
   names S hold numbers and the others never do. *)
THEOREM StateStaysShared ==
    ASSUME NEW S \in SUBSET Names, OneDeclaration, ScalarsApart(S)
    PROVE  Spec => []StateIsShared
<1>1. TypeInv /\ SharedInv(S) => StateIsShared
  <2>1. SUFFICES ASSUME TypeInv, NumbersInv(S), NEW n \in Names, NEW m \in Names,
                        IsFunction(Value(n)), Value(m)[1] = "int"
                 PROVE  CellOf(Value(n)[2], m) = env[m]
    BY DEF StateIsShared, OneCopy, SharedInv
  <2>2. m \in S
    BY <2>1 DEF NumbersInv, IsKind
  <2>3. Value(n)[2] \in 1..Len(funs)
    BY <2>1, ValueTyped, ValueKinds, Sizes DEF TypeInv, Types, IsSeq
  <2>4. QED
    BY <2>1, <2>2, <2>3 DEF NumbersInv, CellOf
<1>2. Init => TypeInv /\ SharedInv(S)
  BY TypeInit, SharedInit
<1>3. TypeInv /\ SharedInv(S) /\ [Next]_vars => TypeInv' /\ SharedInv(S)'
  BY TypeStep, SharedStep
<1>4. QED
  BY <1>1, <1>2, <1>3, PTL DEF Spec
=============================================================================
