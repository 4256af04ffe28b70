------------------------- MODULE HotReloadStateProofs -------------------------
(***************************************************************************)
(* Theorems about HotReloadState for any names, programs, engines and      *)
(* numbers of applications and calls.                                      *)
(***************************************************************************)
EXTENDS HotReloadState, FiniteSetTheorems, TLAPS

IsSeq(s) == Len(s) \in Nat /\ s = [i \in 1..Len(s) |-> s[i]]

(* Names have cells of their own. *)
Bindings(e, n) ==
    /\ e \in [Names -> 0..n]
    /\ \A x, y \in Names : e[x] # 0 /\ e[x] = e[y] => x = y

(* A value that is a table is one of the first n. *)
Points(v, n) == IsTable(v) => v[2] \in 1..n

Cells ==
    /\ IsSeq(cells) /\ IsSeq(tabs) /\ Bindings(env, Len(cells))
    /\ \A c \in 1..Len(cells) : Points(cells[c], Len(tabs))

(* What an application started from: bindings that are still there, and values
   whose tables are in its heap. *)
Snapshot ==
    /\ run = [prog |-> run.prog, rest |-> run.rest, preserve |-> run.preserve,
              env |-> run.env, values |-> run.values, heap |-> run.heap]
    /\ IsSeq(run.heap) /\ Len(run.heap) <= Len(tabs)
    /\ Bindings(run.env, Len(cells))
    /\ \A n \in Names : Points(run.values[n], Len(run.heap))
    /\ \A n \in Before : env[n] # 0

Inv == Cells /\ Snapshot

-----------------------------------------------------------------------------
(* Sequences. *)

LEMMA Added ==
    ASSUME NEW s, IsSeq(s), NEW x
    PROVE  LET t == Append(s, x)
           IN  /\ IsSeq(t) /\ Len(t) = Len(s) + 1 /\ t[Len(s) + 1] = x
               /\ \A i \in 1..Len(s) : t[i] = s[i]
<1>1. PICK S : S = {s[i] : i \in 1..Len(s)} \cup {x}
  OBVIOUS
<1>2. s \in Seq(S) /\ x \in S
  <2>1. Len(s) \in Nat /\ \A i \in 1..Len(s) : s[i] \in S
    BY <1>1 DEF IsSeq
  <2>2. [i \in 1..Len(s) |-> s[i]] \in Seq(S)
    BY <2>1
  <2>3. QED
    BY <1>1, <2>2 DEF IsSeq
<1>3. PICK t : t = Append(s, x)
  OBVIOUS
<1>4. t \in Seq(S) /\ Len(t) = Len(s) + 1 /\ t[Len(s) + 1] = x /\ \A i \in 1..Len(s) : t[i] = s[i]
  BY <1>2, <1>3
<1>5. t = [i \in 1..Len(t) |-> t[i]] /\ Len(t) \in Nat
  BY <1>4
<1>6. QED
  BY <1>3, <1>4, <1>5 DEF IsSeq

LEMMA Made ==
    ASSUME NEW n \in Nat, NEW f
    PROVE  LET t == [i \in 1..n |-> f[i]]
           IN  IsSeq(t) /\ Len(t) = n
  BY DEF IsSeq

LEMMA Joined ==
    ASSUME NEW s, IsSeq(s), NEW t, IsSeq(t)
    PROVE  LET u == s \o t
           IN  /\ IsSeq(u) /\ Len(u) = Len(s) + Len(t)
               /\ \A i \in 1..Len(s) : u[i] = s[i]
               /\ \A i \in 1..Len(t) : u[Len(s) + i] = t[i]
<1>1. PICK S : S = {s[i] : i \in 1..Len(s)} \cup {t[i] : i \in 1..Len(t)}
  OBVIOUS
<1>2. s \in Seq(S) /\ t \in Seq(S)
  <2>1. Len(s) \in Nat /\ \A i \in 1..Len(s) : s[i] \in S
    BY <1>1 DEF IsSeq
  <2>2. [i \in 1..Len(s) |-> s[i]] \in Seq(S)
    BY <2>1
  <2>3. Len(t) \in Nat /\ \A i \in 1..Len(t) : t[i] \in S
    BY <1>1 DEF IsSeq
  <2>4. [i \in 1..Len(t) |-> t[i]] \in Seq(S)
    BY <2>3
  <2>5. QED
    BY <2>2, <2>4 DEF IsSeq
<1>3. PICK u : u = s \o t
  OBVIOUS
<1>4. u \in Seq(S) /\ Len(u) = Len(s) + Len(t) /\ (\A i \in 1..Len(s) : u[i] = s[i])
      /\ (\A i \in 1..Len(t) : u[Len(s) + i] = t[i])
  BY <1>2, <1>3
<1>5. u = [i \in 1..Len(u) |-> u[i]] /\ Len(u) \in Nat
  BY <1>4
<1>6. QED
  BY <1>3, <1>4, <1>5 DEF IsSeq

(* The rank of a name among those of G: the ranks number G. *)
Rank(G, e, n) == Cardinality({m \in G : e[m] <= e[n]})

LEMMA Ranks ==
    ASSUME NEW G, IsFiniteSet(G), NEW e, \A n \in G : e[n] \in Nat,
           \A n, m \in G : e[n] = e[m] => n = m
    PROVE  /\ Cardinality(G) \in Nat
           /\ \A n \in G : Rank(G, e, n) \in 1..Cardinality(G)
           /\ \A n, m \in G : Rank(G, e, n) = Rank(G, e, m) => n = m
           /\ \A i \in 1..Cardinality(G) : \E n \in G : Rank(G, e, n) = i
<1> DEFINE Upto(n) == {m \in G : e[m] <= e[n]}
<1>1. Cardinality(G) \in Nat
  BY FS_CardinalityType
<1>2. ASSUME NEW n \in G
      PROVE  IsFiniteSet(Upto(n)) /\ Cardinality(Upto(n)) \in Nat /\ Rank(G, e, n) = Cardinality(Upto(n))
             /\ Cardinality(Upto(n)) <= Cardinality(G)
  BY FS_Subset, FS_CardinalityType DEF Rank
<1>3. ASSUME NEW n \in G PROVE Rank(G, e, n) >= 1
  <2>1. {n} \in SUBSET Upto(n)
    OBVIOUS
  <2>2. Cardinality({n}) <= Cardinality(Upto(n)) /\ Cardinality({n}) = 1
    BY <1>2, <2>1, FS_Subset, FS_Singleton
  <2>3. QED
    BY <1>2, <2>2
<1>4. \A n \in G : Rank(G, e, n) \in 1..Cardinality(G)
  <2>1. ASSUME NEW n \in G PROVE Rank(G, e, n) \in 1..Cardinality(G)
    <3>1. Rank(G, e, n) \in Nat /\ Rank(G, e, n) <= Cardinality(G) /\ Rank(G, e, n) >= 1
      BY <1>2, <1>3
    <3>2. QED
      BY <1>1, <3>1
  <2>2. QED
    BY <2>1
<1>5. ASSUME NEW n \in G, NEW m \in G, Rank(G, e, n) = Rank(G, e, m), e[n] <= e[m] PROVE n = m
  <2>1. Upto(n) \in SUBSET Upto(m)
    BY <1>5
  <2>2. Cardinality(Upto(m)) = Cardinality(Upto(n))
    BY <1>2, <1>5
  <2>3. Upto(m) = Upto(n)
    BY <1>2, <2>1, <2>2, FS_Subset
  <2>4. m \in Upto(m)
    OBVIOUS
  <2>5. e[m] <= e[n]
    BY <2>3, <2>4
  <2>6. QED
    BY <1>5, <2>5
<1>6. \A n, m \in G : Rank(G, e, n) = Rank(G, e, m) => n = m
  BY <1>5
<1>7. ASSUME NEW i \in 1..Cardinality(G) PROVE \E n \in G : Rank(G, e, n) = i
  <2>1. PICK f : f = [n \in G |-> Rank(G, e, n)]
    OBVIOUS
  <2>2. f \in Injection(G, 1..Cardinality(G))
    BY <1>4, <1>6, <2>1 DEF Injection, IsInjective
  <2>3. IsFiniteSet(1..Cardinality(G)) /\ Cardinality(1..Cardinality(G)) = Cardinality(G)
    BY <1>1, FS_Interval
  <2>4. f \in Surjection(G, 1..Cardinality(G))
    BY <2>2, <2>3, FS_Injection
  <2>5. QED
    BY <2>1, <2>4 DEF Surjection
<1>8. QED
  BY <1>1, <1>4, <1>6, <1>7

-----------------------------------------------------------------------------
(* The statements. *)

(* What every statement and every call keeps: cells and tables are added or
   written, and no name is unbound. *)
Moves ==
    /\ Cells' /\ Len(cells) <= Len(cells') /\ Len(tabs) <= Len(tabs')
    /\ \A n \in Names : env[n] # 0 => env'[n] # 0

LEMMA ValueOK ==
    ASSUME Cells, NEW n
    PROVE  Points(Value(n), Len(tabs))
<1>1. CASE Bound(n)
  <2>1. env[n] \in 1..Len(cells)
    BY <1>1 DEF Bound, Cells, Bindings, IsSeq
  <2>2. QED
    BY <1>1, <2>1 DEF Value, Cells
<1>2. CASE ~Bound(n)
  BY <1>2 DEF Value, Points, IsTable, Nil
<1>3. QED
  BY <1>1, <1>2

LEMMA PointsOn ==
    ASSUME NEW v, NEW m \in Nat, NEW n \in Nat, m <= n, Points(v, m)
    PROVE  Points(v, n)
  BY DEF Points

LEMMA EvalOK ==
    ASSUME Cells, NEW x, NEW e, Allocate(x, e)
    PROVE  /\ IsSeq(tabs') /\ Len(tabs) <= Len(tabs')
           /\ Points(Eval(x), Len(tabs'))
<1>1. Len(tabs) \in Nat /\ IsSeq(tabs)
  BY DEF Cells, IsSeq
<1>2. CASE x.is = "table"
  <2>1. IsSeq(tabs') /\ Len(tabs') = Len(tabs) + 1
    BY <1>1, <1>2, Added DEF Allocate, TabsAfter
  <2>2. Eval(x) = Tab(Len(tabs) + 1)
    BY <1>2 DEF Eval
  <2>3. QED
    BY <1>1, <2>1, <2>2 DEF Points, Tab
<1>3. CASE x.is # "table"
  <2>1. tabs' = tabs
    BY <1>3 DEF Allocate, TabsAfter
  <2>2. Eval(x) = Num(x.val) \/ Eval(x) = Fun(Len(funs) + 1) \/ Eval(x) = Value(x.val)
    BY <1>3 DEF Eval
  <2>3. Points(Num(x.val), Len(tabs)) /\ Points(Fun(Len(funs) + 1), Len(tabs))
    BY DEF Points, IsTable, Num, Fun
  <2>4. Points(Eval(x), Len(tabs))
    BY <2>2, <2>3, ValueOK
  <2>5. QED
    BY <1>1, <2>1, <2>4
<1>4. QED
  BY <1>2, <1>3

LEMMA DefineMoves ==
    ASSUME Cells, NEW v, NEW n, IsSeq(tabs'), Len(tabs) <= Len(tabs'), Points(v, Len(tabs')),
           cells' = Append(cells, v), env' = Redefined(n)
    PROVE  Moves
<1>1. IsSeq(cells) /\ Len(cells) \in Nat /\ Len(tabs) \in Nat /\ Len(tabs') \in Nat
  BY DEF Cells, IsSeq
<1>2. /\ IsSeq(cells') /\ Len(cells') = Len(cells) + 1 /\ cells'[Len(cells) + 1] = v
      /\ \A i \in 1..Len(cells) : cells'[i] = cells[i]
  BY <1>1, Added
<1>3. \A c \in 1..Len(cells') : Points(cells'[c], Len(tabs'))
  <2>1. ASSUME NEW c \in 1..Len(cells') PROVE Points(cells'[c], Len(tabs'))
    <3>1. CASE c = Len(cells) + 1
      BY <1>2, <3>1
    <3>2. CASE c \in 1..Len(cells)
      <4>1. Points(cells[c], Len(tabs))
        BY <3>2 DEF Cells
      <4>2. QED
        BY <1>1, <1>2, <3>2, <4>1, PointsOn
    <3>3. QED
      BY <1>1, <1>2, <3>1, <3>2
  <2>2. QED
    BY <2>1
<1>4. env \in [Names -> 0..Len(cells)] /\ \A x, y \in Names : env[x] # 0 /\ env[x] = env[y] => x = y
  BY DEF Cells, Bindings
<1>5. \A x \in Names : env'[x] = IF x = n THEN Len(cells) + 1 ELSE env[x]
  BY <1>4 DEF Redefined
<1>6. env' \in [Names -> 0..Len(cells')]
  <2>1. env' = [x \in Names |-> IF x = n THEN Len(cells) + 1 ELSE env[x]]
    BY <1>4 DEF Redefined
  <2>2. \A x \in Names : env[x] \in 0..(Len(cells) + 1)
    BY <1>1, <1>4
  <2>3. QED
    BY <1>1, <1>2, <2>1, <2>2
<1>7. \A x, y \in Names : env'[x] # 0 /\ env'[x] = env'[y] => x = y
  BY <1>1, <1>4, <1>5
<1>8. \A x \in Names : env[x] # 0 => env'[x] # 0
  BY <1>1, <1>5
<1>9. QED
  BY <1>1, <1>2, <1>3, <1>6, <1>7, <1>8 DEF Moves, Cells, Bindings

LEMMA WriteMoves ==
    ASSUME Cells, NEW v, NEW c, IsSeq(tabs'), Len(tabs) <= Len(tabs'), Points(v, Len(tabs')),
           cells' = [cells EXCEPT ![c] = v], env' = env
    PROVE  Moves
<1>1. IsSeq(cells) /\ Len(cells) \in Nat /\ Len(tabs) \in Nat /\ Len(tabs') \in Nat
  BY DEF Cells, IsSeq
<1>2. /\ IsSeq(cells') /\ Len(cells') = Len(cells)
      /\ \A i \in 1..Len(cells) : cells'[i] = IF i = c THEN v ELSE cells[i]
  <2>1. DOMAIN cells = 1..Len(cells)
    BY <1>1 DEF IsSeq
  <2>2. cells' = [i \in 1..Len(cells) |-> IF i = c THEN v ELSE cells[i]]
    BY <2>1
  <2>3. Len(cells') = Len(cells)
    BY <1>1, <2>2
  <2>4. IsSeq(cells')
    BY <1>1, <2>2, <2>3 DEF IsSeq
  <2>5. QED
    BY <2>2, <2>3, <2>4
<1>3. ASSUME NEW i \in 1..Len(cells') PROVE Points(cells'[i], Len(tabs'))
  <2>1. Points(cells[i], Len(tabs))
    BY <1>2 DEF Cells
  <2>2. Points(cells[i], Len(tabs'))
    BY <1>1, <2>1, PointsOn
  <2>3. QED
    BY <1>2, <2>2
<1>4. QED
  BY <1>1, <1>2, <1>3 DEF Moves, Cells

LEMMA CallMoves ==
    ASSUME Cells, NEW f, CallFunction(f)
    PROVE  Moves
<1>0. PICK c : c = CellOf(Callee(f), funs[Callee(f)].body.name)
  OBVIOUS
<1>1. Len(tabs) \in Nat /\ IsSeq(tabs) /\ env' = env
  BY DEF Cells, IsSeq, CallFunction
<1>2. CASE cells' = [cells EXCEPT ![c] = Num(cells[c][2] + 1)] /\ tabs' = tabs
  <2>1. Points(Num(cells[c][2] + 1), Len(tabs'))
    BY DEF Points, IsTable, Num
  <2>2. IsSeq(tabs') /\ Len(tabs) <= Len(tabs')
    BY <1>1, <1>2
  <2>3. QED
    BY <1>1, <1>2, <2>1, <2>2, WriteMoves
<1>3. CASE cells' = [cells EXCEPT ![c] = Tab(Len(tabs) + 1)] /\ tabs' = Append(tabs, [k \in Keys |-> Nil])
  <2>1. IsSeq(tabs') /\ Len(tabs') = Len(tabs) + 1
    BY <1>1, <1>3, Added
  <2>2. Points(Tab(Len(tabs) + 1), Len(tabs'))
    BY <1>1, <2>1 DEF Points, Tab
  <2>3. Len(tabs) <= Len(tabs')
    BY <1>1, <2>1
  <2>4. QED
    BY <1>1, <1>3, <2>1, <2>2, <2>3, WriteMoves
<1>4. QED
  BY <1>0, <1>2, <1>3 DEF CallFunction

LEMMA ExecMoves ==
    ASSUME Cells, NEW s, Exec(s)
    PROVE  Moves
<1>1. CASE ExecDeclare(s) \/ ExecFuncDecl(s)
  <2>1. PICK e : Allocate(s.expr, e)
    BY <1>1 DEF ExecDeclare, ExecFuncDecl
  <2>2. cells' = Append(cells, Eval(s.expr)) /\ env' = Redefined(s.name)
    BY <1>1 DEF ExecDeclare, ExecFuncDecl
  <2>3. QED
    BY <2>1, <2>2, EvalOK, DefineMoves
<1>2. CASE ExecAssign(s)
  <2>1. Allocate(s.expr, env) /\ cells' = [cells EXCEPT ![env[s.name]] = Eval(s.expr)] /\ env' = env
    BY <1>2 DEF ExecAssign
  <2>2. QED
    BY <2>1, EvalOK, WriteMoves
<1>3. CASE ExecSetField(s)
  <2>1. PICK ts : ts = TabsAfter(s.expr)
    OBVIOUS
  <2>2. IsSeq(tabs) /\ Len(tabs) \in Nat
    BY DEF Cells, IsSeq
  <2>3. IsSeq(ts) /\ (Len(ts) = Len(tabs) \/ Len(ts) = Len(tabs) + 1)
    BY <2>1, <2>2, Added DEF TabsAfter
  <2>4. PICK i, x : tabs' = [ts EXCEPT ![i] = x]
    BY <1>3, <2>1 DEF ExecSetField
  <2>5. IsSeq(tabs') /\ Len(tabs') = Len(ts)
    <3>1. DOMAIN ts = 1..Len(ts) /\ Len(ts) \in Nat
      BY <2>3 DEF IsSeq
    <3>2. tabs' = [j \in 1..Len(ts) |-> IF j = i THEN x ELSE ts[j]]
      BY <2>4, <3>1
    <3>3. Len(tabs') = Len(ts)
      BY <3>1, <3>2
    <3>4. QED
      BY <3>1, <3>2, <3>3 DEF IsSeq
  <2>6. Len(tabs) <= Len(tabs') /\ Len(tabs') \in Nat
    BY <2>2, <2>3, <2>5
  <2>7. env' = env /\ cells' = cells
    BY <1>3 DEF ExecSetField
  <2>8. ASSUME NEW c \in 1..Len(cells) PROVE Points(cells[c], Len(tabs'))
    <3>1. Points(cells[c], Len(tabs))
      BY DEF Cells
    <3>2. QED
      BY <2>2, <2>6, <3>1, PointsOn
  <2>9. QED
    BY <2>5, <2>6, <2>7, <2>8 DEF Moves, Cells, IsSeq, Bindings
<1>4. CASE ExecCall(s)
  BY <1>4, CallMoves DEF ExecCall
<1>5. QED
  BY <1>1, <1>2, <1>3, <1>4 DEF Exec

-----------------------------------------------------------------------------
(* The operations. *)

LEMMA MovesInv ==
    ASSUME Inv, Moves,
           run' = [run EXCEPT !.rest = run'.rest] \/ run' = run
    PROVE  Inv'
<1>1. /\ run'.prog = run.prog /\ run'.preserve = run.preserve /\ run'.env = run.env
      /\ run'.values = run.values /\ run'.heap = run.heap
      /\ run' = [prog |-> run'.prog, rest |-> run'.rest, preserve |-> run'.preserve,
                 env |-> run'.env, values |-> run'.values, heap |-> run'.heap]
  BY DEF Inv, Snapshot
<1>2. Len(run.heap) \in Nat /\ Len(tabs) \in Nat /\ Len(cells) \in Nat
      /\ Len(tabs') \in Nat /\ Len(cells') \in Nat
  BY DEF Inv, Cells, Snapshot, Moves, IsSeq
<1>3. IsSeq(run'.heap) /\ Len(run'.heap) <= Len(tabs')
  BY <1>1, <1>2 DEF Inv, Snapshot, Moves
<1>4. Bindings(run'.env, Len(cells'))
  <2>1. run.env \in [Names -> 0..Len(cells)] /\ Len(cells) <= Len(cells')
        /\ \A x, y \in Names : run.env[x] # 0 /\ run.env[x] = run.env[y] => x = y
    BY DEF Inv, Snapshot, Bindings, Moves
  <2>2. 0..Len(cells) \subseteq 0..Len(cells')
    BY <1>2, <2>1
  <2>3. run.env \in [Names -> 0..Len(cells')]
    BY <2>1, <2>2
  <2>4. QED
    BY <1>1, <2>1, <2>3 DEF Bindings
<1>5. \A n \in Names : Points(run'.values[n], Len(run'.heap))
  BY <1>1 DEF Inv, Snapshot
<1>6. Before' = Before /\ \A n \in Before : n \in Names /\ env'[n] # 0
  BY <1>1 DEF Inv, Snapshot, Before, Moves
<1>7. QED
  BY <1>1, <1>3, <1>4, <1>5, <1>6 DEF Inv, Snapshot, Moves

LEMMA IdleInv ==
    ASSUME Cells', run' = Idle
    PROVE  Inv'
<1>1. /\ run'.env = [n \in Names |-> 0] /\ run'.values = [n \in Names |-> Nil] /\ run'.heap = <<>>
      /\ run' = [prog |-> run'.prog, rest |-> run'.rest, preserve |-> run'.preserve,
                 env |-> run'.env, values |-> run'.values, heap |-> run'.heap]
  BY DEF Idle
<1>2. Len(cells') \in Nat /\ Len(tabs') \in Nat
  BY DEF Cells, IsSeq
<1>3. IsSeq(run'.heap) /\ Len(run'.heap) <= Len(tabs')
  <2>1. Len(<<>>) = 0
    OBVIOUS
  <2>2. IsSeq(<<>>)
    BY DEF IsSeq
  <2>3. QED
    BY <1>1, <1>2, <2>1, <2>2
<1>4. Bindings(run'.env, Len(cells'))
  BY <1>1, <1>2 DEF Bindings
<1>5. \A n \in Names : Points(run'.values[n], Len(run'.heap))
  BY <1>1 DEF Points, IsTable, Nil
<1>6. Before' = {}
  BY <1>1 DEF Before
<1>7. QED
  BY <1>1, <1>3, <1>4, <1>5, <1>6 DEF Inv, Snapshot

LEMMA ApplyInv ==
    ASSUME Inv, NEW p, Apply(p)
    PROVE  Inv'
<1>1. /\ run'.env = env /\ run'.values = [n \in Names |-> Value(n)] /\ run'.heap = tabs
      /\ run' = [prog |-> run'.prog, rest |-> run'.rest, preserve |-> run'.preserve,
                 env |-> run'.env, values |-> run'.values, heap |-> run'.heap]
      /\ UNCHANGED <<env, cells, tabs>>
  BY DEF Apply
<1>2. Len(cells) \in Nat /\ Len(tabs) \in Nat /\ Cells
  BY DEF Inv, Cells, IsSeq
<1>3. \A n \in Names : Points(run'.values[n], Len(run'.heap))
  BY <1>1, <1>2, ValueOK
<1>4. Before' = {n \in Names : env[n] # 0}
  BY <1>1 DEF Before
<1>5. Cells'
  BY <1>1, <1>2 DEF Cells, IsSeq, Bindings
<1>6. QED
  BY <1>1, <1>2, <1>3, <1>4, <1>5 DEF Inv, Cells, Snapshot

(* The cell of a preserved name gets the old value, and no other name has it. *)
LEMMA PreserveValues ==
    ASSUME Inv, PreserveHotReloadState
    PROVE  /\ IsSeq(cells') /\ Len(cells') = Len(cells) /\ env' = env
           /\ \A n \in Preserved : cells'[env[n]] = run.values[n]
           /\ \A n \in Names \ Preserved : env[n] # 0 => cells'[env[n]] = cells[env[n]]
           /\ \A c \in 1..Len(cells) :
                 cells'[c] = cells[c] \/ \E n \in Preserved : cells'[c] = run.values[n]
<1>1. Len(cells) \in Nat /\ Bindings(env, Len(cells))
  BY DEF Inv, Cells, IsSeq
<1>2. cells' = [c \in 1..Len(cells) |->
                  IF \E n \in Preserved : env[n] = c
                    THEN run.values[CHOOSE n \in Preserved : env[n] = c] ELSE cells[c]]
      /\ env' = env
  BY DEF PreserveHotReloadState
<1>3. Len(cells') = Len(cells) /\ IsSeq(cells')
  BY <1>1, <1>2 DEF IsSeq
<1>4. \A n \in Preserved : n \in Names /\ env[n] # 0
  BY DEF Preserved, Before, Bound
<1>5. \A n \in Names : env[n] # 0 => env[n] \in 1..Len(cells)
  BY <1>1 DEF Bindings
<1>6. ASSUME NEW n \in Preserved PROVE cells'[env[n]] = run.values[n]
  <2>1. (CHOOSE m \in Preserved : env[m] = env[n]) = n
    BY <1>1, <1>4 DEF Bindings
  <2>2. QED
    BY <1>2, <1>4, <1>5, <2>1
<1>7. ASSUME NEW n \in Names \ Preserved, env[n] # 0 PROVE cells'[env[n]] = cells[env[n]]
  <2>1. ~\E m \in Preserved : env[m] = env[n]
    BY <1>1, <1>4, <1>7 DEF Bindings
  <2>2. QED
    BY <1>2, <1>5, <1>7, <2>1
<1>8. ASSUME NEW c \in 1..Len(cells)
      PROVE  cells'[c] = cells[c] \/ \E n \in Preserved : cells'[c] = run.values[n]
  <2>1. CASE \E n \in Preserved : env[n] = c
    BY <1>6, <2>1
  <2>2. CASE ~\E n \in Preserved : env[n] = c
    BY <1>2, <2>2
  <2>3. QED
    BY <2>1, <2>2
<1>9. QED
  BY <1>2, <1>3, <1>6, <1>7, <1>8

LEMMA CommitInv ==
    ASSUME Inv, Commit
    PROVE  Inv'
<1>1. run' = Idle
  BY DEF Commit
<1>2. Len(cells) \in Nat /\ Len(tabs) \in Nat /\ Len(run.heap) \in Nat /\ Len(run.heap) <= Len(tabs)
  BY DEF Inv, Cells, Snapshot, IsSeq
<1>3. CASE PreserveHotReloadState
  <2>1. PICK o : tabs' = MergedTabs(o)
    BY <1>3 DEF PreserveHotReloadState
  <2>2. PICK f : tabs' = [t \in 1..Len(tabs) |-> f[t]]
    BY <2>1 DEF MergedTabs
  <2>3. IsSeq(tabs') /\ Len(tabs') = Len(tabs)
    BY <1>2, <2>2, Made
  <2>4. /\ IsSeq(cells') /\ Len(cells') = Len(cells) /\ env' = env
        /\ \A c \in 1..Len(cells) :
              cells'[c] = cells[c] \/ \E n \in Preserved : cells'[c] = run.values[n]
    BY <1>3, PreserveValues
  <2>5. ASSUME NEW c \in 1..Len(cells') PROVE Points(cells'[c], Len(tabs'))
    <3>1. CASE cells'[c] = cells[c]
      BY <2>3, <2>4, <3>1 DEF Inv, Cells
    <3>2. CASE \E n \in Preserved : cells'[c] = run.values[n]
      <4>1. PICK n \in Names : cells'[c] = run.values[n]
        BY <3>2 DEF Preserved, Before
      <4>2. Points(run.values[n], Len(run.heap))
        BY DEF Inv, Snapshot
      <4>3. QED
        BY <1>2, <2>3, <4>1, <4>2, PointsOn
    <3>3. QED
      BY <2>4, <3>1, <3>2
  <2>6. Cells'
    BY <2>3, <2>4, <2>5 DEF Inv, Cells, Bindings
  <2>7. QED
    BY <1>1, <2>6, IdleInv
<1>4. CASE UNCHANGED <<env, cells, tabs, funs>>
  <2>1. Cells'
    BY <1>4 DEF Inv, Cells, IsSeq, Bindings
  <2>2. QED
    BY <1>1, <2>1, IdleInv
<1>5. QED
  BY <1>3, <1>4 DEF Commit

LEMMA StatementInv ==
    ASSUME Inv, Statement
    PROVE  Inv'
<1>1. Moves
  BY ExecMoves DEF Statement, Inv
<1>2. run' = [run EXCEPT !.rest = run'.rest]
  BY DEF Statement, Inv, Snapshot
<1>3. QED
  BY <1>1, <1>2, MovesInv

LEMMA CallInv ==
    ASSUME Inv, NEW n, Call(n)
    PROVE  Inv'
<1>1. Moves
  BY CallMoves DEF Call, Inv
<1>2. QED
  BY <1>1, MovesInv DEF Call

(* Every global of the snapshot has a cell of its own again, with its value. *)
LEMMA Replaced ==
    ASSUME Inv, ReplaceGlobals(Before, run.values)
    PROVE  /\ IsSeq(cells') /\ Len(cells') = Len(cells) + Cardinality(Before) /\ Cardinality(Before) \in Nat
           /\ \A i \in 1..Len(cells) : cells'[i] = cells[i]
           /\ \A i \in 1..Cardinality(Before) :
                 \E n \in Before : cells'[Len(cells) + i] = run.values[n]
           /\ Bindings(env', Len(cells'))
           /\ \A n \in Names : env'[n] # 0 <=> n \in Before
           /\ \A n \in Before : cells'[env'[n]] = run.values[n] /\ env'[n] > Len(cells)
<1> DEFINE rank(n) == Rank(Before, run.env, n)
           new == [i \in 1..Cardinality(Before) |-> run.values[CHOOSE n \in Before : rank(n) = i]]
<1>1. Len(cells) \in Nat /\ IsSeq(cells) /\ Bindings(run.env, Len(cells))
  BY DEF Inv, Cells, Snapshot, IsSeq
<1>2. IsFiniteSet(Before) /\ Before \subseteq Names
  BY ReloadAssumption, FS_Subset DEF Before
<1>3. (\A n \in Before : run.env[n] \in Nat) /\ \A n, m \in Before : run.env[n] = run.env[m] => n = m
  BY <1>1 DEF Before, Bindings
<1>4. /\ Cardinality(Before) \in Nat
      /\ \A n \in Before : rank(n) \in 1..Cardinality(Before)
      /\ \A n, m \in Before : rank(n) = rank(m) => n = m
      /\ \A i \in 1..Cardinality(Before) : \E n \in Before : rank(n) = i
  <2>1. PICK G, e : G = Before /\ e = run.env
    OBVIOUS
  <2>2. /\ Cardinality(G) \in Nat
        /\ \A n \in G : Rank(G, e, n) \in 1..Cardinality(G)
        /\ \A n, m \in G : Rank(G, e, n) = Rank(G, e, m) => n = m
        /\ \A i \in 1..Cardinality(G) : \E n \in G : Rank(G, e, n) = i
    BY <1>2, <1>3, <2>1, Ranks
  <2>3. QED
    BY <2>1, <2>2
<1>5. cells' = cells \o new /\ env' = [n \in Names |-> IF n \in Before THEN Len(cells) + rank(n) ELSE 0]
  BY DEF ReplaceGlobals, Rank
<1>6. IsSeq(new) /\ Len(new) = Cardinality(Before)
  BY <1>4 DEF IsSeq
<1>7. \A n \in Before : new[rank(n)] = run.values[n]
  <2>1. ASSUME NEW n \in Before PROVE new[rank(n)] = run.values[n]
    <3>1. (CHOOSE m \in Before : rank(m) = rank(n)) = n
      BY <1>4
    <3>2. QED
      BY <1>4, <3>1
  <2>2. QED
    BY <2>1
<1> HIDE DEF new, rank
<1>8. /\ IsSeq(cells') /\ Len(cells') = Len(cells) + Cardinality(Before)
      /\ \A i \in 1..Len(cells) : cells'[i] = cells[i]
      /\ \A i \in 1..Cardinality(Before) : cells'[Len(cells) + i] = new[i]
  <2>1. PICK t, u : t = new /\ u = cells \o t
    OBVIOUS
  <2>2. /\ IsSeq(u) /\ Len(u) = Len(cells) + Len(t)
        /\ \A i \in 1..Len(cells) : u[i] = cells[i]
        /\ \A i \in 1..Len(t) : u[Len(cells) + i] = t[i]
    BY <1>1, <1>6, <2>1, Joined
  <2>3. u = cells'
    BY <1>5, <2>1
  <2>4. QED
    BY <1>6, <2>1, <2>2, <2>3
<1>9. \A i \in 1..Cardinality(Before) : \E n \in Before : cells'[Len(cells) + i] = run.values[n]
  BY <1>4, <1>7, <1>8
<1>10. \A n \in Before : env'[n] = Len(cells) + rank(n) /\ env'[n] # 0 /\ env'[n] \in 1..Len(cells')
  BY <1>1, <1>2, <1>4, <1>5, <1>8
<1>11. \A n \in Names \ Before : env'[n] = 0
  BY <1>5
<1>12. env' \in [Names -> 0..Len(cells')]
  <2>1. \A n \in Names : env'[n] \in 0..Len(cells')
    BY <1>1, <1>4, <1>8, <1>10, <1>11
  <2>2. QED
    BY <1>5, <2>1
<1>13. \A x, y \in Names : env'[x] # 0 /\ env'[x] = env'[y] => x = y
  <2>1. ASSUME NEW x \in Names, NEW y \in Names, env'[x] # 0, env'[x] = env'[y] PROVE x = y
    <3>1. x \in Before /\ y \in Before
      BY <1>11, <2>1
    <3>2. rank(x) = rank(y)
      <4>1. Len(cells) + rank(x) = Len(cells) + rank(y) /\ rank(x) \in Nat /\ rank(y) \in Nat
        BY <1>4, <1>10, <2>1, <3>1
      <4>2. QED
        BY <1>1, <4>1
    <3>3. QED
      BY <1>4, <3>1, <3>2
  <2>2. QED
    BY <2>1
<1>14. ASSUME NEW n \in Before PROVE cells'[env'[n]] = run.values[n] /\ env'[n] > Len(cells)
  <2>1. rank(n) \in 1..Cardinality(Before) /\ env'[n] = Len(cells) + rank(n)
    BY <1>4, <1>10
  <2>2. env'[n] > Len(cells)
    BY <1>1, <1>4, <2>1
  <2>3. QED
    BY <1>7, <1>8, <2>1, <2>2
<1>15. QED
  BY <1>2, <1>4, <1>8, <1>9, <1>10, <1>11, <1>12, <1>13, <1>14 DEF Bindings

(* The tables are kept and clones are added; the globals' own tables get the
   fields of their clones. *)
LEMMA Restored ==
    ASSUME Inv, tabs' = RestoredTabs
    PROVE  /\ IsSeq(tabs') /\ Len(tabs) <= Len(tabs')
           /\ \A t \in OldTables : t \in 1..Len(tabs) /\ tabs'[t] = CloneFields(t, Reachable)
<1>1. Len(tabs) \in Nat /\ Len(run.heap) \in Nat /\ Len(run.heap) <= Len(tabs)
  BY DEF Inv, Cells, Snapshot, IsSeq
<1>2. PICK R : R = Reachable
  OBVIOUS
<1>3. R \subseteq 1..Len(run.heap)
  BY <1>2 DEF Reachable
<1>4. Cardinality(R) \in Nat
  <2>1. IsFiniteSet(1..Len(run.heap))
    BY <1>1, FS_Interval
  <2>2. QED
    BY <1>3, <2>1, FS_Subset, FS_CardinalityType
<1>5. tabs' = [t \in 1..(Len(tabs) + Cardinality(R)) |->
                 IF t > Len(tabs) THEN CloneFields(CHOOSE r \in R : CloneOf(r, R) = t, R)
                 ELSE IF t \in OldTables THEN CloneFields(t, R)
                 ELSE tabs[t]]
  BY <1>2 DEF RestoredTabs
<1>6. IsSeq(tabs') /\ Len(tabs') = Len(tabs) + Cardinality(R)
  BY <1>1, <1>4, <1>5 DEF IsSeq
<1>7. ASSUME NEW t \in OldTables PROVE t \in 1..Len(tabs) /\ tabs'[t] = CloneFields(t, R)
  <2>1. t \in 1..Len(run.heap)
    BY DEF OldTables, Inv, Snapshot, Points
  <2>2. t \in 1..Len(tabs) /\ ~(t > Len(tabs)) /\ t \in 1..(Len(tabs) + Cardinality(R))
    BY <1>1, <1>4, <2>1
  <2>3. QED
    BY <1>5, <1>7, <2>2
<1>8. QED
  BY <1>1, <1>2, <1>4, <1>6, <1>7

LEMMA RollbackInv ==
    ASSUME Inv, Rollback
    PROVE  Inv'
<1>1. run' = Idle /\ tabs' = RestoredTabs /\ ReplaceGlobals(Before, run.values)
  BY DEF Rollback
<1>2. IsSeq(tabs') /\ Len(tabs) <= Len(tabs')
  BY <1>1, Restored
<1>3. Len(cells) \in Nat /\ Len(tabs) \in Nat /\ Len(tabs') \in Nat
      /\ Len(run.heap) \in Nat /\ Len(run.heap) <= Len(tabs)
  BY <1>2 DEF Inv, Cells, Snapshot, IsSeq
<1>4. /\ IsSeq(cells') /\ Len(cells') = Len(cells) + Cardinality(Before) /\ Cardinality(Before) \in Nat
      /\ \A i \in 1..Len(cells) : cells'[i] = cells[i]
      /\ \A i \in 1..Cardinality(Before) :
            \E n \in Before : cells'[Len(cells) + i] = run.values[n]
      /\ Bindings(env', Len(cells'))
  BY <1>1, Replaced
<1>5. ASSUME NEW c \in 1..Len(cells') PROVE Points(cells'[c], Len(tabs'))
  <2>1. CASE c \in 1..Len(cells)
    <3>1. Points(cells[c], Len(tabs))
      BY <2>1 DEF Inv, Cells
    <3>2. QED
      BY <1>2, <1>3, <1>4, <2>1, <3>1, PointsOn
  <2>2. CASE c > Len(cells)
    <3>1. PICK i \in 1..Cardinality(Before) : c = Len(cells) + i
      <4>1. c - Len(cells) \in 1..Cardinality(Before) /\ c = Len(cells) + (c - Len(cells))
        BY <1>3, <1>4, <2>2
      <4>2. QED
        BY <4>1
    <3>2. PICK n \in Names : cells'[c] = run.values[n]
      BY <1>4, <3>1 DEF Before
    <3>3. Points(run.values[n], Len(run.heap))
      BY DEF Inv, Snapshot
    <3>4. Len(run.heap) <= Len(tabs')
      BY <1>2, <1>3
    <3>5. QED
      BY <1>3, <3>2, <3>3, <3>4, PointsOn
  <2>3. QED
    BY <1>3, <1>4, <2>1, <2>2
<1>6. Cells'
  BY <1>2, <1>4, <1>5 DEF Cells
<1>7. QED
  BY <1>1, <1>6, IdleInv

LEMMA InitInv ==
    ASSUME Init
    PROVE  Inv
<1>1. /\ env = [n \in Names |-> 0] /\ cells = <<>> /\ tabs = <<>>
      /\ run.env = [n \in Names |-> 0] /\ run.values = [n \in Names |-> Nil] /\ run.heap = <<>>
      /\ run = [prog |-> run.prog, rest |-> run.rest, preserve |-> run.preserve,
                env |-> run.env, values |-> run.values, heap |-> run.heap]
  BY DEF Init, Idle
<1>2. Len(<<>>) = 0 /\ IsSeq(<<>>)
  BY DEF IsSeq
<1>3. Bindings([n \in Names |-> 0], 0)
  BY DEF Bindings
<1>4. Before = {}
  BY <1>1 DEF Before
<1>5. \A n \in Names : Points(run.values[n], 0)
  BY <1>1 DEF Points, IsTable, Nil
<1>6. QED
  BY <1>1, <1>2, <1>3, <1>4, <1>5 DEF Inv, Cells, Snapshot

LEMMA StepInv ==
    ASSUME Inv, [Next]_vars
    PROVE  Inv'
<1>1. ASSUME NEW p \in Programs, Apply(p) PROVE Inv'
  BY <1>1, ApplyInv
<1>2. CASE Statement
  BY <1>2, StatementInv
<1>3. CASE Commit
  BY <1>3, CommitInv
<1>4. CASE Rollback
  BY <1>4, RollbackInv
<1>5. ASSUME NEW n \in Names, Call(n) PROVE Inv'
  BY <1>5, CallInv
<1>6. CASE UNCHANGED vars
  BY <1>6 DEF vars, Inv, Cells, Snapshot, IsSeq, Bindings, Before
<1>7. QED
  BY <1>1, <1>2, <1>3, <1>4, <1>5, <1>6 DEF Next

(* Whatever programs are applied, fail, and are called into: every name has a
   cell of its own, and every cell that holds a table holds one that exists,
   also in the environment a rollback makes and in the snapshot it is made
   from (ReplaceGlobals, hotReloadRestoreGlobals, preserveHotReloadState). *)
THEOREM BindingsHold == Spec => []Inv
<1>1. Init => Inv
  BY InitInv
<1>2. Inv /\ [Next]_vars => Inv'
  BY StepInv
<1>3. QED
  BY <1>1, <1>2, PTL DEF Spec

(* Only the end of an application takes the instance from running to ready. *)
LEMMA Ends ==
    ASSUME Inv, Next, ~Ready, Ready'
    PROVE  (run.rest = <<>> /\ Commit) \/ (run.rest # <<>> /\ Rollback)
<1>1. ASSUME NEW p \in Programs, Apply(p) PROVE FALSE
  BY <1>1 DEF Apply
<1>2. ASSUME Statement PROVE FALSE
  <2>1. run'.prog = run.prog
    BY <1>2 DEF Statement, Inv, Snapshot
  <2>2. QED
    BY <2>1 DEF Ready
<1>3. ASSUME NEW n \in Names, Call(n) PROVE FALSE
  BY <1>3 DEF Call
<1>4. Commit => run.rest = <<>>
  BY DEF Commit
<1>5. Rollback => run.rest # <<>>
  BY DEF Rollback
<1>6. QED
  BY <1>1, <1>2, <1>3, <1>4, <1>5 DEF Next

(* A reload that succeeds leaves every global that is state before and after
   with the value it had: preserveHotReloadState finds each of them bound, and
   writes the old value into a cell that no other name uses. *)
THEOREM ReloadKeepsStateHolds == Spec => ReloadKeepsState
<1>1. ASSUME Inv, [Next]_vars, Committed, run.preserve, NEW n \in Before,
             ~IsFunction(run.values[n]), ~IsFunction(Value(n)')
      PROVE  Value(n)' = run.values[n]
  <2>1. ~UNCHANGED vars
    BY <1>1 DEF Committed, Ready, vars
  <2>2. Commit
    BY <1>1, <2>1, Ends DEF Committed
  <2>3. PreserveHotReloadState
    BY <1>1, <2>2 DEF Commit
  <2>4. n \in Names /\ env[n] # 0 /\ Bound(n)
    BY <1>1 DEF Inv, Snapshot, Before, Bound
  <2>5. /\ env' = env
        /\ \A m \in Preserved : cells'[env[m]] = run.values[m]
        /\ \A m \in Names \ Preserved : env[m] # 0 => cells'[env[m]] = cells[env[m]]
    BY <1>1, <2>3, PreserveValues
  <2>6. Value(n)' = cells'[env[n]]
    BY <2>4, <2>5 DEF Value, Bound
  <2>7. CASE n \in Preserved
    BY <2>5, <2>6, <2>7
  <2>8. CASE n \notin Preserved
    <3>1. Value(n)' = Value(n)
      BY <2>4, <2>5, <2>6, <2>8 DEF Value
    <3>2. n \in Preserved
      BY <1>1, <2>4, <3>1 DEF Preserved
    <3>3. QED
      BY <2>8, <3>2
  <2>9. QED
    BY <2>7, <2>8
<1>2. Inv /\ [Next]_vars =>
        [Committed /\ run.preserve =>
          \A n \in Before :
            ~IsFunction(run.values[n]) /\ ~IsFunction(Value(n)') => Value(n)' = run.values[n]]_vars
  BY <1>1
<1>3. QED
  BY <1>2, BindingsHold, PTL DEF Spec, ReloadKeepsState
=============================================================================
