------------------------- MODULE CoroutineRefinement -------------------------
(***************************************************************************)
(* Coroutine implements CoroutineSpec, where natives call back in the main *)
(* program only: every step of frames, activations and flags is a step of  *)
(* the chain of resumes and the stacks of calls, or changes none of them.  *)
(***************************************************************************)
EXTENDS CoroutineProofs

-----------------------------------------------------------------------------
(* The sequences that CoroutineSpec speaks of. *)

ChainOf(s, k) == [i \in 1..(Len(s) - k) |-> s[k + i].co]

LEMMA ChainIs ==
    ASSUME NEW s \in Seq(Activations), NEW k \in 0..Len(s), NEW fr, NEW n, NEW st,
           MainPart(s, k, fr, n), CoPart(s, k, st)
    PROVE  /\ (CHOOSE j \in 0..Len(s) : \A i \in 1..Len(s) : s[i].vm = Main <=> i <= j) = k
           /\ ChainOf(s, k) \in Seq(Co) /\ Len(ChainOf(s, k)) = Len(s) - k
           /\ \A i \in 1..(Len(s) - k) : ChainOf(s, k)[i] = s[k + i].co
<1>1. Len(s) \in Nat /\ k \in Nat /\ Len(s) - k \in Nat
  OBVIOUS
<1>2. \A i \in 1..k : s[i].vm = Main
  BY DEF MainPart, MainAt
<1>3. \A i \in (k + 1)..Len(s) : s[i].vm # Main /\ s[i].co \in Co
  BY CoroutineAssumption DEF CoPart, CoAt
<1>4. \A i \in 1..Len(s) : s[i].vm = Main <=> i <= k
  BY <1>1, <1>2, <1>3
<1>5. ASSUME NEW j \in 0..Len(s), \A i \in 1..Len(s) : s[i].vm = Main <=> i <= j PROVE j = k
  <2>1. CASE j < k
    <3>1. k \in 1..Len(s) /\ ~(k <= j)
      BY <1>1, <2>1
    <3>2. QED
      BY <1>1, <1>4, <1>5, <3>1
  <2>2. CASE k < j
    <3>1. j \in 1..Len(s) /\ ~(j <= k)
      BY <1>1, <2>2
    <3>2. QED
      BY <1>1, <1>4, <1>5, <3>1
  <2>3. QED
    BY <1>1, <2>1, <2>2
<1>6. (CHOOSE j \in 0..Len(s) : \A i \in 1..Len(s) : s[i].vm = Main <=> i <= j) = k
  BY <1>4, <1>5
<1>7. \A i \in 1..(Len(s) - k) : k + i \in (k + 1)..Len(s) /\ s[k + i].co \in Co
  BY <1>1, <1>3
<1>8. ChainOf(s, k) \in Seq(Co) /\ Len(ChainOf(s, k)) = Len(s) - k
      /\ \A i \in 1..(Len(s) - k) : ChainOf(s, k)[i] = s[k + i].co
  BY <1>1, <1>7 DEF ChainOf
<1>9. QED
  BY <1>6, <1>8

LEMMA ChainSame ==
    ASSUME NEW s, NEW t, NEW k, Len(t) = Len(s), Len(s) \in Nat, k \in Nat,
           \A i \in 1..Len(s) : t[i].co = s[i].co
    PROVE  ChainOf(t, k) = ChainOf(s, k)
<1>1. \A i \in 1..(Len(s) - k) : k + i \in 1..Len(s)
  OBVIOUS
<1>2. QED
  BY <1>1 DEF ChainOf

(* What CoroutineSpec sees of a state. *)
LEMMA View ==
    ASSUME Inv, NEW k \in Nat, Split(k)
    PROVE  /\ Chain = ChainOf(goStack, k) /\ Chain \in Seq(Co) /\ Len(Chain) = Len(goStack) - k
           /\ \A i \in 1..(Len(goStack) - k) : Chain[i] = goStack[k + i].co
<1>1. goStack \in Seq(Activations) /\ k \in 0..Len(goStack)
      /\ MainPart(goStack, k, frames[Main], frameCount[Main]) /\ CoPart(goStack, k, status)
  BY DEF Inv, TypeOK, Split
<1>2. LastOfMain = k
  BY <1>1, ChainIs DEF LastOfMain
<1>3. Chain = ChainOf(goStack, k)
  BY <1>2 DEF Chain, ChainOf
<1>4. QED
  BY <1>1, <1>3, ChainIs

LEMMA ViewThen ==
    ASSUME Inv', NEW k \in Nat, Split(k)'
    PROVE  /\ Chain' = ChainOf(goStack', k) /\ Chain' \in Seq(Co) /\ Len(Chain') = Len(goStack') - k
           /\ \A i \in 1..(Len(goStack') - k) : Chain'[i] = goStack'[k + i].co
<1>1. goStack' \in Seq(Activations) /\ k \in 0..Len(goStack')
      /\ MainPart(goStack', k, frames'[Main], frameCount'[Main]) /\ CoPart(goStack', k, status')
  BY DEF Inv, TypeOK, Split
<1>2. LastOfMain' = k
  BY <1>1, ChainIs DEF LastOfMain
<1>3. Chain' = ChainOf(goStack', k)
  BY <1>2 DEF Chain, ChainOf
<1>4. QED
  BY <1>1, <1>3, ChainIs

LEMMA RunningIs ==
    ASSUME Inv, goStack # <<>>, NEW k \in Nat, Split(k)
    PROVE  /\ Abstract!Running = V
           /\ (k = Len(goStack)) <=> (Chain = <<>>)
           /\ V \in Co => Chain # <<>> /\ Len(Chain) \in Nat /\ Len(Chain) >= 1
<1>1. Chain \in Seq(Co) /\ Len(Chain) = Len(goStack) - k
      /\ \A i \in 1..(Len(goStack) - k) : Chain[i] = goStack[k + i].co
  BY View
<1>2. Top = goStack[Len(goStack)] /\ k <= Len(goStack) /\ Len(goStack) \in Nat
  BY Control
<1>3. CASE k = Len(goStack) /\ V = Main
  <2>1. Chain = <<>>
    BY <1>1, <1>2, <1>3
  <2>2. Abstract!Running = Main
    BY <2>1 DEF Abstract!Running
  <2>3. QED
    BY <1>3, <2>1, <2>2, CoroutineAssumption
<1>4. CASE k < Len(goStack) /\ V \in Co /\ CoAt(Top, status)
  <2>1. Len(Chain) >= 1 /\ Len(Chain) \in 1..(Len(goStack) - k) /\ k + Len(Chain) = Len(goStack)
    BY <1>1, <1>2, <1>4
  <2>2. Chain # <<>>
    BY <2>1
  <2>3. Abstract!Running = Chain[Len(Chain)]
    BY <2>2 DEF Abstract!Running, Abstract!Last
  <2>4. Chain[Len(Chain)] = Top.co
    BY <1>1, <1>2, <2>1
  <2>5. Top.co = V
    BY <1>4 DEF CoAt, V
  <2>6. QED
    BY <1>4, <2>1, <2>2, <2>3, <2>4, <2>5
<1>5. QED
  BY <1>3, <1>4, Control

(* The calls in progress. *)
LEMMA CallsView ==
    ASSUME Inv
    PROVE  /\ InProgress \in [VMs -> Seq(Nat)]
           /\ \A v \in VMs : /\ Len(InProgress[v]) = frameCount[v] /\ frameCount[v] \in Nat
                             /\ InProgress[v] = SubSeq(frames[v], 1, frameCount[v])
                             /\ \A i \in 1..frameCount[v] : InProgress[v][i] = frames[v][i]
<1>1. ASSUME NEW v \in VMs
      PROVE  /\ frames[v] \in Seq(Nat) /\ frameCount[v] \in 0..Len(frames[v]) /\ frameCount[v] \in Nat
  BY DEF Inv, TypeOK, Named
<1>2. ASSUME NEW v \in VMs
      PROVE  /\ SubSeq(frames[v], 1, frameCount[v]) \in Seq(Nat)
             /\ Len(SubSeq(frames[v], 1, frameCount[v])) = frameCount[v]
             /\ \A i \in 1..frameCount[v] : SubSeq(frames[v], 1, frameCount[v])[i] = frames[v][i]
  BY <1>1, Prefix
<1>3. \A v \in VMs : InProgress[v] = SubSeq(frames[v], 1, frameCount[v])
  BY DEF InProgress
<1>4. InProgress \in [VMs -> Seq(Nat)]
  BY <1>2 DEF InProgress
<1>5. QED
  BY <1>1, <1>2, <1>3, <1>4

(* Only the calls of v change. *)
LEMMA CallsChange ==
    ASSUME NEW v \in VMs, NEW x, x = SubSeq(frames'[v], 1, frameCount'[v]),
           \A u \in VMs : u # v => frames'[u] = frames[u] /\ frameCount'[u] = frameCount[u]
    PROVE  InProgress' = [InProgress EXCEPT ![v] = x]
  BY DEF InProgress

LEMMA CallsSame ==
    ASSUME UNCHANGED <<frames, frameCount>>
    PROVE  InProgress' = InProgress
  BY DEF InProgress


LEMMA PrefixPush ==
    ASSUME NEW S, NEW s \in Seq(S), NEW t \in Seq(S), NEW n \in 0..Len(s), n + 1 <= Len(t),
           \A i \in 1..n : t[i] = s[i]
    PROVE  SubSeq(t, 1, n + 1) = Append(SubSeq(s, 1, n), t[n + 1])
<1>1. n + 1 \in 0..Len(t) /\ t[n + 1] \in S
  OBVIOUS
<1>2. PICK p : p = SubSeq(s, 1, n)
  OBVIOUS
<1>3. p \in Seq(S) /\ Len(p) = n /\ \A i \in 1..n : p[i] = s[i]
  BY <1>2, Prefix
<1>4. PICK q : q = SubSeq(t, 1, n + 1)
  OBVIOUS
<1>5. q \in Seq(S) /\ Len(q) = n + 1 /\ \A i \in 1..(n + 1) : q[i] = t[i]
  BY <1>1, <1>4, Prefix
<1>6. PICK r : r = Append(p, t[n + 1])
  OBVIOUS
<1>7. r \in Seq(S) /\ Len(r) = n + 1 /\ r[n + 1] = t[n + 1] /\ \A i \in 1..n : r[i] = p[i]
  BY <1>1, <1>3, <1>6
<1>8. \A i \in 1..Len(q) : q[i] = r[i]
  BY <1>3, <1>5, <1>7
<1>9. q = r
  BY <1>5, <1>7, <1>8, SeqEqual
<1>10. QED
  BY <1>2, <1>4, <1>6, <1>9

LEMMA PrefixPrefix ==
    ASSUME NEW S, NEW s \in Seq(S), NEW n \in 0..Len(s), NEW m \in 0..n
    PROVE  SubSeq(SubSeq(s, 1, n), 1, m) = SubSeq(s, 1, m)
<1>1. PICK p : p = SubSeq(s, 1, n)
  OBVIOUS
<1>2. p \in Seq(S) /\ Len(p) = n /\ \A i \in 1..n : p[i] = s[i]
  BY <1>1, Prefix
<1>3. PICK q : q = SubSeq(p, 1, m)
  OBVIOUS
<1>4. m \in 0..Len(p) /\ m \in 0..Len(s)
  BY <1>2
<1>5. q \in Seq(S) /\ Len(q) = m /\ \A i \in 1..m : q[i] = p[i]
  BY <1>2, <1>3, <1>4, Prefix
<1>6. PICK r : r = SubSeq(s, 1, m)
  OBVIOUS
<1>7. r \in Seq(S) /\ Len(r) = m /\ \A i \in 1..m : r[i] = s[i]
  BY <1>4, <1>6, Prefix
<1>8. \A i \in 1..Len(q) : q[i] = r[i]
  BY <1>2, <1>5, <1>7
<1>9. q = r
  BY <1>5, <1>7, <1>8, SeqEqual
<1>10. QED
  BY <1>1, <1>3, <1>6, <1>9

LEMMA ChainPush ==
    ASSUME NEW s, NEW t, NEW k \in Nat, Len(s) \in Nat, k <= Len(s),
           Len(t) = Len(s) + 1, \A i \in 1..Len(s) : t[i].co = s[i].co,
           NEW c \in Co, t[Len(s) + 1].co = c,
           ChainOf(s, k) \in Seq(Co), ChainOf(t, k) \in Seq(Co)
    PROVE  ChainOf(t, k) = Append(ChainOf(s, k), c)
<1>1. PICK p \in Seq(Co) : p = ChainOf(s, k)
  OBVIOUS
<1>2. PICK q \in Seq(Co) : q = ChainOf(t, k)
  OBVIOUS
<1>3. Len(p) = Len(s) - k /\ \A i \in 1..(Len(s) - k) : p[i] = s[k + i].co
  BY <1>1 DEF ChainOf
<1>4. Len(q) = Len(s) - k + 1 /\ \A i \in 1..(Len(s) - k + 1) : q[i] = t[k + i].co
  BY <1>2 DEF ChainOf
<1>5. PICK r : r = Append(p, c)
  OBVIOUS
<1>6. r \in Seq(Co) /\ Len(r) = Len(p) + 1 /\ r[Len(p) + 1] = c
      /\ \A i \in 1..Len(p) : r[i] = p[i]
  BY <1>5
<1>7. \A i \in 1..Len(q) : q[i] = r[i]
  <2>1. SUFFICES ASSUME NEW i \in 1..Len(q) PROVE q[i] = r[i]
    OBVIOUS
  <2>2. CASE i = Len(p) + 1
    <3>1. i \in 1..(Len(s) - k + 1) /\ k + i = Len(s) + 1
      BY <1>3, <2>2
    <3>2. QED
      BY <1>4, <1>6, <2>2, <3>1
  <2>3. CASE i \in 1..Len(p)
    <3>1. k + i \in 1..Len(s) /\ i \in 1..(Len(s) - k)
      BY <1>3, <2>3
    <3>2. QED
      BY <1>3, <1>4, <1>6, <2>3, <3>1
  <2>4. QED
    BY <1>3, <1>4, <2>2, <2>3
<1>8. q = r
  BY <1>3, <1>4, <1>6, <1>7, SeqEqual
<1>9. QED
  BY <1>1, <1>2, <1>5, <1>8

(* The calls that pcall made: those of the activations of the main program
   above the first. *)
GuardedOf(s, k) == {s[i].want : i \in 2..k}

LEMMA GuardsAre ==
    ASSUME NEW s \in Seq(Activations), NEW k \in 0..Len(s), NEW fr, NEW n \in Nat, NEW st,
           MainPart(s, k, fr, n), CoPart(s, k, st)
    PROVE  /\ {s[i].want : i \in {j \in 1..Len(s) : s[j].why = "pcall"}} = GuardedOf(s, k)
           /\ \A i \in 2..k : /\ s[i].fc \in 2..n /\ fr[s[i].fc] = s[i].want
                              /\ i < k => s[i].fc < s[k].fc
<1>1. Len(s) \in Nat /\ k \in Nat
  OBVIOUS
<1>2. \A i \in 1..k : MainAt(s, i, fr) /\ s[i].fc \in Nat /\ s[i].cur \in Nat
  <2>1. \A i \in 1..k : s[i] \in Activations
    BY <1>1
  <2>2. \A i \in 1..k : s[i].fc \in Nat /\ s[i].cur \in Nat
    BY <2>1 DEF Activations
  <2>3. QED
    BY <2>2 DEF MainPart
<1>3. \A i \in (k + 1)..Len(s) : s[i].why = "resume"
  BY DEF CoPart, CoAt
<1>4. \A i \in 1..k : s[i].why = IF i = 1 THEN "main" ELSE "pcall"
  BY <1>2 DEF MainAt
<1>5. {j \in 1..Len(s) : s[j].why = "pcall"} = 2..k
  BY <1>1, <1>3, <1>4
<1>6. ASSUME NEW i \in 2..k
      PROVE  /\ s[i].fc \in 2..n /\ fr[s[i].fc] = s[i].want
             /\ i < k => s[i].fc < s[k].fc
  <2>1. i \in 1..k /\ i - 1 \in 1..k /\ k \in 1..k /\ i > 1 /\ k > 0
    BY <1>1
  <2>2. s[i].fc = s[i - 1].cur + 1 /\ fr[s[i].fc] = s[i].want /\ s[i].fc <= s[i].cur
    BY <1>2, <2>1 DEF MainAt
  <2>3. s[i - 1].cur >= 1
    BY <1>2, <2>1 DEF MainAt
  <2>4. s[k].cur = n /\ s[k].fc <= s[k].cur
    BY <1>2, <2>1 DEF MainAt, MainPart
  <2>5. i < k => s[i].cur < s[k].fc
    BY <2>1 DEF MainPart
  <2>6. s[i].fc \in Nat /\ s[i].cur \in Nat /\ s[k].fc \in Nat /\ s[k].cur \in Nat /\ s[i - 1].cur \in Nat
    BY <1>2, <2>1
  <2>7. s[i].fc >= 2
    BY <2>2, <2>3, <2>6
  <2>8. i < k => s[i].fc < s[k].fc
    BY <2>2, <2>5, <2>6
  <2>9. s[i].fc <= n
    <3>1. CASE i = k
      BY <2>4, <2>6, <3>1
    <3>2. CASE i < k
      BY <2>4, <2>6, <2>8, <3>2
    <3>3. QED
      BY <3>1, <3>2
  <2>10. QED
    BY <2>2, <2>6, <2>7, <2>8, <2>9
<1>7. QED
  BY <1>5, <1>6 DEF GuardedOf

LEMMA GuardView ==
    ASSUME Inv, NEW k \in Nat, Split(k)
    PROVE  /\ Guarded = GuardedOf(goStack, k)
           /\ \A i \in 2..k :
                 /\ goStack[i].fc \in 2..frameCount[Main]
                 /\ frames[Main][goStack[i].fc] = goStack[i].want
                 /\ i < k => goStack[i].fc < goStack[k].fc
<1>1. goStack \in Seq(Activations) /\ k \in 0..Len(goStack) /\ frameCount[Main] \in Nat
      /\ MainPart(goStack, k, frames[Main], frameCount[Main]) /\ CoPart(goStack, k, status)
  BY DEF Inv, TypeOK, Split, VMs
<1>2. QED
  BY <1>1, GuardsAre DEF Guarded

LEMMA GuardThen ==
    ASSUME Inv', NEW k \in Nat, Split(k)'
    PROVE  Guarded' = GuardedOf(goStack', k)
<1>1. goStack' \in Seq(Activations) /\ k \in 0..Len(goStack') /\ frameCount'[Main] \in Nat
      /\ MainPart(goStack', k, frames'[Main], frameCount'[Main]) /\ CoPart(goStack', k, status')
  BY DEF Inv, TypeOK, Split, VMs
<1>2. QED
  BY <1>1, GuardsAre DEF Guarded

LEMMA GuardsStay ==
    ASSUME Inv, Inv', NEW k \in Nat, Split(k), Split(k)',
           \A i \in 1..k : goStack'[i].want = goStack[i].want
    PROVE  Guarded' = Guarded
<1>1. GuardedOf(goStack', k) = GuardedOf(goStack, k)
  BY DEF GuardedOf
<1>2. QED
  BY <1>1, GuardView, GuardThen

(* The names of the calls that pcall made are those of frames of the main
   program, and no frame above the last activation is one of them. *)
LEMMA GuardedFrame ==
    ASSUME Inv, NEW k \in Nat, Split(k), NEW v \in VMs, NEW i \in 1..frameCount[v]
    PROVE  frames[v][i] \in Guarded <=> v = Main /\ \E j \in 2..k : goStack[j].fc = i
<1>1. Guarded = {goStack[j].want : j \in 2..k}
  BY GuardView DEF GuardedOf
<1>2. ASSUME NEW j \in 2..k PROVE /\ goStack[j].fc \in 1..frameCount[Main] /\ Main \in VMs
                                  /\ frames[Main][goStack[j].fc] = goStack[j].want
  <2>1. goStack[j].fc \in 2..frameCount[Main] /\ frames[Main][goStack[j].fc] = goStack[j].want
    BY GuardView
  <2>2. frameCount[Main] \in Nat
    BY DEF Inv, TypeOK, VMs
  <2>3. QED
    BY <2>1, <2>2 DEF VMs
<1>3. ASSUME NEW j \in 2..k, frames[v][i] = goStack[j].want PROVE v = Main /\ goStack[j].fc = i
  BY <1>2, <1>3 DEF Inv, Named
<1>4. ASSUME v = Main, NEW j \in 2..k, goStack[j].fc = i PROVE frames[v][i] \in Guarded
  BY <1>1, <1>2, <1>4
<1>5. QED
  BY <1>1, <1>3, <1>4

LEMMA GuardedOld ==
    ASSUME Inv, NEW k \in Nat, Split(k)
    PROVE  calls + 1 \notin Guarded
<1>1. SUFFICES ASSUME NEW j \in 2..k, goStack[j].want = calls + 1 PROVE FALSE
  BY GuardView DEF GuardedOf
<1>2. goStack[j].fc \in 2..frameCount[Main] /\ frames[Main][goStack[j].fc] = goStack[j].want
  BY GuardView
<1>3. frameCount[Main] \in Nat /\ calls \in Nat /\ Main \in VMs
  BY DEF Inv, TypeOK, VMs
<1>4. goStack[j].fc \in 1..frameCount[Main]
  BY <1>2, <1>3
<1>5. frames[Main][goStack[j].fc] \in 1..calls
  BY <1>3, <1>4 DEF Inv, Named
<1>6. QED
  BY <1>1, <1>2, <1>3, <1>5

-----------------------------------------------------------------------------
(* Every action is a step of CoroutineSpec. *)

LEMMA Seen ==
    ASSUME Inv, goStack # <<>>, NEW k \in Nat, Split(k)
    PROVE  /\ Abstract!Running = V /\ V \in VMs /\ V \in Co \cup {Main}
           /\ InProgress \in [VMs -> Seq(Nat)]
           /\ InProgress[V] # <<>> /\ Len(InProgress[V]) = frameCount[V]
           /\ frameCount[V] \in Nat /\ frameCount[V] >= 1
           /\ frames[V] \in Seq(Nat) /\ frameCount[V] \in 0..Len(frames[V])
           /\ InProgress[V] = SubSeq(frames[V], 1, frameCount[V])
<1>1. Abstract!Running = V
  BY RunningIs
<1>2. V \in VMs /\ frameCount[V] >= 1
  BY Control
<1>3. /\ Len(InProgress[V]) = frameCount[V] /\ frameCount[V] \in Nat
      /\ InProgress[V] = SubSeq(frames[V], 1, frameCount[V])
      /\ InProgress \in [VMs -> Seq(Nat)]
  BY <1>2, CallsView
<1>4. InProgress[V] # <<>>
  <2>1. PICK p : p = InProgress[V]
    OBVIOUS
  <2>2. Len(p) # 0
    BY <1>2, <1>3, <2>1
  <2>3. p # <<>>
    BY <2>2
  <2>4. QED
    BY <2>1, <2>3
<1>5. frames[V] \in Seq(Nat) /\ frameCount[V] <= Len(frames[V])
  BY <1>2 DEF Inv, TypeOK, Named
<1>6. QED
  BY <1>1, <1>2, <1>3, <1>4, <1>5 DEF VMs

LEMMA NewName ==
    ASSUME Inv, calls < MaxCalls
    PROVE  Abstract!Fresh(calls + 1) /\ calls + 1 \in 1..MaxCalls
<1>1. calls \in Nat /\ MaxCalls \in Nat
  BY CoroutineAssumption DEF Inv, TypeOK
<1>2. ASSUME NEW v \in VMs PROVE calls + 1 \notin Abstract!Range(InProgress[v])
  <2>1. InProgress[v] \in Seq(Nat) /\ Len(InProgress[v]) = frameCount[v] /\ frameCount[v] \in Nat
        /\ \A i \in 1..frameCount[v] : InProgress[v][i] = frames[v][i]
    BY <1>2, CallsView
  <2>2. DOMAIN InProgress[v] = 1..frameCount[v]
    BY <2>1
  <2>3. \A i \in 1..frameCount[v] : InProgress[v][i] \in 1..calls
    BY <1>2, <2>1 DEF Inv, Named
  <2>4. QED
    BY <1>1, <2>2, <2>3 DEF Abstract!Range
<1>3. QED
  BY <1>1, <1>2 DEF Abstract!Fresh, VMs

(* A new frame of v is a call with a new name. *)
LEMMA PushSeen ==
    ASSUME Inv, NEW v \in VMs, PushFrame(v)
    PROVE  InProgress' = [InProgress EXCEPT ![v] = Append(InProgress[v], calls + 1)]
<1>1. frames' \in [VMs -> Seq(Nat)] /\ frameCount' \in [VMs -> Nat] /\ Named'
      /\ frameCount'[v] = frameCount[v] + 1 /\ frames'[v][frameCount[v] + 1] = calls + 1
      /\ FramesStay(v)
      /\ \A u \in VMs : u # v => frameCount'[u] = frameCount[u] /\ frames'[u] = frames[u]
  BY PushFrameOK DEF Inv
<1>2. \A i \in 1..frameCount[v] : frames'[v][i] = frames[v][i]
  BY <1>1 DEF FramesStay
<1>3. frames[v] \in Seq(Nat) /\ frameCount[v] \in 0..Len(frames[v]) /\ frames'[v] \in Seq(Nat)
  BY <1>1 DEF Inv, TypeOK, Named
<1>4. frameCount[v] + 1 <= Len(frames'[v])
  BY <1>1 DEF Named
<1>5. SubSeq(frames'[v], 1, frameCount[v] + 1)
        = Append(SubSeq(frames[v], 1, frameCount[v]), frames'[v][frameCount[v] + 1])
  BY <1>2, <1>3, <1>4, PrefixPush
<1>6. Append(InProgress[v], calls + 1) = SubSeq(frames'[v], 1, frameCount'[v])
  BY <1>1, <1>5 DEF InProgress
<1>7. QED
  BY <1>1, <1>6, CallsChange

LEMMA ChainStays ==
    ASSUME Inv, Inv', NEW k \in Nat, Split(k), Split(k)', Len(goStack) \in Nat,
           Len(goStack') = Len(goStack),
           \A i \in 1..Len(goStack) : goStack'[i].co = goStack[i].co
    PROVE  Chain' = Chain
<1>1. Chain = ChainOf(goStack, k) /\ Chain' = ChainOf(goStack', k)
  BY View, ViewThen
<1>2. ChainOf(goStack', k) = ChainOf(goStack, k)
  BY ChainSame
<1>3. QED
  BY <1>1, <1>2

LEMMA CallSim ==
    ASSUME Inv, NEW k \in Nat, Split(k), Call
    PROVE  \E n \in 1..MaxCalls : Abstract!Call(n)
<1>1. goStack # <<>> /\ ~raising /\ calls < MaxCalls /\ PushFrame(V)
      /\ UNCHANGED <<status, raising, wrapDead>>
  BY DEF Call, Free, Active, PushFrame, coVars
<1>2. /\ Inv' /\ Split(k)' /\ Len(goStack') = Len(goStack)
      /\ \A i \in 1..Len(goStack) : goStack'[i].co = goStack[i].co
            /\ goStack'[i].want = goStack[i].want
  BY CallInv
<1>3. Len(goStack) \in Nat /\ k <= Len(goStack)
  BY <1>1, Control
<1>4. Chain' = Chain
  BY <1>2, <1>3, ChainStays
<1>5. Guarded' = Guarded
  BY <1>2, <1>3, GuardsStay
<1>6. Guarded' \in {Guarded \ {calls + 1}, Guarded \cup {calls + 1}}
  BY <1>5, GuardedOld
<1>7. InProgress' = [InProgress EXCEPT ![V] = Append(InProgress[V], calls + 1)]
  BY <1>1, Seen, PushSeen
<1>8. Abstract!Call(calls + 1)
  BY <1>1, <1>4, <1>6, <1>7, Seen, NewName DEF Abstract!Call
<1>9. QED
  BY <1>1, <1>8, NewName

LEMMA PCallSim ==
    ASSUME Nesting \subseteq {Main}, Inv, NEW k \in Nat, Split(k), PCall
    PROVE  \E n \in 1..MaxCalls : Abstract!Call(n)
<1>1. goStack # <<>> /\ ~raising /\ calls < MaxCalls /\ PushFrame(V)
      /\ UNCHANGED <<status, raising, wrapDead>>
  BY DEF PCall, Free, Active, PushFrame, coVars
<1>2. /\ Inv' /\ Split(k + 1)' /\ V = Main /\ k = Len(goStack) /\ Len(goStack') = k + 1
      /\ \A i \in 1..k : goStack'[i] = goStack[i]
      /\ goStack'[k + 1].want = calls + 1
  BY PCallInv
<1>3. Chain = <<>> /\ Chain' = <<>>
  <2>1. k + 1 \in Nat
    OBVIOUS
  <2>2. Chain \in Seq(Co) /\ Len(Chain) = Len(goStack) - k
    BY View
  <2>3. Chain' \in Seq(Co) /\ Len(Chain') = Len(goStack') - (k + 1)
    BY <1>2, <2>1, ViewThen
  <2>4. Len(Chain) = 0 /\ Len(Chain') = 0
    BY <1>2, <2>2, <2>3
  <2>5. QED
    BY <2>2, <2>3, <2>4
<1>4. Guarded' = Guarded \cup {calls + 1}
  <2>1. k + 1 \in Nat /\ k >= 1
    BY <1>1, Control
  <2>2. 2..(k + 1) = (2..k) \cup {k + 1}
    BY <2>1
  <2>3. GuardedOf(goStack', k + 1) = GuardedOf(goStack, k) \cup {calls + 1}
    BY <1>2, <2>2 DEF GuardedOf
  <2>4. QED
    BY <1>2, <2>1, <2>3, GuardView, GuardThen
<1>5. Guarded' \in {Guarded \ {calls + 1}, Guarded \cup {calls + 1}}
  BY <1>4
<1>6. InProgress' = [InProgress EXCEPT ![V] = Append(InProgress[V], calls + 1)]
  BY <1>1, Seen, PushSeen
<1>7. Abstract!Call(calls + 1)
  BY <1>1, <1>3, <1>5, <1>6, Seen, NewName DEF Abstract!Call
<1>8. QED
  BY <1>1, <1>7, NewName

(* The last frame of v is popped. *)
LEMMA PopSeen ==
    ASSUME Inv, NEW v \in VMs, frameCount[v] >= 1, frames' = frames,
           frameCount' = [frameCount EXCEPT ![v] = frameCount[v] - 1]
    PROVE  /\ InProgress' = [InProgress EXCEPT ![v] = Abstract!Front(InProgress[v])]
           /\ Abstract!Last(InProgress[v]) = frames[v][frameCount[v]]
<1>1. frames[v] \in Seq(Nat) /\ frameCount[v] \in 0..Len(frames[v]) /\ frameCount[v] \in Nat
      /\ frameCount \in [VMs -> Nat]
  BY DEF Inv, TypeOK, Named
<1>2. InProgress[v] = SubSeq(frames[v], 1, frameCount[v]) /\ Len(InProgress[v]) = frameCount[v]
      /\ \A i \in 1..frameCount[v] : InProgress[v][i] = frames[v][i]
  BY CallsView
<1>3. frameCount[v] - 1 \in 0..frameCount[v] /\ frameCount[v] \in 1..frameCount[v]
  BY <1>1
<1>4. SubSeq(SubSeq(frames[v], 1, frameCount[v]), 1, frameCount[v] - 1)
        = SubSeq(frames[v], 1, frameCount[v] - 1)
  BY <1>1, <1>3, PrefixPrefix
<1>5. Abstract!Front(InProgress[v]) = SubSeq(frames[v], 1, frameCount[v] - 1)
  BY <1>2, <1>4 DEF Abstract!Front
<1>6. frameCount'[v] = frameCount[v] - 1 /\ \A u \in VMs : u # v => frameCount'[u] = frameCount[u]
  BY <1>1
<1>7. Abstract!Front(InProgress[v]) = SubSeq(frames'[v], 1, frameCount'[v])
  BY <1>5, <1>6
<1>8. InProgress' = [InProgress EXCEPT ![v] = Abstract!Front(InProgress[v])]
  BY <1>6, <1>7, CallsChange
<1>9. Abstract!Last(InProgress[v]) = frames[v][frameCount[v]]
  BY <1>2, <1>3 DEF Abstract!Last
<1>10. QED
  BY <1>8, <1>9

LEMMA ReturnInlineSim ==
    ASSUME Inv, NEW k \in Nat, Split(k), ReturnInline
    PROVE  Abstract!Return
<1>1. goStack # <<>> /\ ~raising /\ frameCount[V] > Top.fc /\ frames' = frames
      /\ frameCount' = [frameCount EXCEPT ![V] = frameCount[V] - 1]
      /\ UNCHANGED <<status, raising, wrapDead>>
  BY DEF ReturnInline, MayReturn, Active, coVars
<1>2. /\ Inv' /\ Split(k)' /\ Len(goStack') = Len(goStack)
      /\ \A i \in 1..Len(goStack) : goStack'[i].co = goStack[i].co
            /\ goStack'[i].want = goStack[i].want
  BY ReturnInlineInv
<1>3. Len(goStack) \in Nat /\ k <= Len(goStack) /\ Top = goStack[Len(goStack)] /\ Top \in Activations
  BY <1>1, Control
<1>4. Chain' = Chain
  BY <1>2, <1>3, ChainStays
<1>5. Guarded' = Guarded
  BY <1>2, <1>3, GuardsStay
<1>6. Top.fc \in Nat /\ Top.fc >= 1
  <2>1. MainAt(goStack, Len(goStack), frames[Main]) \/ CoAt(Top, status)
    BY <1>1, Control
  <2>2. Top.fc >= 1
    BY <1>3, <2>1 DEF MainAt, CoAt
  <2>3. QED
    BY <1>3, <2>2 DEF Activations
<1>7. frameCount[V] > 1 /\ frameCount[V] \in 1..frameCount[V]
  <2>1. frameCount[V] \in Nat
    BY <1>1, Seen
  <2>2. QED
    BY <1>1, <1>6, <2>1
<1>8. frames[V][frameCount[V]] \notin Guarded
  <2>1. SUFFICES ASSUME V = Main, NEW j \in 2..k, goStack[j].fc = frameCount[V] PROVE FALSE
    BY <1>1, <1>7, Seen, GuardedFrame
  <2>2. k = Len(goStack)
    BY <1>1, <2>1, Control
  <2>3. j < k => goStack[j].fc < goStack[k].fc
    BY GuardView
  <2>4. QED
    BY <1>1, <1>3, <1>6, <2>1, <2>2, <2>3, Seen
<1>9. /\ InProgress' = [InProgress EXCEPT ![V] = Abstract!Front(InProgress[V])]
      /\ Abstract!Last(InProgress[V]) = frames[V][frameCount[V]]
  BY <1>1, <1>7, Seen, PopSeen
<1>10. Guarded' = Guarded \ {Abstract!Last(InProgress[V])}
  BY <1>5, <1>8, <1>9
<1>11. Len(InProgress[V]) > 1 /\ Abstract!Running = V
  BY <1>1, <1>7, Seen
<1>12. QED
  BY <1>1, <1>4, <1>9, <1>10, <1>11 DEF Abstract!Return

(* The last activation of the main program ends. *)
LEMMA MainSeen ==
    ASSUME Inv, Inv', goStack # <<>>, NEW k \in Nat, Split(k), Split(k - 1)', k - 1 \in Nat,
           k = Len(goStack), goStack' = Below
    PROVE  /\ Chain' = Chain
           /\ Guarded' = {goStack[i].want : i \in 2..(k - 1)}
           /\ Guarded = {goStack[i].want : i \in 2..k}
<1>1. Len(goStack') = k - 1 /\ \A i \in 1..(k - 1) : goStack'[i] = goStack[i]
  BY BelowSeq
<1>2. Chain \in Seq(Co) /\ Len(Chain) = Len(goStack) - k
  BY View
<1>3. Chain' \in Seq(Co) /\ Len(Chain') = Len(goStack') - (k - 1)
  BY ViewThen
<1>4. Len(Chain) = 0 /\ Len(Chain') = 0
  BY <1>1, <1>2, <1>3
<1>5. Chain' = Chain
  BY <1>2, <1>3, <1>4
<1>6. Guarded' = GuardedOf(goStack', k - 1)
  BY GuardThen
<1>7. GuardedOf(goStack', k - 1) = {goStack[i].want : i \in 2..(k - 1)}
  BY <1>1 DEF GuardedOf
<1>8. Guarded = GuardedOf(goStack, k)
  BY GuardView
<1>9. QED
  BY <1>5, <1>6, <1>7, <1>8 DEF GuardedOf

(* The program is over: its calls are gone, however many an error leaves. *)
LEMMA ProgramEndSeen ==
    ASSUME Inv, goStack # <<>>, NEW k \in Nat, Split(k), k = 1, V = Main, Top.fc = 1,
           frameCount' = [frameCount EXCEPT ![Main] = Top.fc - 1], frames' = frames
    PROVE  InProgress' = [InProgress EXCEPT ![V] = <<>>]
<1>1. frameCount \in [VMs -> Nat] /\ Main \in VMs /\ frames[Main] \in Seq(Nat)
  BY DEF Inv, TypeOK, VMs
<1>2. frameCount'[Main] = 0 /\ \A u \in VMs : u # Main => frameCount'[u] = frameCount[u]
  BY <1>1
<1>3. SubSeq(frames'[Main], 1, frameCount'[Main]) = <<>>
  BY <1>1, <1>2, SubSeqEmpty
<1>4. QED
  BY <1>1, <1>2, <1>3, CallsChange

LEMMA MainReturnSim ==
    ASSUME Inv, NEW k \in Nat, Split(k), NEW none \in BOOLEAN, ReturnToGo(none), V = Main
    PROVE  Abstract!Return \/ Abstract!Finish
<1>1. goStack # <<>> /\ ~raising /\ RunEnds("return", none) /\ UNCHANGED <<started, genVars, calls>>
      /\ frameCount[Main] <= Top.fc
  BY DEF ReturnToGo, MayReturn, Active
<1>2. /\ Inv' /\ Split(k - 1)' /\ k - 1 \in Nat /\ k = Len(goStack) /\ goStack' = Below
      /\ frameCount' = [frameCount EXCEPT ![Main] = Top.fc - 1] /\ frames' = frames
      /\ raising' = FALSE /\ UNCHANGED <<status, wrapDead>>
      /\ Top.fc \in Nat /\ Top.fc >= 1 /\ Top.fc = frameCount[Main]
      /\ IF k = 1 THEN Top.fc = 1
         ELSE Top.fc > 1 /\ Top.why = "pcall" /\ frames[Main][Top.fc] = Top.want
  BY <1>1, EndMain
<1>3. /\ Chain' = Chain
      /\ Guarded' = {goStack[i].want : i \in 2..(k - 1)}
      /\ Guarded = {goStack[i].want : i \in 2..k}
  BY <1>1, <1>2, MainSeen
<1>4. Abstract!Running = Main /\ Len(InProgress[V]) = frameCount[V] /\ Main \in VMs
  BY <1>1, Seen
<1>5. raising' = raising
  BY <1>1, <1>2 DEF Inv, TypeOK
<1>6. CASE k = 1
  <2>1. Guarded' = Guarded
    BY <1>3, <1>6
  <2>2. InProgress' = [InProgress EXCEPT ![Main] = <<>>]
    BY <1>1, <1>2, <1>6, ProgramEndSeen
  <2>3. Len(InProgress[Main]) = 1
    BY <1>2, <1>4, <1>6
  <2>4. wrapDead' \in {wrapDead} \cup {[wrapDead EXCEPT ![d] = TRUE] : d \in {Main} \cap Wrapped}
    BY <1>2
  <2>5. Abstract!Finish
    BY <1>1, <1>2, <1>3, <1>4, <1>5, <2>1, <2>2, <2>3, <2>4 DEF Abstract!Finish, Abstract!MayEnd
  <2>6. QED
    BY <2>5
<1>7. CASE k # 1
  <2>1. Top = goStack[k] /\ k > 1 /\ Top.fc = frameCount[Main] /\ frames[Main][Top.fc] = Top.want
    BY <1>1, <1>2, <1>7, Control
  <2>2. /\ InProgress' = [InProgress EXCEPT ![Main] = Abstract!Front(InProgress[Main])]
        /\ Abstract!Last(InProgress[Main]) = Top.want
    BY <1>2, <1>4, <2>1, PopSeen
  <2>3. ASSUME NEW i \in 2..(k - 1) PROVE goStack[i].want # goStack[k].want
    <3>1. i \in 2..k /\ k \in 2..k /\ i < k
      BY <1>2, <2>1
    <3>2. goStack[i].fc < goStack[k].fc /\ goStack[i].fc \in 2..frameCount[Main]
          /\ goStack[k].fc \in 2..frameCount[Main]
          /\ frames[Main][goStack[i].fc] = goStack[i].want
          /\ frames[Main][goStack[k].fc] = goStack[k].want
      BY <3>1, GuardView
    <3>3. frameCount[Main] \in Nat
      BY <1>4 DEF Inv, TypeOK
    <3>4. goStack[i].fc \in 1..frameCount[Main] /\ goStack[k].fc \in 1..frameCount[Main]
          /\ goStack[i].fc # goStack[k].fc
      BY <3>2, <3>3
    <3>5. \A x, y \in 1..frameCount[Main] : frames[Main][x] = frames[Main][y] => x = y
      BY <1>4 DEF Inv, Named
    <3>6. QED
      BY <3>2, <3>4, <3>5
  <2>4. 2..k = (2..(k - 1)) \cup {k}
    BY <1>2, <2>1
  <2>5. Guarded' = Guarded \ {Abstract!Last(InProgress[Main])}
    BY <1>3, <2>1, <2>2, <2>3, <2>4
  <2>6. Len(InProgress[Main]) > 1
    BY <1>2, <1>4, <1>7
  <2>7. Abstract!Return
    BY <1>1, <1>2, <1>3, <1>4, <1>5, <2>2, <2>5, <2>6 DEF Abstract!Return
  <2>8. QED
    BY <2>7
<1>8. QED
  BY <1>6, <1>7

(* What an error in the main program leaves: the calls below the innermost
   protected one. *)
LEMMA Unwinding ==
    ASSUME Inv, goStack # <<>>, NEW k \in Nat, Split(k), k = Len(goStack), k > 1
    PROVE  /\ Abstract!IsGuarded(InProgress[Main])
           /\ Abstract!Unwound(InProgress[Main]) = SubSeq(frames[Main], 1, Top.fc - 1)
<1>1. Top = goStack[k] /\ k \in 2..k
  BY Control
<1>2. Top.fc \in 2..frameCount[Main] /\ frames[Main][Top.fc] = Top.want
  BY <1>1, GuardView
<1>3. Main \in VMs /\ frameCount[Main] \in Nat /\ Len(InProgress[Main]) = frameCount[Main]
      /\ frames[Main] \in Seq(Nat) /\ frameCount[Main] \in 0..Len(frames[Main])
      /\ InProgress[Main] = SubSeq(frames[Main], 1, frameCount[Main])
      /\ \A i \in 1..frameCount[Main] : InProgress[Main][i] = frames[Main][i]
  BY CallsView DEF Inv, TypeOK, Named, VMs
<1>4. Top.fc \in 1..frameCount[Main] /\ Top.fc \in Nat
  BY <1>2, <1>3
<1>5. \A i \in 1..frameCount[Main] : InProgress[Main][i] \in Guarded <=> \E j \in 2..k : goStack[j].fc = i
  BY <1>3, GuardedFrame
<1>6. InProgress[Main][Top.fc] \in Guarded
  BY <1>1, <1>4, <1>5
<1>7. ASSUME NEW i \in 1..frameCount[Main], InProgress[Main][i] \in Guarded PROVE i <= Top.fc
  <2>1. PICK j \in 2..k : goStack[j].fc = i
    BY <1>5, <1>7
  <2>2. j < k => goStack[j].fc < goStack[k].fc
    BY GuardView
  <2>3. QED
    BY <1>1, <1>4, <2>1, <2>2
<1>8. Top.fc = CHOOSE i \in 1..Len(InProgress[Main]) :
         InProgress[Main][i] \in Guarded
           /\ \A j \in (i + 1)..Len(InProgress[Main]) : InProgress[Main][j] \notin Guarded
  <2> DEFINE Innermost(i) ==
        InProgress[Main][i] \in Guarded
          /\ \A j \in (i + 1)..Len(InProgress[Main]) : InProgress[Main][j] \notin Guarded
  <2>1. Innermost(Top.fc)
    <3>1. ASSUME NEW j \in (Top.fc + 1)..frameCount[Main] PROVE InProgress[Main][j] \notin Guarded
      <4>1. j \in 1..frameCount[Main] /\ ~(j <= Top.fc)
        BY <1>3, <1>4
      <4>2. QED
        BY <1>7, <4>1
    <3>2. QED
      BY <1>3, <1>6, <3>1
  <2>2. ASSUME NEW i \in 1..frameCount[Main], Innermost(i) PROVE i = Top.fc
    <3>1. i <= Top.fc
      BY <1>7, <2>2
    <3>2. CASE i < Top.fc
      <4>1. Top.fc \in (i + 1)..frameCount[Main]
        BY <1>3, <1>4, <3>2
      <4>2. QED
        BY <1>3, <1>6, <2>2, <4>1
    <3>3. QED
      BY <1>4, <3>1, <3>2
  <2>3. Top.fc \in 1..Len(InProgress[Main])
        /\ \A i \in 1..Len(InProgress[Main]) : Innermost(i) => i = Top.fc
    BY <1>3, <1>4, <2>2
  <2>4. QED
    BY <2>1, <2>3
<1>9. Abstract!Unwound(InProgress[Main]) = SubSeq(InProgress[Main], 1, Top.fc - 1)
  BY <1>8 DEF Abstract!Unwound
<1>10. Top.fc - 1 \in 0..frameCount[Main]
  BY <1>3, <1>4
<1>11. SubSeq(InProgress[Main], 1, Top.fc - 1) = SubSeq(frames[Main], 1, Top.fc - 1)
  BY <1>3, <1>10, PrefixPrefix
<1>12. Abstract!IsGuarded(InProgress[Main])
  BY <1>3, <1>4, <1>6 DEF Abstract!IsGuarded
<1>13. QED
  BY <1>9, <1>11, <1>12

(* The protected calls that are left are those whose frames are. *)
LEMMA GuardsLeft ==
    ASSUME Inv, Inv', NEW k \in Nat, Split(k), NEW m \in Nat, m <= k, frames'[Main] = frames[Main],
           Guarded' = {goStack[i].want : i \in 2..m},
           \A v \in VMs : frameCount'[v] <= frameCount[v]
                          /\ \A i \in 1..frameCount'[v] : frames'[v][i] = frames[v][i],
           \A i \in 2..k : goStack[i].fc <= frameCount'[Main] <=> i <= m
    PROVE  Guarded' = Guarded \cap UNION {Abstract!Range(InProgress'[v]) : v \in Co \cup {Main}}
<1>1. Guarded = {goStack[i].want : i \in 2..k}
  BY GuardView DEF GuardedOf
<1>2. Main \in VMs /\ VMs = Co \cup {Main}
  BY DEF VMs
<1>3. ASSUME NEW v \in VMs
      PROVE  /\ frameCount'[v] \in Nat /\ frameCount[v] \in Nat
             /\ Abstract!Range(InProgress'[v]) = {frames[v][i] : i \in 1..frameCount'[v]}
  <2>1. frameCount'[v] \in Nat /\ frameCount[v] \in Nat /\ frames'[v] \in Seq(Nat)
        /\ frameCount'[v] \in 0..Len(frames'[v])
    BY DEF Inv, TypeOK, Named
  <2>2. PICK p : p = InProgress'[v]
    OBVIOUS
  <2>3. p = SubSeq(frames'[v], 1, frameCount'[v])
    BY <2>2 DEF InProgress
  <2>4. p \in Seq(Nat) /\ Len(p) = frameCount'[v] /\ \A i \in 1..frameCount'[v] : p[i] = frames'[v][i]
    BY <2>1, <2>3, Prefix
  <2>5. DOMAIN p = 1..frameCount'[v]
    BY <2>4
  <2>6. \A i \in 1..frameCount'[v] : p[i] = frames[v][i]
    BY <2>4
  <2>7. Abstract!Range(p) = {frames[v][i] : i \in 1..frameCount'[v]}
    BY <2>5, <2>6 DEF Abstract!Range
  <2>8. QED
    BY <2>1, <2>2, <2>7
<1>4. ASSUME NEW x \in Guarded' PROVE x \in Guarded /\ x \in Abstract!Range(InProgress'[Main])
  <2>1. PICK i \in 2..m : x = goStack[i].want
    BY <1>4
  <2>2. i \in 2..k /\ i <= m
    OBVIOUS
  <2>3. goStack[i].fc \in 2..frameCount[Main] /\ frames[Main][goStack[i].fc] = x
    BY <2>1, <2>2, GuardView
  <2>4. goStack[i].fc \in 1..frameCount'[Main]
    BY <1>2, <1>3, <2>2, <2>3
  <2>5. QED
    BY <1>1, <1>2, <1>3, <2>1, <2>2, <2>3, <2>4
<1>5. ASSUME NEW x \in Guarded, NEW v \in VMs, x \in Abstract!Range(InProgress'[v]) PROVE x \in Guarded'
  <2>1. PICK i \in 1..frameCount'[v] : x = frames[v][i]
    BY <1>3, <1>5
  <2>2. i \in 1..frameCount[v]
    BY <1>3
  <2>3. PICK j \in 2..k : v = Main /\ goStack[j].fc = i
    BY <1>5, <2>1, <2>2, GuardedFrame
  <2>4. frames[Main][goStack[j].fc] = goStack[j].want
    BY GuardView
  <2>5. j <= m
    BY <1>3, <2>3
  <2>6. j \in 2..m /\ x = goStack[j].want
    BY <2>1, <2>3, <2>4, <2>5
  <2>7. QED
    BY <2>6
<1>6. QED
  BY <1>2, <1>4, <1>5

LEMMA MainErrorSim ==
    ASSUME Inv, NEW k \in Nat, Split(k), Error, goStack # <<>>, V = Main
    PROVE  Abstract!Fail
<1>1. RunEnds("error", FALSE) /\ UNCHANGED <<started, genVars, calls>>
  BY DEF Error
<1>2. /\ Inv' /\ Split(k - 1)' /\ k - 1 \in Nat /\ k = Len(goStack) /\ goStack' = Below
      /\ frameCount' = [frameCount EXCEPT ![Main] = Top.fc - 1] /\ frames' = frames
      /\ raising' = FALSE /\ UNCHANGED <<status, wrapDead>>
      /\ Top.fc \in Nat /\ Top.fc >= 1 /\ Top.fc <= frameCount[Main]
      /\ IF k = 1 THEN Top.fc = 1
         ELSE Top.fc > 1 /\ Top.why = "pcall" /\ frames[Main][Top.fc] = Top.want
  BY <1>1, EndMain
<1>3. /\ Chain' = Chain
      /\ Guarded' = {goStack[i].want : i \in 2..(k - 1)}
      /\ Guarded = {goStack[i].want : i \in 2..k}
  BY <1>2, MainSeen
<1>4. Abstract!Running = Main /\ InProgress[Main] # <<>> /\ Main \in VMs /\ Top = goStack[k]
  BY <1>2, Seen, Control
<1>5. frameCount \in [VMs -> Nat]
  BY DEF Inv, TypeOK
<1>6. frameCount'[Main] = Top.fc - 1 /\ \A u \in VMs : u # Main => frameCount'[u] = frameCount[u]
  BY <1>2, <1>4, <1>5
<1>7. Guarded' = Guarded \cap UNION {Abstract!Range(InProgress'[v]) : v \in Co \cup {Main}}
  <2>1. \A v \in VMs : frameCount'[v] <= frameCount[v]
                       /\ \A i \in 1..frameCount'[v] : frames'[v][i] = frames[v][i]
    BY <1>2, <1>4, <1>5, <1>6
  <2>2. ASSUME NEW i \in 2..k PROVE goStack[i].fc <= frameCount'[Main] <=> i <= k - 1
    <3>1. goStack[i].fc \in 2..frameCount[Main] /\ (i < k => goStack[i].fc < goStack[k].fc)
      BY GuardView
    <3>2. goStack[i].fc \in Nat
      BY <3>1
    <3>3. CASE i = k
      BY <1>2, <1>4, <1>6, <3>3
    <3>4. CASE i < k
      BY <1>2, <1>4, <1>6, <3>1, <3>2, <3>4
    <3>5. QED
      BY <3>3, <3>4
  <2>3. k - 1 <= k
    OBVIOUS
  <2>4. QED
    BY <1>2, <1>3, <2>1, <2>2, <2>3, GuardsLeft
<1>8. wrapDead' \in {wrapDead} \cup {[wrapDead EXCEPT ![d] = TRUE] : d \in {Main} \cap Wrapped}
  BY <1>2
<1>9. CASE k = 1
  <2>1. InProgress' = [InProgress EXCEPT ![Main] = <<>>]
    BY <1>2, <1>9, ProgramEndSeen
  <2>2. Guarded = {}
    BY <1>3, <1>9
  <2>3. ~Abstract!IsGuarded(InProgress[Main])
    BY <2>2 DEF Abstract!IsGuarded
  <2>4. QED
    BY <1>2, <1>3, <1>4, <1>7, <1>8, <2>1, <2>3 DEF Abstract!Fail, Abstract!MayEnd
<1>10. CASE k # 1
  <2>1. /\ Abstract!IsGuarded(InProgress[Main])
        /\ Abstract!Unwound(InProgress[Main]) = SubSeq(frames[Main], 1, Top.fc - 1)
    BY <1>2, <1>10, Unwinding
  <2>2. Abstract!Unwound(InProgress[Main]) = SubSeq(frames'[Main], 1, frameCount'[Main])
    BY <1>2, <1>6, <2>1
  <2>3. \A u \in VMs : u # Main => frames'[u] = frames[u] /\ frameCount'[u] = frameCount[u]
    BY <1>2, <1>6
  <2>4. InProgress' = [InProgress EXCEPT ![Main] = Abstract!Unwound(InProgress[Main])]
    BY <1>4, <2>2, <2>3, CallsChange
  <2>5. QED
    BY <1>2, <1>3, <1>4, <1>7, <1>8, <2>1, <2>4 DEF Abstract!Fail, Abstract!MayEnd
<1>11. QED
  BY <1>9, <1>10

(* What the resumer learns. *)
LEMMA Told ==
    ASSUME Inv, NEW c \in Co, NEW way \in WaysOf(c), NEW ok \in BOOLEAN, NEW none \in BOOLEAN,
           Answer(c, way, ok, none)
    PROVE  /\ Abstract!MayEnd(c)
           /\ raising' = (c \in Wrapped /\ ~ok)
<1>1. (way # "resume") = (c \in Wrapped)
  BY CoroutineAssumption DEF WaysOf
<1>2. way = "native" => c \in {c} \cap Wrapped
  BY CoroutineAssumption DEF WaysOf
<1>3. wrapDead' \in {wrapDead} \cup {[wrapDead EXCEPT ![d] = TRUE] : d \in {c} \cap Wrapped}
  BY <1>2 DEF Answer
<1>4. QED
  BY <1>1, <1>3 DEF Answer, Abstract!MayEnd

(* A coroutine hands control back to its resumer. *)
LEMMA BackSeen ==
    ASSUME Inv, Inv', goStack # <<>>, NEW k \in Nat, Split(k), Split(k)', V \in Co,
           k < Len(goStack), goStack' = Below
    PROVE  Chain' = Abstract!Front(Chain) /\ Guarded' = Guarded
<1>1. Len(goStack') = Len(goStack) - 1 /\ Len(goStack) \in Nat
      /\ \A i \in 1..(Len(goStack) - 1) : goStack'[i] = goStack[i]
  BY BelowSeq
<1>2. Chain \in Seq(Co) /\ Len(Chain) = Len(goStack) - k
      /\ \A i \in 1..(Len(goStack) - k) : Chain[i] = goStack[k + i].co
  BY View
<1>3. Chain' \in Seq(Co) /\ Len(Chain') = Len(goStack') - k
      /\ \A i \in 1..(Len(goStack') - k) : Chain'[i] = goStack'[k + i].co
  BY ViewThen
<1>4. PICK p : p = Chain /\ p \in Seq(Co) /\ Len(p) = Len(goStack) - k
               /\ \A i \in 1..(Len(goStack) - k) : p[i] = goStack[k + i].co
  BY <1>2
<1>5. PICK q : q = Chain' /\ q \in Seq(Co) /\ Len(q) = Len(goStack) - 1 - k
               /\ \A i \in 1..(Len(goStack) - 1 - k) : q[i] = goStack'[k + i].co
  BY <1>1, <1>3
<1>6. PICK r : r = SubSeq(p, 1, Len(p) - 1)
  OBVIOUS
<1>7. Len(p) - 1 \in 0..Len(p)
  BY <1>1, <1>4
<1>8. r \in Seq(Co) /\ Len(r) = Len(p) - 1 /\ \A i \in 1..(Len(p) - 1) : r[i] = p[i]
  BY <1>4, <1>6, <1>7, Prefix
<1>9. ASSUME NEW i \in 1..Len(q) PROVE q[i] = r[i]
  <2>1. i \in 1..(Len(goStack) - 1 - k) /\ i \in 1..(Len(goStack) - k) /\ i \in 1..(Len(p) - 1)
        /\ k + i \in 1..(Len(goStack) - 1)
    BY <1>1, <1>4, <1>5
  <2>2. QED
    BY <1>1, <1>4, <1>5, <1>8, <2>1
<1>10. Len(q) = Len(r)
  BY <1>1, <1>4, <1>5, <1>8
<1>11. q = r
  BY <1>5, <1>8, <1>9, <1>10, SeqEqual
<1>12. Chain' = Abstract!Front(Chain)
  BY <1>4, <1>5, <1>6, <1>11 DEF Abstract!Front
<1>13. \A i \in 1..k : goStack'[i].want = goStack[i].want
  BY <1>1
<1>14. QED
  BY <1>12, <1>13, GuardsStay

(* A coroutine dies and its VM is released. *)
LEMMA DeadSeen ==
    ASSUME Inv, Inv', NEW c \in Co, Release(c)
    PROVE  InProgress' = [InProgress EXCEPT ![c] = <<>>]
<1>1. frameCount \in [VMs -> Nat] /\ frames \in [VMs -> Seq(Nat)] /\ c \in VMs
  BY DEF Inv, TypeOK, VMs
<1>2. frameCount'[c] = 0 /\ frames'[c] = <<>>
      /\ \A u \in VMs : u # c => frames'[u] = frames[u] /\ frameCount'[u] = frameCount[u]
  BY <1>1 DEF Release
<1>3. SubSeq(frames'[c], 1, frameCount'[c]) = <<>>
  BY <1>2, SubSeqEmpty
<1>4. QED
  BY <1>1, <1>2, <1>3, CallsChange

LEMMA CoEndSim ==
    ASSUME Inv, goStack # <<>>, NEW k \in Nat, Split(k), V # Main, NEW none \in BOOLEAN,
           NEW out \in {"return", "error", "yield"}, RunEnds(out, none),
           UNCHANGED <<started, calls>>, next' = next, iter' \in [Co -> Nat],
           out # "error" => ~raising, out = "return" => frameCount[V] <= Top.fc
    PROVE  Abstract!Finish \/ Abstract!Fail \/ Abstract!Yield
<1>1. /\ Inv' /\ Split(k)' /\ goStack' = Below /\ V \in Co /\ Top.co = V /\ Top.way \in WaysOf(V)
      /\ k < Len(goStack)
      /\ IF out = "yield"
           THEN /\ status' = [status EXCEPT ![V] = "suspended"]
                /\ UNCHANGED <<frames, frameCount>>
                /\ Answer(V, Top.way, TRUE, none)
           ELSE /\ status' = [status EXCEPT ![V] = "dead"]
                /\ Release(V)
                /\ Answer(V, Top.way, out = "return", none)
  BY EndCo
<1>2. Chain' = Abstract!Front(Chain) /\ Guarded' = Guarded
  BY <1>1, BackSeen
<1>3. Abstract!Running = V /\ InProgress[V] # <<>> /\ Len(InProgress[V]) = frameCount[V]
      /\ frameCount[V] \in Nat /\ frameCount[V] >= 1 /\ raising \in BOOLEAN
  BY Seen DEF Inv, TypeOK
<1>4. CASE out = "yield"
  <2>1. Answer(V, Top.way, TRUE, none) /\ UNCHANGED <<frames, frameCount>>
        /\ status' = [status EXCEPT ![V] = "suspended"]
    BY <1>1, <1>4
  <2>2. Abstract!MayEnd(V) /\ raising' = FALSE
    BY <1>1, <2>1, Told
  <2>3. InProgress' = InProgress
    BY <2>1, CallsSame
  <2>4. ~raising /\ raising' = raising
    BY <1>3, <1>4, <2>2
  <2>5. Abstract!Yield
    BY <1>2, <1>3, <2>1, <2>2, <2>3, <2>4 DEF Abstract!Yield
  <2>6. QED
    BY <2>5
<1>5. CASE out # "yield"
  <2>1. Answer(V, Top.way, out = "return", none) /\ Release(V)
        /\ status' = [status EXCEPT ![V] = "dead"]
    BY <1>1, <1>5
  <2>2. InProgress' = [InProgress EXCEPT ![V] = <<>>]
    BY <1>1, <2>1, DeadSeen
  <2>3. Abstract!MayEnd(V) /\ raising' = (V \in Wrapped /\ ~(out = "return"))
    BY <1>1, <2>1, Told
  <2>4. CASE out = "return"
    <3>1. Top.fc = 1
      BY <1>1, Control DEF CoAt
    <3>2. Len(InProgress[V]) = 1
      BY <1>3, <2>4, <3>1
    <3>3. ~raising /\ raising' = raising
      BY <1>3, <2>3, <2>4
    <3>4. Abstract!Finish
      BY <1>2, <1>3, <2>1, <2>2, <2>3, <3>2, <3>3 DEF Abstract!Finish
    <3>5. QED
      BY <3>4
  <2>5. CASE out = "error"
    <3>1. raising' = (V \in Wrapped)
      BY <2>3, <2>5
    <3>2. ~Abstract!IsGuarded(InProgress[V])
      <4>1. \A i \in 1..frameCount[V] : InProgress[V][i] = frames[V][i]
        BY <1>1, CallsView DEF VMs
      <4>2. \A i \in 1..frameCount[V] : frames[V][i] \notin Guarded
        BY <1>1, GuardedFrame DEF VMs
      <4>3. QED
        BY <1>3, <4>1, <4>2 DEF Abstract!IsGuarded
    <3>3. Guarded' = Guarded \cap UNION {Abstract!Range(InProgress'[v]) : v \in Co \cup {Main}}
      <4>1. frameCount \in [VMs -> Nat] /\ frames \in [VMs -> Seq(Nat)] /\ Main \in VMs /\ V \in VMs
        BY <1>1 DEF Inv, TypeOK, VMs
      <4>2. /\ frames'[Main] = frames[Main] /\ frameCount'[Main] = frameCount[Main]
            /\ frameCount'[V] = 0
            /\ \A u \in VMs : u # V => frames'[u] = frames[u] /\ frameCount'[u] = frameCount[u]
        BY <2>1, <4>1 DEF Release
      <4>3. \A v \in VMs : frameCount'[v] <= frameCount[v]
                           /\ \A i \in 1..frameCount'[v] : frames'[v][i] = frames[v][i]
        <5>1. ASSUME NEW v \in VMs
              PROVE  frameCount'[v] <= frameCount[v]
                     /\ \A i \in 1..frameCount'[v] : frames'[v][i] = frames[v][i]
          <6>1. frameCount[v] \in Nat
            BY <4>1
          <6>2. CASE v = V
            BY <4>2, <6>1, <6>2
          <6>3. CASE v # V
            BY <4>2, <6>1, <6>3
          <6>4. QED
            BY <6>2, <6>3
        <5>2. QED
          BY <5>1
      <4>4. Guarded' = {goStack[i].want : i \in 2..k}
        BY <1>2, GuardView DEF GuardedOf
      <4>5. \A i \in 2..k : goStack[i].fc <= frameCount'[Main] <=> i <= k
        <5>1. \A i \in 2..k : goStack[i].fc \in 2..frameCount[Main]
          BY GuardView
        <5>2. QED
          BY <4>1, <4>2, <5>1
      <4>6. k <= k
        OBVIOUS
      <4>7. QED
        BY <1>1, <4>2, <4>3, <4>4, <4>5, <4>6, GuardsLeft
    <3>4. Abstract!Fail
      BY <1>2, <1>3, <2>1, <2>2, <2>3, <3>1, <3>2, <3>3 DEF Abstract!Fail
    <3>5. QED
      BY <3>4
  <2>6. QED
    BY <1>5, <2>4, <2>5
<1>6. QED
  BY <1>4, <1>5

LEMMA EndsSim ==
    ASSUME Inv, NEW k \in Nat, Split(k), NEW none \in BOOLEAN,
           ReturnToGo(none) \/ Yield(none) \/ Error
    PROVE  Abstract!Return \/ Abstract!Finish \/ Abstract!Fail \/ Abstract!Yield
<1>0. iter \in [Co -> Nat] /\ raising \in BOOLEAN
  BY DEF Inv, TypeOK
<1>1. CASE ReturnToGo(none)
  <2>1. goStack # <<>> /\ ~raising /\ RunEnds("return", none) /\ UNCHANGED <<started, genVars, calls>>
        /\ frameCount[V] <= Top.fc
    BY <1>1 DEF ReturnToGo, MayReturn, Active
  <2>2. CASE V = Main
    BY <1>1, <2>2, MainReturnSim
  <2>3. CASE V # Main
    BY <1>0, <2>1, <2>3, CoEndSim DEF genVars
  <2>4. QED
    BY <2>2, <2>3
<1>2. CASE Yield(none)
  <2>1. goStack # <<>> /\ ~raising /\ V # Main /\ RunEnds("yield", none)
        /\ UNCHANGED <<started, next, calls>>
    BY <1>2 DEF Yield, Active
  <2>2. iter' \in [Co -> Nat]
    <3>1. V \in Co
      BY <2>1, Control
    <3>2. QED
      BY <1>0, <1>2, <3>1 DEF Yield
  <2>3. QED
    BY <2>1, <2>2, CoEndSim
<1>3. CASE Error
  <2>1. goStack # <<>> /\ RunEnds("error", FALSE) /\ UNCHANGED <<started, genVars, calls>>
    BY <1>3 DEF Error, Free, Active, Inv, Quiet
  <2>2. CASE V = Main
    BY <1>3, <2>1, <2>2, MainErrorSim
  <2>3. CASE V # Main
    BY <1>0, <2>1, <2>3, CoEndSim DEF genVars
  <2>4. QED
    BY <2>2, <2>3
<1>4. QED
  BY <1>1, <1>2, <1>3

LEMMA ResumeSim ==
    ASSUME Inv, NEW k \in Nat, Split(k), NEW c \in Co, NEW way \in WaysOf(c),
           Start(c, way) \/ Continue(c, way)
    PROVE  Abstract!Resume(c)
<1>1. goStack # <<>> /\ ~raising /\ status[c] = "suspended"
      /\ status' = [status EXCEPT ![c] = "running"] /\ UNCHANGED <<raising, wrapDead>>
  BY DEF Start, Continue, Resumable, CanResume, Free, Active
<1>2. /\ Inv' /\ Split(k)' /\ Len(goStack') = Len(goStack) + 1
      /\ \A i \in 1..Len(goStack) : goStack'[i] = goStack[i]
      /\ goStack'[Len(goStack) + 1].co = c
      /\ (Start(c, way) => frameCount[c] = 0)
      /\ (Continue(c, way) => frameCount[c] >= 1)
  BY ResumeInv
<1>3. Len(goStack) \in Nat /\ k <= Len(goStack)
  BY <1>1, Control
<1>4. Chain' = Append(Chain, c)
  <2>1. Chain = ChainOf(goStack, k) /\ Chain \in Seq(Co)
    BY View
  <2>2. Chain' = ChainOf(goStack', k) /\ Chain' \in Seq(Co)
    BY <1>2, ViewThen
  <2>3. \A i \in 1..Len(goStack) : goStack'[i].co = goStack[i].co
    BY <1>2
  <2>4. ChainOf(goStack', k) = Append(ChainOf(goStack, k), c)
    BY <1>2, <1>3, <2>1, <2>2, <2>3, ChainPush
  <2>5. QED
    BY <2>1, <2>2, <2>4
<1>5. Guarded' = Guarded
  BY <1>2, <1>3, GuardsStay
<1>6. Abstract!Running = V /\ InProgress[V] # <<>>
  BY <1>1, Seen
<1>7. c \in VMs /\ InProgress[c] \in Seq(Nat) /\ Len(InProgress[c]) = frameCount[c]
  BY CallsView DEF VMs
<1>8. CASE Start(c, way)
  <2>1. calls < MaxCalls /\ PushFrame(c)
    BY <1>8 DEF Start, PushFrame
  <2>2. InProgress[c] = <<>>
    BY <1>2, <1>7, <1>8
  <2>3. InProgress' = [InProgress EXCEPT ![c] = Append(InProgress[c], calls + 1)]
    BY <1>7, <2>1, PushSeen
  <2>4. Append(<<>>, calls + 1) = <<calls + 1>>
    OBVIOUS
  <2>5. Abstract!Fresh(calls + 1) /\ calls + 1 \in 1..MaxCalls
        /\ InProgress' = [InProgress EXCEPT ![c] = <<calls + 1>>]
    BY <2>1, <2>2, <2>3, <2>4, NewName
  <2>6. \E n \in 1..MaxCalls : Abstract!Fresh(n) /\ InProgress' = [InProgress EXCEPT ![c] = <<n>>]
    BY <2>5
  <2>7. QED
    BY <1>1, <1>4, <1>5, <1>6, <2>2, <2>6 DEF Abstract!Resume
<1>9. CASE Continue(c, way)
  <2>1. PICK p : p = InProgress[c]
    OBVIOUS
  <2>2. Len(p) # 0
    BY <1>2, <1>7, <1>9, <2>1
  <2>3. p # <<>>
    BY <2>2
  <2>4. InProgress[c] # <<>>
    BY <2>1, <2>3
  <2>5. InProgress' = InProgress
    BY <1>9, CallsSame DEF Continue
  <2>6. QED
    BY <1>1, <1>4, <1>5, <1>6, <2>4, <2>5 DEF Abstract!Resume
<1>10. QED
  BY <1>8, <1>9

(* Chain, calls and protected calls stay. *)
LEMMA NothingMoves ==
    ASSUME UNCHANGED <<goStack, frames, frameCount>>
    PROVE  Chain' = Chain /\ InProgress' = InProgress /\ Guarded' = Guarded
<1>1. LastOfMain' = LastOfMain
  BY DEF LastOfMain
<1>2. QED
  BY <1>1, CallsSame DEF Chain, Guarded

LEMMA AtOnceSim ==
    ASSUME Nesting \subseteq {Main}, Inv, NEW k \in Nat, Split(k), NEW c \in Co, NEW way \in WaysOf(c),
           NEW ok \in BOOLEAN, NEW none \in BOOLEAN,
           RunOnce(c, way, ok, none) \/ GiveUp(c, way)
    PROVE  Abstract!RunOnce(c)
<1>1. goStack # <<>> /\ ~raising /\ status[c] = "suspended" /\ UNCHANGED <<frames, frameCount>>
  BY DEF RunOnce, GiveUp, Resumable, CanResume, Free, Active
<1>2. Abstract!Running = V /\ InProgress[V] # <<>>
  BY <1>1, Seen
<1>3. CASE RunOnce(c, way, ok, none)
  <2>1. UNCHANGED goStack /\ Answer(c, way, ok, none) /\ status' = [status EXCEPT ![c] = "dead"]
    BY <1>3, RunOnceInv
  <2>2. Kind[c] # "script"
    BY <1>3 DEF RunOnce
  <2>3. Abstract!MayEnd(c) /\ raising' = (c \in Wrapped /\ ~ok)
    BY <2>1, Told
  <2>4. raising' \in {FALSE, (c \in Wrapped)}
    BY <2>3
  <2>5. QED
    BY <1>1, <1>2, <2>1, <2>2, <2>3, <2>4, NothingMoves DEF Abstract!RunOnce
<1>4. CASE GiveUp(c, way)
  <2>1. UNCHANGED goStack /\ Answer(c, way, FALSE, TRUE) /\ status' = [status EXCEPT ![c] = "dead"]
        /\ started[c] /\ ~hasVM[c]
    BY <1>4 DEF GiveUp
  <2>2. Kind[c] # "script"
    BY <1>1, <2>1 DEF Inv, Kept
  <2>3. Abstract!MayEnd(c) /\ raising' = (c \in Wrapped)
    <3>1. FALSE \in BOOLEAN /\ TRUE \in BOOLEAN
      OBVIOUS
    <3>2. Abstract!MayEnd(c) /\ raising' = (c \in Wrapped /\ ~FALSE)
      BY <2>1, <3>1, Told
    <3>3. QED
      BY <3>2
  <2>4. raising' \in {FALSE, (c \in Wrapped)}
    BY <2>3
  <2>5. QED
    BY <1>1, <1>2, <2>1, <2>2, <2>3, <2>4, NothingMoves DEF Abstract!RunOnce
<1>5. QED
  BY <1>3, <1>4

LEMMA RefuseSim ==
    ASSUME Inv, NEW k \in Nat, Split(k), NEW c \in Co,
           RefuseWrapper(c) \/ \E way \in WaysOf(c) : Refuse(c, way)
    PROVE  Abstract!Refuse(c)
<1>1. goStack # <<>> /\ ~raising /\ UNCHANGED <<status, goStack, frames, frameCount>>
  BY DEF RefuseWrapper, Refuse, CanResume, Free, Active, coVars
<1>2. Abstract!Running = V /\ InProgress[V] # <<>>
  BY <1>1, Seen
<1>3. CASE RefuseWrapper(c)
  <2>1. c \in Wrapped /\ wrapDead[c] /\ raising' = TRUE /\ wrapDead' = wrapDead
    BY <1>3 DEF RefuseWrapper, coVars
  <2>2. Abstract!MayEnd(c) /\ raising' = (c \in Wrapped)
    BY <2>1 DEF Abstract!MayEnd
  <2>3. QED
    BY <1>1, <1>2, <2>1, <2>2, NothingMoves DEF Abstract!Refuse
<1>4. CASE \E way \in WaysOf(c) : Refuse(c, way)
  <2>1. PICK way \in WaysOf(c) : status[c] # "suspended" /\ Answer(c, way, FALSE, TRUE)
    BY <1>4 DEF Refuse
  <2>2. Abstract!MayEnd(c) /\ raising' = (c \in Wrapped)
    <3>1. FALSE \in BOOLEAN /\ TRUE \in BOOLEAN
      OBVIOUS
    <3>2. Abstract!MayEnd(c) /\ raising' = (c \in Wrapped /\ ~FALSE)
      BY <2>1, <3>1, Told
    <3>3. QED
      BY <3>2
  <2>3. QED
    BY <1>1, <1>2, <2>1, <2>2, NothingMoves DEF Abstract!Refuse
<1>5. QED
  BY <1>3, <1>4

(* A call of a generator that the counter answers is a stutter. *)
LEMMA GeneratorSim ==
    ASSUME Inv, NEW k \in Nat, Split(k), NEW c \in Co, CallGenerator(c)
    PROVE  Abstract!Refuse(c) \/ Abstract!RunOnce(c) \/ UNCHANGED Abstract!avars
<1>1. goStack # <<>> /\ ~raising /\ Kind[c] = "generator"
      /\ UNCHANGED <<goStack, frames, frameCount, wrapDead>>
  BY DEF CallGenerator, UsesGenerator, Free, Active
<1>2. Abstract!Running = V /\ InProgress[V] # <<>>
  BY <1>1, Seen
<1>3. Chain' = Chain /\ InProgress' = InProgress /\ Guarded' = Guarded
  BY <1>1, NothingMoves
<1>4. c \in Wrapped /\ Abstract!MayEnd(c)
  BY <1>1, CoroutineAssumption DEF Abstract!MayEnd
<1>5. CASE status[c] # "suspended"
  <2>1. raising' = TRUE /\ status' = status
    BY <1>5 DEF CallGenerator
  <2>2. raising' = (c \in Wrapped)
    BY <1>4, <2>1
  <2>3. Abstract!Refuse(c)
    BY <1>1, <1>2, <1>3, <1>4, <1>5, <2>1, <2>2 DEF Abstract!Refuse
  <2>4. QED
    BY <2>3
<1>6. CASE status[c] = "suspended" /\ next[c] > Limit
  <2>1. status' = [status EXCEPT ![c] = "dead"] /\ raising' = raising
    BY <1>6 DEF CallGenerator
  <2>2. raising' \in {FALSE, (c \in Wrapped)}
    BY <1>1, <2>1 DEF Inv, TypeOK
  <2>3. Abstract!RunOnce(c)
    BY <1>1, <1>2, <1>3, <1>4, <1>6, <2>1, <2>2 DEF Abstract!RunOnce
  <2>4. QED
    BY <2>3
<1>7. CASE status[c] = "suspended" /\ ~(next[c] > Limit)
  <2>1. UNCHANGED <<status, raising>>
    BY <1>7 DEF CallGenerator
  <2>2. QED
    BY <1>1, <1>3, <2>1 DEF Abstract!avars
<1>8. QED
  BY <1>5, <1>6, <1>7

-----------------------------------------------------------------------------
LEMMA Simulates ==
    ASSUME Nesting \subseteq {Main}
    PROVE  Inv /\ [Next]_vars => [Abstract!Next]_(Abstract!avars)
<1> SUFFICES ASSUME Inv, [Next]_vars PROVE Abstract!Next \/ UNCHANGED Abstract!avars
  OBVIOUS
<1>1. PICK k \in Nat : Split(k)
  BY DEF Inv, Stacked
<1>2. CASE Call \/ PCall
  <2>1. \E n \in 1..MaxCalls : Abstract!Call(n)
    BY <1>1, <1>2, CallSim, PCallSim
  <2>2. QED
    BY <2>1 DEF Abstract!Next
<1>3. CASE ReturnInline
  <2>1. Abstract!Return
    BY <1>1, <1>3, ReturnInlineSim
  <2>2. QED
    BY <2>1 DEF Abstract!Next
<1>4. CASE Error \/ \E none \in BOOLEAN : ReturnToGo(none) \/ Yield(none)
  <2>1. Abstract!Return \/ Abstract!Finish \/ Abstract!Fail \/ Abstract!Yield
    BY <1>1, <1>4, EndsSim
  <2>2. QED
    BY <2>1 DEF Abstract!Next
<1>5. ASSUME NEW c \in Co, ResumeStep(c) PROVE Abstract!Next \/ UNCHANGED Abstract!avars
  <2>1. \/ RefuseWrapper(c) \/ \E way \in WaysOf(c) : Refuse(c, way)
        \/ CallGenerator(c)
        \/ \E way \in WaysOf(c) : Start(c, way) \/ Continue(c, way)
        \/ \E way \in WaysOf(c) : \E ok, none \in BOOLEAN :
              RunOnce(c, way, ok, none) \/ GiveUp(c, way)
    BY <1>5 DEF ResumeStep
  <2>2. \/ Abstract!Refuse(c) \/ Abstract!RunOnce(c) \/ Abstract!Resume(c)
        \/ UNCHANGED Abstract!avars
    BY <1>1, <2>1, RefuseSim, GeneratorSim, ResumeSim, AtOnceSim
  <2>3. QED
    BY <2>2 DEF Abstract!Next
<1>6. CASE UNCHANGED vars
  <2>1. UNCHANGED <<goStack, frames, frameCount>> /\ UNCHANGED <<status, raising, wrapDead>>
    BY <1>6 DEF vars, coVars
  <2>2. QED
    BY <2>1, NothingMoves DEF Abstract!avars
<1>7. QED
  BY <1>2, <1>3, <1>4, <1>5, <1>6 DEF Next

LEMMA InitSim == Init => Abstract!Init
<1> SUFFICES ASSUME Init PROVE Abstract!Init
  OBVIOUS
<1>1. PICK a : a = [vm |-> Main, fc |-> 1, cur |-> 1, why |-> "main",
                    co |-> Main, way |-> "none", want |-> 1] /\ goStack = <<a>>
  BY DEF Init
<1>2. Inv
  BY Initial
<1>3. PICK k \in Nat : Split(k)
  BY <1>2 DEF Inv, Stacked
<1>4. goStack # <<>> /\ Len(goStack) = 1
  BY <1>1
<1>5. k = 1
  BY <1>2, <1>3, <1>4, Control
<1>6. Chain = <<>>
  <2>1. Chain \in Seq(Co) /\ Len(Chain) = Len(goStack) - k
    BY <1>2, <1>3, View
  <2>2. Len(Chain) = 0
    BY <1>4, <1>5, <2>1
  <2>3. QED
    BY <2>1, <2>2
<1>7. Guarded = {}
  BY <1>2, <1>3, <1>5, GuardView DEF GuardedOf
<1>8. InProgress = [v \in Co \cup {Main} |-> IF v = Main THEN <<1>> ELSE <<>>]
  <2>1. SubSeq(<<1>>, 1, 1) = <<1>> /\ SubSeq(<<>>, 1, 0) = <<>>
    <3>0. <<1>> \in Seq(Nat) /\ Len(<<1>>) = 1
      OBVIOUS
    <3>1. PICK s : s = <<1>> /\ s \in Seq(Nat) /\ Len(s) = 1
      BY <3>0
    <3>2. SubSeq(s, 1, 1) \in Seq(Nat) /\ Len(SubSeq(s, 1, 1)) = 1 /\ SubSeq(s, 1, 1)[1] = s[1]
      BY <3>1, Prefix
    <3>3. \A i \in 1..1 : SubSeq(s, 1, 1)[i] = s[i]
      BY <3>2
    <3>4. SubSeq(s, 1, 1) = s
      BY <3>1, <3>2, <3>3, SeqEqual
    <3>5. QED
      BY <3>1, <3>4, SubSeqEmpty
  <2>2. \A v \in VMs : SubSeq(frames[v], 1, frameCount[v]) = IF v = Main THEN <<1>> ELSE <<>>
    BY <2>1 DEF Init
  <2>3. QED
    BY <2>2 DEF InProgress, VMs
<1>9. 1 \in 1..MaxCalls
  BY CoroutineAssumption
<1>10. QED
  BY <1>6, <1>7, <1>8, <1>9 DEF Init, Abstract!Init

(* The coroutines that a script sees are those of CoroutineSpec, for any
   coroutines, bodies, wrappers and depths, as long as natives call back in
   the main program only: control goes back to the resumer at a yield and to
   the caller at a return, a resumed coroutine goes on with the calls it had,
   and an error ends the innermost protected call or the coroutine. *)
THEOREM Refinement ==
    ASSUME Nesting \subseteq {Main}
    PROVE  Spec => ImplementsCoroutineSpec
<1>1. Inv /\ [Next]_vars => [Abstract!Next]_(Abstract!avars)
  BY Simulates
<1>2. QED
  BY <1>1, InitSim, Invariant, PTL DEF Spec, ImplementsCoroutineSpec, Abstract!Spec
=============================================================================
