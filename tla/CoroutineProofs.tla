--------------------------- MODULE CoroutineProofs ---------------------------
(***************************************************************************)
(* Theorems about Coroutine for any coroutines, wrappers, bodies and       *)
(* bounds, where natives call back (Nesting) in the main program only: in  *)
(* the VM of a coroutine run() does not stop where such a call ends.       *)
(***************************************************************************)
EXTENDS Coroutine, SequenceTheorems, TLAPS

(* The activations of the main program are the first k of stack s: run() and
   one per protected call, each entered one frame above the one below, and the
   last one runs the top frame of the n frames fr. *)
MainAt(s, i, fr) ==
    /\ s[i].vm = Main /\ s[i].co = Main
    /\ s[i].why = IF i = 1 THEN "main" ELSE "pcall"
    /\ 1 <= s[i].fc /\ s[i].fc <= s[i].cur
    /\ i > 1 => s[i].fc = s[i - 1].cur + 1 /\ fr[s[i].fc] = s[i].want

MainPart(s, k, fr, n) ==
    /\ \A i \in 1..k : MainAt(s, i, fr)
    /\ \A i, j \in 1..k : i < j => s[i].cur < s[j].fc
    /\ k = 0 => n = 0 /\ Len(s) = 0
    /\ k > 0 => s[1].fc = 1 /\ s[k].cur = n

(* The others are those of the coroutines that are running, one for each. *)
CoAt(a, st) ==
    /\ a.vm \in Co /\ a.co = a.vm /\ a.why = "resume" /\ a.fc = 1
    /\ a.way \in WaysOf(a.co) /\ st[a.co] = "running"

CoPart(s, k, st) ==
    /\ \A i \in (k + 1)..Len(s) : CoAt(s[i], st)
    /\ \A i, j \in (k + 1)..Len(s) : s[i].co = s[j].co => i = j
    /\ \A c \in Co : st[c] = "running" => \E i \in (k + 1)..Len(s) : s[i].co = c

Split(k) ==
    /\ k \in 0..Len(goStack)
    /\ MainPart(goStack, k, frames[Main], frameCount[Main])
    /\ CoPart(goStack, k, status)

Stacked == \E k \in Nat : Split(k)

(* Calls in progress have names of their own. *)
Named ==
    /\ calls \in 1..MaxCalls
    /\ \A v \in VMs : frameCount[v] <= Len(frames[v])
    /\ \A v \in VMs : \A i \in 1..frameCount[v] : frames[v][i] \in 1..calls
    /\ \A v, w \in VMs : \A i \in 1..frameCount[v], j \in 1..frameCount[w] :
          frames[v][i] = frames[w][j] => v = w /\ i = j

(* A coroutine has frames as long as it has a VM, keeps both while it can be
   resumed, and no yield is pending between two steps. *)
Kept ==
    \A c \in Co :
        /\ hasVM[c] => started[c] /\ Kind[c] \in {"script", "generator"} /\ frameCount[c] >= 1
        /\ ~hasVM[c] => frameCount[c] = 0
        /\ ~yielded[c]
        /\ status[c] = "running" => hasVM[c]
        /\ Kind[c] # "generator" => /\ status[c] = "suspended" /\ started[c] => hasVM[c]
                                    /\ status[c] = "dead" => ~hasVM[c]

Quiet == ~strayed /\ (goStack = <<>> => ~raising)

Inv == TypeOK /\ Stacked /\ Named /\ Kept /\ Quiet

-----------------------------------------------------------------------------
(* Stacks: the last element replaced, added and removed. *)

LEMMA Prefix ==
    ASSUME NEW S, NEW s \in Seq(S), NEW n \in 0..Len(s)
    PROVE  /\ SubSeq(s, 1, n) \in Seq(S) /\ Len(SubSeq(s, 1, n)) = n
           /\ \A i \in 1..n : SubSeq(s, 1, n)[i] = s[i]
<1>1. CASE n = 0
  <2>1. SubSeq(s, 1, n) = <<>>
    BY <1>1, SubSeqEmpty
  <2>2. QED
    BY <1>1, <2>1
<1>2. CASE n # 0
  <2>1. n \in 1..Len(s)
    BY <1>2
  <2>2. QED
    BY <2>1
<1>3. QED
  BY <1>1, <1>2

LEMMA FrontSeq ==
    ASSUME NEW S, NEW s \in Seq(S), s # <<>>
    PROVE  /\ Len(s) \in Nat /\ Len(s) >= 1 /\ s[Len(s)] \in S
           /\ Front(s) \in Seq(S) /\ Len(Front(s)) = Len(s) - 1
           /\ \A i \in 1..(Len(s) - 1) : Front(s)[i] = s[i]
           /\ Last(s) = s[Len(s)]
<1>1. Len(s) \in Nat /\ Len(s) >= 1 /\ s[Len(s)] \in S
  OBVIOUS
<1>2. Front(s) = SubSeq(s, 1, Len(s) - 1) /\ Last(s) = s[Len(s)]
  BY DEF Front, Last
<1>3. Len(s) - 1 \in 0..Len(s)
  BY <1>1
<1>4. QED
  BY <1>1, <1>2, <1>3, Prefix

LEMMA PushSeq ==
    ASSUME NEW S, NEW s \in Seq(S), NEW a \in S
    PROVE  LET t == Append(s, a)
           IN  /\ t \in Seq(S) /\ Len(t) = Len(s) + 1 /\ t[Len(s) + 1] = a
               /\ \A i \in 1..Len(s) : t[i] = s[i]
  OBVIOUS

LEMMA SwapSeq ==
    ASSUME NEW S, NEW s \in Seq(S), NEW a \in S, s # <<>>
    PROVE  LET t == Append(Front(s), a)
           IN  /\ t \in Seq(S) /\ Len(t) = Len(s) /\ t[Len(s)] = a
               /\ \A i \in 1..(Len(s) - 1) : t[i] = s[i]
<1>1. PICK f \in Seq(S) : f = Front(s) /\ Len(f) = Len(s) - 1
                          /\ \A i \in 1..(Len(s) - 1) : f[i] = s[i]
  BY FrontSeq
<1>2. Len(s) \in Nat /\ Len(s) >= 1
  BY FrontSeq
<1>3. LET t == Append(f, a)
      IN  /\ t \in Seq(S) /\ Len(t) = Len(f) + 1 /\ t[Len(f) + 1] = a
          /\ \A i \in 1..Len(f) : t[i] = f[i]
  BY PushSeq
<1>4. QED
  BY <1>1, <1>2, <1>3

(* What is below n, and the frames up to n, decide MainPart. *)
LEMMA MainAgrees ==
    ASSUME NEW s \in Seq(Activations), NEW t \in Seq(Activations), NEW k \in 0..Len(s),
           NEW fr, NEW fr2, NEW n \in Nat, MainPart(s, k, fr, n), k <= Len(t),
           \A i \in 1..k : t[i] = s[i], \A i \in 1..n : fr2[i] = fr[i],
           k = 0 => Len(t) = 0
    PROVE  MainPart(t, k, fr2, n)
<1>1. \A i \in 1..k : s[i] \in Activations /\ t[i] \in Activations
  OBVIOUS
<1>2. \A i \in 1..k : s[i].fc \in Nat /\ s[i].cur \in Nat
  BY <1>1 DEF Activations
<1>3. \A i \in 1..k : s[i].fc \in 1..n
  <2> SUFFICES ASSUME NEW i \in 1..k PROVE s[i].fc \in 1..n
    OBVIOUS
  <2>1. k \in Nat /\ k > 0 /\ k \in 1..k
    OBVIOUS
  <2>2. s[k].cur = n /\ s[i].fc >= 1 /\ s[i].fc <= s[i].cur /\ s[k].fc <= s[k].cur
    BY <2>1 DEF MainPart, MainAt
  <2>3. i < k => s[i].cur < s[k].fc
    BY <2>1 DEF MainPart
  <2>4. i < k \/ i = k
    BY <2>1
  <2>5. QED
    BY <1>2, <2>1, <2>2, <2>3, <2>4
<1>4. \A i \in 1..k : i > 1 => t[i - 1] = s[i - 1]
  OBVIOUS
<1>5. ASSUME NEW i \in 1..k PROVE MainAt(t, i, fr2)
  <2>1. MainAt(s, i, fr)
    BY DEF MainPart
  <2>2. t[i] = s[i] /\ fr2[s[i].fc] = fr[s[i].fc]
    BY <1>3
  <2>3. QED
    BY <1>4, <2>1, <2>2, Zenon DEF MainAt
<1>6. \A i, j \in 1..k : i < j => t[i].cur < t[j].fc
  BY DEF MainPart
<1>7. k > 0 => t[1].fc = 1 /\ t[k].cur = n
  BY DEF MainPart
<1>8. k = 0 => n = 0 /\ Len(t) = 0
  BY DEF MainPart
<1>9. QED
  BY <1>5, <1>6, <1>7, <1>8 DEF MainPart

(* Who is on top. *)
LEMMA TopOf ==
    ASSUME NEW s \in Seq(Activations), s # <<>>, NEW k \in 0..Len(s), NEW fr, NEW n \in Nat, NEW st,
           MainPart(s, k, fr, n), CoPart(s, k, st)
    PROVE  /\ k >= 1 /\ k \in Nat
           /\ \/ k = Len(s) /\ s[Len(s)].vm = Main /\ MainAt(s, k, fr) /\ s[k].cur = n
              \/ k < Len(s) /\ s[Len(s)].vm # Main /\ CoAt(s[Len(s)], st)
<1>1. Len(s) \in Nat /\ Len(s) >= 1
  OBVIOUS
<1>2. k >= 1 /\ k \in Nat
  BY <1>1 DEF MainPart
<1>3. CASE k = Len(s)
  <2>1. k \in 1..k
    BY <1>2
  <2>2. MainAt(s, k, fr) /\ s[k].cur = n
    BY <1>2, <2>1 DEF MainPart
  <2>3. QED
    BY <1>2, <1>3, <2>2 DEF MainAt
<1>4. CASE k < Len(s)
  <2>1. Len(s) \in (k + 1)..Len(s)
    BY <1>1, <1>2, <1>4
  <2>2. CoAt(s[Len(s)], st)
    BY <2>1 DEF CoPart
  <2>3. QED
    BY <1>2, <1>4, <2>2, CoroutineAssumption DEF CoAt
<1>5. QED
  BY <1>1, <1>3, <1>4

(* The main program calls or returns without leaving run(). *)
LEMMA SwapMain ==
    ASSUME NEW s \in Seq(Activations), NEW t \in Seq(Activations), NEW k \in 1..Len(s), k = Len(s),
           NEW fr, NEW fr2, NEW n \in Nat, NEW m \in Nat, NEW st,
           MainPart(s, k, fr, n), CoPart(s, k, st),
           Len(t) = Len(s), \A i \in 1..(k - 1) : t[i] = s[i],
           t[k] = [s[k] EXCEPT !.cur = m], m >= s[k].fc,
           \A i \in 1..s[k].fc : fr2[i] = fr[i]
    PROVE  MainPart(t, k, fr2, m) /\ CoPart(t, k, st)
<1>1. \A i \in 1..k : s[i] \in Activations
  OBVIOUS
<1>2. \A i \in 1..k : s[i].fc \in Nat /\ s[i].cur \in Nat
  BY <1>1 DEF Activations
<1>3. t[k].vm = s[k].vm /\ t[k].co = s[k].co /\ t[k].why = s[k].why /\ t[k].fc = s[k].fc
      /\ t[k].want = s[k].want /\ t[k].cur = m
  BY <1>1 DEF Activations
<1>4. \A i \in 1..k : i = k \/ i \in 1..(k - 1)
  OBVIOUS
<1>5. \A i \in 1..k : t[i].fc = s[i].fc
  BY <1>3, <1>4
<1>6. \A i \in 1..k : s[i].fc <= s[k].fc
  <2> SUFFICES ASSUME NEW i \in 1..k, i # k PROVE s[i].fc <= s[k].fc
    BY <1>2
  <2>1. s[i].fc <= s[i].cur /\ s[i].cur < s[k].fc
    BY DEF MainPart, MainAt
  <2>2. QED
    BY <1>2, <2>1
<1>7. ASSUME NEW i \in 1..k PROVE MainAt(t, i, fr2)
  <2>1. MainAt(s, i, fr)
    BY DEF MainPart
  <2>2. s[i].fc \in 1..s[k].fc
    BY <1>2, <1>6, <2>1 DEF MainAt
  <2>3. i > 1 => t[i - 1] = s[i - 1]
    OBVIOUS
  <2>4. CASE i = k
    BY <1>2, <1>3, <2>1, <2>2, <2>3, <2>4 DEF MainAt
  <2>5. CASE i # k
    <3>1. t[i] = s[i]
      BY <1>4, <2>5
    <3>2. QED
      BY <2>1, <2>2, <2>3, <3>1 DEF MainAt
  <2>6. QED
    BY <2>4, <2>5
<1>8. ASSUME NEW i \in 1..k, NEW j \in 1..k, i < j PROVE t[i].cur < t[j].fc
  <2>1. t[i] = s[i] /\ t[j].fc = s[j].fc
    BY <1>5, <1>8
  <2>2. QED
    BY <1>8, <2>1 DEF MainPart
<1>9. t[1].fc = 1
  BY <1>5 DEF MainPart
<1>10. MainPart(t, k, fr2, m)
  BY <1>3, <1>7, <1>8, <1>9 DEF MainPart
<1>11. CoPart(t, k, st)
  BY DEF CoPart
<1>12. QED
  BY <1>10, <1>11

(* A coroutine does. *)
LEMMA SwapCo ==
    ASSUME NEW s \in Seq(Activations), NEW t \in Seq(Activations), NEW k \in Nat, k < Len(s), NEW st,
           CoPart(s, k, st),
           Len(t) = Len(s), \A i \in 1..(Len(s) - 1) : t[i] = s[i],
           CoAt(t[Len(s)], st), t[Len(s)].co = s[Len(s)].co
    PROVE  CoPart(t, k, st)
<1>1. \A i \in (k + 1)..Len(s) : i = Len(s) \/ i \in 1..(Len(s) - 1)
  OBVIOUS
<1>2. \A i \in (k + 1)..Len(s) : t[i].co = s[i].co
  BY <1>1
<1>3. \A i \in (k + 1)..Len(t) : CoAt(t[i], st)
  BY <1>1 DEF CoPart
<1>4. \A i, j \in (k + 1)..Len(t) : t[i].co = t[j].co => i = j
  BY <1>2 DEF CoPart
<1>5. \A c \in Co : st[c] = "running" => \E i \in (k + 1)..Len(t) : t[i].co = c
  BY <1>2 DEF CoPart
<1>6. QED
  BY <1>3, <1>4, <1>5 DEF CoPart

(* The main program makes a protected call. *)
ProtectedCall(s, t, k, fr, fr2, n) ==
    /\ s \in Seq(Activations) /\ t \in Seq(Activations) /\ n \in Nat
    /\ k \in Nat /\ k >= 1 /\ k = Len(s) /\ Len(t) = k + 1
    /\ \A i \in 1..k : t[i] = s[i]
    /\ \A i \in 1..n : fr2[i] = fr[i]
    /\ t[k + 1].vm = Main /\ t[k + 1].co = Main /\ t[k + 1].why = "pcall"
    /\ t[k + 1].fc = n + 1 /\ t[k + 1].cur = n + 1 /\ t[k + 1].want = fr2[n + 1]

LEMMA PushMain ==
    ASSUME NEW s, NEW t, NEW k, NEW fr, NEW fr2, NEW n, NEW st,
           MainPart(s, k, fr, n), CoPart(s, k, st), ProtectedCall(s, t, k, fr, fr2, n)
    PROVE  MainPart(t, k + 1, fr2, n + 1) /\ CoPart(t, k + 1, st)
<1> USE DEF ProtectedCall
<1>1. MainPart(t, k, fr2, n)
  BY MainAgrees
<1>2. \A i \in 1..k : s[i].fc \in Nat /\ s[i].cur \in Nat
  <2>1. \A i \in 1..k : s[i] \in Activations
    OBVIOUS
  <2>2. QED
    BY <2>1 DEF Activations
<1>3. ASSUME NEW i \in 1..(k + 1) PROVE MainAt(t, i, fr2)
  <2>1. CASE i = k + 1
    <3>1. i > 1 /\ t[i - 1].cur = n
      BY <1>1, <2>1 DEF MainPart
    <3>2. QED
      BY <2>1, <3>1 DEF MainAt
  <2>2. CASE i # k + 1
    <3>1. i \in 1..k
      BY <2>2
    <3>2. QED
      BY <1>1, <3>1 DEF MainPart
  <2>3. QED
    BY <2>1, <2>2
<1>4. ASSUME NEW i \in 1..(k + 1), NEW j \in 1..(k + 1), i < j PROVE t[i].cur < t[j].fc
  <2>1. CASE j = k + 1
    <3>1. i \in 1..k /\ k \in 1..k
      BY <1>4, <2>1
    <3>2. t[i].cur <= n
      <4>1. CASE i = k
        BY <1>1, <4>1 DEF MainPart
      <4>2. CASE i # k
        <5>1. t[i].cur < t[k].fc /\ t[k].fc <= t[k].cur /\ t[k].cur = n
          BY <1>1, <3>1, <4>2 DEF MainPart, MainAt
        <5>2. QED
          BY <1>2, <3>1, <5>1
      <4>3. QED
        BY <4>1, <4>2
    <3>3. QED
      BY <1>2, <2>1, <3>1, <3>2
  <2>2. CASE j # k + 1
    <3>1. i \in 1..k /\ j \in 1..k
      BY <1>4, <2>2
    <3>2. QED
      BY <1>1, <1>4, <3>1 DEF MainPart
  <2>3. QED
    BY <2>1, <2>2
<1>5. t[1].fc = 1
  BY <1>1 DEF MainPart
<1>6. MainPart(t, k + 1, fr2, n + 1)
  BY <1>3, <1>4, <1>5 DEF MainPart
<1>7. CoPart(t, k + 1, st)
  BY DEF CoPart
<1>8. QED
  BY <1>6, <1>7

(* A coroutine is resumed. *)
LEMMA PushCo ==
    ASSUME NEW s \in Seq(Activations), NEW t \in Seq(Activations), NEW k \in 0..Len(s), NEW c \in Co,
           NEW st, NEW st2, CoPart(s, k, st), st[c] # "running",
           st2[c] = "running", \A d \in Co : d # c => st2[d] = st[d],
           Len(t) = Len(s) + 1, \A i \in 1..Len(s) : t[i] = s[i],
           CoAt(t[Len(s) + 1], st2), t[Len(s) + 1].co = c
    PROVE  CoPart(t, k, st2)
<1>1. Len(s) \in Nat /\ k \in Nat
  OBVIOUS
<1>2. \A i \in (k + 1)..Len(t) : i = Len(t) \/ i \in (k + 1)..Len(s)
  BY <1>1
<1>3. ASSUME NEW i \in (k + 1)..Len(s)
      PROVE  t[i] = s[i] /\ CoAt(t[i], st2) /\ t[i].co # c
  <2>1. t[i] = s[i] /\ CoAt(s[i], st)
    BY <1>1 DEF CoPart
  <2>2. s[i].co \in Co /\ s[i].co # c
    BY <2>1 DEF CoAt
  <2>3. QED
    BY <2>1, <2>2 DEF CoAt
<1>4. \A i \in (k + 1)..Len(t) : CoAt(t[i], st2)
  BY <1>2, <1>3
<1>5. \A i, j \in (k + 1)..Len(t) : t[i].co = t[j].co => i = j
  BY <1>2, <1>3 DEF CoPart
<1>6. ASSUME NEW d \in Co, st2[d] = "running" PROVE \E i \in (k + 1)..Len(t) : t[i].co = d
  <2>1. CASE d = c
    <3>1. Len(t) \in (k + 1)..Len(t)
      BY <1>1
    <3>2. QED
      BY <2>1, <3>1
  <2>2. CASE d # c
    <3>1. PICK i \in (k + 1)..Len(s) : s[i].co = d
      BY <1>6, <2>2 DEF CoPart
    <3>2. i \in (k + 1)..Len(t) /\ t[i].co = d
      BY <1>1, <1>3, <3>1
    <3>3. QED
      BY <3>2
  <2>3. QED
    BY <2>1, <2>2
<1>7. QED
  BY <1>4, <1>5, <1>6 DEF CoPart

(* The last activation of the main program ends. *)
LEMMA PopMain ==
    ASSUME NEW s \in Seq(Activations), NEW t \in Seq(Activations), NEW k \in 1..Len(s), k = Len(s),
           NEW fr, NEW n \in Nat, NEW st, MainPart(s, k, fr, n), CoPart(s, k, st),
           Len(t) = k - 1, \A i \in 1..(k - 1) : t[i] = s[i]
    PROVE  MainPart(t, k - 1, fr, s[k].fc - 1) /\ CoPart(t, k - 1, st)
<1>1. \A i \in 1..k : s[i].fc \in Nat /\ s[i].cur \in Nat
  <2>1. \A i \in 1..k : s[i] \in Activations
    OBVIOUS
  <2>2. QED
    BY <2>1 DEF Activations
<1>2. ASSUME NEW i \in 1..(k - 1) PROVE MainAt(t, i, fr)
  <2>1. MainAt(s, i, fr) /\ t[i] = s[i] /\ (i > 1 => t[i - 1] = s[i - 1])
    BY DEF MainPart
  <2>2. QED
    BY <2>1 DEF MainAt
<1>3. \A i, j \in 1..(k - 1) : i < j => t[i].cur < t[j].fc
  BY DEF MainPart
<1>4. k - 1 = 0 => s[k].fc - 1 = 0
  BY DEF MainPart
<1>5. ASSUME k - 1 > 0 PROVE t[1].fc = 1 /\ t[k - 1].cur = s[k].fc - 1
  <2>1. MainAt(s, k, fr) /\ k > 1 /\ k - 1 \in 1..k
    BY <1>5 DEF MainPart
  <2>2. s[k].fc = s[k - 1].cur + 1
    BY <2>1 DEF MainAt
  <2>3. t[k - 1] = s[k - 1] /\ t[1] = s[1] /\ s[1].fc = 1
    BY <1>5 DEF MainPart
  <2>4. QED
    BY <1>1, <2>1, <2>2, <2>3
<1>6. MainPart(t, k - 1, fr, s[k].fc - 1)
  BY <1>2, <1>3, <1>4, <1>5 DEF MainPart
<1>7. CoPart(t, k - 1, st)
  BY DEF CoPart
<1>8. QED
  BY <1>6, <1>7

(* The coroutine on top yields or ends. *)
HandsBack(s, t, k, st, st2) ==
    /\ s \in Seq(Activations) /\ t \in Seq(Activations) /\ k \in Nat /\ k < Len(s)
    /\ st2[s[Len(s)].co] # "running"
    /\ \A d \in Co : d # s[Len(s)].co => st2[d] = st[d]
    /\ Len(t) = Len(s) - 1 /\ \A i \in 1..(Len(s) - 1) : t[i] = s[i]

LEMMA PopCo ==
    ASSUME NEW s, NEW t, NEW k, NEW st, NEW st2, CoPart(s, k, st), HandsBack(s, t, k, st, st2)
    PROVE  CoPart(t, k, st2)
<1> DEFINE c == s[Len(s)].co
<1> USE DEF HandsBack
<1>1. Len(s) \in Nat /\ Len(s) \in (k + 1)..Len(s)
  OBVIOUS
<1>2. ASSUME NEW i \in (k + 1)..Len(t)
      PROVE  i \in (k + 1)..Len(s) /\ t[i] = s[i] /\ CoAt(t[i], st2)
  <2>1. i \in (k + 1)..Len(s) /\ i # Len(s) /\ t[i] = s[i]
    BY <1>1
  <2>2. CoAt(s[i], st) /\ s[i].co # c
    BY <1>1, <2>1 DEF CoPart
  <2>3. s[i].co \in Co
    BY <2>2 DEF CoAt
  <2>4. QED
    BY <2>1, <2>2, <2>3 DEF CoAt
<1>3. \A i, j \in (k + 1)..Len(t) : t[i].co = t[j].co => i = j
  BY <1>2 DEF CoPart
<1>4. ASSUME NEW d \in Co, st2[d] = "running" PROVE \E i \in (k + 1)..Len(t) : t[i].co = d
  <2>1. d # c /\ st[d] = "running"
    BY <1>4
  <2>2. PICK i \in (k + 1)..Len(s) : s[i].co = d
    BY <2>1 DEF CoPart
  <2>3. i \in (k + 1)..Len(t)
    BY <1>1, <2>1, <2>2
  <2>4. QED
    BY <1>2, <2>2, <2>3
<1>5. QED
  BY <1>2, <1>3, <1>4 DEF CoPart

-----------------------------------------------------------------------------
(* The state: who is in control, and what a step does to the stack. *)

LEMMA Control ==
    ASSUME Inv, goStack # <<>>, NEW k \in Nat, Split(k)
    PROVE  /\ Top \in Activations /\ Top = goStack[Len(goStack)] /\ Len(goStack) \in Nat
           /\ k >= 1 /\ k <= Len(goStack) /\ V \in VMs /\ frameCount[V] >= 1
           /\ \/ k = Len(goStack) /\ V = Main /\ MainAt(goStack, k, frames[Main])
                 /\ Top.cur = frameCount[Main]
              \/ k < Len(goStack) /\ V \in Co /\ V # Main /\ CoAt(Top, status) /\ hasVM[V]
<1>1. goStack \in Seq(Activations)
  BY DEF Inv, TypeOK
<1>2. Top = goStack[Len(goStack)] /\ Len(goStack) \in Nat /\ Len(goStack) >= 1 /\ Top \in Activations
  BY <1>1, FrontSeq DEF Top
<1>3. frameCount[Main] \in Nat
  BY DEF Inv, TypeOK, VMs
<1>4. /\ k >= 1
      /\ \/ k = Len(goStack) /\ goStack[Len(goStack)].vm = Main /\ MainAt(goStack, k, frames[Main])
            /\ goStack[k].cur = frameCount[Main]
         \/ k < Len(goStack) /\ goStack[Len(goStack)].vm # Main /\ CoAt(goStack[Len(goStack)], status)
  BY <1>1, <1>3, TopOf DEF Split
<1>5. V \in VMs /\ V = goStack[Len(goStack)].vm
  BY <1>2 DEF V, Activations
<1>6. CASE k = Len(goStack) /\ goStack[Len(goStack)].vm = Main /\ MainAt(goStack, k, frames[Main])
            /\ goStack[k].cur = frameCount[Main]
  <2>1. goStack[k].fc \in Nat /\ goStack[k].fc >= 1 /\ goStack[k].fc <= goStack[k].cur
    BY <1>2, <1>6 DEF MainAt, Activations
  <2>2. frameCount[V] >= 1
    BY <1>3, <1>5, <1>6, <2>1
  <2>3. QED
    BY <1>2, <1>4, <1>5, <1>6, <2>2
<1>7. CASE k < Len(goStack) /\ goStack[Len(goStack)].vm # Main /\ CoAt(goStack[Len(goStack)], status)
  <2>1. V \in Co /\ V # Main /\ status[V] = "running"
    BY <1>5, <1>7 DEF CoAt
  <2>2. hasVM[V] /\ frameCount[V] >= 1
    BY <2>1 DEF Inv, Kept
  <2>3. QED
    BY <1>2, <1>4, <1>5, <1>7, <2>1, <2>2
<1>8. QED
  BY <1>4, <1>6, <1>7

(* The frames up to the top ones are those of before. *)
FramesStay(v) == \A i \in 1..frameCount[v] : frames'[v][i] = frames[v][i]

LEMMA SwapStep ==
    ASSUME Inv, goStack # <<>>, NEW k \in Nat, Split(k), NEW m \in Nat, m >= Top.fc,
           goStack' = Append(Below, [Top EXCEPT !.cur = m]),
           frameCount' = [frameCount EXCEPT ![V] = m],
           FramesStay(Main), status' = status
    PROVE  /\ Split(k)' /\ goStack' \in Seq(Activations) /\ Len(goStack') = Len(goStack)
           /\ \A i \in 1..Len(goStack) : goStack'[i].co = goStack[i].co
                 /\ goStack'[i].why = goStack[i].why /\ goStack'[i].want = goStack[i].want
<1> DEFINE n == Len(goStack)
<1>1. PICK a \in Activations : a = [Top EXCEPT !.cur = m]
  <2>1. Top \in Activations
    BY Control
  <2>2. QED
    BY <2>1 DEF Activations
<1>2. goStack \in Seq(Activations) /\ goStack' = Append(Front(goStack), a)
  BY <1>1 DEF Inv, TypeOK, Below
<1>3. /\ goStack' \in Seq(Activations) /\ Len(goStack') = n /\ goStack'[n] = a
      /\ \A i \in 1..(n - 1) : goStack'[i] = goStack[i]
  <2>1. goStack \in Seq(Activations)
    BY <1>2
  <2>2. LET t == Append(Front(goStack), a)
        IN  /\ t \in Seq(Activations) /\ Len(t) = n /\ t[n] = a
            /\ \A i \in 1..(n - 1) : t[i] = goStack[i]
    BY <2>1, SwapSeq
  <2>3. QED
    BY <1>2, <2>2, Zenon
<1>4. Top \in Activations /\ Top = goStack[n] /\ n \in Nat /\ k >= 1 /\ k <= n /\ V \in VMs
  BY Control
<1>5. /\ a.vm = Top.vm /\ a.co = Top.co /\ a.why = Top.why /\ a.fc = Top.fc /\ a.want = Top.want
      /\ a.way = Top.way /\ a.cur = m
  BY <1>1, <1>4 DEF Activations
<1>6. frameCount \in [VMs -> Nat] /\ Main \in VMs
  BY DEF Inv, TypeOK, VMs
<1>7. MainPart(goStack, k, frames[Main], frameCount[Main]) /\ CoPart(goStack, k, status)
  BY DEF Split
<1>8. CASE k = n /\ V = Main
  <2>1. frameCount'[Main] = m /\ k \in 1..n
    BY <1>4, <1>6, <1>8
  <2>2. goStack'[k] = [goStack[k] EXCEPT !.cur = m] /\ m >= goStack[k].fc
    BY <1>1, <1>3, <1>4, <1>8
  <2>3. \A i \in 1..goStack[k].fc : frames'[Main][i] = frames[Main][i]
    <3>1. goStack[k].fc \in Nat /\ goStack[k].fc <= frameCount[Main]
      BY <1>4, <1>8, <1>7, <2>1 DEF MainPart, MainAt, Activations
    <3>2. QED
      BY <1>6, <3>1 DEF FramesStay
  <2>4. MainPart(goStack', k, frames'[Main], m) /\ CoPart(goStack', k, status)
    BY <1>2, <1>3, <1>6, <1>7, <1>8, <2>1, <2>2, <2>3, SwapMain
  <2>5. Split(k)'
    BY <1>3, <1>4, <2>1, <2>4 DEF Split
  <2>6. QED
    BY <1>3, <1>4, <1>5, <2>5
<1>9. CASE k < n /\ V # Main /\ CoAt(Top, status)
  <2>1. frameCount'[Main] = frameCount[Main]
    BY <1>6, <1>9
  <2>2. CoAt(goStack'[n], status) /\ goStack'[n].co = goStack[n].co
    BY <1>3, <1>4, <1>5, <1>9 DEF CoAt
  <2>3. CoPart(goStack', k, status)
    BY <1>2, <1>3, <1>7, <1>9, <2>2, SwapCo
  <2>4. MainPart(goStack', k, frames'[Main], frameCount[Main])
    <3>1. k \in 0..n /\ k # 0 /\ frameCount[Main] \in Nat /\ \A i \in 1..k : goStack'[i] = goStack[i]
      BY <1>3, <1>4, <1>6, <1>9
    <3>2. QED
      BY <1>2, <1>3, <1>4, <1>7, <3>1, MainAgrees DEF FramesStay
  <2>5. Split(k)'
    BY <1>3, <1>4, <2>1, <2>3, <2>4 DEF Split
  <2>6. QED
    BY <1>3, <1>4, <1>5, <2>5
<1>10. QED
  BY <1>8, <1>9, Control

LEMMA PCallStep ==
    ASSUME Inv, goStack # <<>>, NEW k \in Nat, Split(k), V = Main, NEW w \in Nat,
           goStack' = Append(goStack, Activation(Main, frameCount[Main] + 1, "pcall", Main, "none", w)),
           frameCount'[Main] = frameCount[Main] + 1, FramesStay(Main),
           frames'[Main][frameCount[Main] + 1] = w, status' = status
    PROVE  /\ Split(k + 1)' /\ goStack' \in Seq(Activations) /\ k = Len(goStack) /\ Len(goStack') = k + 1
           /\ \A i \in 1..k : goStack'[i] = goStack[i]
           /\ goStack'[k + 1].why = "pcall" /\ goStack'[k + 1].want = w
<1>1. frameCount[Main] \in Nat /\ goStack \in Seq(Activations)
  BY DEF Inv, TypeOK, VMs
<1>2. PICK a \in Activations : a = Activation(Main, frameCount[Main] + 1, "pcall", Main, "none", w)
  <2>1. InitialFC(Main, frameCount[Main] + 1) = frameCount[Main] + 1
    BY DEF InitialFC
  <2>2. frameCount[Main] + 1 \in Nat /\ Main \in VMs
    BY <1>1 DEF VMs
  <2>3. QED
    BY <2>1, <2>2 DEF Activation, Activations
<1>3. /\ a.vm = Main /\ a.co = Main /\ a.why = "pcall" /\ a.want = w
      /\ a.fc = frameCount[Main] + 1 /\ a.cur = frameCount[Main] + 1
  BY <1>2 DEF Activation, InitialFC
<1>4. k = Len(goStack) /\ k \in 1..Len(goStack)
  BY Control
<1>5. /\ goStack' \in Seq(Activations) /\ Len(goStack') = k + 1 /\ goStack'[k + 1] = a
      /\ \A i \in 1..k : goStack'[i] = goStack[i]
  <2>1. LET t == Append(goStack, a)
        IN  /\ t \in Seq(Activations) /\ Len(t) = Len(goStack) + 1 /\ t[Len(goStack) + 1] = a
            /\ \A i \in 1..Len(goStack) : t[i] = goStack[i]
    BY <1>1, PushSeq
  <2>2. goStack' = Append(goStack, a)
    BY <1>2
  <2>3. QED
    BY <1>4, <2>1, <2>2, Zenon
<1>6. MainPart(goStack, k, frames[Main], frameCount[Main]) /\ CoPart(goStack, k, status)
  BY DEF Split
<1>7. MainPart(goStack', k + 1, frames'[Main], frameCount[Main] + 1) /\ CoPart(goStack', k + 1, status)
  <2>1. /\ goStack'[k + 1].vm = Main /\ goStack'[k + 1].co = Main
        /\ goStack'[k + 1].why = "pcall" /\ goStack'[k + 1].fc = frameCount[Main] + 1
        /\ goStack'[k + 1].cur = frameCount[Main] + 1
        /\ goStack'[k + 1].want = frames'[Main][frameCount[Main] + 1]
    BY <1>3, <1>5
  <2>2. \A i \in 1..frameCount[Main] : frames'[Main][i] = frames[Main][i]
    BY DEF FramesStay
  <2>3. goStack' \in Seq(Activations) /\ Len(goStack') = k + 1
        /\ \A i \in 1..k : goStack'[i] = goStack[i]
    BY <1>5
  <2>4. ProtectedCall(goStack, goStack', k, frames[Main], frames'[Main], frameCount[Main])
    BY <1>1, <1>4, <2>1, <2>2, <2>3 DEF ProtectedCall
  <2>5. QED
    BY <1>6, <2>4, PushMain, Zenon
<1>8. Split(k + 1)'
  BY <1>4, <1>5, <1>7 DEF Split
<1>9. QED
  BY <1>3, <1>4, <1>5, <1>8

LEMMA ResumeStack ==
    ASSUME Inv, goStack # <<>>, NEW k \in Nat, Split(k), NEW c \in Co, NEW n \in Nat, n >= 1,
           NEW way \in WaysOf(c), NEW w \in Nat, status[c] # "running",
           goStack' = Append(goStack, Activation(c, n, "resume", c, way, w)),
           frameCount'[Main] = frameCount[Main], FramesStay(Main),
           status' = [status EXCEPT ![c] = "running"]
    PROVE  /\ Split(k)' /\ goStack' \in Seq(Activations) /\ Len(goStack') = Len(goStack) + 1
           /\ \A i \in 1..Len(goStack) : goStack'[i] = goStack[i]
           /\ goStack'[Len(goStack) + 1].co = c /\ goStack'[Len(goStack) + 1].why = "resume"
<1>1. frameCount[Main] \in Nat /\ goStack \in Seq(Activations) /\ status \in [Co -> {"suspended", "running", "dead"}]
  BY DEF Inv, TypeOK, VMs
<1>2. way \in {"resume", "direct", "native"}
  BY CoroutineAssumption DEF WaysOf
<1>3. PICK a \in Activations : a = Activation(c, n, "resume", c, way, w)
  BY <1>2 DEF Activation, Activations, InitialFC, VMs
<1>4. /\ a.vm = c /\ a.co = c /\ a.why = "resume" /\ a.fc = 1 /\ a.way = way
  BY <1>3, CoroutineAssumption DEF Activation, InitialFC
<1>5. k >= 1 /\ k <= Len(goStack) /\ Len(goStack) \in Nat
  BY Control
<1>6. /\ goStack' \in Seq(Activations) /\ Len(goStack') = Len(goStack) + 1
      /\ goStack'[Len(goStack) + 1] = a
      /\ \A i \in 1..Len(goStack) : goStack'[i] = goStack[i]
  <2>1. LET t == Append(goStack, a)
        IN  /\ t \in Seq(Activations) /\ Len(t) = Len(goStack) + 1 /\ t[Len(goStack) + 1] = a
            /\ \A i \in 1..Len(goStack) : t[i] = goStack[i]
    BY <1>1, PushSeq
  <2>2. goStack' = Append(goStack, a)
    BY <1>3
  <2>3. QED
    BY <2>1, <2>2, Zenon
<1>7. MainPart(goStack, k, frames[Main], frameCount[Main]) /\ CoPart(goStack, k, status)
  BY DEF Split
<1>8. MainPart(goStack', k, frames'[Main], frameCount[Main])
  <2>1. k \in 0..Len(goStack) /\ k # 0 /\ \A i \in 1..k : goStack'[i] = goStack[i]
    BY <1>5, <1>6
  <2>2. k <= Len(goStack')
    BY <1>5, <1>6
  <2>3. QED
    BY <1>1, <1>6, <1>7, <2>1, <2>2, MainAgrees DEF FramesStay
<1>9. status'[c] = "running" /\ \A d \in Co : d # c => status'[d] = status[d]
  BY <1>1
<1>10. CoAt(a, status')
  BY <1>4, <1>9 DEF CoAt
<1>11. CoPart(goStack', k, status')
  <2>1. k \in 0..Len(goStack)
    BY <1>5
  <2>2. QED
    <3>1. CoAt(goStack'[Len(goStack) + 1], status') /\ goStack'[Len(goStack) + 1].co = c
      BY <1>4, <1>6, <1>10
    <3>2. QED
      BY <1>1, <1>6, <1>7, <1>9, <2>1, <3>1, PushCo, Zenon
<1>12. Split(k)'
  <2>1. k \in 0..Len(goStack')
    BY <1>5, <1>6
  <2>2. QED
    BY <1>8, <1>11, <2>1 DEF Split
<1>13. QED
  BY <1>4, <1>6, <1>12

LEMMA BelowSeq ==
    ASSUME Inv, goStack # <<>>
    PROVE  /\ Below \in Seq(Activations) /\ Len(Below) = Len(goStack) - 1 /\ Len(goStack) \in Nat
           /\ Len(goStack) >= 1
           /\ \A i \in 1..(Len(goStack) - 1) : Below[i] = goStack[i]
<1>1. goStack \in Seq(Activations)
  BY DEF Inv, TypeOK
<1>2. QED
  BY <1>1, FrontSeq DEF Below

LEMMA PopMainStep ==
    ASSUME Inv, goStack # <<>>, NEW k \in Nat, Split(k), V = Main, goStack' = Below,
           frameCount'[Main] = Top.fc - 1, frames'[Main] = frames[Main], status' = status
    PROVE  Split(k - 1)' /\ k - 1 \in Nat /\ k = Len(goStack)
<1>1. k = Len(goStack) /\ k \in 1..Len(goStack) /\ Top = goStack[k]
  BY Control
<1>2. frameCount[Main] \in Nat /\ goStack \in Seq(Activations)
  BY DEF Inv, TypeOK, VMs
<1>3. /\ goStack' \in Seq(Activations) /\ Len(goStack') = k - 1
      /\ \A i \in 1..(k - 1) : goStack'[i] = goStack[i]
  BY <1>1, BelowSeq
<1>4. MainPart(goStack, k, frames[Main], frameCount[Main]) /\ CoPart(goStack, k, status)
  BY DEF Split
<1>5. MainPart(goStack', k - 1, frames[Main], goStack[k].fc - 1) /\ CoPart(goStack', k - 1, status)
  BY <1>1, <1>2, <1>3, <1>4, PopMain
<1>6. k - 1 \in 0..Len(goStack')
  BY <1>1, <1>3
<1>7. Split(k - 1)'
  BY <1>1, <1>5, <1>6 DEF Split
<1>8. QED
  BY <1>1, <1>7

LEMMA PopCoStep ==
    ASSUME Inv, goStack # <<>>, NEW k \in Nat, Split(k), V # Main, goStack' = Below,
           NEW x, x # "running", status' = [status EXCEPT ![V] = x],
           frameCount'[Main] = frameCount[Main], frames'[Main] = frames[Main]
    PROVE  Split(k)' /\ goStack' # <<>>
<1>1. k < Len(goStack) /\ k >= 1 /\ V \in Co /\ Top = goStack[Len(goStack)] /\ CoAt(Top, status)
      /\ Len(goStack) \in Nat
  BY Control
<1>2. frameCount[Main] \in Nat /\ goStack \in Seq(Activations) /\ DOMAIN status = Co
  BY DEF Inv, TypeOK, VMs
<1>3. /\ goStack' \in Seq(Activations) /\ Len(goStack') = Len(goStack) - 1
      /\ \A i \in 1..(Len(goStack) - 1) : goStack'[i] = goStack[i]
  BY BelowSeq
<1>4. MainPart(goStack, k, frames[Main], frameCount[Main]) /\ CoPart(goStack, k, status)
  BY DEF Split
<1>5. V = goStack[Len(goStack)].co
  BY <1>1 DEF V, CoAt
<1>6. status'[V] # "running" /\ \A d \in Co : d # V => status'[d] = status[d]
  BY <1>1, <1>2
<1>7. CoPart(goStack', k, status')
  <2>1. goStack \in Seq(Activations) /\ k < Len(goStack) /\ CoPart(goStack, k, status)
    BY <1>1, <1>2, <1>4
  <2>2. status'[goStack[Len(goStack)].co] # "running"
        /\ \A d \in Co : d # goStack[Len(goStack)].co => status'[d] = status[d]
    BY <1>5, <1>6
  <2>3. HandsBack(goStack, goStack', k, status, status')
    BY <1>3, <2>1, <2>2 DEF HandsBack
  <2>4. QED
    BY <2>1, <2>3, PopCo, Zenon
<1>8. k \in 0..Len(goStack') /\ k # 0 /\ k \in 0..Len(goStack) /\ k <= Len(goStack')
      /\ \A i \in 1..k : goStack'[i] = goStack[i]
  BY <1>1, <1>3
<1>9. MainPart(goStack', k, frames[Main], frameCount[Main])
  BY <1>2, <1>3, <1>4, <1>8, MainAgrees
<1>10. Split(k)'
  BY <1>7, <1>8, <1>9 DEF Split
<1>11. goStack' # <<>>
  BY <1>3, <1>8
<1>12. QED
  BY <1>10, <1>11

-----------------------------------------------------------------------------
(* Frames. *)

LEMMA StoreOK ==
    ASSUME NEW s \in Seq(Nat), NEW n \in 0..Len(s), NEW k \in Nat
    PROVE  LET t == Store(s, n + 1, k)
           IN  /\ t \in Seq(Nat) /\ Len(t) >= n + 1 /\ t[n + 1] = k
               /\ \A i \in 1..n : t[i] = s[i]
<1>1. CASE n + 1 <= Len(s)
  <2>1. Store(s, n + 1, k) = [s EXCEPT ![n + 1] = k] /\ n + 1 \in 1..Len(s)
    BY <1>1 DEF Store
  <2>2. QED
    BY <1>1, <2>1
<1>2. CASE ~(n + 1 <= Len(s))
  <2>1. n = Len(s) /\ Store(s, n + 1, k) = Append(s, k)
    BY <1>2 DEF Store
  <2>2. QED
    BY <2>1
<1>3. QED
  BY <1>1, <1>2

LEMMA PushFrameOK ==
    ASSUME TypeOK, Named, NEW v \in VMs, PushFrame(v)
    PROVE  /\ frames' \in [VMs -> Seq(Nat)] /\ frameCount' \in [VMs -> Nat] /\ calls' \in Nat
           /\ Named' /\ calls' = calls + 1
           /\ frameCount'[v] = frameCount[v] + 1 /\ frames'[v][frameCount[v] + 1] = calls + 1
           /\ \A u \in VMs : FramesStay(u)
           /\ \A u \in VMs : u # v => frameCount'[u] = frameCount[u] /\ frames'[u] = frames[u]
<1>1. /\ frames \in [VMs -> Seq(Nat)] /\ frameCount \in [VMs -> Nat] /\ calls \in Nat
      /\ calls \in 1..MaxCalls /\ MaxCalls \in Nat
  BY CoroutineAssumption DEF TypeOK, Named
<1>2. PICK n \in Nat : n = frameCount[v]
  BY <1>1
<1>3. PICK t : t = Store(frames[v], n + 1, calls + 1)
  OBVIOUS
<1>4. frames[v] \in Seq(Nat) /\ n \in 0..Len(frames[v])
  BY <1>1, <1>2 DEF Named
<1>5. /\ t \in Seq(Nat) /\ Len(t) >= n + 1 /\ t[n + 1] = calls + 1
      /\ \A i \in 1..n : t[i] = frames[v][i]
  <2>1. calls + 1 \in Nat
    BY <1>1
  <2>2. LET r == Store(frames[v], n + 1, calls + 1)
        IN  /\ r \in Seq(Nat) /\ Len(r) >= n + 1 /\ r[n + 1] = calls + 1
            /\ \A i \in 1..n : r[i] = frames[v][i]
    BY <1>4, <2>1, StoreOK, Zenon
  <2>3. QED
    BY <1>3, <2>2, Zenon
<1>6. /\ frames' = [frames EXCEPT ![v] = t] /\ frameCount' = [frameCount EXCEPT ![v] = n + 1]
      /\ calls' = calls + 1 /\ calls < MaxCalls
  BY <1>2, <1>3 DEF PushFrame
<1>7. frames'[v] = t /\ frameCount'[v] = n + 1
      /\ \A u \in VMs : u # v => frameCount'[u] = frameCount[u] /\ frames'[u] = frames[u]
  BY <1>1, <1>6
<1>8. frames' \in [VMs -> Seq(Nat)] /\ frameCount' \in [VMs -> Nat] /\ calls' \in Nat
  BY <1>1, <1>5, <1>6
<1>9. \A u \in VMs : FramesStay(u)
  BY <1>2, <1>5, <1>7 DEF FramesStay
<1>10. calls' \in 1..MaxCalls
  BY <1>1, <1>6
<1>11. \A u \in VMs : frameCount'[u] <= Len(frames'[u])
  BY <1>5, <1>7 DEF Named
(* A frame is the new one or one of before. *)
<1>12. ASSUME NEW u \in VMs, NEW i \in 1..frameCount'[u]
       PROVE  \/ u = v /\ i = n + 1 /\ frames'[u][i] = calls + 1
              \/ i \in 1..frameCount[u] /\ frames'[u][i] = frames[u][i] /\ frames[u][i] \in 1..calls
  <2>1. CASE u = v
    <3>1. i \in 1..n \/ i = n + 1
      BY <1>7, <2>1
    <3>2. CASE i = n + 1
      BY <1>5, <1>7, <2>1, <3>2
    <3>3. CASE i \in 1..n
      BY <1>2, <1>5, <1>7, <2>1, <3>3 DEF Named
    <3>4. QED
      BY <3>1, <3>2, <3>3
  <2>2. CASE u # v
    BY <1>7, <2>2 DEF Named
  <2>3. QED
    BY <2>1, <2>2
<1>13. ASSUME NEW u \in VMs, NEW i \in 1..frameCount'[u] PROVE frames'[u][i] \in 1..calls'
  BY <1>1, <1>6, <1>12
<1>14. ASSUME NEW u \in VMs, NEW w \in VMs, NEW i \in 1..frameCount'[u], NEW j \in 1..frameCount'[w],
              frames'[u][i] = frames'[w][j]
       PROVE  u = w /\ i = j
  <2>1. \A x \in 1..calls : x # calls + 1
    BY <1>1
  <2>2. \/ u = v /\ i = n + 1 /\ frames'[u][i] = calls + 1
        \/ i \in 1..frameCount[u] /\ frames'[u][i] = frames[u][i] /\ frames[u][i] \in 1..calls
    BY <1>12
  <2>3. \/ w = v /\ j = n + 1 /\ frames'[w][j] = calls + 1
        \/ j \in 1..frameCount[w] /\ frames'[w][j] = frames[w][j] /\ frames[w][j] \in 1..calls
    BY <1>12
  <2>4. i \in 1..frameCount[u] /\ j \in 1..frameCount[w] /\ frames[u][i] = frames[w][j]
        => u = w /\ i = j
    BY DEF Named
  <2>5. CASE u = v /\ i = n + 1 /\ frames'[u][i] = calls + 1
    BY <1>14, <2>1, <2>3, <2>5
  <2>6. CASE i \in 1..frameCount[u] /\ frames'[u][i] = frames[u][i] /\ frames[u][i] \in 1..calls
    BY <1>14, <2>1, <2>3, <2>4, <2>6
  <2>7. QED
    BY <2>2, <2>5, <2>6
<1>15. Named'
  BY <1>10, <1>11, <1>13, <1>14 DEF Named
<1>16. QED
  BY <1>2, <1>5, <1>6, <1>7, <1>8, <1>9, <1>15

LEMMA NamedShrinks ==
    ASSUME TypeOK, Named, calls' = calls,
           \A v \in VMs : /\ frameCount'[v] \in Nat /\ frameCount'[v] <= frameCount[v]
                          /\ frameCount'[v] <= Len(frames'[v])
                          /\ \A i \in 1..frameCount'[v] : frames'[v][i] = frames[v][i]
    PROVE  Named'
<1>1. \A v \in VMs : \A i \in 1..frameCount'[v] : i \in 1..frameCount[v] /\ frames'[v][i] = frames[v][i]
  BY DEF TypeOK
<1>2. \A v \in VMs : \A i \in 1..frameCount'[v] : frames'[v][i] \in 1..calls
  BY <1>1 DEF Named
<1>3. ASSUME NEW u \in VMs, NEW w \in VMs, NEW i \in 1..frameCount'[u], NEW j \in 1..frameCount'[w],
              frames'[u][i] = frames'[w][j]
      PROVE  u = w /\ i = j
  <2>1. i \in 1..frameCount[u] /\ j \in 1..frameCount[w] /\ frames[u][i] = frames[w][j]
    BY <1>1, <1>3
  <2>2. QED
    BY <2>1 DEF Named
<1>4. QED
  BY <1>2, <1>3 DEF Named

-----------------------------------------------------------------------------
(* Each step of the script keeps the invariant. *)

LEMMA SplitIsStacked == ASSUME NEW k \in Nat, Split(k)' PROVE Stacked'
  BY DEF Stacked

LEMMA CallInv ==
    ASSUME Inv, NEW k \in Nat, Split(k), Call
    PROVE  /\ Inv' /\ Split(k)' /\ Len(goStack') = Len(goStack)
           /\ \A i \in 1..Len(goStack) : goStack'[i].co = goStack[i].co
                 /\ goStack'[i].why = goStack[i].why /\ goStack'[i].want = goStack[i].want
<1>1. goStack # <<>> /\ PushFrame(V)
      /\ goStack' = Append(Below, [Top EXCEPT !.cur = frameCount[V] + 1])
      /\ UNCHANGED <<coVars, yielded, genVars, raising, strayed>>
  BY DEF Call, Free, Active
<1>2. V \in VMs /\ Top \in Activations /\ frameCount \in [VMs -> Nat]
  BY <1>1, Control DEF Inv, TypeOK
<1>3. PICK v \in VMs : v = V
  BY <1>2
<1>4. /\ frames' \in [VMs -> Seq(Nat)] /\ frameCount' \in [VMs -> Nat] /\ calls' \in Nat
      /\ Named' /\ frameCount'[v] = frameCount[v] + 1
      /\ \A u \in VMs : FramesStay(u)
      /\ \A u \in VMs : u # v => frameCount'[u] = frameCount[u]
  BY <1>1, <1>3, PushFrameOK DEF Inv
<1>5. frameCount' = [frameCount EXCEPT ![V] = frameCount[V] + 1]
  BY <1>1 DEF PushFrame
<1>6. frameCount[V] + 1 >= Top.fc /\ frameCount[V] + 1 \in Nat
  <2>1. Top.fc \in Nat
    BY <1>2 DEF Activations
  <2>2. CASE V = Main /\ MainAt(goStack, k, frames[Main]) /\ Top.cur = frameCount[Main]
                      /\ k = Len(goStack)
    <3>1. Top = goStack[k]
      BY <1>1, <2>2, Control
    <3>2. QED
      BY <1>2, <2>1, <2>2, <3>1 DEF MainAt
  <2>3. CASE CoAt(Top, status)
    BY <1>2, <2>3 DEF CoAt
  <2>4. QED
    BY <1>1, <2>2, <2>3, Control
<1>7. FramesStay(Main) /\ status' = status
  BY <1>1, <1>4 DEF VMs, coVars
<1>8. /\ Split(k)' /\ goStack' \in Seq(Activations) /\ Len(goStack') = Len(goStack)
      /\ \A i \in 1..Len(goStack) : goStack'[i].co = goStack[i].co
            /\ goStack'[i].why = goStack[i].why /\ goStack'[i].want = goStack[i].want
  BY <1>1, <1>5, <1>6, <1>7, SwapStep
<1>9. TypeOK'
  BY <1>1, <1>4, <1>8 DEF Inv, TypeOK, coVars, genVars
<1>10. Kept'
  <2>1. \A c \in Co : c \in VMs /\ frameCount'[c] >= frameCount[c]
                      /\ (~hasVM[c] => frameCount'[c] = frameCount[c])
    <3>1. V = Main \/ hasVM[V]
      BY <1>1, Control
    <3>2. \A c \in Co : c \in VMs /\ c # Main
      BY CoroutineAssumption DEF VMs
    <3>3. QED
      BY <1>2, <1>3, <1>4, <3>1, <3>2
  <2>2. \A c \in Co : frameCount[c] \in Nat /\ frameCount'[c] \in Nat
    BY <1>2, <1>4 DEF VMs
  <2>3. QED
    BY <1>1, <2>1, <2>2 DEF Inv, Kept, coVars
<1>11. Quiet'
  <2>1. goStack' # <<>>
    BY <1>1, <1>8 DEF Inv, TypeOK
  <2>2. QED
    BY <1>1, <2>1 DEF Inv, Quiet
<1>12. QED
  BY <1>4, <1>8, <1>9, <1>10, <1>11, SplitIsStacked DEF Inv

LEMMA PCallInv ==
    ASSUME Nesting \subseteq {Main}, Inv, NEW k \in Nat, Split(k), PCall
    PROVE  /\ Inv' /\ Split(k + 1)' /\ V = Main /\ k = Len(goStack) /\ Len(goStack') = k + 1
           /\ \A i \in 1..k : goStack'[i] = goStack[i]
           /\ goStack'[k + 1].why = "pcall" /\ goStack'[k + 1].want = calls + 1
<1>1. goStack # <<>> /\ V = Main /\ PushFrame(Main)
      /\ goStack' = Append(goStack, Activation(Main, frameCount[Main] + 1, "pcall", Main, "none", calls + 1))
      /\ UNCHANGED <<coVars, yielded, genVars, raising, strayed>>
  BY DEF PCall, Free, Active
<1>2. Main \in VMs /\ frameCount \in [VMs -> Nat] /\ calls + 1 \in Nat
  BY DEF VMs, Inv, TypeOK
<1>3. /\ frames' \in [VMs -> Seq(Nat)] /\ frameCount' \in [VMs -> Nat] /\ calls' \in Nat
      /\ Named' /\ frameCount'[Main] = frameCount[Main] + 1
      /\ frames'[Main][frameCount[Main] + 1] = calls + 1
      /\ \A u \in VMs : FramesStay(u)
      /\ \A u \in VMs : u # Main => frameCount'[u] = frameCount[u]
  BY <1>1, <1>2, PushFrameOK DEF Inv
<1>4. FramesStay(Main) /\ status' = status
  BY <1>1, <1>2, <1>3 DEF coVars
<1>5. /\ Split(k + 1)' /\ goStack' \in Seq(Activations) /\ k = Len(goStack) /\ Len(goStack') = k + 1
      /\ \A i \in 1..k : goStack'[i] = goStack[i]
      /\ goStack'[k + 1].why = "pcall" /\ goStack'[k + 1].want = calls + 1
  BY <1>1, <1>2, <1>3, <1>4, PCallStep
<1>6. TypeOK'
  BY <1>1, <1>3, <1>5 DEF Inv, TypeOK, coVars, genVars
<1>7. Kept'
  <2>1. \A c \in Co : c \in VMs /\ c # Main
    BY CoroutineAssumption DEF VMs
  <2>2. \A c \in Co : frameCount'[c] = frameCount[c]
    BY <1>3, <2>1
  <2>3. QED
    BY <1>1, <2>2 DEF Inv, Kept, coVars
<1>8. Quiet'
  <2>1. goStack' # <<>>
    BY <1>5
  <2>2. QED
    BY <1>1, <2>1 DEF Inv, Quiet
<1>9. Stacked'
  BY <1>5 DEF Stacked
<1>10. QED
  BY <1>1, <1>3, <1>5, <1>6, <1>7, <1>8, <1>9 DEF Inv

LEMMA ReturnInlineInv ==
    ASSUME Inv, NEW k \in Nat, Split(k), ReturnInline
    PROVE  /\ Inv' /\ Split(k)' /\ Len(goStack') = Len(goStack)
           /\ \A i \in 1..Len(goStack) : goStack'[i].co = goStack[i].co
                 /\ goStack'[i].why = goStack[i].why /\ goStack'[i].want = goStack[i].want
<1>1. goStack # <<>> /\ frameCount[V] > Top.fc
      /\ goStack' = Append(Below, [Top EXCEPT !.cur = frameCount[V] - 1])
      /\ frameCount' = [frameCount EXCEPT ![V] = frameCount[V] - 1]
      /\ UNCHANGED <<coVars, frames, yielded, genVars, raising, calls, strayed>>
  BY DEF ReturnInline, MayReturn, Active
<1>2. V \in VMs /\ Top \in Activations /\ frameCount \in [VMs -> Nat] /\ Top.fc \in Nat
  BY <1>1, Control DEF Inv, TypeOK, Activations
<1>3. frameCount[V] - 1 \in Nat /\ frameCount[V] - 1 >= Top.fc
  BY <1>1, <1>2
<1>4. FramesStay(Main) /\ status' = status
  BY <1>1 DEF FramesStay, coVars
<1>5. /\ Split(k)' /\ goStack' \in Seq(Activations) /\ Len(goStack') = Len(goStack)
      /\ \A i \in 1..Len(goStack) : goStack'[i].co = goStack[i].co
            /\ goStack'[i].why = goStack[i].why /\ goStack'[i].want = goStack[i].want
  BY <1>1, <1>3, <1>4, SwapStep
<1>6. frameCount' \in [VMs -> Nat]
  BY <1>1, <1>2, <1>3
<1>7. TypeOK'
  BY <1>1, <1>5, <1>6 DEF Inv, TypeOK, coVars, genVars
<1>8. \A u \in VMs : frameCount'[u] <= frameCount[u]
  BY <1>1, <1>2
<1>9. Named'
  <2>1. \A u \in VMs : frameCount[u] <= Len(frames[u]) /\ Len(frames[u]) \in Nat
    BY DEF Inv, Named, TypeOK
  <2>2. \A u \in VMs : frameCount'[u] <= Len(frames'[u])
    BY <1>1, <1>2, <1>6, <1>8, <2>1
  <2>3. QED
    BY <1>1, <1>6, <1>8, <2>2, NamedShrinks DEF Inv
<1>10. Kept'
  <2>1. \A c \in Co : c \in VMs /\ (c # V => frameCount'[c] = frameCount[c])
    BY <1>1, <1>2 DEF VMs
  <2>2. V \in Co => hasVM[V] /\ frameCount'[V] >= 1
    <3>1. V \in Co => hasVM[V] /\ Top.fc = 1
      BY <1>1, Control, CoroutineAssumption DEF CoAt
    <3>2. QED
      BY <1>1, <1>2, <1>3, <3>1
  <2>3. QED
    BY <1>1, <2>1, <2>2 DEF Inv, Kept, coVars
<1>11. Quiet'
  <2>1. goStack' # <<>>
    BY <1>1, <1>5 DEF Inv, TypeOK
  <2>2. QED
    BY <1>1, <2>1 DEF Inv, Quiet
<1>12. QED
  BY <1>5, <1>7, <1>9, <1>10, <1>11, SplitIsStacked DEF Inv

(* run() of the main program or of one of its protected calls returns. *)
LEMMA EndMain ==
    ASSUME Inv, goStack # <<>>, NEW k \in Nat, Split(k), V = Main, NEW none,
           NEW out \in {"return", "error"}, RunEnds(out, none),
           out = "return" => frameCount[Main] <= Top.fc,
           UNCHANGED <<started, genVars, calls>>
    PROVE  /\ Inv' /\ Split(k - 1)' /\ k - 1 \in Nat /\ k = Len(goStack) /\ goStack' = Below
           /\ frameCount' = [frameCount EXCEPT ![Main] = Top.fc - 1] /\ frames' = frames
           /\ raising' = FALSE /\ UNCHANGED <<status, wrapDead>>
           /\ Top.fc \in Nat /\ Top.fc >= 1 /\ Top.fc <= frameCount[Main]
           /\ (out = "return" => Top.fc = frameCount[Main])
           /\ IF k = 1 THEN Top.fc = 1
              ELSE Top.fc > 1 /\ Top.why = "pcall" /\ frames[Main][Top.fc] = Top.want
<1>1. /\ Top \in Activations /\ Top = goStack[k] /\ k = Len(goStack) /\ k >= 1
      /\ MainAt(goStack, k, frames[Main]) /\ Top.cur = frameCount[Main]
  BY Control
<1>2. frameCount \in [VMs -> Nat] /\ Main \in VMs
  BY DEF Inv, TypeOK, VMs
<1>3. Top.fc \in Nat /\ Top.fc >= 1 /\ Top.fc <= frameCount[Main]
  BY <1>1 DEF MainAt, Activations
<1>4. out = "return" => Top.fc = frameCount[Main]
  BY <1>2, <1>3
<1>5. IF k = 1 THEN Top.fc = 1 /\ Top.why = "main"
      ELSE Top.fc > 1 /\ Top.why = "pcall" /\ frames[Main][Top.fc] = Top.want
  <2>1. k = 1 => Top.fc = 1 /\ Top.why = "main"
    BY <1>1 DEF Split, MainPart, MainAt
  <2>2. k # 1 => Top.fc > 1 /\ Top.why = "pcall" /\ frames[Main][Top.fc] = Top.want
    <3> SUFFICES ASSUME k # 1 PROVE Top.fc > 1 /\ Top.why = "pcall" /\ frames[Main][Top.fc] = Top.want
      OBVIOUS
    <3>1. k > 1 /\ 1 \in 1..k /\ k \in 1..k
      BY <1>1
    <3>2. Top.why = "pcall" /\ frames[Main][Top.fc] = Top.want
      BY <1>1, <3>1 DEF MainAt
    <3>3. goStack[1].cur < Top.fc /\ goStack[1].fc <= goStack[1].cur /\ goStack[1].fc = 1
      BY <1>1, <3>1 DEF Split, MainPart, MainAt
    <3>4. goStack[1] \in Activations
      BY <1>1, <3>1 DEF Inv, TypeOK
    <3>5. goStack[1].cur \in Nat
      BY <3>4 DEF Activations
    <3>6. QED
      BY <1>3, <3>2, <3>3, <3>5
  <2>3. QED
    BY <2>1, <2>2
<1>6. /\ goStack' = Below /\ frames' = frames /\ raising' = FALSE
      /\ frameCount' = [frameCount EXCEPT ![Main] = Top.fc - 1]
      /\ UNCHANGED <<status, hasVM, wrapDead, yielded>> /\ (strayed' = strayed)
  <2>1. CASE k = 1
    <3>1. goStack' = Below /\ MainEnds
      BY <1>5, <2>1 DEF RunEnds
    <3>2. Top.fc - 1 = 0
      BY <1>5, <2>1
    <3>3. frameCount' = [frameCount EXCEPT ![Main] = Top.fc - 1]
      BY <3>1, <3>2, Zenon DEF MainEnds
    <3>4. QED
      BY <3>1, <3>3, Zenon DEF MainEnds
  <2>2. CASE k # 1
    <3>1. goStack' = Below /\ PCallEnds(out)
      BY <1>5, <2>2 DEF RunEnds
    <3>2. frameCount' = [frameCount EXCEPT ![Main] = (IF out = "error" THEN Top.fc ELSE frameCount[Main]) - 1]
          /\ frames' = frames
      BY <3>1 DEF PCallEnds, CallEnds
    <3>3. frameCount' = [frameCount EXCEPT ![Main] = Top.fc - 1]
      BY <1>4, <3>2
    <3>4. out = "return" => frames[V][Top.cur] = Top.want
      BY <1>1, <1>4, <1>5, <2>2
    <3>5. strayed' = strayed
      BY <3>1, <3>4 DEF PCallEnds, Inv, TypeOK
    <3>6. QED
      BY <3>1, <3>2, <3>3, <3>5 DEF PCallEnds, SetYielded
  <2>3. QED
    BY <2>1, <2>2
<1>7. frameCount'[Main] = Top.fc - 1 /\ frames'[Main] = frames[Main]
  BY <1>2, <1>6
<1>8. Split(k - 1)' /\ k - 1 \in Nat
  BY <1>6, <1>7, PopMainStep
<1>9. goStack' \in Seq(Activations)
  BY <1>6, BelowSeq
<1>10. frameCount' \in [VMs -> Nat]
  BY <1>2, <1>3, <1>6
<1>11. TypeOK'
  BY <1>6, <1>9, <1>10 DEF Inv, TypeOK, genVars
<1>12. \A u \in VMs : frameCount'[u] <= frameCount[u] /\ (u # Main => frameCount'[u] = frameCount[u])
  BY <1>2, <1>3, <1>6
<1>13. Named'
  <2>1. \A u \in VMs : frameCount[u] <= Len(frames[u]) /\ Len(frames[u]) \in Nat
    BY DEF Inv, Named, TypeOK
  <2>2. \A u \in VMs : frameCount'[u] <= Len(frames'[u])
    BY <1>2, <1>6, <1>10, <1>12, <2>1
  <2>3. QED
    BY <1>6, <1>10, <1>12, <2>2, NamedShrinks DEF Inv
<1>14. Kept'
  <2>1. \A c \in Co : c \in VMs /\ c # Main
    BY CoroutineAssumption DEF VMs
  <2>2. \A c \in Co : frameCount'[c] = frameCount[c]
    BY <1>12, <2>1
  <2>3. QED
    BY <1>6, <2>2 DEF Inv, Kept
<1>15. Quiet'
  BY <1>6 DEF Inv, Quiet
<1>16. Stacked'
  BY <1>8 DEF Stacked
<1>17. Inv'
  BY <1>11, <1>13, <1>14, <1>15, <1>16 DEF Inv
<1>18. QED
  BY <1>1, <1>3, <1>4, <1>5, <1>6, <1>8, <1>17

(* run() of the coroutine in control returns to the one who resumed it. *)
LEMMA EndCo ==
    ASSUME Inv, goStack # <<>>, NEW k \in Nat, Split(k), V # Main, NEW none,
           NEW out \in {"return", "error", "yield"}, RunEnds(out, none),
           UNCHANGED <<started, calls>>, next' = next, iter' \in [Co -> Nat]
    PROVE  /\ Inv' /\ Split(k)' /\ goStack' = Below /\ V \in Co /\ Top.co = V /\ Top.way \in WaysOf(V)
           /\ k < Len(goStack)
           /\ IF out = "yield"
                THEN /\ status' = [status EXCEPT ![V] = "suspended"]
                     /\ UNCHANGED <<frames, frameCount>>
                     /\ Answer(V, Top.way, TRUE, none)
                ELSE /\ status' = [status EXCEPT ![V] = "dead"]
                     /\ Release(V)
                     /\ Answer(V, Top.way, out = "return", none)
<1>1. /\ Top \in Activations /\ k < Len(goStack) /\ V \in Co /\ CoAt(Top, status) /\ hasVM[V]
  BY Control
<1>2. Top.why = "resume" /\ Top.co = V /\ Top.way \in WaysOf(V) /\ ~yielded[V]
  BY <1>1 DEF CoAt, V, Inv, Kept
<1>3. goStack' = Below /\ FinishCoroutineRun(out, none)
  BY <1>2 DEF RunEnds
<1>4. PICK c \in Co : c = V
  BY <1>1
<1>5. c \in VMs /\ c # Main /\ Main \in VMs
  BY <1>4 DEF VMs
<1>6. PICK x \in {"suspended", "dead"} :
          /\ status' = [status EXCEPT ![V] = x]
          /\ x = "suspended" => UNCHANGED <<hasVM, frames, frameCount>>
          /\ x = "dead" => Release(V)
  BY <1>2, <1>3 DEF FinishCoroutineRun
<1>7. yielded' = yielded /\ strayed' = strayed
  <2>1. yielded \in [Co -> BOOLEAN]
    BY DEF Inv, TypeOK
  <2>2. CASE out = "yield"
    <3>1. yielded' = [yielded EXCEPT ![V] = FALSE] /\ strayed' = strayed
      BY <1>3, <2>2 DEF FinishCoroutineRun
    <3>2. QED
      BY <1>1, <1>2, <2>1, <3>1
  <2>3. CASE out # "yield"
    BY <1>2, <1>3, <2>3 DEF FinishCoroutineRun
  <2>4. QED
    BY <2>2, <2>3
<1>8. frames \in [VMs -> Seq(Nat)] /\ frameCount \in [VMs -> Nat] /\ hasVM \in [Co -> BOOLEAN]
      /\ status \in [Co -> {"suspended", "running", "dead"}]
  BY DEF Inv, TypeOK
<1>9. \/ x = "suspended" /\ UNCHANGED <<hasVM, frames, frameCount>>
      \/ x = "dead" /\ hasVM' = [hasVM EXCEPT ![c] = FALSE] /\ frames' = [frames EXCEPT ![c] = <<>>]
         /\ frameCount' = [frameCount EXCEPT ![c] = 0]
  BY <1>4, <1>6 DEF Release
<1>10. frameCount'[Main] = frameCount[Main] /\ frames'[Main] = frames[Main]
  BY <1>5, <1>8, <1>9
<1>11. Split(k)' /\ goStack' # <<>>
  BY <1>3, <1>6, <1>10, PopCoStep
<1>12. /\ frames' \in [VMs -> Seq(Nat)] /\ frameCount' \in [VMs -> Nat] /\ hasVM' \in [Co -> BOOLEAN]
       /\ status' \in [Co -> {"suspended", "running", "dead"}]
  <2>1. <<>> \in Seq(Nat)
    OBVIOUS
  <2>2. status' \in [Co -> {"suspended", "running", "dead"}]
    BY <1>6, <1>8
  <2>3. CASE x = "suspended" /\ UNCHANGED <<hasVM, frames, frameCount>>
    BY <1>8, <2>2, <2>3
  <2>4. ASSUME hasVM' = [hasVM EXCEPT ![c] = FALSE], frames' = [frames EXCEPT ![c] = <<>>],
               frameCount' = [frameCount EXCEPT ![c] = 0]
        PROVE  /\ frames' \in [VMs -> Seq(Nat)] /\ frameCount' \in [VMs -> Nat]
               /\ hasVM' \in [Co -> BOOLEAN]
    <3>1. frames' \in [VMs -> Seq(Nat)]
      BY <1>8, <2>1, <2>4
    <3>2. frameCount' \in [VMs -> Nat]
      BY <1>8, <2>4
    <3>3. hasVM' \in [Co -> BOOLEAN]
      BY <1>8, <2>4
    <3>4. QED
      BY <3>1, <3>2, <3>3
  <2>5. QED
    BY <1>9, <2>2, <2>3, <2>4
<1>13. PICK ok \in BOOLEAN : Answer(V, Top.way, ok, none)
  BY <1>3 DEF FinishCoroutineRun
<1>14. raising' \in BOOLEAN /\ wrapDead' \in [Wrapped -> BOOLEAN]
  BY <1>13 DEF Answer, Inv, TypeOK
<1>15. goStack' \in Seq(Activations)
  BY <1>3, BelowSeq
<1>16. TypeOK'
  BY <1>7, <1>12, <1>14, <1>15 DEF Inv, TypeOK
<1>17. Named'
  <2>1. ASSUME NEW v \in VMs
        PROVE  /\ frameCount'[v] \in Nat /\ frameCount'[v] <= frameCount[v]
               /\ frameCount'[v] <= Len(frames'[v])
               /\ \A j \in 1..frameCount'[v] : frames'[v][j] = frames[v][j]
    <3>1. CASE frameCount'[v] = frameCount[v] /\ frames'[v] = frames[v]
      BY <1>8, <3>1 DEF Inv, Named
    <3>2. CASE frameCount'[v] = 0 /\ frames'[v] = <<>>
      BY <1>8, <3>2
    <3>3. QED
      BY <1>5, <1>8, <1>9, <3>1, <3>2
  <2>2. QED
    BY <2>1, NamedShrinks DEF Inv
<1>18. Kept'
  <2> SUFFICES ASSUME NEW d \in Co
               PROVE  /\ hasVM'[d] => started'[d] /\ Kind[d] \in {"script", "generator"} /\ frameCount'[d] >= 1
                      /\ ~hasVM'[d] => frameCount'[d] = 0
                      /\ ~yielded'[d]
                      /\ status'[d] = "running" => hasVM'[d]
                      /\ Kind[d] # "generator" => /\ status'[d] = "suspended" /\ started'[d] => hasVM'[d]
                                                  /\ status'[d] = "dead" => ~hasVM'[d]
    BY DEF Kept
  <2>1. CASE d # c
    <3>1. hasVM'[d] = hasVM[d] /\ frameCount'[d] = frameCount[d] /\ status'[d] = status[d]
          /\ started'[d] = started[d] /\ yielded'[d] = yielded[d]
      <4>1. status'[d] = status[d] /\ started'[d] = started[d] /\ yielded'[d] = yielded[d]
        BY <1>4, <1>6, <1>7, <1>8, <2>1
      <4>2. d \in VMs
        BY DEF VMs
      <4>3. hasVM'[d] = hasVM[d] /\ frameCount'[d] = frameCount[d]
        BY <1>8, <1>9, <2>1, <4>2
      <4>4. QED
        BY <4>1, <4>3
    <3>2. QED
      BY <3>1 DEF Inv, Kept
  <2>2. CASE d = c
    <3>1. status'[d] = x /\ started'[d] = started[d] /\ yielded'[d] = yielded[d]
      BY <1>4, <1>6, <1>7, <1>8, <2>2
    <3>2. CASE x = "suspended"
      <4>1. hasVM'[d] = hasVM[d] /\ frameCount'[d] = frameCount[d]
        BY <1>9, <3>2
      <4>2. QED
        BY <1>1, <1>4, <2>2, <3>1, <3>2, <4>1 DEF Inv, Kept
    <3>3. CASE x = "dead"
      <4>1. hasVM'[d] = FALSE /\ frameCount'[d] = 0
        BY <1>5, <1>8, <1>9, <2>2, <3>3
      <4>2. QED
        BY <1>2, <1>4, <2>2, <3>1, <3>3, <4>1
    <3>4. QED
      BY <3>2, <3>3
  <2>3. QED
    BY <2>1, <2>2
<1>19. Quiet'
  BY <1>7, <1>11 DEF Inv, Quiet
<1>20. Inv'
  BY <1>11, <1>16, <1>17, <1>18, <1>19, SplitIsStacked DEF Inv
<1>21. IF out = "yield"
         THEN /\ status' = [status EXCEPT ![V] = "suspended"]
              /\ UNCHANGED <<frames, frameCount>>
              /\ Answer(V, Top.way, TRUE, none)
         ELSE /\ status' = [status EXCEPT ![V] = "dead"]
              /\ Release(V)
              /\ Answer(V, Top.way, out = "return", none)
  BY <1>2, <1>3 DEF FinishCoroutineRun
<1>22. QED
  BY <1>1, <1>2, <1>3, <1>11, <1>20, <1>21

(* A resume that ends at once: c was suspended, or nothing happens to it. *)
LEMMA AtOnce ==
    ASSUME Inv, goStack # <<>>, NEW k \in Nat, Split(k), NEW c \in Co,
           UNCHANGED <<goStack, frames, frameCount, yielded, iter, calls, strayed, hasVM>>,
           next' \in [Co -> Nat], raising' \in BOOLEAN, wrapDead' \in [Wrapped -> BOOLEAN],
           NEW x \in {"suspended", "running", "dead"}, status' = [status EXCEPT ![c] = x],
           NEW b \in BOOLEAN, started' = [started EXCEPT ![c] = b], started[c] => b,
           x = status[c] \/ (status[c] = "suspended" /\ x # "running"),
           Kind[c] # "generator" => /\ x = "suspended" /\ b => hasVM[c]
                                    /\ x = "dead" => ~hasVM[c]
    PROVE  Inv' /\ Split(k)'
<1>1. status \in [Co -> {"suspended", "running", "dead"}] /\ started \in [Co -> BOOLEAN]
  BY DEF Inv, TypeOK
<1>2. \A d \in Co : d # c => status'[d] = status[d] /\ started'[d] = started[d]
  BY <1>1
<1>3. status'[c] = x /\ started'[c] = b
  BY <1>1
<1>4. \A d \in Co : status'[d] = "running" <=> status[d] = "running"
  BY <1>1, <1>2, <1>3
<1>5. CoPart(goStack, k, status')
  <2>1. CoPart(goStack, k, status)
    BY DEF Split
  <2>2. \A j \in (k + 1)..Len(goStack) : CoAt(goStack[j], status')
    BY <1>4, <2>1 DEF CoPart, CoAt
  <2>3. QED
    BY <1>4, <2>1, <2>2 DEF CoPart
<1>6. Split(k)'
  BY <1>5 DEF Split
<1>7. status' \in [Co -> {"suspended", "running", "dead"}] /\ started' \in [Co -> BOOLEAN]
  BY <1>1
<1>8. TypeOK'
  BY <1>7 DEF Inv, TypeOK
<1>9. Named'
  BY DEF Inv, Named
<1>10. Kept'
  <2> SUFFICES ASSUME NEW d \in Co
               PROVE  /\ hasVM[d] => started'[d] /\ Kind[d] \in {"script", "generator"} /\ frameCount[d] >= 1
                      /\ ~hasVM[d] => frameCount[d] = 0
                      /\ ~yielded[d]
                      /\ status'[d] = "running" => hasVM[d]
                      /\ Kind[d] # "generator" => /\ status'[d] = "suspended" /\ started'[d] => hasVM[d]
                                                  /\ status'[d] = "dead" => ~hasVM[d]
    BY DEF Kept
  <2>1. CASE d # c
    BY <1>2, <2>1 DEF Inv, Kept
  <2>2. CASE d = c
    <3>1. hasVM[d] => started'[d]
      BY <1>3, <2>2 DEF Inv, Kept
    <3>2. status'[d] = "running" => hasVM[d]
      BY <1>4 DEF Inv, Kept
    <3>3. Kind[d] # "generator" => /\ status'[d] = "suspended" /\ started'[d] => hasVM[d]
                                   /\ status'[d] = "dead" => ~hasVM[d]
      BY <1>3, <2>2
    <3>4. QED
      BY <3>1, <3>2, <3>3 DEF Inv, Kept
  <2>3. QED
    BY <2>1, <2>2
<1>11. Quiet'
  BY DEF Inv, Quiet
<1>12. QED
  BY <1>6, <1>8, <1>9, <1>10, <1>11, SplitIsStacked DEF Inv

LEMMA AnswerType ==
    ASSUME TypeOK, NEW c, NEW way, NEW ok \in BOOLEAN, NEW none, Answer(c, way, ok, none)
    PROVE  raising' \in BOOLEAN /\ wrapDead' \in [Wrapped -> BOOLEAN]
  BY DEF Answer, TypeOK

LEMMA SameCo ==
    ASSUME TypeOK, NEW c \in Co
    PROVE  /\ status = [status EXCEPT ![c] = status[c]] /\ started = [started EXCEPT ![c] = started[c]]
           /\ status[c] \in {"suspended", "running", "dead"} /\ started[c] \in BOOLEAN
  BY DEF TypeOK

LEMMA RefuseInv ==
    ASSUME Inv, NEW k \in Nat, Split(k), NEW c \in Co, NEW way, Refuse(c, way) \/ RefuseWrapper(c)
    PROVE  Inv' /\ Split(k)'
<1>1. /\ goStack # <<>>
      /\ UNCHANGED <<goStack, frames, frameCount, yielded, iter, calls, strayed, hasVM, next>>
      /\ status' = status /\ started' = started
  BY DEF Refuse, RefuseWrapper, CanResume, Free, Active, coVars, genVars
<1>2. raising' \in BOOLEAN /\ wrapDead' \in [Wrapped -> BOOLEAN]
  BY AnswerType DEF Refuse, RefuseWrapper, coVars, Inv, TypeOK
<1>3. next' \in [Co -> Nat] /\ TypeOK
  BY <1>1 DEF Inv, TypeOK
<1>4. Kind[c] # "generator" => /\ status[c] = "suspended" /\ started[c] => hasVM[c]
                               /\ status[c] = "dead" => ~hasVM[c]
  BY DEF Inv, Kept
<1>5. /\ status' = [status EXCEPT ![c] = status[c]] /\ started' = [started EXCEPT ![c] = started[c]]
      /\ status[c] \in {"suspended", "running", "dead"} /\ started[c] \in BOOLEAN
  BY <1>1, <1>3, SameCo
<1>6. QED
  BY <1>1, <1>2, <1>3, <1>4, <1>5, AtOnce

LEMMA GiveUpInv ==
    ASSUME Inv, NEW k \in Nat, Split(k), NEW c \in Co, NEW way, GiveUp(c, way)
    PROVE  Inv' /\ Split(k)'
<1>1. /\ goStack # <<>> /\ status[c] = "suspended" /\ ~hasVM[c]
      /\ UNCHANGED <<goStack, frames, frameCount, yielded, iter, calls, strayed, hasVM, next>>
      /\ status' = [status EXCEPT ![c] = "dead"] /\ started' = started
  BY DEF GiveUp, Resumable, CanResume, Free, Active, genVars
<1>2. raising' \in BOOLEAN /\ wrapDead' \in [Wrapped -> BOOLEAN]
  BY AnswerType DEF GiveUp, Inv
<1>3. next' \in [Co -> Nat] /\ TypeOK
  BY <1>1 DEF Inv, TypeOK
<1>4. started' = [started EXCEPT ![c] = started[c]] /\ started[c] \in BOOLEAN
  BY <1>1, <1>3, SameCo
<1>5. QED
  BY <1>1, <1>2, <1>3, <1>4, AtOnce

LEMMA RunOnceInv ==
    ASSUME Nesting \subseteq {Main}, Inv, NEW k \in Nat, Split(k), NEW c \in Co, NEW way,
           NEW ok \in BOOLEAN, NEW none \in BOOLEAN, RunOnce(c, way, ok, none)
    PROVE  Inv' /\ Split(k)' /\ UNCHANGED goStack /\ Answer(c, way, ok, none)
           /\ status' = [status EXCEPT ![c] = "dead"]
<1>1. /\ goStack # <<>> /\ status[c] = "suspended" /\ Kind[c] \in {"native", "leaf"}
      /\ UNCHANGED <<frames, frameCount, yielded, iter, calls, strayed, hasVM, next>>
      /\ started' = [started EXCEPT ![c] = TRUE]
  BY DEF RunOnce, Resumable, CanResume, Free, Active, genVars
<1>2. status' = [status EXCEPT ![c] = "dead"] /\ Answer(c, way, ok, none) /\ UNCHANGED goStack
  BY DEF RunOnce
<1>3. raising' \in BOOLEAN /\ wrapDead' \in [Wrapped -> BOOLEAN]
  BY <1>2, AnswerType DEF Inv
<1>4. next' \in [Co -> Nat]
  BY <1>1 DEF Inv, TypeOK
<1>5. ~hasVM[c]
  BY <1>1 DEF Inv, Kept
<1>6. Inv' /\ Split(k)'
  BY <1>1, <1>2, <1>3, <1>4, <1>5, AtOnce
<1>7. QED
  BY <1>2, <1>6

LEMMA CallGeneratorInv ==
    ASSUME Inv, NEW k \in Nat, Split(k), NEW c \in Co, CallGenerator(c)
    PROVE  Inv' /\ Split(k)'
<1>1. /\ goStack # <<>> /\ Kind[c] = "generator"
      /\ UNCHANGED <<goStack, frames, frameCount, yielded, iter, calls, strayed, hasVM, wrapDead>>
  BY DEF CallGenerator, UsesGenerator, Free, Active
<1>2. TypeOK
  BY DEF Inv
<1>3. /\ status = [status EXCEPT ![c] = status[c]] /\ started = [started EXCEPT ![c] = started[c]]
      /\ status[c] \in {"suspended", "running", "dead"} /\ started[c] \in BOOLEAN
  BY <1>2, SameCo
<1>4. raising' \in BOOLEAN /\ wrapDead' \in [Wrapped -> BOOLEAN] /\ next' \in [Co -> Nat]
  <2>1. next \in [Co -> Nat] /\ raising \in BOOLEAN /\ wrapDead \in [Wrapped -> BOOLEAN]
    BY DEF Inv, TypeOK
  <2>2. raising' = TRUE \/ raising' = raising
    BY DEF CallGenerator
  <2>3. next' = next \/ next' = [next EXCEPT ![c] = next[c] + 1]
    BY DEF CallGenerator
  <2>4. next' \in [Co -> Nat]
    <3>1. next[c] + 1 \in Nat
      BY <2>1
    <3>2. QED
      BY <2>1, <2>3, <3>1
  <2>5. QED
    BY <1>1, <2>1, <2>2, <2>4
<1>5. CASE status[c] # "suspended"
  <2>1. status' = [status EXCEPT ![c] = status[c]] /\ started' = [started EXCEPT ![c] = started[c]]
    BY <1>3, <1>5 DEF CallGenerator
  <2>2. QED
    BY <1>1, <1>3, <1>4, <2>1, AtOnce
<1>6. CASE status[c] = "suspended"
  <2>1. PICK x \in {"suspended", "dead"} : status' = [status EXCEPT ![c] = x]
    BY <1>3, <1>6 DEF CallGenerator
  <2>2. started' = [started EXCEPT ![c] = TRUE]
    BY <1>6 DEF CallGenerator
  <2>3. QED
    BY <1>1, <1>4, <1>6, <2>1, <2>2, AtOnce
<1>7. QED
  BY <1>5, <1>6

LEMMA ResumeInv ==
    ASSUME Inv, NEW k \in Nat, Split(k), NEW c \in Co, NEW way \in WaysOf(c),
           Start(c, way) \/ Continue(c, way)
    PROVE  /\ Inv' /\ Split(k)' /\ Len(goStack') = Len(goStack) + 1
           /\ \A i \in 1..Len(goStack) : goStack'[i] = goStack[i]
           /\ goStack'[Len(goStack) + 1].co = c /\ goStack'[Len(goStack) + 1].why = "resume"
           /\ (Start(c, way) => frameCount[c] = 0 /\ frameCount'[c] = 1)
           /\ (Continue(c, way) => frameCount[c] >= 1)
<1>1. /\ goStack # <<>> /\ status[c] = "suspended" /\ status' = [status EXCEPT ![c] = "running"]
      /\ UNCHANGED <<wrapDead, yielded, genVars, raising, strayed>>
  BY DEF Start, Continue, Resumable, CanResume, Free, Active
<1>2. c \in VMs /\ c # Main /\ Main \in VMs
  BY CoroutineAssumption DEF VMs
<1>3. /\ status \in [Co -> {"suspended", "running", "dead"}] /\ started \in [Co -> BOOLEAN]
      /\ hasVM \in [Co -> BOOLEAN] /\ frameCount \in [VMs -> Nat] /\ frames \in [VMs -> Seq(Nat)]
      /\ calls \in Nat
  BY DEF Inv, TypeOK
<1>4. status' \in [Co -> {"suspended", "running", "dead"}]
      /\ status'[c] = "running" /\ \A d \in Co : d # c => status'[d] = status[d]
  BY <1>1, <1>3
<1>5. CASE Start(c, way)
  <2>1. /\ PushFrame(c) /\ ~started[c] /\ Kind[c] \in {"script", "generator"}
        /\ started' = [started EXCEPT ![c] = TRUE] /\ hasVM' = [hasVM EXCEPT ![c] = TRUE]
        /\ goStack' = Append(goStack, Activation(c, 1, "resume", c, way, calls + 1))
    BY <1>5 DEF Start
  <2>2. frameCount[c] = 0
    BY <2>1 DEF Inv, Kept
  <2>3. /\ frames' \in [VMs -> Seq(Nat)] /\ frameCount' \in [VMs -> Nat] /\ calls' \in Nat
        /\ Named' /\ frameCount'[c] = frameCount[c] + 1
        /\ \A u \in VMs : FramesStay(u)
        /\ \A u \in VMs : u # c => frameCount'[u] = frameCount[u]
    BY <1>2, <2>1, PushFrameOK DEF Inv
  <2>4. FramesStay(Main) /\ frameCount'[Main] = frameCount[Main] /\ calls + 1 \in Nat
        /\ frameCount'[c] = 1
    BY <1>2, <1>3, <2>2, <2>3
  <2>5. /\ Split(k)' /\ goStack' \in Seq(Activations) /\ Len(goStack') = Len(goStack) + 1
        /\ \A i \in 1..Len(goStack) : goStack'[i] = goStack[i]
        /\ goStack'[Len(goStack) + 1].co = c /\ goStack'[Len(goStack) + 1].why = "resume"
    <3>1. status[c] # "running" /\ 1 \in Nat /\ 1 >= 1
      BY <1>1
    <3>2. goStack' = Append(goStack, Activation(c, 1, "resume", c, way, calls + 1))
      BY <2>1
    <3>3. QED
      BY <1>1, <2>4, <3>1, <3>2, ResumeStack
  <2>6. started' \in [Co -> BOOLEAN] /\ hasVM' \in [Co -> BOOLEAN]
        /\ started'[c] = TRUE /\ hasVM'[c] = TRUE
        /\ \A d \in Co : d # c => started'[d] = started[d] /\ hasVM'[d] = hasVM[d]
    BY <1>3, <2>1
  <2>7. TypeOK'
    BY <1>1, <1>4, <2>3, <2>5, <2>6 DEF Inv, TypeOK, genVars
  <2>8. Kept'
    <3>1. \A d \in Co : d # c => frameCount'[d] = frameCount[d]
      BY <2>3 DEF VMs
    <3>2. QED
      BY <1>1, <1>4, <2>1, <2>4, <2>6, <3>1 DEF Inv, Kept
  <2>9. Quiet'
    BY <1>1, <2>5 DEF Inv, Quiet
  <2>10. ~Continue(c, way)
    BY <2>1 DEF Continue
  <2>11. QED
    BY <2>2, <2>3, <2>4, <2>5, <2>7, <2>8, <2>9, <2>10, SplitIsStacked DEF Inv
<1>6. CASE Continue(c, way)
  <2>1. /\ started[c] /\ hasVM[c] /\ UNCHANGED <<started, hasVM, frames, frameCount, calls>>
        /\ goStack' = Append(goStack, Activation(c, frameCount[c], "resume", c, way,
                                                 frames[c][frameCount[c]]))
    BY <1>6 DEF Continue
  <2>2. frameCount[c] >= 1 /\ frameCount[c] \in Nat
    BY <1>2, <1>3, <2>1 DEF Inv, Kept
  <2>3. frames[c][frameCount[c]] \in Nat
    <3>1. frameCount[c] \in 1..frameCount[c]
      BY <2>2
    <3>2. frames[c][frameCount[c]] \in 1..calls
      BY <1>2, <3>1 DEF Inv, Named
    <3>3. QED
      BY <3>2
  <2>4. FramesStay(Main) /\ frameCount'[Main] = frameCount[Main]
    BY <2>1 DEF FramesStay
  <2>5. /\ Split(k)' /\ goStack' \in Seq(Activations) /\ Len(goStack') = Len(goStack) + 1
        /\ \A i \in 1..Len(goStack) : goStack'[i] = goStack[i]
        /\ goStack'[Len(goStack) + 1].co = c /\ goStack'[Len(goStack) + 1].why = "resume"
    BY <1>1, <2>1, <2>2, <2>3, <2>4, ResumeStack
  <2>6. TypeOK'
    BY <1>1, <1>4, <2>1, <2>5 DEF Inv, TypeOK, genVars
  <2>7. Kept'
    BY <1>1, <1>4, <2>1 DEF Inv, Kept
  <2>8. Named'
    BY <2>1 DEF Inv, Named
  <2>9. Quiet'
    BY <1>1, <2>5 DEF Inv, Quiet
  <2>10. ~Start(c, way)
    BY <2>1 DEF Start
  <2>11. QED
    BY <2>2, <2>5, <2>6, <2>7, <2>8, <2>9, <2>10, SplitIsStacked DEF Inv
<1>7. QED
  BY <1>5, <1>6

(* The three ways run() ends, with what their guards say. *)
LEMMA EndsInv ==
    ASSUME Inv, NEW k \in Nat, Split(k), NEW none \in BOOLEAN,
           ReturnToGo(none) \/ Yield(none) \/ Error
    PROVE  Inv'
<1>1. goStack # <<>>
  BY DEF ReturnToGo, MayReturn, Yield, Error, Free, Active, Inv, Quiet
<1>2. UNCHANGED <<started, calls>> /\ next' = next /\ iter' \in [Co -> Nat]
  <2>1. iter \in [Co -> Nat]
    BY DEF Inv, TypeOK
  <2>2. iter' = iter \/ (V \in Co /\ iter' = [iter EXCEPT ![V] = iter[V] + 1])
    <3>1. V \in VMs
      BY <1>1, Control
    <3>2. CASE Yield(none)
      <4>1. V \in Co
        BY <3>1, <3>2 DEF Yield, VMs
      <4>2. QED
        BY <3>2, <4>1 DEF Yield
    <3>3. CASE ReturnToGo(none) \/ Error
      <4>1. UNCHANGED genVars
        BY <3>3 DEF ReturnToGo, Error
      <4>2. QED
        BY <4>1 DEF genVars
    <3>4. QED
      BY <3>2, <3>3
  <2>3. UNCHANGED <<started, calls>> /\ next' = next
    BY DEF ReturnToGo, Yield, Error, genVars
  <2>4. QED
    BY <2>1, <2>2, <2>3
<1>3. CASE V # Main
  <2>1. PICK out \in {"return", "error", "yield"}, x \in BOOLEAN : RunEnds(out, x)
    BY DEF ReturnToGo, Yield, Error
  <2>2. QED
    BY <1>1, <1>2, <1>3, <2>1, EndCo
<1>4. CASE V = Main
  <2>1. PICK out \in {"return", "error"}, x \in BOOLEAN :
            RunEnds(out, x) /\ (out = "return" => frameCount[Main] <= Top.fc)
            /\ UNCHANGED <<started, genVars, calls>>
    BY <1>4 DEF ReturnToGo, Yield, Error
  <2>2. QED
    BY <1>1, <1>4, <2>1, EndMain
<1>5. QED
  BY <1>3, <1>4

LEMMA Inductive ==
    ASSUME Nesting \subseteq {Main}
    PROVE  Inv /\ [Next]_vars => Inv'
<1> SUFFICES ASSUME Inv, [Next]_vars PROVE Inv'
  OBVIOUS
<1>1. PICK k \in Nat : Split(k)
  BY DEF Inv, Stacked
<1>2. CASE UNCHANGED vars
  BY <1>2 DEF vars, coVars, genVars, Inv, TypeOK, Stacked, Split, Named, Kept, Quiet
<1>3. ASSUME NEW c \in Co, ResumeStep(c) PROVE Inv'
  BY <1>1, <1>3, RefuseInv, GiveUpInv, RunOnceInv, CallGeneratorInv, ResumeInv DEF ResumeStep
<1>4. CASE Call \/ PCall \/ ReturnInline
  BY <1>1, <1>4, CallInv, PCallInv, ReturnInlineInv
<1>5. CASE Error \/ \E none \in BOOLEAN : ReturnToGo(none) \/ Yield(none)
  BY <1>1, <1>5, EndsInv
<1>6. QED
  BY <1>2, <1>3, <1>4, <1>5 DEF Next

LEMMA Initial == Init => Inv
<1> SUFFICES ASSUME Init PROVE Inv
  OBVIOUS
<1> USE CoroutineAssumption
<1>1. Main \in VMs /\ \A c \in Co : c \in VMs /\ c # Main
  BY DEF VMs
<1>2. frames[Main] = <<1>> /\ frameCount[Main] = 1
      /\ \A v \in VMs : v # Main => frames[v] = <<>> /\ frameCount[v] = 0
  BY <1>1 DEF Init
<1>3. frames \in [VMs -> Seq(Nat)] /\ frameCount \in [VMs -> Nat]
  <2>1. <<1>> \in Seq(Nat) /\ <<>> \in Seq(Nat)
    OBVIOUS
  <2>2. QED
    BY <2>1 DEF Init
<1>4. PICK a \in Activations :
          a = [vm |-> Main, fc |-> 1, cur |-> 1, why |-> "main", co |-> Main, way |-> "none", want |-> 1]
  BY <1>1 DEF Activations
<1>5. goStack = <<a>> /\ goStack \in Seq(Activations) /\ Len(goStack) = 1 /\ goStack[1] = a
  BY <1>4 DEF Init
<1>6. TypeOK
  <2>1. /\ status \in [Co -> {"suspended", "running", "dead"}]
        /\ started \in [Co -> BOOLEAN] /\ hasVM \in [Co -> BOOLEAN] /\ yielded \in [Co -> BOOLEAN]
        /\ wrapDead \in [Wrapped -> BOOLEAN] /\ next \in [Co -> Nat] /\ iter \in [Co -> Nat]
        /\ raising \in BOOLEAN /\ calls \in Nat /\ strayed \in BOOLEAN
    BY DEF Init
  <2>2. QED
    BY <1>3, <1>5, <2>1 DEF TypeOK
<1>7. MainPart(goStack, 1, frames[Main], frameCount[Main])
  BY <1>2, <1>4, <1>5 DEF MainPart, MainAt
<1>8. CoPart(goStack, 1, status)
  BY <1>5 DEF Init, CoPart
<1>9. Split(1)
  BY <1>5, <1>7, <1>8 DEF Split
<1>10. Stacked
  BY <1>9 DEF Stacked
<1>11. Named
  <2>1. calls = 1 /\ calls \in 1..MaxCalls
    BY DEF Init
  <2>2. ASSUME NEW v \in VMs PROVE frameCount[v] <= Len(frames[v])
    <3>1. CASE v = Main
      <4>1. 1 <= Len(<<1>>)
        OBVIOUS
      <4>2. QED
        BY <1>2, <3>1, <4>1, Zenon
    <3>2. CASE v # Main
      BY <1>2, <3>2
    <3>3. QED
      BY <3>1, <3>2
  <2>3. ASSUME NEW v \in VMs, NEW i \in 1..frameCount[v] PROVE v = Main /\ i = 1 /\ frames[v][i] = 1
    <3>1. v = Main
      BY <1>2
    <3>2. i = 1
      BY <1>2, <3>1
    <3>3. QED
      BY <1>2, <3>1, <3>2
  <2>4. QED
    BY <2>1, <2>2, <2>3 DEF Named
<1>12. Kept
  BY <1>1, <1>2 DEF Init, Kept
<1>13. Quiet
  BY <1>5 DEF Init, Quiet
<1>14. QED
  BY <1>6, <1>10, <1>11, <1>12, <1>13 DEF Inv

LEMMA Invariant ==
    ASSUME Nesting \subseteq {Main}
    PROVE  Spec => []Inv
  BY Initial, Inductive, PTL DEF Spec

-----------------------------------------------------------------------------
(* Coroutine.resume, wrappers, yields, calls and errors keep the state of the
   VMs well formed; the number of frames never goes below zero. *)
THEOREM TypeCorrect ==
    ASSUME Nesting \subseteq {Main}
    PROVE  Spec => []TypeOK
  BY Invariant, PTL DEF Inv

(* A coroutine is "running" exactly while an activation of run() for it is on
   the Go stack, and there is one only: the status check of resume keeps a
   coroutine from running twice on one VM. *)
THEOREM RunningOnce ==
    ASSUME Nesting \subseteq {Main}
    PROVE  Spec => []RunningIsOnStack
<1>1. Inv => RunningIsOnStack
  <2> SUFFICES ASSUME Inv, NEW c \in Co
               PROVE  LET at == {i \in 1..Len(goStack) :
                                   goStack[i].why \in {"resume", "leaf"} /\ Resumed[i] = c}
                      IN  /\ (status[c] = "running") <=> (at # {})
                          /\ \A i, j \in at : i = j
    BY DEF RunningIsOnStack
  <2>1. PICK k \in Nat : Split(k)
    BY DEF Inv, Stacked
  <2>2. k \in 0..Len(goStack) /\ Len(goStack) \in Nat
    BY <2>1 DEF Split, Inv, TypeOK
  <2>3. \A i \in 1..Len(goStack) : i \in 1..k \/ i \in (k + 1)..Len(goStack)
    BY <2>2
  <2>4. \A i \in 1..k : goStack[i].why \notin {"resume", "leaf"}
    BY <2>1 DEF Split, MainPart, MainAt
  <2>5. \A i \in (k + 1)..Len(goStack) : goStack[i].why = "resume" /\ i \in 1..Len(goStack)
    BY <2>1, <2>2 DEF Split, CoPart, CoAt
  <2>6. {i \in 1..Len(goStack) : goStack[i].why \in {"resume", "leaf"} /\ Resumed[i] = c}
        = {i \in (k + 1)..Len(goStack) : goStack[i].co = c}
    BY <2>3, <2>4, <2>5 DEF Resumed
  <2>7. \A i, j \in (k + 1)..Len(goStack) : goStack[i].co = goStack[j].co => i = j
    BY <2>1 DEF Split, CoPart
  <2>8. status[c] = "running" => \E i \in (k + 1)..Len(goStack) : goStack[i].co = c
    BY <2>1 DEF Split, CoPart
  <2>9. \A i \in (k + 1)..Len(goStack) : status[goStack[i].co] = "running"
    BY <2>1 DEF Split, CoPart, CoAt
  <2>10. QED
    BY <2>6, <2>7, <2>8, <2>9
<1>2. QED
  BY <1>1, Invariant, PTL

(* A coroutine that yielded can be resumed: its VM and the frames of the yield
   are there. One that ended holds no VM, and the flag of a yield never
   outlives the resume that it ends. *)
THEOREM SuspendedCanGoOn ==
    ASSUME Nesting \subseteq {Main}
    PROVE  Spec => []SuspendedCanContinue
<1>1. Inv => SuspendedCanContinue
  BY DEF Inv, Kept, SuspendedCanContinue
<1>2. QED
  BY <1>1, Invariant, PTL

(* In the main program a pcall gets the results of the call it made, however
   calls, resumes and errors nest. *)
THEOREM PCallGetsItsResults ==
    ASSUME Nesting \subseteq {Main}
    PROVE  Spec => []ProtectedCallReturns
<1>1. Inv => ProtectedCallReturns
  BY DEF Inv, Quiet, ProtectedCallReturns
<1>2. QED
  BY <1>1, Invariant, PTL

=============================================================================
