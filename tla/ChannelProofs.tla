---------------------------- MODULE ChannelProofs ----------------------------
(***************************************************************************)
(* Theorems about Channel for any number of goroutines and channels of any *)
(* capacity.                                                               *)
(***************************************************************************)
EXTENDS Channel, TLAPS

(* The goroutine that has set the flag holds the mutex, and the Go channel is
   still open: nobody else can be there. *)
CloserOwns ==
    \A g \in Procs : op[g].pc = "closing" =>
        mu[Ch(g, 1)] = g /\ flag[Ch(g, 1)] /\ ~goClosed[Ch(g, 1)]

CloseInv == CloserOwns /\ FlagCoversClose /\ NoPanic

LEMMA IdleType == Idle \in Operations
  BY DEF Idle, Operations

(* The case an operation has come to is one of its cases. *)
LEMMA CaseType ==
    ASSUME TypeOK, NEW g \in Procs, NEW i \in 1..Len(op[g].cases)
    PROVE  Ch(g, i) \in Chans /\ Dir(g, i) \in {"send", "recv", "close"}
<1>1. op[g].cases \in Seq(Case)
  BY DEF TypeOK, Operations
<1>2. op[g].cases[i] \in Case
  BY <1>1
<1>3. QED
  BY <1>2 DEF Case, Ch, Dir

(* An operation that ends leaves its goroutine idle. *)
LEMMA FinishType ==
    ASSUME TypeOK, NEW g \in Procs, NEW r \in Results, Finish(g, r)
    PROVE  /\ op' \in [Procs -> Operations] /\ result' \in [Procs -> Results]
           /\ op'[g].pc = "idle" /\ \A k \in Procs \ {g} : op'[k] = op[k]
  BY IdleType DEF TypeOK, Finish, Idle

(* TypeOK, with what it says of the operation of one goroutine named. *)
OpFits(g) ==
    op[g].pc # "idle" => op[g].at \in 1..Len(op[g].cases) /\ count[g] \in 1..MaxOps

TypeCore ==
    /\ flag \in [Chans -> BOOLEAN] /\ goClosed \in [Chans -> BOOLEAN]
    /\ mu \in [Chans -> Procs \cup {NoProc}]
    /\ buf \in [Chans -> Seq(Values)]
    /\ op \in [Procs -> Operations]
    /\ count \in [Procs -> 0..MaxOps]
    /\ stop \in BOOLEAN /\ panicked \in BOOLEAN
    /\ result \in [Procs -> Results]
    /\ sent \in [Chans -> Seq(Values)] /\ rcvd \in [Chans -> Seq(Values)]
    /\ \A g \in Procs : OpFits(g)

(* A step that only ends the operation of g keeps the types. *)
LEMMA EndStep ==
    ASSUME TypeOK, NEW g \in Procs, NEW r \in Results, Finish(g, r),
           UNCHANGED <<flag, mu, count, stop, panicked, goVars>>
    PROVE  TypeCore'
<1>1. op' \in [Procs -> Operations] /\ result' \in [Procs -> Results]
  BY FinishType
<1>2. \A k \in Procs : OpFits(k)'
  BY FinishType DEF TypeOK, OpFits
<1>3. QED
  BY <1>1, <1>2 DEF TypeOK, TypeCore, goVars

LEMMA ValueType ==
    ASSUME TypeOK, NEW g \in Procs, op[g].pc # "idle"
    PROVE  ValueOf(g) \in Values
  BY DEF TypeOK, ValueOf, Values

(* An operation that goes on stays within its cases. *)
LEMMA GoOnStep ==
    ASSUME TypeOK, NEW g \in Procs, NEW k \in Operations,
           op' = [op EXCEPT ![g] = k],
           k.cases = op[g].cases, k.at \in 1..Len(k.cases),
           op[g].pc # "idle",
           UNCHANGED <<result, flag, mu, count, stop, panicked, goVars>>
    PROVE  TypeCore'
<1>1. \A j \in Procs : OpFits(j)'
  BY DEF TypeOK, OpFits
<1>2. QED
  BY <1>1 DEF TypeOK, TypeCore, goVars

LEMMA StartType ==
    ASSUME TypeOK, NEW g \in Procs, NEW o \in Menu, Start(g, o)
    PROVE  TypeCore'
<1> USE ChannelAssumption
<1>0. o \in [kind : Kinds, cases : Seq(Case) \ {<<>>}]
  OBVIOUS
<1> DEFINE k == [kind |-> o.kind, cases |-> o.cases, at |-> 1,
                 pc |-> IF o.kind = "close" THEN "lock" ELSE "check"]
<1>1. k \in Operations /\ 1 \in 1..Len(k.cases)
  BY <1>0 DEF Operations
<1>2. op' = [op EXCEPT ![g] = k]
  BY DEF Start
<1>3. count' \in [Procs -> 0..MaxOps] /\ count'[g] \in 1..MaxOps
      /\ \A j \in Procs \ {g} : count'[j] = count[j]
  BY DEF Start, TypeOK
<1>4. \A j \in Procs : OpFits(j)'
  BY <1>1, <1>2, <1>3 DEF TypeOK, OpFits
<1>5. result' \in [Procs -> Results]
  BY DEF Start, TypeOK, Results
<1>6. op' \in [Procs -> Operations]
  BY <1>1, <1>2 DEF TypeOK
<1>7. QED
  BY <1>3, <1>4, <1>5, <1>6 DEF Start, TypeOK, TypeCore, goVars

LEMMA NextCaseType ==
    ASSUME NEW o \in Operations, o.at \in 1..Len(o.cases)
    PROVE  /\ NextCase(o) \in Operations /\ NextCase(o).cases = o.cases
           /\ NextCase(o).at \in 1..Len(o.cases)
           /\ NextCase(o).pc = "closing" => o.pc = "closing"
<1>1. CASE o.kind = "poll"
  <2>1. NextCase(o) = [o EXCEPT !.pc = "try"]
    BY <1>1 DEF NextCase
  <2>2. QED
    BY <2>1 DEF Operations
<1>2. CASE o.kind # "poll" /\ o.at < Len(o.cases)
  <2>1. NextCase(o) = [o EXCEPT !.at = @ + 1]
    BY <1>2 DEF NextCase
  <2>2. QED
    BY <1>2, <2>1 DEF Operations
<1>3. CASE o.kind # "poll" /\ ~(o.at < Len(o.cases))
  <2>1. NextCase(o) = [o EXCEPT !.pc = "wait"]
    BY <1>3 DEF NextCase
  <2>2. QED
    BY <2>1 DEF Operations
<1>4. QED
  BY <1>1, <1>2, <1>3

LEMMA CheckType ==
    ASSUME TypeOK, NEW g \in Procs, Check(g)
    PROVE  TypeCore'
<1>1. CASE Dir(g, op[g].at) = "send" /\ flag[Ch(g, op[g].at)]
  BY <1>1, EndStep DEF Check, Results
<1>2. CASE ~(Dir(g, op[g].at) = "send" /\ flag[Ch(g, op[g].at)])
  <2> DEFINE k == NextCase(op[g])
  <2>1. op' = [op EXCEPT ![g] = k] /\ UNCHANGED result
    BY <1>2 DEF Check
  <2>2. op[g] \in Operations /\ op[g].at \in 1..Len(op[g].cases)
    BY DEF Check, TypeOK
  <2>3. k \in Operations /\ k.cases = op[g].cases /\ k.at \in 1..Len(k.cases)
    BY <2>2, NextCaseType
  <2> HIDE DEF k
  <2>4. op[g].pc # "idle" /\ UNCHANGED <<result, flag, mu, count, stop, panicked, goVars>>
    BY <2>1 DEF Check
  <2>5. QED
    BY <2>1, <2>3, <2>4, GoOnStep
<1>3. QED
  BY <1>1, <1>2

LEMMA PollNextType ==
    ASSUME TypeOK, NEW g \in Procs, PollNext(g)
    PROVE  TypeCore'
<1>1. CASE op[g].at < Len(op[g].cases)
  <2> DEFINE k == [op[g] EXCEPT !.at = @ + 1, !.pc = "check"]
  <2>1. op[g] \in Operations /\ op[g].at \in 1..Len(op[g].cases)
    BY DEF PollNext, TypeOK
  <2>2. k \in Operations /\ k.cases = op[g].cases /\ k.at \in 1..Len(k.cases)
    <3>1. k.cases = op[g].cases /\ k.at = op[g].at + 1 /\ k.pc = "check"
          /\ k.kind = op[g].kind
      BY <2>1 DEF Operations
    <3>2. op[g].at + 1 \in 1..Len(op[g].cases) /\ Len(op[g].cases) \in Nat
      BY <1>1, <2>1 DEF Operations
    <3>3. ASSUME NEW n \in Nat
          PROVE  [op[g] EXCEPT !.at = n, !.pc = "check"] \in Operations
      BY <2>1 DEF Operations
    <3>4. op[g].at + 1 \in Nat
      BY <2>1
    <3>5. QED
      BY <3>1, <3>2, <3>3, <3>4
  <2>3. op' = [op EXCEPT ![g] = k]
    BY <1>1 DEF PollNext, TypeOK
  <2> HIDE DEF k
  <2>4. QED
    BY <1>1, <2>2, <2>3, GoOnStep DEF PollNext
<1>2. CASE ~(op[g].at < Len(op[g].cases))
  BY <1>2, EndStep DEF PollNext, Results
<1>3. QED
  BY <1>1, <1>2

LEMMA GoStepType ==
    ASSUME TypeOK, NEW g \in Procs, GoStep(g)
    PROVE  TypeCore'
<1>1. ASSUME NEW i \in 1..Len(op[g].cases), GoSend(g, i) PROVE TypeCore'
  <2>1. Ch(g, i) \in Chans /\ op[g].pc # "idle" /\ ValueOf(g) \in Values
    BY <1>1, CaseType, ValueType DEF GoSend, Offers
  <2>2. buf' \in [Chans -> Seq(Values)] /\ sent' \in [Chans -> Seq(Values)]
    BY <1>1, <2>1 DEF GoSend, TypeOK
  <2>3. op' \in [Procs -> Operations] /\ result' \in [Procs -> Results]
        /\ \A k \in Procs : OpFits(k)'
    BY <1>1, FinishType DEF GoSend, Results, OpFits, TypeOK
  <2>4. QED
    BY <1>1, <2>2, <2>3 DEF GoSend, TypeOK, TypeCore
<1>2. ASSUME NEW i \in 1..Len(op[g].cases), GoRecv(g, i) PROVE TypeCore'
  <2>1. Ch(g, i) \in Chans
    BY CaseType
  <2>2. buf[Ch(g, i)] \in Seq(Values) /\ buf[Ch(g, i)] # <<>>
    BY <1>2, <2>1 DEF GoRecv, TypeOK
  <2>3. Head(buf[Ch(g, i)]) \in Values /\ Tail(buf[Ch(g, i)]) \in Seq(Values)
    BY <2>2
  <2>4. buf' \in [Chans -> Seq(Values)] /\ rcvd' \in [Chans -> Seq(Values)]
    BY <1>2, <2>1, <2>3 DEF GoRecv, TypeOK
  <2>5. op' \in [Procs -> Operations] /\ result' \in [Procs -> Results]
        /\ \A k \in Procs : OpFits(k)'
    BY <1>2, FinishType DEF GoRecv, Results, OpFits, TypeOK
  <2>6. QED
    BY <1>2, <2>4, <2>5 DEF GoRecv, TypeOK, TypeCore
<1>3. ASSUME NEW i \in 1..Len(op[g].cases), GoRecvClosed(g, i) PROVE TypeCore'
  BY <1>3, EndStep DEF GoRecvClosed, Results
<1>4. ASSUME NEW i \in 1..Len(op[g].cases), SendRecovers(g, i) PROVE TypeCore'
  BY <1>4, EndStep DEF SendRecovers, Results
<1>5. ASSUME NEW s \in Procs, NEW r \in Procs, NEW i \in 1..Len(op[s].cases),
             NEW j \in 1..Len(op[r].cases), GoRendezvous(s, i, r, j)
      PROVE  TypeCore'
  <2>1. Ch(s, i) \in Chans /\ op[s].pc # "idle" /\ ValueOf(s) \in Values
    BY <1>5, CaseType, ValueType DEF GoRendezvous, Offers
  <2>2. sent' \in [Chans -> Seq(Values)] /\ rcvd' \in [Chans -> Seq(Values)]
    BY <1>5, <2>1 DEF GoRendezvous, TypeOK
  <2>3. op' \in [Procs -> Operations] /\ result' \in [Procs -> Results]
    BY <1>5, IdleType DEF GoRendezvous, TypeOK, Results
  <2>4. \A k \in Procs : OpFits(k)'
    BY <1>5 DEF GoRendezvous, TypeOK, OpFits, Idle
  <2>5. QED
    BY <1>5, <2>2, <2>3, <2>4 DEF GoRendezvous, TypeOK, TypeCore
<1>6. QED
  BY <1>1, <1>2, <1>3, <1>4, <1>5 DEF GoStep

LEMMA CloseType ==
    ASSUME TypeOK, NEW g \in Procs, CloseFlag(g) \/ CloseGo(g)
    PROVE  TypeCore'
<1>0. Ch(g, 1) \in Chans /\ op[g].pc # "idle"
  <2>1. op[g].at \in 1..Len(op[g].cases) /\ op[g].cases \in Seq(Case)
    BY DEF CloseFlag, CloseGo, TypeOK, Operations
  <2>2. 1 \in 1..Len(op[g].cases)
    BY <2>1
  <2>3. QED
    BY <2>2, CaseType DEF CloseFlag, CloseGo
<1>1. CASE CloseFlag(g) /\ flag[Ch(g, 1)]
  BY <1>1, EndStep DEF CloseFlag, Results
<1>2. CASE CloseFlag(g) /\ ~flag[Ch(g, 1)]
  <2> DEFINE c == [op[g] EXCEPT !.pc = "closing"]
  <2>0. op' = [op EXCEPT ![g] = c] /\ UNCHANGED count
    BY <1>2 DEF CloseFlag, TypeOK
  <2>a. c \in Operations /\ c.at = op[g].at /\ c.cases = op[g].cases
    <3>1. op[g] \in Operations
      BY DEF TypeOK
    <3>2. QED
      BY <3>1 DEF Operations
  <2> HIDE DEF c
  <2>1. op' \in [Procs -> Operations]
    BY <2>0, <2>a DEF TypeOK
  <2>2. \A k \in Procs : OpFits(k)'
    BY <1>0, <2>0, <2>a DEF TypeOK, OpFits
  <2>3. QED
    BY <1>0, <1>2, <2>1, <2>2 DEF CloseFlag, TypeOK, TypeCore, goVars
<1>3. CASE CloseGo(g)
  <2>1. op' \in [Procs -> Operations] /\ result' \in [Procs -> Results]
        /\ \A k \in Procs : OpFits(k)'
    BY <1>3, FinishType DEF CloseGo, Results, OpFits, TypeOK
  <2>2. panicked' \in BOOLEAN
    BY <1>3 DEF CloseGo
  <2>3. QED
    BY <1>0, <1>3, <2>1, <2>2 DEF CloseGo, TypeOK, TypeCore
<1>4. QED
  BY <1>1, <1>2, <1>3

LEMMA TypeInductive == TypeOK /\ [Next]_vars => TypeOK'
<1> SUFFICES ASSUME TypeOK, [Next]_vars PROVE TypeOK'
  OBVIOUS
<1>1. CASE UNCHANGED vars
  BY <1>1 DEF vars, TypeOK
<1>2. CASE Next
  <2>1. TypeCore'
    <3>1. ASSUME Stop PROVE TypeCore'
      BY <3>1 DEF Stop, TypeOK, TypeCore, OpFits, goVars
    <3>2. ASSUME NEW g \in Procs, RecvStopped(g) PROVE TypeCore'
      BY <3>2, EndStep DEF RecvStopped, Results
    <3>3. QED
      BY <1>2, <3>1, <3>2, StartType, CheckType, PollNextType, GoStepType, CloseType
         DEF Next, Step
  <2>2. QED
    BY <2>1 DEF TypeCore, TypeOK, OpFits
<1>3. QED
  BY <1>1, <1>2

(* TypeOK holds for any number of goroutines and channels: the cases a select
   has looked at never run past its clauses (ChannelSelect). *)
THEOREM TypeCorrect == Spec => []TypeOK
<1>1. Init => TypeOK
  <2> SUFFICES ASSUME Init PROVE TypeOK
    OBVIOUS
  <2>1. op \in [Procs -> Operations] /\ \A g \in Procs : op[g].pc = "idle"
    <3>1. Idle \in Operations /\ Idle.pc = "idle"
      BY IdleType DEF Idle
    <3>2. QED
      BY <3>1 DEF Init
  <2>2. count \in [Procs -> 0..MaxOps] /\ result \in [Procs -> Results]
    BY ChannelAssumption DEF Init, Results
  <2>3. buf \in [Chans -> Seq(Values)] /\ sent \in [Chans -> Seq(Values)]
        /\ rcvd \in [Chans -> Seq(Values)]
    BY DEF Init
  <2>4. flag \in [Chans -> BOOLEAN] /\ goClosed \in [Chans -> BOOLEAN]
        /\ mu \in [Chans -> Procs \cup {NoProc}]
    BY DEF Init
  <2>5. stop \in BOOLEAN /\ panicked \in BOOLEAN
    BY DEF Init
  <2>6. QED
    BY <2>1, <2>2, <2>3, <2>4, <2>5 DEF TypeOK
<1>2. QED
  BY <1>1, TypeInductive, PTL DEF Spec

-----------------------------------------------------------------------------
(* The first case of a close is a channel. *)
LEMMA CloseTarget ==
    ASSUME TypeOK, NEW g \in Procs, op[g].pc # "idle"
    PROVE  Ch(g, 1) \in Chans
<1>1. op[g].at \in 1..Len(op[g].cases) /\ op[g].cases \in Seq(Case)
  BY DEF TypeOK, Operations
<1>2. 1 \in 1..Len(op[g].cases)
  BY <1>1
<1>3. QED
  BY <1>2, CaseType

(* A step that leaves the flags, the mutexes and the Go channels alone and
   moves no goroutine to the middle of a close keeps the invariant. *)
LEMMA QuietStep ==
    ASSUME CloseInv, UNCHANGED <<flag, mu, goClosed, panicked>>,
           \A k \in Procs : op'[k].pc = "closing" => op'[k] = op[k]
    PROVE  CloseInv'
<1>1. CloserOwns'
  BY DEF CloseInv, CloserOwns, Ch
<1>2. FlagCoversClose' /\ NoPanic'
  BY DEF CloseInv, FlagCoversClose, NoPanic
<1>3. QED
  BY <1>1, <1>2 DEF CloseInv

LEMMA EndQuiet ==
    ASSUME TypeOK, NEW g \in Procs, NEW r, Finish(g, r)
    PROVE  op' \in [Procs -> Operations] /\ op'[g].pc = "idle"
           /\ \A k \in Procs \ {g} : op'[k] = op[k]
  BY IdleType DEF TypeOK, Finish, Idle

LEMMA CloseFlagStep ==
    ASSUME TypeOK, CloseInv, NEW g \in Procs, CloseFlag(g)
    PROVE  CloseInv'
<1> DEFINE c == Ch(g, 1)
<1>1. c \in Chans
  BY CloseTarget DEF CloseFlag
<1>2. CASE flag[c]
  BY <1>2, EndQuiet, QuietStep DEF CloseFlag, goVars
<1>3. CASE ~flag[c]
  <2>1. op'[g].pc = "closing" /\ op'[g].cases = op[g].cases
        /\ \A k \in Procs \ {g} : op'[k] = op[k]
    BY <1>3 DEF CloseFlag, TypeOK, Operations
  <2>2. flag' = [flag EXCEPT ![c] = TRUE] /\ mu' = [mu EXCEPT ![c] = g]
        /\ UNCHANGED <<goClosed, panicked>> /\ mu[c] = NoProc
    BY <1>3 DEF CloseFlag, goVars
  <2>3. ~goClosed[c]
    BY <1>1, <1>3 DEF CloseInv, FlagCoversClose
  <2>4. ASSUME NEW k \in Procs, op'[k].pc = "closing"
        PROVE  mu'[Ch(k, 1)'] = k /\ flag'[Ch(k, 1)'] /\ ~goClosed'[Ch(k, 1)']
    <3>1. CASE k = g
      <4>1. Ch(k, 1)' = c
        BY <2>1, <3>1 DEF Ch
      <4>2. QED
        BY <1>1, <2>2, <2>3, <3>1, <4>1 DEF TypeOK
    <3>2. CASE k # g
      <4>1. Ch(k, 1)' = Ch(k, 1) /\ op[k].pc = "closing"
        BY <2>1, <2>4, <3>2 DEF Ch
      <4>2. Ch(k, 1) \in Chans /\ mu[Ch(k, 1)] = k /\ flag[Ch(k, 1)] /\ ~goClosed[Ch(k, 1)]
        BY <4>1, CloseTarget DEF CloseInv, CloserOwns
      <4>3. Ch(k, 1) # c
        BY <2>2, <4>2, ChannelAssumption
      <4>4. QED
        BY <1>1, <2>2, <4>1, <4>2, <4>3 DEF TypeOK
    <3>3. QED
      BY <3>1, <3>2
  <2>5. CloserOwns'
    BY <2>4 DEF CloserOwns
  <2>6. FlagCoversClose'
    BY <1>1, <2>2, ChannelAssumption DEF CloseInv, FlagCoversClose, TypeOK
  <2>7. QED
    BY <2>2, <2>5, <2>6 DEF CloseInv, NoPanic
<1>4. QED
  BY <1>2, <1>3

LEMMA CloseGoStep ==
    ASSUME TypeOK, CloseInv, NEW g \in Procs, CloseGo(g)
    PROVE  CloseInv'
<1> DEFINE c == Ch(g, 1)
<1>1. c \in Chans /\ mu[c] = g /\ flag[c] /\ ~goClosed[c]
  BY CloseTarget DEF CloseGo, CloseInv, CloserOwns
<1>2. ~panicked'
  BY <1>1 DEF CloseGo, CloseInv, NoPanic
<1>3. op'[g].pc = "idle" /\ \A k \in Procs \ {g} : op'[k] = op[k]
  BY EndQuiet DEF CloseGo
<1>4. ASSUME NEW k \in Procs, op'[k].pc = "closing"
      PROVE  mu'[Ch(k, 1)'] = k /\ flag'[Ch(k, 1)'] /\ ~goClosed'[Ch(k, 1)']
  <2>1. k # g /\ op[k].pc = "closing" /\ Ch(k, 1)' = Ch(k, 1)
    BY <1>3, <1>4 DEF Ch
  <2>2. Ch(k, 1) \in Chans /\ mu[Ch(k, 1)] = k /\ flag[Ch(k, 1)] /\ ~goClosed[Ch(k, 1)]
    BY <2>1, CloseTarget DEF CloseInv, CloserOwns
  <2>3. Ch(k, 1) # c
    BY <1>1, <2>1, <2>2
  <2>4. QED
    BY <1>1, <2>1, <2>2, <2>3 DEF CloseGo, TypeOK
<1>5. CloserOwns'
  BY <1>4 DEF CloserOwns
<1>6. FlagCoversClose'
  BY <1>1 DEF CloseGo, CloseInv, FlagCoversClose, TypeOK
<1>7. QED
  BY <1>2, <1>5, <1>6 DEF CloseInv, NoPanic

LEMMA CloseInductive == TypeOK /\ CloseInv /\ [Next]_vars => CloseInv'
<1> SUFFICES ASSUME TypeOK, CloseInv, [Next]_vars PROVE CloseInv'
  OBVIOUS
<1>1. CASE UNCHANGED vars
  BY <1>1, QuietStep DEF vars
<1>2. ASSUME NEW g \in Procs, NEW o \in Menu, Start(g, o) PROVE CloseInv'
  BY <1>2, QuietStep DEF Start, TypeOK, goVars
<1>3. ASSUME NEW g \in Procs, Check(g) PROVE CloseInv'
  <2>1. CASE Dir(g, op[g].at) = "send" /\ flag[Ch(g, op[g].at)]
    BY <1>3, <2>1, EndQuiet, QuietStep DEF Check, goVars
  <2>2. CASE ~(Dir(g, op[g].at) = "send" /\ flag[Ch(g, op[g].at)])
    <3>1. op' = [op EXCEPT ![g] = NextCase(op[g])]
          /\ UNCHANGED <<flag, mu, goClosed, panicked>>
      BY <1>3, <2>2 DEF Check, goVars
    <3>2. NextCase(op[g]).pc # "closing"
      BY <1>3, NextCaseType DEF Check, TypeOK
    <3>3. QED
      BY <3>1, <3>2, QuietStep DEF TypeOK
  <2>3. QED
    BY <2>1, <2>2
<1>4. ASSUME NEW g \in Procs, PollNext(g) PROVE CloseInv'
  <2>1. CASE op[g].at < Len(op[g].cases)
    <3>1. \A k \in Procs : op'[k].pc = "closing" => op'[k] = op[k]
      BY <1>4, <2>1 DEF PollNext, TypeOK, Operations
    <3>2. QED
      BY <1>4, <3>1, QuietStep DEF PollNext, goVars
  <2>2. CASE ~(op[g].at < Len(op[g].cases))
    BY <1>4, <2>2, EndQuiet, QuietStep DEF PollNext, goVars
  <2>3. QED
    BY <2>1, <2>2
<1>5. ASSUME NEW g \in Procs, GoStep(g) PROVE CloseInv'
  <2>1. ASSUME NEW i \in 1..Len(op[g].cases),
               GoSend(g, i) \/ GoRecv(g, i) \/ GoRecvClosed(g, i) \/ SendRecovers(g, i)
        PROVE  CloseInv'
    BY <2>1, EndQuiet, QuietStep DEF GoSend, GoRecv, GoRecvClosed, SendRecovers, goVars
  <2>2. ASSUME NEW s \in Procs, NEW r \in Procs, NEW i \in 1..Len(op[s].cases),
               NEW j \in 1..Len(op[r].cases), GoRendezvous(s, i, r, j)
        PROVE  CloseInv'
    BY <2>2, QuietStep DEF GoRendezvous, TypeOK, Idle
  <2>3. QED
    BY <1>5, <2>1, <2>2 DEF GoStep
<1>6. ASSUME NEW g \in Procs, RecvStopped(g) PROVE CloseInv'
  BY <1>6, EndQuiet, QuietStep DEF RecvStopped, goVars
<1>7. ASSUME Stop PROVE CloseInv'
  BY <1>7, QuietStep DEF Stop, goVars
<1>8. QED
  BY <1>1, <1>2, <1>3, <1>4, <1>5, <1>6, <1>7, CloseFlagStep, CloseGoStep DEF Next, Step

LEMMA CloseInvariant == Spec => []CloseInv
<1>1. Init => CloseInv
  BY DEF Init, CloseInv, CloserOwns, FlagCoversClose, NoPanic, Idle
<1>2. QED
  BY <1>1, TypeCorrect, CloseInductive, PTL DEF Spec

(* Channel.Close, Send, TrySend and ChannelSelect between any goroutines: no
   Go panic leaves the runtime. *)
THEOREM NoHostPanic == Spec => []NoPanic
  BY CloseInvariant, PTL DEF CloseInv

(* The flag and the Go channel agree whenever the mutex is free, so the test
   at the head of Send never errs on a channel that is open. *)
THEOREM FlagAgrees == Spec => []FlagCoversClose
  BY CloseInvariant, PTL DEF CloseInv

-----------------------------------------------------------------------------
(* The refinement.  The buffer of the Go channel is what was sent and not yet
   received, in that order, and a goroutine that is in an operation has not been
   told anything. *)
Follows(q, s, r, n) ==
    /\ Len(s) = Len(r) + Len(q)
    /\ Len(q) <= n
    /\ \A i \in 1..Len(q) : q[i] = s[Len(r) + i]

InOrder(c) == Follows(buf[c], sent[c], rcvd[c], Cap[c])

Untold == \A g \in Procs : op[g].pc # "idle" => result[g] = "none"

FifoInv == Untold /\ \A c \in Chans : InOrder(c)

(* A step does what ChannelSpec allows, or nothing that it can see. *)
Simulates == FifoInv' /\ [Abstract!Next]_(Abstract!vars)

(* What the end of an operation tells its goroutine. *)
LEMMA FinishTells ==
    ASSUME TypeOK, Untold, NEW g \in Procs, NEW r \in Results, Finish(g, r),
           op[g].pc # "idle"
    PROVE  Untold' /\ Abstract!Told(g, r)
<1>1. \A k \in Procs : k # g => op'[k] = op[k] /\ result'[k] = result[k]
  BY DEF Finish, TypeOK
<1>2. op'[g].pc = "idle"
  BY FinishType
<1>3. Untold'
  BY <1>1, <1>2 DEF Untold
<1>4. QED
  BY <1>3 DEF Untold, Finish, Abstract!Told

LEMMA OfferIsUnderWay ==
    ASSUME NEW g, NEW i, Offers(g, i)
    PROVE  op[g].pc # "idle"
  BY DEF Offers

(* Nothing happened to the channels. *)
LEMMA QuietChannels ==
    ASSUME FifoInv, UNCHANGED <<buf, sent, rcvd>>
    PROVE  \A c \in Chans : InOrder(c)'
  BY DEF FifoInv, InOrder

(* A step that is not seen: nobody is told anything. *)
LEMMA Unseen ==
    ASSUME FifoInv, UNCHANGED <<goVars, result>>,
           \A k \in Procs : op'[k].pc = op[k].pc \/ op[k].pc # "idle"
    PROVE  Simulates
<1>1. Untold'
  BY DEF FifoInv, Untold
<1>2. \A c \in Chans : InOrder(c)'
  BY QuietChannels DEF goVars
<1>3. UNCHANGED Abstract!vars
  BY DEF goVars, Abstract!vars
<1>4. QED
  BY <1>1, <1>2, <1>3 DEF FifoInv, Simulates

(* An operation ends without a value passed, for a reason ChannelSpec accepts:
   it was given up, ... *)
LEMMA GiveUpIsSeen ==
    ASSUME TypeOK, FifoInv, NEW g \in Procs, NEW r \in {"default", "stopped"}, Finish(g, r),
           op[g].pc # "idle", UNCHANGED goVars
    PROVE  Simulates
<1>1. r \in Results
  BY DEF Results
<1>2. Untold' /\ Abstract!Told(g, r)
  BY <1>1, FinishTells DEF FifoInv
<1>3. \A c \in Chans : InOrder(c)'
  BY QuietChannels DEF goVars
<1>4. Abstract!GiveUp(g)
  BY <1>2 DEF goVars, Abstract!GiveUp
<1>5. Abstract!Next
  BY <1>4 DEF Abstract!Next
<1>6. QED
  BY <1>2, <1>3, <1>5 DEF FifoInv, Simulates

(* ... the channel is closed, ... *)
LEMMA FailIsSeen ==
    ASSUME TypeOK, FifoInv, NEW g \in Procs, NEW c \in Chans, goClosed[c],
           Finish(g, "error"), op[g].pc # "idle", UNCHANGED goVars
    PROVE  Simulates
<1>1. "error" \in Results
  BY DEF Results
<1>2. Untold' /\ Abstract!Told(g, "error")
  BY <1>1, FinishTells DEF FifoInv
<1>3. \A d \in Chans : InOrder(d)'
  BY QuietChannels DEF goVars
<1>4. Abstract!Fail(g, c)
  BY <1>2 DEF goVars, Abstract!Fail
<1>5. Abstract!Next
  BY <1>4 DEF Abstract!Next
<1>6. QED
  BY <1>2, <1>3, <1>5 DEF FifoInv, Simulates

(* ... or it is closed and drained. *)
LEMMA DrainIsSeen ==
    ASSUME TypeOK, FifoInv, NEW g \in Procs, NEW c \in Chans, goClosed[c], buf[c] = <<>>,
           Finish(g, "closed"), op[g].pc # "idle", UNCHANGED goVars
    PROVE  Simulates
<1>1. "closed" \in Results
  BY DEF Results
<1>2. Untold' /\ Abstract!Told(g, "closed")
  BY <1>1, FinishTells DEF FifoInv
<1>3. \A d \in Chans : InOrder(d)'
  BY QuietChannels DEF goVars
<1>4. Abstract!Queued(c) = 0
  BY DEF FifoInv, InOrder, Follows, TypeOK, Abstract!Queued
<1>5. Abstract!Drained(g, c)
  BY <1>2, <1>4 DEF goVars, Abstract!Drained
<1>6. Abstract!Next
  BY <1>5 DEF Abstract!Next
<1>7. QED
  BY <1>2, <1>3, <1>6 DEF FifoInv, Simulates

LEMMA StartSimulates ==
    ASSUME TypeOK, FifoInv, NEW g \in Procs, NEW o \in Menu, Start(g, o)
    PROVE  Simulates
<1>1. result' = [result EXCEPT ![g] = "none"] /\ UNCHANGED <<buf, sent, rcvd, goClosed>>
      /\ \A k \in Procs \ {g} : op'[k] = op[k]
  BY DEF Start, goVars, TypeOK
<1>2. Untold'
  BY <1>1 DEF FifoInv, Untold, TypeOK
<1>3. Abstract!Begin(g)
  BY <1>1 DEF Abstract!Begin
<1>4. Abstract!Next
  BY <1>3 DEF Abstract!Next
<1>5. QED
  BY <1>1, <1>2, <1>4, QuietChannels DEF FifoInv, Simulates

LEMMA CheckSimulates ==
    ASSUME TypeOK, CloseInv, FifoInv, NEW g \in Procs, Check(g)
    PROVE  Simulates
<1> DEFINE c == Ch(g, op[g].at)
<1>1. op[g].pc = "check" /\ op[g].at \in 1..Len(op[g].cases)
  BY DEF Check, TypeOK
<1>2. c \in Chans
  BY <1>1, CaseType
<1>3. CASE Dir(g, op[g].at) = "send" /\ flag[c]
  <2>1. mu[c] = NoProc /\ Finish(g, "error") /\ UNCHANGED goVars
    BY <1>3 DEF Check
  <2>2. goClosed[c]
    BY <1>2, <1>3, <2>1 DEF CloseInv, FlagCoversClose
  <2>3. QED
    BY <1>1, <1>2, <2>1, <2>2, FailIsSeen
<1>4. CASE ~(Dir(g, op[g].at) = "send" /\ flag[c])
  <2>1. UNCHANGED <<goVars, result>> /\ \A k \in Procs \ {g} : op'[k] = op[k]
    BY <1>4 DEF Check, TypeOK
  <2>2. \A k \in Procs : op'[k].pc = op[k].pc \/ op[k].pc # "idle"
    BY <1>1, <2>1
  <2>3. QED
    BY <2>1, <2>2, Unseen
<1>5. QED
  BY <1>3, <1>4

LEMMA PollNextSimulates ==
    ASSUME TypeOK, FifoInv, NEW g \in Procs, PollNext(g)
    PROVE  Simulates
<1>1. op[g].pc = "try" /\ UNCHANGED goVars
  BY DEF PollNext
<1>2. CASE op[g].at < Len(op[g].cases)
  <2>1. UNCHANGED result /\ \A k \in Procs \ {g} : op'[k] = op[k]
    BY <1>2 DEF PollNext, TypeOK
  <2>2. \A k \in Procs : op'[k].pc = op[k].pc \/ op[k].pc # "idle"
    BY <1>1, <2>1
  <2>3. QED
    BY <1>1, <2>1, <2>2, Unseen
<1>3. CASE ~(op[g].at < Len(op[g].cases))
  <2>1. Finish(g, "default")
    BY <1>3 DEF PollNext
  <2>2. QED
    BY <1>1, <2>1, GiveUpIsSeen
<1>4. QED
  BY <1>2, <1>3

LEMMA StoppedSimulates ==
    ASSUME TypeOK, FifoInv, NEW g \in Procs, RecvStopped(g)
    PROVE  Simulates
<1>1. Finish(g, "stopped") /\ op[g].pc # "idle" /\ UNCHANGED goVars
  BY DEF RecvStopped
<1>2. QED
  BY <1>1, GiveUpIsSeen

LEMMA ClosedSimulates ==
    ASSUME TypeOK, FifoInv, NEW g \in Procs, NEW i \in 1..Len(op[g].cases),
           GoRecvClosed(g, i) \/ SendRecovers(g, i)
    PROVE  Simulates
<1>1. Ch(g, i) \in Chans /\ op[g].pc # "idle" /\ UNCHANGED goVars /\ goClosed[Ch(g, i)]
  BY CaseType, OfferIsUnderWay DEF GoRecvClosed, SendRecovers
<1>2. CASE GoRecvClosed(g, i)
  BY <1>1, <1>2, DrainIsSeen DEF GoRecvClosed
<1>3. CASE SendRecovers(g, i)
  BY <1>1, <1>3, FailIsSeen DEF SendRecovers
<1>4. QED
  BY <1>2, <1>3

LEMMA AppendAt ==
    ASSUME NEW S, NEW s \in Seq(S), NEW v \in S
    PROVE  Append(s, v)[Len(s) + 1] = v
  OBVIOUS

LEMMA NothingLeft ==
    ASSUME NEW m \in Nat, NEW n \in Nat, NEW k \in Nat, n = k + m, m <= 0
    PROVE  m = 0 /\ n = k
  OBVIOUS

LEMMA FollowsSend ==
    ASSUME NEW S, NEW q \in Seq(S), NEW s \in Seq(S), NEW r \in Seq(S), NEW v \in S,
           NEW n \in Nat, Follows(q, s, r, n), Len(q) < n
    PROVE  Follows(Append(q, v), Append(s, v), r, n)
<1> DEFINE t == Append(q, v)
           u == Append(s, v)
<1>1. Len(q) \in Nat /\ Len(s) \in Nat /\ Len(r) \in Nat /\ Len(s) = Len(r) + Len(q)
  BY DEF Follows
<1>2. Len(t) = Len(q) + 1 /\ Len(u) = Len(s) + 1
  OBVIOUS
<1>3. ASSUME NEW i \in 1..Len(t) PROVE t[i] = u[Len(r) + i]
  <2>1. CASE i = Len(q) + 1
    <3>1. t[i] = v
      BY <2>1, AppendAt
    <3>2. Len(r) + i = Len(s) + 1
      BY <1>1, <2>1
    <3>3. u[Len(s) + 1] = v
      BY AppendAt
    <3>4. QED
      BY <3>1, <3>2, <3>3
  <2>2. CASE i # Len(q) + 1
    <3>1. i \in 1..Len(q) /\ Len(r) + i \in 1..Len(s)
      BY <1>1, <1>2, <2>2
    <3>2. t[i] = q[i] /\ u[Len(r) + i] = s[Len(r) + i]
      BY <3>1
    <3>3. QED
      BY <3>1, <3>2 DEF Follows
  <2>3. QED
    BY <2>1, <2>2
<1>4. Len(u) = Len(r) + Len(t) /\ Len(t) <= n
  BY <1>1, <1>2
<1>5. QED
  BY <1>3, <1>4 DEF Follows

LEMMA FollowsRecv ==
    ASSUME NEW S, NEW q \in Seq(S), NEW s \in Seq(S), NEW r \in Seq(S), NEW n \in Nat,
           Follows(q, s, r, n), q # <<>>
    PROVE  Follows(Tail(q), s, Append(r, Head(q)), n)
<1> DEFINE t == Tail(q)
           u == Append(r, Head(q))
<1>1. Len(q) \in Nat /\ Len(s) \in Nat /\ Len(r) \in Nat /\ Len(q) >= 1
      /\ Len(s) = Len(r) + Len(q) /\ Len(q) <= n
  BY DEF Follows
<1>2. Len(t) = Len(q) - 1 /\ Len(u) = Len(r) + 1
  BY <1>1
<1>3. ASSUME NEW i \in 1..Len(t) PROVE t[i] = s[Len(u) + i]
  <2>1. t[i] = q[i + 1] /\ i + 1 \in 1..Len(q)
    BY <1>1, <1>2
  <2>2. Len(r) + (i + 1) = Len(u) + i
    BY <1>1, <1>2
  <2>3. QED
    BY <2>1, <2>2 DEF Follows
<1>4. Len(s) = Len(u) + Len(t) /\ Len(t) <= n
  BY <1>1, <1>2
<1>5. QED
  BY <1>3, <1>4 DEF Follows

LEMMA SendSimulates ==
    ASSUME TypeOK, FifoInv, NEW g \in Procs, NEW i \in 1..Len(op[g].cases), GoSend(g, i)
    PROVE  Simulates
<1>1. PICK c \in Chans : c = Ch(g, i)
  BY CaseType
<1>2. PICK v \in Values : v = ValueOf(g)
  BY ValueType, OfferIsUnderWay DEF GoSend
<1>3. op[g].pc # "idle" /\ Finish(g, "sent") /\ "sent" \in Results
  BY OfferIsUnderWay DEF GoSend, Results
<1>4. Untold' /\ Abstract!Told(g, "sent")
  BY <1>3, FinishTells DEF FifoInv
<1>5. /\ ~goClosed[c] /\ Len(buf[c]) < Cap[c]
      /\ buf' = [buf EXCEPT ![c] = Append(@, v)]
      /\ sent' = [sent EXCEPT ![c] = Append(@, v)]
      /\ UNCHANGED <<rcvd, goClosed>>
  BY <1>1, <1>2 DEF GoSend
<1>6. InOrder(c) /\ buf[c] \in Seq(Values) /\ sent[c] \in Seq(Values) /\ rcvd[c] \in Seq(Values)
      /\ Cap[c] \in Nat
  BY ChannelAssumption DEF FifoInv, TypeOK
<1>7. buf'[c] = Append(buf[c], v) /\ sent'[c] = Append(sent[c], v) /\ rcvd'[c] = rcvd[c]
  BY <1>5 DEF TypeOK
<1>8. InOrder(c)'
  BY <1>5, <1>6, <1>7, FollowsSend DEF InOrder
<1>9. \A d \in Chans : d # c => InOrder(d)'
  BY <1>5 DEF FifoInv, InOrder, TypeOK
<1>10. Abstract!Queued(c) < Cap[c]
  BY <1>5, <1>6 DEF InOrder, Follows, Abstract!Queued
<1>11. Abstract!Send(g, c, v)
  BY <1>4, <1>5, <1>10 DEF Abstract!Send
<1>12. Abstract!Next
  BY <1>11 DEF Abstract!Next
<1>13. QED
  BY <1>4, <1>8, <1>9, <1>12 DEF FifoInv, Simulates

LEMMA RecvSimulates ==
    ASSUME TypeOK, FifoInv, NEW g \in Procs, NEW i \in 1..Len(op[g].cases), GoRecv(g, i)
    PROVE  Simulates
<1>1. PICK c \in Chans : c = Ch(g, i)
  BY CaseType
<1>3. op[g].pc # "idle" /\ Finish(g, "received") /\ "received" \in Results
  BY OfferIsUnderWay DEF GoRecv, Results
<1>4. Untold' /\ Abstract!Told(g, "received")
  BY <1>3, FinishTells DEF FifoInv
<1>5. /\ buf[c] # <<>>
      /\ buf' = [buf EXCEPT ![c] = Tail(@)]
      /\ rcvd' = [rcvd EXCEPT ![c] = Append(@, Head(buf[c]))]
      /\ UNCHANGED <<sent, goClosed>>
  BY <1>1 DEF GoRecv
<1>6. InOrder(c) /\ buf[c] \in Seq(Values) /\ sent[c] \in Seq(Values) /\ rcvd[c] \in Seq(Values)
      /\ Cap[c] \in Nat
  BY ChannelAssumption DEF FifoInv, TypeOK
<1>7. buf'[c] = Tail(buf[c]) /\ rcvd'[c] = Append(rcvd[c], Head(buf[c])) /\ sent'[c] = sent[c]
  BY <1>5 DEF TypeOK
<1>8. InOrder(c)'
  BY <1>5, <1>6, <1>7, FollowsRecv DEF InOrder
<1>9. \A d \in Chans : d # c => InOrder(d)'
  BY <1>5 DEF FifoInv, InOrder, TypeOK
<1>10. Abstract!Queued(c) > 0
  BY <1>5, <1>6 DEF InOrder, Follows, Abstract!Queued
<1>11. Head(buf[c]) = sent[c][Len(rcvd[c]) + 1]
  BY <1>5, <1>6 DEF InOrder, Follows
<1>12. rcvd' = [rcvd EXCEPT ![c] = Append(@, sent[c][Len(@) + 1])]
  BY <1>5, <1>11 DEF TypeOK
<1>13. Abstract!Recv(g, c)
  BY <1>4, <1>5, <1>10, <1>12 DEF Abstract!Recv
<1>14. Abstract!Next
  BY <1>13 DEF Abstract!Next
<1>15. QED
  BY <1>4, <1>8, <1>9, <1>14 DEF FifoInv, Simulates

LEMMA RendezvousSimulates ==
    ASSUME TypeOK, FifoInv, NEW g \in Procs, NEW h \in Procs, NEW i \in 1..Len(op[g].cases),
           NEW j \in 1..Len(op[h].cases), GoRendezvous(g, i, h, j)
    PROVE  Simulates
<1>1. PICK c \in Chans : c = Ch(g, i)
  BY CaseType
<1>2. op[g].pc # "idle" /\ op[h].pc # "idle" /\ g # h
  BY OfferIsUnderWay DEF GoRendezvous
<1>3. PICK v \in Values : v = ValueOf(g)
  BY <1>2, ValueType
<1>4. /\ Cap[c] = 0 /\ ~goClosed[c]
      /\ sent' = [sent EXCEPT ![c] = Append(@, v)]
      /\ rcvd' = [rcvd EXCEPT ![c] = Append(@, v)]
      /\ op' = [op EXCEPT ![g] = Idle, ![h] = Idle]
      /\ result' = [result EXCEPT ![g] = "sent", ![h] = "received"]
      /\ UNCHANGED <<buf, goClosed>>
  BY <1>1, <1>3 DEF GoRendezvous
<1>5. Untold'
  BY <1>4 DEF FifoInv, Untold, TypeOK, Idle
<1>6. InOrder(c) /\ buf[c] \in Seq(Values) /\ sent[c] \in Seq(Values) /\ rcvd[c] \in Seq(Values)
  BY DEF FifoInv, TypeOK
<1>7. Len(buf[c]) = 0 /\ Len(sent[c]) = Len(rcvd[c])
  <2>1. Len(buf[c]) \in Nat /\ Len(sent[c]) \in Nat /\ Len(rcvd[c]) \in Nat
    BY <1>6
  <2>2. Len(buf[c]) <= 0 /\ Len(sent[c]) = Len(rcvd[c]) + Len(buf[c])
    BY <1>4, <1>6 DEF InOrder, Follows
  <2>3. QED
    BY <2>1, <2>2, NothingLeft
<1>8. buf'[c] = buf[c] /\ rcvd'[c] = Append(rcvd[c], v) /\ sent'[c] = Append(sent[c], v)
  BY <1>4 DEF TypeOK
<1>9. InOrder(c)'
  BY <1>4, <1>6, <1>7, <1>8 DEF InOrder, Follows
<1>10. \A d \in Chans : d # c => InOrder(d)'
  BY <1>4 DEF FifoInv, InOrder, TypeOK
<1>11. Abstract!Queued(c) = 0
  BY <1>6, <1>7 DEF Abstract!Queued
<1>12. result[g] = "none" /\ result[h] = "none"
  BY <1>2 DEF FifoInv, Untold
<1>13. Abstract!Rendezvous(g, h, c, v)
  BY <1>4, <1>11, <1>12 DEF Abstract!Rendezvous
<1>14. Abstract!Next
  BY <1>2, <1>13 DEF Abstract!Next
<1>15. QED
  BY <1>5, <1>9, <1>10, <1>14 DEF FifoInv, Simulates

LEMMA CloseSimulates ==
    ASSUME TypeOK, CloseInv, FifoInv, NEW g \in Procs, CloseFlag(g) \/ CloseGo(g)
    PROVE  Simulates
<1> DEFINE c == Ch(g, 1)
<1>1. c \in Chans /\ op[g].pc # "idle"
  BY CloseTarget DEF CloseFlag, CloseGo
<1>2. CASE CloseFlag(g) /\ flag[c]
  <2>1. Finish(g, "error") /\ mu[c] = NoProc /\ UNCHANGED goVars
    BY <1>2 DEF CloseFlag
  <2>2. goClosed[c]
    BY <1>1, <1>2, <2>1 DEF CloseInv, FlagCoversClose
  <2>3. QED
    BY <1>1, <2>1, <2>2, FailIsSeen
<1>3. CASE CloseFlag(g) /\ ~flag[c]
  <2>1. UNCHANGED <<goVars, result>> /\ \A k \in Procs \ {g} : op'[k] = op[k]
    BY <1>3 DEF CloseFlag, TypeOK
  <2>2. \A k \in Procs : op'[k].pc = op[k].pc \/ op[k].pc # "idle"
    BY <1>1, <2>1
  <2>3. QED
    BY <2>1, <2>2, Unseen
<1>4. CASE CloseGo(g)
  <2>1. Finish(g, "ok") /\ "ok" \in Results /\ goClosed' = [goClosed EXCEPT ![c] = TRUE]
        /\ UNCHANGED <<buf, sent, rcvd>>
    BY <1>4 DEF CloseGo, Results
  <2>2. Untold' /\ Abstract!Told(g, "ok")
    BY <1>1, <2>1, FinishTells DEF FifoInv
  <2>3. ~goClosed[c]
    BY <1>4 DEF CloseGo, CloseInv, CloserOwns
  <2>4. Abstract!Close(g, c)
    BY <2>1, <2>2, <2>3 DEF Abstract!Close
  <2>5. Abstract!Next
    BY <1>1, <2>4 DEF Abstract!Next
  <2>6. QED
    BY <2>1, <2>2, <2>5, QuietChannels DEF FifoInv, Simulates
<1>5. QED
  BY <1>2, <1>3, <1>4

LEMMA StepSimulates == TypeOK /\ CloseInv /\ FifoInv /\ [Next]_vars => Simulates
<1> SUFFICES ASSUME TypeOK, CloseInv, FifoInv, [Next]_vars PROVE Simulates
  OBVIOUS
<1>1. CASE UNCHANGED vars
  BY <1>1, Unseen DEF vars, goVars
<1>2. CASE Stop
  BY <1>2, Unseen DEF Stop
<1>3. ASSUME NEW g \in Procs, GoStep(g) PROVE Simulates
  BY <1>3, SendSimulates, RecvSimulates, ClosedSimulates, RendezvousSimulates DEF GoStep
<1>4. QED
  BY <1>1, <1>2, <1>3, StartSimulates, CheckSimulates, PollNextSimulates, StoppedSimulates,
     CloseSimulates DEF Next, Step

(* Send, Recv, TrySend, TryRecv, RecvOrStop, Close and both selects, with the
   flag, the mutex and the recovered panics, implement the bounded FIFO of
   ChannelSpec for any goroutines, channels, capacities and operations. *)
THEOREM Refinement == Spec => ImplementsChannelSpec
<1>1. Init => FifoInv /\ Abstract!Init
  BY ChannelAssumption DEF Init, FifoInv, Untold, InOrder, Follows, Idle, Abstract!Init
<1>2. TypeOK /\ CloseInv /\ FifoInv /\ [Next]_vars => FifoInv' /\ [Abstract!Next]_(Abstract!vars)
  BY StepSimulates DEF Simulates
<1>3. QED
  BY <1>1, <1>2, TypeCorrect, CloseInvariant, PTL DEF Spec, ImplementsChannelSpec, Abstract!Spec
=============================================================================
