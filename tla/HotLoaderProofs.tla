--------------------------- MODULE HotLoaderProofs ---------------------------
(***************************************************************************)
(* Theorems about HotLoader for any number of hosts, instances and texts.  *)
(***************************************************************************)
EXTENDS HotLoader, TLAPS

(* What each call in progress owns. *)
OpFitsStep(h) ==
    /\ call[h].pc = "idle" <=> call[h].op = "none"
    /\ call[h].pc = "peek" => call[h].op = "ReloadIfChanged"
    /\ call[h].pc = "call" => call[h].op = "Call"
    /\ call[h].op = "Call" => call[h].pc \in {"lockInst", "call"}
    /\ call[h].pc = "lockInst" => call[h].op \in InstOps
    /\ call[h].pc \in {"run", "adopt"} =>
          call[h].op \in {"LoadInstance", "Reload", "ReloadIfChanged"}
    /\ call[h].op \in {"LoadInstance"} \cup InstOps => call[h].inst \in Insts

LoaderOwned(h) ==
    \/ call[h].pc \in {"read", "compile"}
    \/ call[h].op \in LoaderOps /\ call[h].pc \in {"load", "store"}

InstOwned(h) ==
    call[h].op \in InstOps
      /\ call[h].pc \in {"run", "load", "store", "adopt", "call"}

Ownership ==
    /\ \A h \in Hosts : OpFitsStep(h)
    /\ \A h \in Hosts : LoaderOwned(h) => loaderMu = h
    /\ \A h \in Hosts : InstOwned(h) => instMu[call[h].inst] = h
    /\ \A h \in Hosts : call[h].op = "LoadInstance" => life[call[h].inst] = "loading"
    /\ \A h \in Hosts : call[h].op \in InstOps => life[call[h].inst] = "live"
    /\ \A g, h \in Hosts :
          call[g].op = "LoadInstance" /\ call[h].op = "LoadInstance"
            /\ call[g].inst = call[h].inst => g = h

LEMMA IdleType == Idle \in Calls
  BY DEF Idle, Calls, Steps, Source, NoSource, AllOps

(* A step keeps the types: Ownership tells that the calls on an instance name
   one. *)
LEMMA TypeStep == TypeOK /\ Ownership /\ [Next]_vars => TypeOK'
<1> SUFFICES ASSUME TypeOK, Ownership, [Next]_vars PROVE TypeOK'
  OBVIOUS
<1> USE ConstantsAssumption, IdleType
<1>1. ASSUME NEW h \in Hosts, NEW o \in Ops, NEW i \in Insts \cup {NoInst}, Begin(h, o, i)
      PROVE TypeOK'
  BY <1>1 DEF TypeOK, Begin, Calls, Steps, Idle, AllOps, LoaderOps, InstOps
<1>2. ASSUME NEW h \in Hosts, Peek(h) PROVE TypeOK'
  <2>1. call[h].inst \in Insts
    BY <1>2 DEF Peek, Ownership, OpFitsStep, InstOps
  <2>2. applied[call[h].inst].src.text \in Texts \cup {NoFile}
    BY <2>1 DEF TypeOK, Snapshot, Source
  <2> DEFINE c == [call[h] EXCEPT !.pc = "lockLoader",
                                  !.seen = applied[call[h].inst].src.text]
  <2>3. call' = [call EXCEPT ![h] = c]
    BY <1>2 DEF TypeOK, Peek
  <2>4. c \in Calls
    BY <2>2, call[h] \in Calls DEF TypeOK, Calls, Steps
  <2>5. QED
    BY <1>2, <2>3, <2>4 DEF TypeOK, Peek
<1>3. ASSUME NEW h \in Hosts, LockLoader(h) PROVE TypeOK'
  BY <1>3 DEF TypeOK, LockLoader, Goto, Calls, Steps
<1>4. ASSUME NEW h \in Hosts, Read(h) PROVE TypeOK'
  BY <1>4 DEF TypeOK, Read, Abandon, Return, Calls, Steps
<1>5. ASSUME NEW h \in Hosts, Compile(h) PROVE TypeOK'
  BY <1>5 DEF TypeOK, Compile, Abandon, Return, Goto, Calls, Steps
<1>6. ASSUME NEW h \in Hosts, LockInst(h) PROVE TypeOK'
  BY <1>6 DEF TypeOK, LockInst, Return, Goto, Calls, Steps
<1>7. ASSUME NEW h \in Hosts, CallFunction(h) PROVE TypeOK'
  BY <1>7 DEF TypeOK, CallFunction, Return, Unlock
<1>8. ASSUME NEW h \in Hosts, ApplyProgram(h) PROVE TypeOK'
  BY <1>8 DEF TypeOK, ApplyProgram, Abandon, Return, Unlock, Goto, Calls, Steps
<1>9. ASSUME NEW h \in Hosts, InstallLoad(h) PROVE TypeOK'
  <2>1. current.gen \in Nat
    BY DEF TypeOK, Snapshot
  <2> DEFINE c == [call[h] EXCEPT !.pc = "store", !.base = current.gen]
  <2>2. call' = [call EXCEPT ![h] = c]
    BY <1>9 DEF TypeOK, InstallLoad
  <2>3. c \in Calls
    BY <2>1, call[h] \in Calls DEF TypeOK, Calls, Steps
  <2>4. QED
    BY <1>9, <2>2, <2>3 DEF TypeOK, InstallLoad
<1>10. ASSUME NEW h \in Hosts, InstallStore(h) PROVE TypeOK'
  <2>1. current' \in Snapshot
    BY <1>10, call[h] \in Calls DEF TypeOK, InstallStore, Calls, Snapshot
  <2>2. call' \in [Hosts -> Calls]
    BY <1>10 DEF TypeOK, InstallStore, Return, Goto, Calls, Steps
  <2>3. QED
    BY <1>10, <2>1, <2>2 DEF TypeOK, InstallStore
<1>11. ASSUME NEW h \in Hosts, Adopt(h) PROVE TypeOK'
  BY <1>11 DEF TypeOK, Adopt, Return, Unlock
<1>12. ASSUME NEW h \in Hosts, Cancel(h) PROVE TypeOK'
  BY <1>12 DEF TypeOK, Cancel, Calls
<1>13. ASSUME NEW t \in Texts \cup {NoFile}, Edit(t) PROVE TypeOK'
  BY <1>13 DEF TypeOK, Edit, Source
<1>14. CASE UNCHANGED vars
  BY <1>14 DEF TypeOK, vars
<1>15. QED
  BY <1>1, <1>2, <1>3, <1>4, <1>5, <1>6, <1>7, <1>8, <1>9, <1>10, <1>11, <1>12,
     <1>13, <1>14 DEF Next, Step

(* Returning releases what the call owned, and nothing of anybody else. *)
LEMMA ReturnStep ==
  ASSUME TypeOK, Ownership, NEW h \in Hosts, Return(h),
         \A g \in Hosts \ {h} : loaderMu = g => loaderMu' = g,
         \A g \in Hosts \ {h}, i \in Insts : instMu[i] = g => instMu'[i] = g,
         \A i \in Insts : life'[i] # life[i] =>
             call[h].op = "LoadInstance" /\ call[h].inst = i
  PROVE  Ownership'
<1>1. call'[h] = Idle /\ \A g \in Hosts \ {h} : call'[g] = call[g]
  BY DEF Return, TypeOK
<1>2. \A g \in Hosts : OpFitsStep(g)'
  BY <1>1 DEF Ownership, OpFitsStep, Idle, InstOps
<1>3. \A g \in Hosts : LoaderOwned(g)' => loaderMu' = g
  BY <1>1 DEF Ownership, LoaderOwned, Idle, LoaderOps
<1>4. \A g \in Hosts : InstOwned(g)' => instMu'[call'[g].inst] = g
  BY <1>1 DEF Ownership, OpFitsStep, InstOwned, Idle, InstOps
<1>5. \A g \in Hosts : call'[g].op = "LoadInstance" => life'[call'[g].inst] = "loading"
  BY <1>1 DEF Ownership, OpFitsStep, Idle
<1>6. \A g \in Hosts : call'[g].op \in InstOps => life'[call'[g].inst] = "live"
  BY <1>1 DEF Ownership, OpFitsStep, Idle, InstOps
<1>7. \A f, g \in Hosts :
         call'[f].op = "LoadInstance" /\ call'[g].op = "LoadInstance"
           /\ call'[f].inst = call'[g].inst => f = g
  BY <1>1 DEF Ownership, Idle
<1>8. QED
  BY <1>2, <1>3, <1>4, <1>5, <1>6, <1>7 DEF Ownership

(* A step of a call that goes on: it changes neither its operation nor its
   instance, and owns what its new place requires. *)
LEMMA GoOnStep ==
  ASSUME TypeOK, Ownership, NEW h \in Hosts, UNCHANGED life,
         call[h].op # "none",
         call'[h].op = call[h].op, call'[h].inst = call[h].inst,
         \A g \in Hosts \ {h} : call'[g] = call[g],
         OpFitsStep(h)', LoaderOwned(h)' => loaderMu' = h,
         InstOwned(h)' => instMu'[call[h].inst] = h,
         \A g \in Hosts \ {h} : loaderMu = g => loaderMu' = g,
         \A g \in Hosts \ {h}, i \in Insts : instMu[i] = g => instMu'[i] = g
  PROVE  Ownership'
<1>1. \A g \in Hosts : OpFitsStep(g)'
  BY DEF Ownership, OpFitsStep
<1>2. \A g \in Hosts : LoaderOwned(g)' => loaderMu' = g
  BY DEF Ownership, LoaderOwned
<1>3. \A g \in Hosts : InstOwned(g)' => instMu'[call'[g].inst] = g
  BY DEF Ownership, OpFitsStep, InstOwned
<1>4. \A g \in Hosts : call'[g].op = "LoadInstance" => life'[call'[g].inst] = "loading"
  BY DEF Ownership
<1>5. \A g \in Hosts : call'[g].op \in InstOps => life'[call'[g].inst] = "live"
  BY DEF Ownership
<1>6. \A f, g \in Hosts :
         call'[f].op = "LoadInstance" /\ call'[g].op = "LoadInstance"
           /\ call'[f].inst = call'[g].inst => f = g
  BY DEF Ownership
<1>7. QED
  BY <1>1, <1>2, <1>3, <1>4, <1>5, <1>6 DEF Ownership

(* A step keeps the ownership of the two mutexes and of the instances. *)
LEMMA OwnershipStep == TypeOK /\ Ownership /\ [Next]_vars => Ownership'
<1> SUFFICES ASSUME TypeOK, Ownership, [Next]_vars PROVE Ownership'
  OBVIOUS
<1> USE ConstantsAssumption
<1>1. ASSUME NEW h \in Hosts, NEW o \in Ops, NEW i \in Insts \cup {NoInst}, Begin(h, o, i)
      PROVE Ownership'
  BY <1>1 DEF Begin, Ownership, OpFitsStep, LoaderOwned, InstOwned, TypeOK, Calls, Steps, AllOps, LoaderOps, InstOps, Idle
<1>2. ASSUME NEW h \in Hosts, Peek(h) PROVE Ownership'
  <2>1. call'[h].op = call[h].op /\ call'[h].inst = call[h].inst /\ call'[h].pc = "lockLoader"
    BY <1>2 DEF Peek, TypeOK, Calls
  <2>2. \A g \in Hosts \ {h} : call'[g] = call[g]
    BY <1>2 DEF Peek, TypeOK
  <2>3. OpFitsStep(h)'
    BY <1>2, <2>1 DEF Peek, Ownership, OpFitsStep, AllOps, LoaderOps, InstOps
  <2>4. QED
    BY <1>2, <2>1, <2>2, <2>3, GoOnStep
       DEF Peek, Ownership, OpFitsStep, LoaderOwned, InstOwned, TypeOK, LoaderOps, InstOps
<1>3. ASSUME NEW h \in Hosts, LockLoader(h) PROVE Ownership'
  <2>1. call'[h].op = call[h].op /\ call'[h].inst = call[h].inst /\ call'[h].pc = "read"
    BY <1>3 DEF LockLoader, Goto, TypeOK, Calls
  <2>2. \A g \in Hosts \ {h} : call'[g] = call[g]
    BY <1>3 DEF LockLoader, Goto, TypeOK
  <2>3. OpFitsStep(h)'
    BY <1>3, <2>1 DEF LockLoader, Goto, Ownership, OpFitsStep, AllOps, LoaderOps, InstOps
  <2>4. QED
    BY <1>3, <2>1, <2>2, <2>3, GoOnStep
       DEF LockLoader, Goto, Ownership, OpFitsStep, LoaderOwned, InstOwned, TypeOK, LoaderOps, InstOps
<1>4. ASSUME NEW h \in Hosts, Read(h) PROVE Ownership'
  <2>1. CASE ReadStops(h)
    <3>1. Return(h)
      BY <1>4, <2>1 DEF Read, Abandon
    <3>2. \A g \in Hosts \ {h} : loaderMu = g => loaderMu' = g
      BY <1>4, <2>1 DEF Read, Abandon, Ownership, LoaderOwned, LoaderOps
    <3>3. \A g \in Hosts \ {h}, i \in Insts : instMu[i] = g => instMu'[i] = g
      BY <1>4, <2>1 DEF Read, Abandon, Ownership, OpFitsStep, InstOwned, InstOps, TypeOK
    <3>4. \A i \in Insts : life'[i] # life[i] =>
             call[h].op = "LoadInstance" /\ call[h].inst = i
      BY <1>4, <2>1 DEF Read, Abandon, TypeOK
    <3>5. QED
      BY <3>1, <3>2, <3>3, <3>4, ReturnStep
  <2>2. CASE ~(ReadStops(h))
    <3>1. call'[h].op = call[h].op /\ call'[h].inst = call[h].inst /\ call'[h].pc = "compile"
      BY <1>4, <2>2 DEF Read, TypeOK, Calls
    <3>2. \A g \in Hosts \ {h} : call'[g] = call[g]
      BY <1>4, <2>2 DEF Read, TypeOK
    <3>3. OpFitsStep(h)'
      BY <1>4, <2>2, <3>1 DEF Read, Ownership, OpFitsStep, AllOps, LoaderOps, InstOps
    <3>4. QED
      BY <1>4, <2>2, <3>1, <3>2, <3>3, GoOnStep
         DEF Read, Ownership, OpFitsStep, LoaderOwned, InstOwned, TypeOK, LoaderOps, InstOps
  <2>3. QED
    BY <2>1, <2>2
<1>5. ASSUME NEW h \in Hosts, Compile(h) PROVE Ownership'
  <2>1. CASE call[h].src.text \in BadSyntax \/ call[h].ctx = "done"
    <3>1. Return(h)
      BY <1>5, <2>1 DEF Compile, Abandon
    <3>2. \A g \in Hosts \ {h} : loaderMu = g => loaderMu' = g
      BY <1>5, <2>1 DEF Compile, Abandon, Ownership, LoaderOwned, LoaderOps
    <3>3. \A g \in Hosts \ {h}, i \in Insts : instMu[i] = g => instMu'[i] = g
      BY <1>5, <2>1 DEF Compile, Abandon, Ownership, OpFitsStep, InstOwned, InstOps, TypeOK
    <3>4. \A i \in Insts : life'[i] # life[i] =>
             call[h].op = "LoadInstance" /\ call[h].inst = i
      BY <1>5, <2>1 DEF Compile, Abandon, TypeOK
    <3>5. QED
      BY <3>1, <3>2, <3>3, <3>4, ReturnStep
  <2>2. CASE ~(call[h].src.text \in BadSyntax \/ call[h].ctx = "done")
    <3>1. call'[h].op = call[h].op /\ call'[h].inst = call[h].inst /\ call'[h].pc = (CASE call[h].op \in LoaderOps -> "load"
             [] call[h].op = "LoadInstance" -> "run" [] OTHER -> "lockInst")
      BY <1>5, <2>2 DEF Compile, Goto, KeepsLoaderMu, TypeOK, Calls
    <3>2. \A g \in Hosts \ {h} : call'[g] = call[g]
      BY <1>5, <2>2 DEF Compile, Goto, KeepsLoaderMu, TypeOK
    <3>3. OpFitsStep(h)'
      BY <1>5, <2>2, <3>1, call[h].op \in AllOps \cup {"none"}
         DEF Compile, Goto, KeepsLoaderMu, Ownership, OpFitsStep, AllOps, LoaderOps, InstOps, TypeOK, Calls
    <3>4. QED
      BY <1>5, <2>2, <3>1, <3>2, <3>3, GoOnStep
         DEF Compile, Goto, KeepsLoaderMu, Ownership, OpFitsStep, LoaderOwned, InstOwned, TypeOK, LoaderOps, InstOps
  <2>3. QED
    BY <2>1, <2>2
<1>6. ASSUME NEW h \in Hosts, LockInst(h) PROVE Ownership'
  <2>1. CASE LockInstStops(h)
    <3>1. Return(h)
      BY <1>6, <2>1 DEF LockInst
    <3>2. \A g \in Hosts \ {h} : loaderMu = g => loaderMu' = g
      BY <1>6, <2>1 DEF LockInst, Ownership, LoaderOwned, LoaderOps
    <3>3. \A g \in Hosts \ {h}, i \in Insts : instMu[i] = g => instMu'[i] = g
      BY <1>6, <2>1 DEF LockInst, Ownership, OpFitsStep, InstOwned, InstOps, TypeOK
    <3>4. \A i \in Insts : life'[i] # life[i] =>
             call[h].op = "LoadInstance" /\ call[h].inst = i
      BY <1>6, <2>1 DEF LockInst, TypeOK
    <3>5. QED
      BY <3>1, <3>2, <3>3, <3>4, ReturnStep
  <2>2. CASE ~(LockInstStops(h))
    <3>1. call'[h].op = call[h].op /\ call'[h].inst = call[h].inst /\ call'[h].pc = (IF call[h].op = "Call" THEN "call" ELSE "run")
      BY <1>6, <2>2 DEF LockInst, Goto, TypeOK, Calls
    <3>2. \A g \in Hosts \ {h} : call'[g] = call[g]
      BY <1>6, <2>2 DEF LockInst, Goto, TypeOK
    <3>3. OpFitsStep(h)'
      BY <1>6, <2>2, <3>1 DEF LockInst, Goto, Ownership, OpFitsStep, AllOps, LoaderOps, InstOps
    <3>4. QED
      BY <1>6, <2>2, <3>1, <3>2, <3>3, GoOnStep
         DEF LockInst, Goto, Ownership, OpFitsStep, LoaderOwned, InstOwned, TypeOK, LoaderOps, InstOps
  <2>3. QED
    BY <2>1, <2>2
<1>7. ASSUME NEW h \in Hosts, CallFunction(h) PROVE Ownership'
  <2>1. Return(h)
    BY <1>7 DEF CallFunction, Unlock, HoldsInstMu
  <2>2. \A g \in Hosts \ {h} : loaderMu = g => loaderMu' = g
    BY <1>7 DEF CallFunction, Unlock, HoldsInstMu, Ownership, LoaderOwned, LoaderOps
  <2>3. \A g \in Hosts \ {h}, i \in Insts : instMu[i] = g => instMu'[i] = g
    BY <1>7 DEF CallFunction, Unlock, HoldsInstMu, Ownership, OpFitsStep, InstOwned, InstOps, TypeOK
  <2>4. \A i \in Insts : life'[i] # life[i] =>
             call[h].op = "LoadInstance" /\ call[h].inst = i
    BY <1>7 DEF CallFunction, Unlock, HoldsInstMu, TypeOK
  <2>5. QED
    BY <2>1, <2>2, <2>3, <2>4, ReturnStep
<1>8. ASSUME NEW h \in Hosts, ApplyProgram(h) PROVE Ownership'
  <2>1. CASE call[h].src.text \in BadRun \/ call[h].ctx = "done"
    <3>1. Return(h)
      BY <1>8, <2>1 DEF ApplyProgram, Abandon, Unlock, HoldsInstMu
    <3>2. \A g \in Hosts \ {h} : loaderMu = g => loaderMu' = g
      BY <1>8, <2>1 DEF ApplyProgram, Abandon, Unlock, HoldsInstMu, Ownership, LoaderOwned, LoaderOps
    <3>3. \A g \in Hosts \ {h}, i \in Insts : instMu[i] = g => instMu'[i] = g
      BY <1>8, <2>1 DEF ApplyProgram, Abandon, Unlock, HoldsInstMu, Ownership, OpFitsStep, InstOwned, InstOps, TypeOK
    <3>4. \A i \in Insts : life'[i] # life[i] =>
             call[h].op = "LoadInstance" /\ call[h].inst = i
      BY <1>8, <2>1 DEF ApplyProgram, Abandon, Unlock, HoldsInstMu, TypeOK
    <3>5. QED
      BY <3>1, <3>2, <3>3, <3>4, ReturnStep
  <2>2. CASE ~(call[h].src.text \in BadRun \/ call[h].ctx = "done")
    <3>1. call'[h].op = call[h].op /\ call'[h].inst = call[h].inst /\ call'[h].pc = "load"
      BY <1>8, <2>2 DEF ApplyProgram, Goto, TypeOK, Calls
    <3>2. \A g \in Hosts \ {h} : call'[g] = call[g]
      BY <1>8, <2>2 DEF ApplyProgram, Goto, TypeOK
    <3>3. OpFitsStep(h)'
      BY <1>8, <2>2, <3>1 DEF ApplyProgram, Goto, Ownership, OpFitsStep, AllOps, LoaderOps, InstOps
    <3>4. QED
      BY <1>8, <2>2, <3>1, <3>2, <3>3, GoOnStep
         DEF ApplyProgram, Goto, Ownership, OpFitsStep, LoaderOwned, InstOwned, TypeOK, LoaderOps, InstOps
  <2>3. QED
    BY <2>1, <2>2
<1>9. ASSUME NEW h \in Hosts, InstallLoad(h) PROVE Ownership'
  <2>1. call'[h].op = call[h].op /\ call'[h].inst = call[h].inst /\ call'[h].pc = "store"
    BY <1>9 DEF InstallLoad, TypeOK, Calls
  <2>2. \A g \in Hosts \ {h} : call'[g] = call[g]
    BY <1>9 DEF InstallLoad, TypeOK
  <2>3. OpFitsStep(h)'
    BY <1>9, <2>1 DEF InstallLoad, Ownership, OpFitsStep, AllOps, LoaderOps, InstOps
  <2>4. QED
    BY <1>9, <2>1, <2>2, <2>3, GoOnStep
       DEF InstallLoad, Ownership, OpFitsStep, LoaderOwned, InstOwned, TypeOK, LoaderOps, InstOps
<1>10. ASSUME NEW h \in Hosts, InstallStore(h) PROVE Ownership'
  <2>1. CASE KeepsLoaderMu(h)
    <3>1. Return(h)
      BY <1>10, <2>1 DEF InstallStore, KeepsLoaderMu
    <3>2. \A g \in Hosts \ {h} : loaderMu = g => loaderMu' = g
      BY <1>10, <2>1 DEF InstallStore, KeepsLoaderMu, Ownership, LoaderOwned, LoaderOps
    <3>3. \A g \in Hosts \ {h}, i \in Insts : instMu[i] = g => instMu'[i] = g
      BY <1>10, <2>1 DEF InstallStore, KeepsLoaderMu, Ownership, OpFitsStep, InstOwned, InstOps, TypeOK
    <3>4. \A i \in Insts : life'[i] # life[i] =>
             call[h].op = "LoadInstance" /\ call[h].inst = i
      BY <1>10, <2>1 DEF InstallStore, KeepsLoaderMu, TypeOK
    <3>5. QED
      BY <3>1, <3>2, <3>3, <3>4, ReturnStep
  <2>2. CASE ~(KeepsLoaderMu(h))
    <3>1. call'[h].op = call[h].op /\ call'[h].inst = call[h].inst /\ call'[h].pc = "adopt"
      BY <1>10, <2>2 DEF InstallStore, Goto, KeepsLoaderMu, TypeOK, Calls
    <3>2. \A g \in Hosts \ {h} : call'[g] = call[g]
      BY <1>10, <2>2 DEF InstallStore, Goto, KeepsLoaderMu, TypeOK
    <3>3. OpFitsStep(h)'
      BY <1>10, <2>2, <3>1, call[h] \in Calls, call[h].op \in AllOps \cup {"none"}
         DEF InstallStore, Goto, KeepsLoaderMu, Ownership, OpFitsStep, AllOps, LoaderOps, InstOps, TypeOK, Calls
    <3>4. QED
      BY <1>10, <2>2, <3>1, <3>2, <3>3, GoOnStep
         DEF InstallStore, Goto, KeepsLoaderMu, Ownership, OpFitsStep, LoaderOwned, InstOwned, TypeOK, LoaderOps, InstOps
  <2>3. QED
    BY <2>1, <2>2
<1>11. ASSUME NEW h \in Hosts, Adopt(h) PROVE Ownership'
  <2>1. Return(h)
    BY <1>11 DEF Adopt, Unlock, HoldsInstMu
  <2>2. \A g \in Hosts \ {h} : loaderMu = g => loaderMu' = g
    BY <1>11 DEF Adopt, Unlock, HoldsInstMu, Ownership, LoaderOwned, LoaderOps
  <2>3. \A g \in Hosts \ {h}, i \in Insts : instMu[i] = g => instMu'[i] = g
    BY <1>11 DEF Adopt, Unlock, HoldsInstMu, Ownership, OpFitsStep, InstOwned, InstOps, TypeOK
  <2>4. \A i \in Insts : life'[i] # life[i] =>
             call[h].op = "LoadInstance" /\ call[h].inst = i
    BY <1>11 DEF Adopt, Ownership, OpFitsStep, InstOps, TypeOK
  <2>5. QED
    BY <2>1, <2>2, <2>3, <2>4, ReturnStep
<1>12. ASSUME NEW h \in Hosts, Cancel(h) PROVE Ownership'
  <2>1. call'[h].op = call[h].op /\ call'[h].inst = call[h].inst /\ call'[h].pc = call[h].pc
    BY <1>12 DEF Cancel, TypeOK, Calls
  <2>2. \A g \in Hosts \ {h} : call'[g] = call[g]
    BY <1>12 DEF Cancel, TypeOK
  <2>3. OpFitsStep(h)'
    BY <1>12, <2>1 DEF Cancel, Ownership, OpFitsStep, AllOps, LoaderOps, InstOps
  <2>4. QED
    BY <1>12, <2>1, <2>2, <2>3, GoOnStep
       DEF Cancel, Ownership, OpFitsStep, LoaderOwned, InstOwned, TypeOK, LoaderOps, InstOps
<1>13. ASSUME NEW t \in Texts \cup {NoFile}, Edit(t) PROVE Ownership'
  BY <1>13 DEF Edit, Ownership, OpFitsStep, LoaderOwned, InstOwned
<1>14. CASE UNCHANGED vars
  BY <1>14 DEF vars, Ownership, OpFitsStep, LoaderOwned, InstOwned
<1>15. QED
  BY <1>1, <1>2, <1>3, <1>4, <1>5, <1>6, <1>7, <1>8, <1>9, <1>10, <1>11, <1>12,
     <1>13, <1>14 DEF Next, Step

LEMMA Invariance == Spec => [](TypeOK /\ Ownership)
<1>1. Init => TypeOK
  BY ConstantsAssumption, IdleType
     DEF Init, TypeOK, Source, Snapshot, NoSource, NoSnapshot
<1>2. Init => Ownership
  BY DEF Init, Ownership, OpFitsStep, LoaderOwned, InstOwned, Idle, LoaderOps, InstOps
<1>3. QED
  BY <1>1, <1>2, TypeStep, OwnershipStep, PTL DEF Spec

(* The variables of the hot-reload API keep their types in every behaviour. *)
THEOREM TypeCorrect == Spec => []TypeOK
  BY Invariance, PTL

(* inst.mu, and the fact that LoadInstance shows the instance to nobody until
   it returns, keep the VM of an instance to one goroutine. *)
THEOREM VMExclusion == Spec => []VMExclusive
<1>1. TypeOK /\ Ownership => VMExclusive
  BY DEF TypeOK, Ownership, OpFitsStep, InstOwned, VMExclusive, UsesVM, Calls, AllOps,
         LoaderOps, InstOps
<1>2. QED
  BY <1>1, Invariance, PTL

-----------------------------------------------------------------------------
(* An application that uses the loader's own methods only. *)

(* Between the two steps of install nobody else publishes: the generation
   read is still the current one, and the source in hand is not older than
   the published one. *)
Serialised ==
    /\ current.src.rev <= disk.rev
    /\ \A h \in Hosts :
          /\ call[h].op \in LoaderOps \cup {"none"}
          /\ call[h].pc \in {"compile", "load", "store"} =>
                /\ call[h].src.rev >= current.src.rev
                /\ call[h].src.rev <= disk.rev
          /\ call[h].pc = "store" => call[h].base = current.gen

(* A step of a call that holds loader.mu leaves no other call in a place that
   needs it. *)
LEMMA SerialisedStep ==
  ASSUME Ops \subseteq LoaderOps
  PROVE  TypeOK /\ Ownership /\ Serialised /\ [Next]_vars => Serialised'
<1> SUFFICES ASSUME TypeOK, Ownership, Serialised, [Next]_vars PROVE Serialised'
  OBVIOUS
<1> USE ConstantsAssumption
<1>1. ASSUME NEW h \in Hosts, NEW o \in Ops, NEW i \in Insts \cup {NoInst}, Begin(h, o, i)
      PROVE Serialised'
  BY <1>1 DEF Begin, Serialised, TypeOK, Idle, LoaderOps
<1>2. ASSUME NEW h \in Hosts, Peek(h) \/ LockInst(h) \/ CallFunction(h)
                              \/ ApplyProgram(h) \/ Adopt(h)
      PROVE FALSE
  BY <1>2 DEF Peek, LockInst, CallFunction, ApplyProgram, Adopt, Serialised, Ownership,
              OpFitsStep, LoaderOps, InstOps
<1>3. ASSUME NEW h \in Hosts, LockLoader(h) PROVE Serialised'
  BY <1>3 DEF LockLoader, Goto, Serialised, TypeOK, Calls
<1>4. ASSUME NEW h \in Hosts, Read(h) PROVE Serialised'
  <2>1. CASE ReadStops(h)
    BY <1>4, <2>1 DEF Read, Abandon, Return, Idle, Serialised, TypeOK
  <2>2. CASE ~ReadStops(h)
    <3>1. call'[h].pc = "compile" /\ call'[h].src = disk /\ call'[h].op = call[h].op
      BY <1>4, <2>2 DEF Read, TypeOK, Calls
    <3>2. \A g \in Hosts \ {h} : call'[g] = call[g]
      BY <1>4, <2>2 DEF Read, TypeOK
    <3>3. UNCHANGED <<disk, current>> /\ disk.rev \in Nat
      BY <1>4 DEF Read, TypeOK, Source
    <3>4. QED
      BY <3>1, <3>2, <3>3 DEF Serialised
  <2>3. QED
    BY <2>1, <2>2
<1>5. ASSUME NEW h \in Hosts, Compile(h) PROVE Serialised'
  <2>1. CASE call[h].src.text \in BadSyntax \/ call[h].ctx = "done"
    BY <1>5, <2>1 DEF Compile, Abandon, Return, Idle, Serialised, TypeOK
  <2>2. CASE ~(call[h].src.text \in BadSyntax \/ call[h].ctx = "done")
    BY <1>5, <2>2 DEF Compile, Goto, Serialised, Ownership, OpFitsStep, TypeOK, Calls
  <2>3. QED
    BY <2>1, <2>2
<1>6. ASSUME NEW h \in Hosts, InstallLoad(h) PROVE Serialised'
  <2>1. call'[h].pc = "store" /\ call'[h].base = current.gen /\ call'[h].src = call[h].src
        /\ call'[h].op = call[h].op
    BY <1>6 DEF InstallLoad, TypeOK, Calls
  <2>2. \A g \in Hosts \ {h} : call'[g] = call[g]
    BY <1>6 DEF InstallLoad, TypeOK
  <2>3. QED
    BY <1>6, <2>1, <2>2 DEF InstallLoad, Serialised
<1>7. ASSUME NEW h \in Hosts, InstallStore(h) PROVE Serialised'
  <2>1. call[h].op \in LoaderOps
    BY <1>7 DEF InstallStore, Serialised, Ownership, OpFitsStep
  <2>2. call'[h] = Idle /\ \A g \in Hosts \ {h} : call'[g] = call[g]
    BY <1>7, <2>1 DEF InstallStore, KeepsLoaderMu, Return, TypeOK
  <2>3. \A g \in Hosts \ {h} : call[g].pc \notin {"compile", "load", "store"}
    BY <1>7, <2>1 DEF InstallStore, Ownership, OpFitsStep, LoaderOwned, Serialised
  <2>4. current'.src = call[h].src /\ disk' = disk
    BY <1>7 DEF InstallStore
  <2>5. QED
    BY <1>7, <2>2, <2>3, <2>4 DEF InstallStore, Serialised, Idle
<1>8. ASSUME NEW h \in Hosts, Cancel(h) PROVE Serialised'
  BY <1>8 DEF Cancel, Serialised, TypeOK, Calls
<1>9. ASSUME NEW t \in Texts \cup {NoFile}, Edit(t) PROVE Serialised'
  BY <1>9 DEF Edit, Serialised, TypeOK, Source, Snapshot, Calls
<1>10. CASE UNCHANGED vars
  BY <1>10 DEF vars, Serialised
<1>11. QED
  BY <1>1, <1>2, <1>3, <1>4, <1>5, <1>6, <1>7, <1>8, <1>9, <1>10 DEF Next, Step

LEMMA SerialisedInit == Init => Serialised
  BY DEF Init, Serialised, Idle, NoSnapshot, NoSource, LoaderOps

(* Only the store of install changes the current snapshot. *)
LEMMA OnlyStorePublishes ==
  [Next]_vars /\ current' # current => \E h \in Hosts : InstallStore(h)
  BY DEF Next, vars, Begin, Step, Peek, LockLoader, Read, Compile, LockInst, CallFunction,
         ApplyProgram, InstallLoad, Adopt, Cancel, Edit

(* As long as the application stays with Load, Reload and ReloadIfChanged of
   the loader, each publication has the next generation number, for any number
   of goroutines: loader.mu makes the two steps of install one. *)
THEOREM GenerationsInSequence ==
  ASSUME Ops \subseteq LoaderOps
  PROVE  Spec => GenerationAdvances
<1>1. TypeOK /\ Serialised /\ [Next]_vars => [current'.gen = current.gen + 1]_current
  BY OnlyStorePublishes DEF InstallStore, Serialised
<1>2. QED
  BY <1>1, Invariance, SerialisedInit, SerialisedStep, PTL DEF Spec, GenerationAdvances

(* And it replaces a program by one that was read from the file later. *)
THEOREM PublishedInOrder ==
  ASSUME Ops \subseteq LoaderOps
  PROVE  Spec => PublishedInReadOrder
<1>1. TypeOK /\ Serialised /\ [Next]_vars => [current'.src.rev >= current.src.rev]_current
  BY OnlyStorePublishes DEF InstallStore, Serialised
<1>2. QED
  BY <1>1, Invariance, SerialisedInit, SerialisedStep, PTL DEF Spec, PublishedInReadOrder
-----------------------------------------------------------------------------
(* What is published compiled, and what an instance runs also ran. *)

HasProgram(h) ==
    \/ call[h].pc \in {"run", "load", "store", "adopt"}
    \/ call[h].pc = "lockInst" /\ call[h].op # "Call"

HasRun(h) == call[h].pc \in {"load", "store", "adopt"} /\ call[h].op \notin LoaderOps

Prepared(h) ==
    /\ call[h].pc = "compile" => call[h].src.text \in Texts
    /\ HasProgram(h) => call[h].src.text \in Texts \ BadSyntax
    /\ HasRun(h) => vm[call[h].inst] = call[h].src /\ call[h].src.text \notin BadRun

Runnable == RunnableState /\ \A h \in Hosts : Prepared(h)

(* A step of h that runs no program and publishes none. *)
LEMMA QuietStep ==
  ASSUME Runnable, NEW h \in Hosts, \A g \in Hosts \ {h} : call'[g] = call[g],
         vm' = vm, current' = current, \A i \in Insts : life'[i] = "live" => life[i] = "live",
         Prepared(h)'
  PROVE  Runnable'
<1>1. RunnableState'
  BY DEF Runnable, RunnableState
<1>2. \A g \in Hosts \ {h} : Prepared(g)'
  BY DEF Runnable, Prepared, HasProgram, HasRun
<1>3. QED
  BY <1>1, <1>2 DEF Runnable

LEMMA ReturnPrepared ==
  ASSUME TypeOK, NEW h \in Hosts, Return(h)
  PROVE  Prepared(h)' /\ \A g \in Hosts \ {h} : call'[g] = call[g]
<1>1. call'[h] = Idle /\ \A g \in Hosts \ {h} : call'[g] = call[g]
  BY DEF Return, TypeOK
<1>2. QED
  BY <1>1 DEF Prepared, HasProgram, HasRun, Idle

LEMMA AbandonQuiet ==
  ASSUME TypeOK, Ownership, NEW h \in Hosts, Abandon(h)
  PROVE  /\ Prepared(h)' /\ \A g \in Hosts \ {h} : call'[g] = call[g]
         /\ \A i \in Insts : life'[i] = "live" => life[i] = "live"
  BY ReturnPrepared DEF Abandon, TypeOK

LEMMA GotoFields ==
  ASSUME TypeOK, NEW h \in Hosts, NEW step, Goto(h, step)
  PROVE  /\ call'[h].pc = step /\ call'[h].op = call[h].op /\ call'[h].src = call[h].src
         /\ call'[h].inst = call[h].inst
         /\ \A g \in Hosts \ {h} : call'[g] = call[g]
  BY DEF TypeOK, Goto, Calls

(* An instance is the business of one call from the moment its program runs. *)
LEMMA RunExclusive ==
  ASSUME TypeOK, Ownership, NEW g \in Hosts, NEW h \in Hosts, g # h,
         call[g].pc = "run" \/ HasRun(g), call[h].pc = "run" \/ HasRun(h)
  PROVE  call[g].inst # call[h].inst
<1> DEFINE Busy(f) == \/ call[f].op = "LoadInstance"
                      \/ InstOwned(f)
<1>1. ASSUME NEW f \in Hosts, call[f].pc = "run" \/ HasRun(f) PROVE Busy(f)
  BY <1>1 DEF TypeOK, Calls, AllOps, Ownership, OpFitsStep, HasRun, InstOwned, InstOps, LoaderOps
<1>2. QED
  BY <1>1 DEF Ownership, InstOwned

LEMMA RunnableStep == TypeOK /\ Ownership /\ Runnable /\ [Next]_vars => Runnable'
<1> SUFFICES ASSUME TypeOK, Ownership, Runnable, [Next]_vars PROVE Runnable'
  OBVIOUS
<1> USE ConstantsAssumption
<1>1. ASSUME NEW h \in Hosts, NEW o \in Ops, NEW i \in Insts \cup {NoInst}, Begin(h, o, i)
      PROVE Runnable'
  <2>1. call'[h].pc \in {"lockInst", "peek", "lockLoader"} /\ call'[h].op = o
        /\ (call'[h].pc = "lockInst" => o = "Call")
        /\ \A g \in Hosts \ {h} : call'[g] = call[g]
    BY <1>1 DEF Begin, TypeOK, Idle
  <2>2. Prepared(h)'
    BY <2>1 DEF Prepared, HasProgram, HasRun
  <2>3. vm' = vm /\ current' = current /\ \A j \in Insts : life'[j] = "live" => life[j] = "live"
    BY <1>1 DEF Begin, TypeOK
  <2>4. QED
    BY <2>1, <2>2, <2>3, QuietStep
<1>2. ASSUME NEW h \in Hosts, Peek(h) PROVE Runnable'
  <2>1. call'[h].pc = "lockLoader" /\ \A g \in Hosts \ {h} : call'[g] = call[g]
    BY <1>2 DEF Peek, TypeOK, Calls
  <2>2. Prepared(h)' /\ UNCHANGED <<vm, current, life>>
    BY <1>2, <2>1 DEF Peek, Prepared, HasProgram, HasRun
  <2>3. QED
    BY <2>1, <2>2, QuietStep
<1>3. ASSUME NEW h \in Hosts, LockLoader(h) PROVE Runnable'
  <2>1. Prepared(h)' /\ UNCHANGED <<vm, current, life>> /\ \A g \in Hosts \ {h} : call'[g] = call[g]
    BY <1>3, GotoFields DEF LockLoader, Prepared, HasProgram, HasRun
  <2>2. QED
    BY <2>1, QuietStep
<1>4. ASSUME NEW h \in Hosts, Read(h) PROVE Runnable'
  <2>0. vm' = vm /\ current' = current
    BY <1>4 DEF Read
  <2>1. CASE ReadStops(h)
    BY <1>4, <2>0, <2>1, AbandonQuiet, QuietStep DEF Read
  <2>2. CASE ~ReadStops(h)
    <3>1. call'[h].pc = "compile" /\ call'[h].src = disk /\ \A g \in Hosts \ {h} : call'[g] = call[g]
      BY <1>4, <2>2 DEF Read, TypeOK, Calls
    <3>2. disk.text \in Texts /\ life' = life
      BY <1>4, <2>2 DEF Read, ReadStops, TypeOK, Source
    <3>3. Prepared(h)'
      BY <3>1, <3>2 DEF Prepared, HasProgram, HasRun
    <3>4. QED
      BY <2>0, <3>1, <3>2, <3>3, QuietStep
  <2>3. QED
    BY <2>1, <2>2
<1>5. ASSUME NEW h \in Hosts, Compile(h) PROVE Runnable'
  <2>0. vm' = vm /\ current' = current /\ call[h].pc = "compile"
    BY <1>5 DEF Compile
  <2>1. CASE call[h].src.text \in BadSyntax \/ call[h].ctx = "done"
    BY <1>5, <2>0, <2>1, AbandonQuiet, QuietStep DEF Compile
  <2>2. CASE ~(call[h].src.text \in BadSyntax \/ call[h].ctx = "done")
    <3>1. /\ life' = life /\ call[h].src.text \in Texts \ BadSyntax
          /\ \E step \in {"load", "run", "lockInst"} :
                Goto(h, step) /\ (step = "load" => call[h].op \in LoaderOps)
      BY <1>5, <2>0, <2>2 DEF Compile, Runnable, Prepared
    <3>2. /\ call'[h].pc \in {"load", "run", "lockInst"} /\ call'[h].src = call[h].src
          /\ call'[h].op = call[h].op /\ (call'[h].pc = "load" => call[h].op \in LoaderOps)
          /\ \A g \in Hosts \ {h} : call'[g] = call[g]
      BY <3>1, GotoFields
    <3>3. Prepared(h)'
      BY <3>1, <3>2 DEF Prepared, HasProgram, HasRun
    <3>4. QED
      BY <2>0, <3>1, <3>2, <3>3, QuietStep
  <2>3. QED
    BY <2>1, <2>2
<1>6. ASSUME NEW h \in Hosts, LockInst(h) PROVE Runnable'
  <2>0. vm' = vm /\ current' = current /\ life' = life /\ call[h].pc = "lockInst"
    BY <1>6 DEF LockInst
  <2>1. CASE LockInstStops(h)
    BY <1>6, <2>0, <2>1, ReturnPrepared, QuietStep DEF LockInst
  <2>2. CASE ~LockInstStops(h)
    <3>1. Goto(h, IF call[h].op = "Call" THEN "call" ELSE "run")
      BY <1>6, <2>2 DEF LockInst
    <3>2. Prepared(h)' /\ \A g \in Hosts \ {h} : call'[g] = call[g]
      BY <2>0, <3>1, GotoFields DEF Runnable, Prepared, HasProgram, HasRun
    <3>3. QED
      BY <2>0, <3>2, QuietStep
  <2>3. QED
    BY <2>1, <2>2
<1>7. ASSUME NEW h \in Hosts, CallFunction(h) PROVE Runnable'
  BY <1>7, ReturnPrepared, QuietStep DEF CallFunction
<1>8. ASSUME NEW h \in Hosts, ApplyProgram(h) PROVE Runnable'
  <2>0. current' = current /\ call[h].pc = "run"
    BY <1>8 DEF ApplyProgram
  <2>1. CASE call[h].src.text \in BadRun \/ call[h].ctx = "done"
    BY <1>8, <2>0, <2>1, AbandonQuiet, QuietStep DEF ApplyProgram
  <2>2. CASE ~(call[h].src.text \in BadRun \/ call[h].ctx = "done")
    <3>1. /\ vm' = [vm EXCEPT ![call[h].inst] = call[h].src] /\ Goto(h, "load") /\ life' = life
      BY <1>8, <2>2 DEF ApplyProgram
    <3>2. call[h].src.text \in Texts \ (BadSyntax \cup BadRun) /\ call[h].inst \in Insts
      BY <2>0, <2>2 DEF Runnable, Prepared, HasProgram, Ownership, OpFitsStep, InstOps
    <3>3. vm'[call[h].inst] = call[h].src /\ \A i \in Insts \ {call[h].inst} : vm'[i] = vm[i]
      BY <3>1, <3>2 DEF TypeOK
    <3>4. RunnableState'
      BY <2>0, <3>1, <3>2, <3>3 DEF Runnable, RunnableState
    <3>5. Prepared(h)' /\ \A g \in Hosts \ {h} : call'[g] = call[g]
      BY <3>1, <3>2, <3>3, GotoFields DEF Prepared, HasProgram, HasRun
    <3>6. ASSUME NEW g \in Hosts \ {h} PROVE Prepared(g)'
      <4>1. HasRun(g) => call[g].inst # call[h].inst /\ call[g].inst \in Insts
        BY <2>0, RunExclusive DEF HasRun, TypeOK, Calls, AllOps, Ownership, OpFitsStep, InstOps, LoaderOps
      <4>2. HasRun(g) => vm'[call[g].inst] = vm[call[g].inst]
        BY <3>3, <4>1
      <4>3. QED
        BY <3>5, <4>2 DEF Runnable, Prepared, HasProgram, HasRun
    <3>7. QED
      BY <3>4, <3>5, <3>6 DEF Runnable
  <2>3. QED
    BY <2>1, <2>2
<1>9. ASSUME NEW h \in Hosts, InstallLoad(h) PROVE Runnable'
  <2>1. /\ call[h].pc = "load" /\ call'[h].pc = "store" /\ call'[h].src = call[h].src
        /\ call'[h].op = call[h].op /\ call'[h].inst = call[h].inst
    BY <1>9 DEF InstallLoad, TypeOK, Calls
  <2>2. UNCHANGED <<vm, current, life>> /\ \A g \in Hosts \ {h} : call'[g] = call[g]
    BY <1>9 DEF InstallLoad, TypeOK
  <2>3. Prepared(h)'
    BY <2>1, <2>2 DEF Runnable, Prepared, HasProgram, HasRun
  <2>4. QED
    BY <2>2, <2>3, QuietStep
<1>10. ASSUME NEW h \in Hosts, InstallStore(h) PROVE Runnable'
  <2>1. /\ call[h].pc = "store" /\ current'.src = call[h].src /\ vm' = vm /\ life' = life
    BY <1>10 DEF InstallStore
  <2>2. call[h].src.text \in Texts \ BadSyntax
    BY <2>1 DEF Runnable, Prepared, HasProgram
  <2>3. RunnableState'
    BY <2>1, <2>2 DEF Runnable, RunnableState
  <2>4. Prepared(h)' /\ \A g \in Hosts \ {h} : call'[g] = call[g]
    <3>1. CASE KeepsLoaderMu(h)
      BY <1>10, <3>1, ReturnPrepared DEF InstallStore
    <3>2. CASE ~KeepsLoaderMu(h)
      <4>1. Goto(h, "adopt")
        BY <1>10, <3>2 DEF InstallStore
      <4>2. QED
        BY <2>1, <2>2, <4>1, GotoFields DEF Runnable, Prepared, HasProgram, HasRun
    <3>3. QED
      BY <3>1, <3>2
  <2>5. \A g \in Hosts \ {h} : Prepared(g)'
    BY <2>1, <2>4 DEF Runnable, Prepared, HasProgram, HasRun
  <2>6. QED
    BY <2>3, <2>4, <2>5 DEF Runnable
<1>11. ASSUME NEW h \in Hosts, Adopt(h) PROVE Runnable'
  <2>1. HasRun(h) /\ call[h].inst \in Insts /\ HasProgram(h)
    BY <1>11 DEF Adopt, Ownership, OpFitsStep, HasRun, HasProgram, InstOps, LoaderOps
  <2>2. vm[call[h].inst].text \in Texts \ (BadSyntax \cup BadRun)
    BY <2>1 DEF Runnable, Prepared
  <2>3. /\ vm' = vm /\ current' = current /\ life' = [life EXCEPT ![call[h].inst] = "live"]
    BY <1>11 DEF Adopt
  <2>4. RunnableState'
    BY <2>2, <2>3 DEF Runnable, RunnableState, TypeOK
  <2>5. Prepared(h)' /\ \A g \in Hosts \ {h} : call'[g] = call[g]
    BY <1>11, ReturnPrepared DEF Adopt
  <2>6. \A g \in Hosts \ {h} : Prepared(g)'
    BY <2>3, <2>5 DEF Runnable, Prepared, HasProgram, HasRun
  <2>7. QED
    BY <2>4, <2>5, <2>6 DEF Runnable
<1>12. ASSUME NEW h \in Hosts, Cancel(h) PROVE Runnable'
  <2>1. /\ call'[h].pc = call[h].pc /\ call'[h].src = call[h].src /\ call'[h].op = call[h].op
        /\ call'[h].inst = call[h].inst
    BY <1>12 DEF Cancel, TypeOK, Calls
  <2>2. UNCHANGED <<vm, current, life>> /\ \A g \in Hosts \ {h} : call'[g] = call[g]
    BY <1>12 DEF Cancel, TypeOK
  <2>3. Prepared(h)'
    BY <2>1, <2>2 DEF Runnable, Prepared, HasProgram, HasRun
  <2>4. QED
    BY <2>2, <2>3, QuietStep
<1>13. CASE UNCHANGED vars \/ \E t \in Texts \cup {NoFile} : Edit(t)
  BY <1>13 DEF vars, Edit, Runnable, RunnableState, Prepared, HasProgram, HasRun
<1>14. QED
  BY <1>1, <1>2, <1>3, <1>4, <1>5, <1>6, <1>7, <1>8, <1>9, <1>10, <1>11, <1>12, <1>13 DEF Next, Step

LEMMA RunnableInit == Init => Runnable
  BY DEF Init, Runnable, RunnableState, Prepared, HasProgram, HasRun, Idle, NoSnapshot, NoSource

(* Whatever is edited and cancelled meanwhile, a live instance runs a program that
   compiled and whose top level ended, and a handle publishes one that compiled. *)
THEOREM StateIsRunnable == Spec => []RunnableState
<1>1. Runnable => RunnableState
  BY DEF Runnable
<1>2. QED
  BY <1>1, Invariance, RunnableInit, RunnableStep, PTL DEF Spec

-----------------------------------------------------------------------------
(* A handle with one user: the application keeps one instance of the source and
   does not load it otherwise.  A second user could publish between the store of
   install and the load of inst.appliedSnapshot. *)
OneUser == Ops \cap LoaderOps = {} /\ \A i, j \in Insts : i = j

Applying(i) == \E h \in Hosts : InstOwned(h) /\ HasRun(h) /\ call[h].inst = i

AppliedExact ==
    /\ \A h \in Hosts : call[h].op \notin LoaderOps
    /\ \A h \in Hosts : call[h].pc = "adopt" => current.src = call[h].src
    /\ \A i \in Insts : life[i] = "live" => applied[i].src = vm[i] \/ Applying(i)

(* A step of h, which is not adopting, that changes nothing of an instance. *)
LEMMA AppliedQuiet ==
  ASSUME AppliedExact, NEW h \in Hosts, \A g \in Hosts \ {h} : call'[g] = call[g],
         UNCHANGED <<vm, current, applied>>,
         \A i \in Insts : life'[i] = "live" => life[i] = "live",
         call'[h].op \notin LoaderOps, call'[h].pc # "adopt",
         InstOwned(h) /\ HasRun(h) => InstOwned(h)' /\ HasRun(h)' /\ call'[h].inst = call[h].inst
  PROVE  AppliedExact'
<1>1. \A g \in Hosts : InstOwned(g) /\ HasRun(g) =>
         InstOwned(g)' /\ HasRun(g)' /\ call'[g].inst = call[g].inst
  BY DEF InstOwned, HasRun
<1>2. \A i \in Insts : Applying(i) => Applying(i)'
  BY <1>1 DEF Applying
<1>3. QED
  BY <1>2 DEF AppliedExact

LEMMA ReturnApplied ==
  ASSUME TypeOK, NEW h \in Hosts, Return(h)
  PROVE  /\ call'[h].op = "none" /\ call'[h].pc = "idle"
         /\ \A g \in Hosts \ {h} : call'[g] = call[g]
  BY DEF Return, TypeOK, Idle

LEMMA AppliedStep ==
  ASSUME OneUser
  PROVE  TypeOK /\ Ownership /\ Runnable /\ AppliedExact /\ [Next]_vars => AppliedExact'
<1> SUFFICES ASSUME TypeOK, Ownership, Runnable, AppliedExact, [Next]_vars PROVE AppliedExact'
  OBVIOUS
<1> USE ConstantsAssumption
<1>1. ASSUME NEW h \in Hosts, NEW o \in Ops, NEW i \in Insts \cup {NoInst}, Begin(h, o, i)
      PROVE AppliedExact'
  <2>1. /\ call'[h].pc \in {"lockInst", "peek", "lockLoader"} /\ call'[h].op = o
        /\ \A g \in Hosts \ {h} : call'[g] = call[g]
    BY <1>1 DEF Begin, TypeOK, Idle
  <2>2. /\ UNCHANGED <<vm, current, applied>> /\ ~HasRun(h) /\ o \notin LoaderOps
        /\ \A j \in Insts : life'[j] = "live" => life[j] = "live"
    BY <1>1 DEF Begin, TypeOK, HasRun, OneUser
  <2>3. QED
    BY <2>1, <2>2, AppliedQuiet
<1>2. ASSUME NEW h \in Hosts, Peek(h) PROVE AppliedExact'
  <2>1. /\ call'[h].pc = "lockLoader" /\ call'[h].op = call[h].op
        /\ \A g \in Hosts \ {h} : call'[g] = call[g]
    BY <1>2 DEF Peek, TypeOK, Calls
  <2>2. UNCHANGED <<vm, current, applied, life>> /\ ~HasRun(h)
    BY <1>2 DEF Peek, HasRun
  <2>3. QED
    BY <2>1, <2>2, AppliedQuiet DEF AppliedExact
<1>3. ASSUME NEW h \in Hosts, LockLoader(h) PROVE AppliedExact'
  <2>1. UNCHANGED <<vm, current, applied, life>> /\ ~HasRun(h) /\ Goto(h, "read")
    BY <1>3 DEF LockLoader, HasRun
  <2>2. QED
    BY <2>1, GotoFields, AppliedQuiet DEF AppliedExact
<1>4. ASSUME NEW h \in Hosts, Read(h) PROVE AppliedExact'
  <2>1. UNCHANGED <<vm, current, applied>> /\ ~HasRun(h)
    BY <1>4 DEF Read, HasRun
  <2>2. CASE ReadStops(h)
    <3>1. Return(h) /\ \A i \in Insts : life'[i] = "live" => life[i] = "live"
      BY <1>4, <2>2, AbandonQuiet DEF Read, Abandon
    <3>2. QED
      BY <2>1, <3>1, ReturnApplied, AppliedQuiet DEF LoaderOps
  <2>3. CASE ~ReadStops(h)
    <3>1. /\ call'[h].pc = "compile" /\ call'[h].op = call[h].op /\ life' = life
          /\ \A g \in Hosts \ {h} : call'[g] = call[g]
      BY <1>4, <2>3 DEF Read, TypeOK, Calls
    <3>2. QED
      BY <2>1, <3>1, AppliedQuiet DEF AppliedExact
  <2>4. QED
    BY <2>2, <2>3
<1>5. ASSUME NEW h \in Hosts, Compile(h) PROVE AppliedExact'
  <2>1. UNCHANGED <<vm, current, applied>> /\ ~HasRun(h)
    BY <1>5 DEF Compile, HasRun
  <2>2. CASE call[h].src.text \in BadSyntax \/ call[h].ctx = "done"
    <3>1. Return(h) /\ \A i \in Insts : life'[i] = "live" => life[i] = "live"
      BY <1>5, <2>2, AbandonQuiet DEF Compile, Abandon
    <3>2. QED
      BY <2>1, <3>1, ReturnApplied, AppliedQuiet DEF LoaderOps
  <2>3. CASE ~(call[h].src.text \in BadSyntax \/ call[h].ctx = "done")
    <3>1. life' = life /\ \E step \in {"load", "run", "lockInst"} : Goto(h, step)
      BY <1>5, <2>3 DEF Compile
    <3>2. QED
      BY <2>1, <3>1, GotoFields, AppliedQuiet DEF AppliedExact
  <2>4. QED
    BY <2>2, <2>3
<1>6. ASSUME NEW h \in Hosts, LockInst(h) PROVE AppliedExact'
  <2>1. UNCHANGED <<vm, current, applied, life>> /\ ~HasRun(h)
    BY <1>6 DEF LockInst, HasRun
  <2>2. Return(h) \/ Goto(h, "call") \/ Goto(h, "run")
    BY <1>6 DEF LockInst
  <2>3. CASE Return(h)
    BY <2>1, <2>3, ReturnApplied, AppliedQuiet DEF LoaderOps
  <2>4. CASE Goto(h, "call") \/ Goto(h, "run")
    BY <2>1, <2>4, GotoFields, AppliedQuiet DEF AppliedExact
  <2>5. QED
    BY <2>2, <2>3, <2>4
<1>7. ASSUME NEW h \in Hosts, CallFunction(h) PROVE AppliedExact'
  <2>1. UNCHANGED <<vm, current, applied, life>> /\ ~HasRun(h) /\ Return(h)
    BY <1>7 DEF CallFunction, HasRun
  <2>2. QED
    BY <2>1, ReturnApplied, AppliedQuiet DEF LoaderOps
<1>8. ASSUME NEW h \in Hosts, ApplyProgram(h) PROVE AppliedExact'
  <2>1. UNCHANGED <<current, applied>> /\ ~HasRun(h) /\ call[h].pc = "run"
    BY <1>8 DEF ApplyProgram, HasRun
  <2>2. CASE call[h].src.text \in BadRun \/ call[h].ctx = "done"
    <3>1. Return(h) /\ vm' = vm /\ \A i \in Insts : life'[i] = "live" => life[i] = "live"
      BY <1>8, <2>2, AbandonQuiet DEF ApplyProgram, Abandon
    <3>2. QED
      BY <2>1, <3>1, ReturnApplied, AppliedQuiet DEF LoaderOps
  <2>3. CASE ~(call[h].src.text \in BadRun \/ call[h].ctx = "done")
    <3>1. /\ life' = life /\ Goto(h, "load")
          /\ vm' = [vm EXCEPT ![call[h].inst] = call[h].src]
      BY <1>8, <2>3 DEF ApplyProgram
    <3>2. /\ call'[h].pc = "load" /\ call'[h].op = call[h].op /\ call'[h].inst = call[h].inst
          /\ \A g \in Hosts \ {h} : call'[g] = call[g]
      BY <3>1, GotoFields
    <3>3. /\ call[h].op \in {"LoadInstance"} \cup InstOps /\ call[h].inst \in Insts
          /\ call[h].op \notin LoaderOps
      BY <2>1 DEF Ownership, OpFitsStep, InstOps, AppliedExact
    <3>4. ASSUME NEW i \in Insts, life'[i] = "live" PROVE Applying(i)'
      <4>1. i = call[h].inst
        BY <3>3 DEF OneUser
      <4>2. call[h].op \in InstOps
        BY <3>1, <3>3, <3>4, <4>1 DEF Ownership
      <4>3. InstOwned(h)' /\ HasRun(h)' /\ call'[h].inst = i
        BY <3>2, <3>3, <4>1, <4>2 DEF InstOwned, HasRun
      <4>4. QED
        BY <4>3 DEF Applying
    <3>5. \A g \in Hosts : call'[g].pc = "adopt" => current'.src = call'[g].src
      BY <2>1, <3>2 DEF AppliedExact
    <3>6. \A g \in Hosts : call'[g].op \notin LoaderOps
      BY <3>2 DEF AppliedExact
    <3>7. QED
      BY <3>4, <3>5, <3>6 DEF AppliedExact
  <2>4. QED
    BY <2>2, <2>3
<1>9. ASSUME NEW h \in Hosts, InstallLoad(h) PROVE AppliedExact'
  <2>1. /\ call[h].pc = "load" /\ call'[h].pc = "store" /\ call'[h].op = call[h].op
        /\ call'[h].inst = call[h].inst /\ \A g \in Hosts \ {h} : call'[g] = call[g]
    BY <1>9 DEF InstallLoad, TypeOK, Calls
  <2>2. UNCHANGED <<vm, current, applied, life>> /\ call'[h].op \notin LoaderOps
    BY <1>9, <2>1 DEF InstallLoad, AppliedExact
  <2>3. InstOwned(h) /\ HasRun(h) => InstOwned(h)' /\ HasRun(h)'
    BY <2>1 DEF InstOwned, HasRun
  <2>4. QED
    BY <2>1, <2>2, <2>3, AppliedQuiet
<1>10. ASSUME NEW h \in Hosts, InstallStore(h) PROVE AppliedExact'
  <2>1. call[h].pc = "store" /\ call[h].op \notin LoaderOps /\ HasRun(h)
    BY <1>10 DEF InstallStore, AppliedExact, HasRun
  <2>2. Goto(h, "adopt") /\ current'.src = call[h].src /\ UNCHANGED <<vm, applied, life>>
    BY <1>10, <2>1 DEF InstallStore, KeepsLoaderMu
  <2>3. /\ call'[h].pc = "adopt" /\ call'[h].op = call[h].op /\ call'[h].inst = call[h].inst
        /\ call'[h].src = call[h].src /\ \A g \in Hosts \ {h} : call'[g] = call[g]
    BY <2>2, GotoFields
  <2>4. ASSUME NEW g \in Hosts \ {h} PROVE call[g].pc # "adopt"
    <3>1. HasRun(g) => call[g].inst \in Insts /\ call[h].inst \in Insts
      BY <2>1 DEF HasRun, TypeOK, Calls, AllOps, Ownership, OpFitsStep, InstOps, LoaderOps
    <3>2. ~HasRun(g)
      BY <2>1, <3>1, RunExclusive DEF OneUser
    <3>3. QED
      BY <3>2 DEF HasRun, AppliedExact
  <2>5. \A g \in Hosts : call'[g].op \notin LoaderOps
    BY <2>1, <2>3 DEF AppliedExact
  <2>6. \A g \in Hosts : call'[g].pc = "adopt" => current'.src = call'[g].src
    BY <2>2, <2>3, <2>4
  <2>7. \A i \in Insts : Applying(i) => Applying(i)'
    BY <2>3 DEF Applying, InstOwned, HasRun
  <2>8. QED
    BY <2>2, <2>5, <2>6, <2>7 DEF AppliedExact
<1>11. ASSUME NEW h \in Hosts, Adopt(h) PROVE AppliedExact'
  <2>1. /\ call[h].pc = "adopt" /\ HasRun(h) /\ call[h].inst \in Insts
    BY <1>11 DEF Adopt, HasRun, Ownership, OpFitsStep, InstOps, LoaderOps
  <2>2. current.src = call[h].src /\ vm[call[h].inst] = call[h].src
    BY <2>1 DEF AppliedExact, Runnable, Prepared
  <2>3. /\ applied' = [applied EXCEPT ![call[h].inst] = current] /\ UNCHANGED <<vm, current>>
        /\ Return(h)
    BY <1>11 DEF Adopt
  <2>4. \A i \in Insts : applied'[i].src = vm'[i]
    BY <2>1, <2>2, <2>3 DEF OneUser, TypeOK
  <2>5. /\ call'[h].op = "none" /\ call'[h].pc = "idle"
        /\ \A g \in Hosts \ {h} : call'[g] = call[g]
    BY <2>3, ReturnApplied
  <2>6. /\ \A g \in Hosts : call'[g].op \notin LoaderOps
        /\ \A g \in Hosts : call'[g].pc = "adopt" => current'.src = call'[g].src
    BY <2>3, <2>5 DEF AppliedExact, LoaderOps
  <2>7. QED
    BY <2>4, <2>6 DEF AppliedExact
<1>12. ASSUME NEW h \in Hosts, Cancel(h) PROVE AppliedExact'
  <2>1. /\ call'[h].pc = call[h].pc /\ call'[h].src = call[h].src /\ call'[h].op = call[h].op
        /\ call'[h].inst = call[h].inst /\ \A g \in Hosts \ {h} : call'[g] = call[g]
    BY <1>12 DEF Cancel, TypeOK, Calls
  <2>2. UNCHANGED <<vm, current, applied, life>>
    BY <1>12 DEF Cancel
  <2>3. \A i \in Insts : Applying(i) => Applying(i)'
    BY <2>1 DEF Applying, InstOwned, HasRun
  <2>4. QED
    BY <2>1, <2>2, <2>3 DEF AppliedExact
<1>13. CASE UNCHANGED vars \/ \E t \in Texts \cup {NoFile} : Edit(t)
  BY <1>13 DEF vars, Edit, AppliedExact, Applying, InstOwned, HasRun
<1>14. QED
  BY <1>1, <1>2, <1>3, <1>4, <1>5, <1>6, <1>7, <1>8, <1>9, <1>10, <1>11, <1>12, <1>13 DEF Next, Step

LEMMA AppliedInit == Init => AppliedExact
  BY DEF Init, AppliedExact, Idle, LoaderOps

(* For any number of goroutines that share one instance, the generation and the
   fingerprint it reports between calls are those of the program its VM runs. *)
THEOREM AppliedIsWhatRuns ==
  ASSUME OneUser
  PROVE  Spec => []AppliedMatchesVM
<1>1. TypeOK /\ Ownership /\ AppliedExact => AppliedMatchesVM
  BY ConstantsAssumption DEF Ownership, AppliedExact, AppliedMatchesVM, Applying
<1>2. QED
  BY <1>1, Invariance, RunnableInit, RunnableStep, AppliedInit, AppliedStep, PTL DEF Spec
=============================================================================
