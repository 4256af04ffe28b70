------------------------------ MODULE HotLoader ------------------------------
(***************************************************************************)
(* The hot-reload API of the embedding package (hotloader.go): a HotLoader *)
(* that compiles a source file into an atomically swapped module handle,   *)
(* and HotInstances, persistent VMs that re-apply the file while keeping   *)
(* their state.  Host goroutines (Hosts) call the API concurrently and an  *)
(* editor rewrites the file.                                               *)
(*                                                                         *)
(* One source path is modelled: the entries of loader.modules share only   *)
(* loader.mu.  A text stands for the bytes of the file, and for their      *)
(* SHA-256 fingerprint; a source is a text with the revision at which it   *)
(* was read (the revision is history: no action of the code depends on     *)
(* it).  What re-applying a program does to the globals of the VM is the   *)
(* subject of HotReloadState; here the VM of an instance only records the  *)
(* source whose functions it holds.                                        *)
(***************************************************************************)
EXTENDS Integers

CONSTANTS
    Hosts,       \* goroutines of the embedding application
    Insts,       \* HotInstances that may be created
    Texts,       \* contents of the source file
    BadSyntax,   \* texts that do not compile
    BadRun,      \* texts that compile and whose top level raises an error
    NoFile,      \* the file is missing: os.ReadFile fails
    Nobody,      \* a mutex nobody holds
    NoInst,      \* an operation that is not on an instance
    Ops,         \* the API calls this application uses
    Cancellable, \* whether the contexts passed to the calls may be cancelled
    MaxRev,      \* bound: edits of the file
    MaxGen       \* bound: no unconditional (re)load is started from there

LoaderOps == {"Load", "LoadIfChanged"}
InstOps == {"Reload", "ReloadIfChanged", "Call"}
AllOps == LoaderOps \cup {"LoadInstance"} \cup InstOps

ASSUME ConstantsAssumption ==
    /\ Ops \subseteq AllOps
    /\ BadSyntax \subseteq Texts /\ BadRun \subseteq Texts
    /\ NoFile \notin Texts /\ Nobody \notin Hosts /\ NoInst \notin Insts
    /\ Cancellable \in BOOLEAN
    /\ MaxRev \in Nat /\ MaxGen \in Nat

VARIABLES
    disk,     \* the source file
    current,  \* handle.current
    loaderMu, \* loader.mu
    instMu,   \* inst.mu
    life,     \* whether the instance exists: "free", "loading" or "live"
    vm,       \* the source whose program inst.vm runs
    applied,  \* inst.appliedSnapshot
    call      \* the call each host is in, with its local variables

vars == <<disk, current, loaderMu, instMu, life, vm, applied, call>>

Source == [rev : Nat, text : Texts \cup {NoFile}]
NoSource == [rev |-> 0, text |-> NoFile]

(* A moduleSnapshot; generation 0 is the nil pointer, both of a handle that
   has published nothing and of an instance that has applied nothing. *)
Snapshot == [gen : Nat, src : Source]
NoSnapshot == [gen |-> 0, src |-> NoSource]

(* Where a call is: the mutex it waits for, or the code it is about to run. *)
Steps == {"idle", "peek", "lockLoader", "read", "compile", "lockInst",
          "run", "load", "store", "adopt", "call"}

Idle == [pc |-> "idle", op |-> "none", inst |-> NoInst, ctx |-> "live",
         src |-> NoSource, seen |-> NoFile, base |-> 0]

Calls == [pc : Steps, op : AllOps \cup {"none"}, inst : Insts \cup {NoInst},
          ctx : {"live", "done"}, src : Source, seen : Texts \cup {NoFile},
          base : Nat]

(* The one type invariant: every variable holds a value of its kind. *)
TypeOK ==
    /\ disk \in Source
    /\ current \in Snapshot
    /\ loaderMu \in Hosts \cup {Nobody}
    /\ instMu \in [Insts -> Hosts \cup {Nobody}]
    /\ life \in [Insts -> {"free", "loading", "live"}]
    /\ vm \in [Insts -> Source]
    /\ applied \in [Insts -> Snapshot]
    /\ call \in [Hosts -> Calls]

Init ==
    /\ disk \in [rev : {1}, text : Texts \cup {NoFile}]
    /\ current = NoSnapshot
    /\ loaderMu = Nobody
    /\ instMu = [i \in Insts |-> Nobody]
    /\ life = [i \in Insts |-> "free"]
    /\ vm = [i \in Insts |-> NoSource]
    /\ applied = [i \in Insts |-> NoSnapshot]
    /\ call = [h \in Hosts |-> Idle]

-----------------------------------------------------------------------------
(* Steps shared by the operations. *)

Goto(h, step) == call' = [call EXCEPT ![h].pc = step]

Return(h) == call' = [call EXCEPT ![h] = Idle]

(* The error returns of LoadInstance drop the instance it was building. *)
Abandon(h) ==
    /\ Return(h)
    /\ life' = IF call[h].op = "LoadInstance"
                 THEN [life EXCEPT ![call[h].inst] = "free"] ELSE life

(* Load and ReloadIfChanged of the loader hold loader.mu until they return;
   the operations of an instance keep it only while they compile. *)
KeepsLoaderMu(h) == call[h].op \in LoaderOps

HoldsInstMu(h) == call[h].op \in InstOps

Unlock(h) == instMu' = IF HoldsInstMu(h)
                         THEN [instMu EXCEPT ![call[h].inst] = Nobody] ELSE instMu

-----------------------------------------------------------------------------
(* The API calls. *)

(* A host enters an API call.  LoadInstance picks the instance it will
   return; the other instance methods need one that has been returned. *)
Begin(h, o, i) ==
    /\ call[h].pc = "idle"
    /\ o \in Ops
    /\ \/ o \in LoaderOps /\ i = NoInst /\ life' = life
       \/ o = "LoadInstance" /\ i \in Insts /\ life[i] = "free"
          /\ life' = [life EXCEPT ![i] = "loading"]
       \/ o \in InstOps /\ i \in Insts /\ life[i] = "live" /\ life' = life
    /\ o \in {"Load", "LoadInstance", "Reload"} => current.gen < MaxGen
    /\ call' = [call EXCEPT ![h] =
                 [Idle EXCEPT !.op = o, !.inst = i,
                              !.pc = CASE o = "Call" -> "lockInst"
                                       [] o = "ReloadIfChanged" -> "peek"
                                       [] OTHER -> "lockLoader"]]
    /\ UNCHANGED <<disk, current, loaderMu, instMu, vm, applied>>

(* inst.ReloadIfChanged first reads the applied fingerprint under inst.mu,
   which it releases again before it asks for loader.mu. *)
Peek(h) ==
    /\ call[h].pc = "peek"
    /\ instMu[call[h].inst] = Nobody
    /\ call' = [call EXCEPT ![h].pc = "lockLoader",
                            ![h].seen = applied[call[h].inst].src.text]
    /\ UNCHANGED <<disk, current, loaderMu, instMu, life, vm, applied>>

LockLoader(h) ==
    /\ call[h].pc = "lockLoader"
    /\ loaderMu = Nobody
    /\ loaderMu' = h
    /\ Goto(h, "read")
    /\ UNCHANGED <<disk, current, instMu, life, vm, applied>>

(* Mutant: ReloadIfChanged of the loader takes any published program for the
   current one. *)
SameFingerprintStale(h) ==
    \/ call[h].op = "LoadIfChanged" /\ current.gen > 0
    \/ call[h].op = "ReloadIfChanged" /\ call[h].seen = disk.text

(* The two ReloadIfChanged read the file before they look at the context and
   return early when the fingerprint is the published one, respectively the
   one seen by Peek. *)
SameFingerprint(h) ==
    \/ call[h].op = "LoadIfChanged" /\ current.src.text = disk.text
    \/ call[h].op = "ReloadIfChanged" /\ call[h].seen = disk.text

(* readHotReloadSource and the checks around it, under loader.mu. *)
ReadStops(h) ==
    \/ disk.text = NoFile
    \/ SameFingerprint(h)
    \/ call[h].ctx = "done"

(* Mutant: an early return forgets loader.mu.Unlock(). *)
ReadLeaksLock(h) ==
    /\ call[h].pc = "read"
    /\ IF ReadStops(h)
         THEN Abandon(h) /\ UNCHANGED loaderMu
         ELSE /\ call' = [call EXCEPT ![h].pc = "compile", ![h].src = disk]
              /\ UNCHANGED <<loaderMu, life>>
    /\ UNCHANGED <<disk, current, instMu, vm, applied>>

Read(h) ==
    /\ call[h].pc = "read"
    /\ IF ReadStops(h)
         THEN Abandon(h) /\ loaderMu' = Nobody
         ELSE /\ call' = [call EXCEPT ![h].pc = "compile", ![h].src = disk]
              /\ UNCHANGED <<loaderMu, life>>
    /\ UNCHANGED <<disk, current, instMu, vm, applied>>

(* Mutant: Load releases loader.mu once it has compiled. *)
CompileUnlocks(h) ==
    /\ call[h].pc = "compile"
    /\ IF call[h].src.text \in BadSyntax \/ call[h].ctx = "done"
         THEN Abandon(h)
         ELSE /\ Goto(h, CASE call[h].op \in LoaderOps -> "load"
                           [] call[h].op = "LoadInstance" -> "run"
                           [] OTHER -> "lockInst")
              /\ life' = life
    /\ loaderMu' = Nobody
    /\ UNCHANGED <<disk, current, instMu, vm, applied>>

(* compileSource and the second context check.  The loader's operations go on
   to install under loader.mu; the others release it here. *)
Compile(h) ==
    /\ call[h].pc = "compile"
    /\ IF call[h].src.text \in BadSyntax \/ call[h].ctx = "done"
         THEN Abandon(h) /\ loaderMu' = Nobody
         ELSE /\ Goto(h, CASE call[h].op \in LoaderOps -> "load"
                           [] call[h].op = "LoadInstance" -> "run"
                           [] OTHER -> "lockInst")
              /\ loaderMu' = IF KeepsLoaderMu(h) THEN loaderMu ELSE Nobody
              /\ life' = life
    /\ UNCHANGED <<disk, current, instMu, vm, applied>>

(* inst.mu.Lock() of Reload, ReloadIfChanged and Call.  ReloadIfChanged looks
   at the applied fingerprint again; RunContext and CallContext refuse a
   context that is done before they start. *)
LockInstStops(h) ==
    \/ /\ call[h].op = "ReloadIfChanged"
       /\ applied[call[h].inst].src.text = call[h].src.text
    \/ call[h].ctx = "done"

(* Mutant: the instance methods do not wait for inst.mu. *)
LockInstBarges(h) ==
    /\ call[h].pc = "lockInst"
    /\ IF LockInstStops(h)
         THEN Return(h) /\ UNCHANGED instMu
         ELSE /\ instMu' = [instMu EXCEPT ![call[h].inst] = h]
              /\ Goto(h, IF call[h].op = "Call" THEN "call" ELSE "run")
    /\ UNCHANGED <<disk, current, loaderMu, life, vm, applied>>

LockInst(h) ==
    /\ call[h].pc = "lockInst"
    /\ instMu[call[h].inst] = Nobody
    /\ IF LockInstStops(h)
         THEN Return(h) /\ UNCHANGED instMu
         ELSE /\ instMu' = [instMu EXCEPT ![call[h].inst] = h]
              /\ Goto(h, IF call[h].op = "Call" THEN "call" ELSE "run")
    /\ UNCHANGED <<disk, current, loaderMu, life, vm, applied>>

(* inst.vm.CallContext runs a function of the persistent VM and returns. *)
CallFunction(h) ==
    /\ call[h].pc = "call"
    /\ Return(h)
    /\ Unlock(h)
    /\ UNCHANGED <<disk, current, loaderMu, life, vm, applied>>

(* Mutant: a failed run leaves what it did to the globals. *)
ApplyWithoutRollback(h) ==
    /\ call[h].pc = "run"
    /\ vm' = [vm EXCEPT ![call[h].inst] = call[h].src]
    /\ IF call[h].src.text \in BadRun \/ call[h].ctx = "done"
         THEN Abandon(h) /\ Unlock(h)
         ELSE Goto(h, "load") /\ UNCHANGED <<instMu, life>>
    /\ UNCHANGED <<disk, current, loaderMu, applied>>

(* Mutant: the fingerprint is recorded before the program runs, and stays when
   the run fails. *)
ApplyRecordsFirst(h) ==
    /\ call[h].pc = "run"
    /\ applied' = [applied EXCEPT ![call[h].inst].src = call[h].src]
    /\ IF call[h].src.text \in BadRun \/ call[h].ctx = "done"
         THEN Abandon(h) /\ Unlock(h) /\ vm' = vm
         ELSE /\ Goto(h, "load")
              /\ vm' = [vm EXCEPT ![call[h].inst] = call[h].src]
              /\ UNCHANGED <<instMu, life>>
    /\ UNCHANGED <<disk, current, loaderMu>>

(* applyProgram: the top level of the program runs on the instance's VM.  An
   error, or a context that is done, restores the globals the VM had. *)
ApplyProgram(h) ==
    /\ call[h].pc = "run"
    /\ IF call[h].src.text \in BadRun \/ call[h].ctx = "done"
         THEN Abandon(h) /\ Unlock(h) /\ vm' = vm
         ELSE /\ vm' = [vm EXCEPT ![call[h].inst] = call[h].src]
              /\ Goto(h, "load")
              /\ UNCHANGED <<instMu, life>>
    /\ UNCHANGED <<disk, current, loaderMu, applied>>

(* Mutant: install numbers the first generation 0. *)
InstallLoadFromZero(h) ==
    /\ call[h].pc = "load"
    /\ call' = [call EXCEPT ![h].pc = "store", ![h].base = current.gen - 1]
    /\ UNCHANGED <<disk, current, loaderMu, instMu, life, vm, applied>>

(* install: the load of the current snapshot ... *)
InstallLoad(h) ==
    /\ call[h].pc = "load"
    /\ call' = [call EXCEPT ![h].pc = "store", ![h].base = current.gen]
    /\ UNCHANGED <<disk, current, loaderMu, instMu, life, vm, applied>>

(* ... and the store of its successor.  The loader's operations return. *)
InstallStore(h) ==
    /\ call[h].pc = "store"
    /\ current' = [gen |-> call[h].base + 1, src |-> call[h].src]
    /\ IF KeepsLoaderMu(h)
         THEN Return(h) /\ loaderMu' = Nobody
         ELSE Goto(h, "adopt") /\ loaderMu' = loaderMu
    /\ UNCHANGED <<disk, instMu, life, vm, applied>>

(* inst.appliedSnapshot = handle.current.Load(), and the return. *)
Adopt(h) ==
    /\ call[h].pc = "adopt"
    /\ applied' = [applied EXCEPT ![call[h].inst] = current]
    /\ life' = [life EXCEPT ![call[h].inst] = "live"]
    /\ Unlock(h)
    /\ Return(h)
    /\ UNCHANGED <<disk, current, loaderMu, vm>>

Step(h) ==
    \/ Peek(h) \/ LockLoader(h) \/ Read(h) \/ Compile(h)
    \/ LockInst(h) \/ CallFunction(h) \/ ApplyProgram(h)
    \/ InstallLoad(h) \/ InstallStore(h) \/ Adopt(h)

-----------------------------------------------------------------------------
(* The environment. *)

(* The file is edited, replaced or removed. *)
Edit(t) ==
    /\ disk.rev < MaxRev
    /\ disk.text # t
    /\ disk' = [rev |-> disk.rev + 1, text |-> t]
    /\ UNCHANGED <<current, loaderMu, instMu, life, vm, applied, call>>

(* The host cancels the context of a call in progress. *)
Cancel(h) ==
    /\ Cancellable
    /\ call[h].pc # "idle"
    /\ call[h].ctx = "live"
    /\ call' = [call EXCEPT ![h].ctx = "done"]
    /\ UNCHANGED <<disk, current, loaderMu, instMu, life, vm, applied>>

Next ==
    \/ \E h \in Hosts, o \in Ops, i \in Insts \cup {NoInst} : Begin(h, o, i)
    \/ \E h \in Hosts : Step(h)
    \/ \E h \in Hosts : Cancel(h)
    \/ \E t \in Texts \cup {NoFile} : Edit(t)

Spec == Init /\ [][Next]_vars

(* Go's scheduler runs every runnable goroutine and its sync.Mutex is
   starvation free, so a step that stays possible, and a lock that keeps
   becoming free, are taken.  Script code is assumed to terminate. *)
Fairness ==
    \A h \in Hosts :
        /\ WF_vars(Step(h))
        /\ SF_vars(LockLoader(h))
        /\ SF_vars(Peek(h) \/ LockInst(h))

FairSpec == Spec /\ Fairness

(* A host that polls calls the *IfChanged method of what it uses again and
   again (the loader has no watcher of its own), and not always with a context
   that ends before the call does. *)
Polling ==
    /\ \A h \in Hosts :
          /\ WF_vars(Begin(h, "LoadIfChanged", NoInst))
          /\ \A i \in Insts : SF_vars(Begin(h, "ReloadIfChanged", i))
    /\ <>[][\A h \in Hosts : ~Cancel(h)]_vars

PollSpec == FairSpec /\ Polling

-----------------------------------------------------------------------------
(* Properties. *)

(* handle.Generation "increments only after a successful Load or Reload": a
   publication moves the generation up by exactly one, so no two snapshots a
   host can observe carry the same number and the number never goes back,
   although install reads and writes the atomic pointer in two steps. *)
GenerationAdvances == [][current'.gen = current.gen + 1]_current

(* "HotLoader serializes load/reload operations": the program a publication
   installs was not read from the file before the one it replaces. *)
PublishedInReadOrder == [][current'.src.rev >= current.src.rev]_current

(* inst.mu keeps the VM of an instance to one goroutine: a Call never runs
   next to a top level that is being applied, nor next to another Call, even
   for the host whose LoadInstance has not returned yet. *)
UsesVM(h, i) == call[h].pc \in {"run", "call"} /\ call[h].inst = i

VMExclusive ==
    \A i \in Insts : \A g, h \in Hosts : UsesVM(g, i) /\ UsesVM(h, i) => g = h

(* Whatever is edited while a reload is under way, the functions that a live
   instance exposes come from a text that compiled and whose top level ran to
   its end, and what a handle publishes compiled. *)
RunnableState ==
    /\ \A i \in Insts :
          life[i] = "live" => vm[i].text \in Texts \ (BadSyntax \cup BadRun)
    /\ current.gen > 0 => current.src.text \in Texts \ BadSyntax

(* inst.Generation is "the current successfully applied generation": when no
   call is inside the instance, the snapshot it reports is the one whose
   program its VM runs, so that the fingerprint ReloadIfChanged compares with
   describes the functions a Call would run. *)
AppliedMatchesVM ==
    \A i \in Insts :
        life[i] = "live" /\ instMu[i] = Nobody => applied[i].src = vm[i]

(* Every API call returns: loader.mu and inst.mu are never held while waiting
   for each other. *)
EveryCallReturns ==
    \A h \in Hosts : call[h].pc # "idle" ~> call[h].pc = "idle"

(* Polling the loader brings the handle to the text on disk, once edits stop
   at a text that compiles. *)
LoaderConverges ==
    <>[](disk.text \in Texts \ BadSyntax => current.src.text = disk.text)

(* Polling an instance brings its VM to the text on disk, once edits stop at
   a text that compiles and runs. *)
InstanceConverges ==
    \A i \in Insts :
        <>[](life[i] = "live" /\ disk.text \in Texts \ (BadSyntax \cup BadRun)
                => vm[i].text = disk.text)
=============================================================================
