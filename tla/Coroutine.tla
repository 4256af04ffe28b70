------------------------------ MODULE Coroutine ------------------------------
(***************************************************************************)
(* Coroutines of the bytecode engine (internal/vm/coroutine.go,            *)
(* vm_coroutine.go and the call, return and yield opcodes of vm.go).  A    *)
(* coroutine runs on a child VM with frames of its own.  Script calls are  *)
(* frames; only a resume, or a native function that calls back (pcall),    *)
(* enters run() again on the Go stack.  A yield sets a flag of the VM and  *)
(* makes run() return, with the frames left in place; a resume calls run() *)
(* again on top of them.                                                   *)
(*                                                                         *)
(* Frames are named by a number that no other call has, so that "returns   *)
(* to its caller" can be told from "returns to somebody".  Operands and    *)
(* results are left out.  The method JIT is off.                           *)
(***************************************************************************)
EXTENDS Naturals, Sequences, SequencesExt

CONSTANTS
    Co,        \* coroutines, created by the main program
    Main,      \* the VM of the main program
    Kind,      \* "script", "leaf", "native" or "generator"
    Wrapped,   \* coroutines made with coroutine.wrap
    Ways,      \* how the script calls each wrapper: "direct", "native"
    Nesting,   \* VMs whose script calls natives that call back
    MaxCalls,  \* bound: calls
    MaxDepth,  \* bound: frames of a VM
    Limit      \* values that a generator yields

Kinds == {"script", "leaf", "native", "generator"}
VMs == Co \cup {Main}

ASSUME CoroutineAssumption ==
    /\ Main \notin Co
    /\ Kind \in [Co -> Kinds]
    /\ Wrapped \subseteq Co
    /\ Ways \in [Wrapped -> SUBSET {"direct", "native"}]
    /\ \A c \in Co : Kind[c] = "generator" => c \in Wrapped
    /\ Nesting \subseteq VMs
    /\ MaxCalls \in Nat \ {0} /\ MaxDepth \in Nat /\ Limit \in Nat

VARIABLES
    status,     \* VMCoroutine.status
    started,    \* VMCoroutine.started
    hasVM,      \* VMCoroutine.vm is not nil
    frames,     \* VM.frames, by name of the call
    frameCount, \* VM.frameCount
    yielded,    \* VM.coroutineYielded
    wrapDead,   \* the variable dead of the wrapper made by coroutine.wrap
    next,       \* wrappedNumericGenerator.next
    iter,       \* the loop register of the generator's body
    goStack,    \* activations of run() on the Go stack
    raising,    \* the native call that just ended returned an error
    calls,      \* calls made so far
    strayed     \* a pcall got something else than the results of its call (history)

coVars == <<status, started, hasVM, wrapDead>>
genVars == <<next, iter>>
vars == <<coVars, frames, frameCount, yielded, genVars, goStack, raising, calls, strayed>>

Init ==
    /\ status = [c \in Co |-> "suspended"]
    /\ started = [c \in Co |-> FALSE]
    /\ hasVM = [c \in Co |-> FALSE]
    /\ frames = [v \in VMs |-> IF v = Main THEN <<1>> ELSE <<>>]
    /\ frameCount = [v \in VMs |-> IF v = Main THEN 1 ELSE 0]
    /\ yielded = [c \in Co |-> FALSE]
    /\ wrapDead = [c \in Wrapped |-> FALSE]
    /\ next = [c \in Co |-> 1]
    /\ iter = [c \in Co |-> 0]
    /\ goStack = <<[vm |-> Main, fc |-> 1, cur |-> 1, why |-> "main",
                    co |-> Main, way |-> "none", want |-> 1]>>
    /\ raising = FALSE
    /\ calls = 1
    /\ strayed = FALSE

-----------------------------------------------------------------------------
(* The activation in control, its VM, and what is below it. *)
Top == Last(goStack)
V == Top.vm
Below == Front(goStack)
Active == goStack # <<>> /\ ~raising
Free == Active /\ (V # Main => Kind[V] = "script")

(* Mutant: run() returns to its caller at the depth at which it was entered. *)
EntryDepth(v, n) == n

(* Mutant: the main program is treated like a coroutine. *)
OutermostDepth(v, n) == IF n > 1 THEN 1 ELSE n

(* The depth at which run() returns to its caller: where it was entered, but
   the outermost frame in the VM of a coroutine, which it enters again with
   all the frames of the yield. *)
InitialFC(v, n) == IF v # Main /\ n > 1 THEN 1 ELSE n

Activation(v, n, why, c, way, k) ==
    [vm |-> v, fc |-> InitialFC(v, n), cur |-> n, why |-> why, co |-> c, way |-> way, want |-> k]

(* A frame is stored at depth n; the slots above it keep what they hold. *)
Store(s, n, k) == IF n <= Len(s) THEN [s EXCEPT ![n] = k] ELSE Append(s, k)

PushFrame(v) ==
    /\ calls < MaxCalls /\ frameCount[v] < MaxDepth
    /\ calls' = calls + 1
    /\ frames' = [frames EXCEPT ![v] = Store(@, frameCount[v] + 1, calls + 1)]
    /\ frameCount' = [frameCount EXCEPT ![v] = @ + 1]

(* The resumer learns how a resume ended: as a value, or from a wrapper as an
   error of its own. *)
Answer(c, way, ok, none) ==
    /\ raising' = (way # "resume" /\ ~ok)
    /\ wrapDead' = IF way = "native" /\ (~ok \/ none)
                     THEN [wrapDead EXCEPT ![c] = TRUE] ELSE wrapDead

(* releaseVM *)
Release(c) ==
    /\ hasVM' = [hasVM EXCEPT ![c] = FALSE]
    /\ frames' = [frames EXCEPT ![c] = <<>>]
    /\ frameCount' = [frameCount EXCEPT ![c] = 0]

-----------------------------------------------------------------------------
(* What the Go caller of run() does when it returns. *)

(* call() pops its frame, unless the VM yielded. The VM of the main program
   first drops the frames an error left; that of a coroutine does not. *)
CallEnds(out) ==
    /\ frameCount' =
         IF V # Main /\ yielded'[V] THEN frameCount
         ELSE [frameCount EXCEPT ![V] = (IF out = "error" /\ V = Main THEN Top.fc ELSE @) - 1]
    /\ UNCHANGED frames

(* Mutant: the flag stays set. *)
FinishKeepsFlag(out, none) ==
    LET c == V
    IN  /\ IF out = "yield" \/ yielded[c]
             THEN /\ status' = [status EXCEPT ![c] = "suspended"]
                  /\ yielded' = [yielded EXCEPT ![c] = TRUE]
                  /\ Answer(c, Top.way, TRUE, none)
                  /\ UNCHANGED <<hasVM, frames, frameCount>>
             ELSE /\ status' = [status EXCEPT ![c] = "dead"]
                  /\ Release(c)
                  /\ Answer(c, Top.way, out = "return", none)
                  /\ UNCHANGED yielded
        /\ UNCHANGED strayed

(* The end of a resume: suspended if the VM yielded, dead otherwise. *)
FinishCoroutineRun(out, none) ==
    LET c == V
    IN  /\ IF out = "yield" \/ yielded[c]
             THEN /\ status' = [status EXCEPT ![c] = "suspended"]
                  /\ yielded' = [yielded EXCEPT ![c] = FALSE]
                  /\ Answer(c, Top.way, TRUE, none)
                  /\ UNCHANGED <<hasVM, frames, frameCount>>
             ELSE /\ status' = [status EXCEPT ![c] = "dead"]
                  /\ Release(c)
                  /\ Answer(c, Top.way, out = "return", none)
                  /\ UNCHANGED yielded
        /\ UNCHANGED strayed

SetYielded(out) ==
    yielded' = IF out = "yield" THEN [yielded EXCEPT ![V] = TRUE] ELSE yielded

PCallEnds(out) ==
    /\ SetYielded(out) /\ CallEnds(out)
    /\ strayed' = (strayed \/ (out = "return" /\ frames[V][Top.cur] # Top.want))
    /\ raising' = FALSE
    /\ UNCHANGED <<status, hasVM, wrapDead>>

(* The body of a leaf coroutine ran on the VM of the resumer. *)
LeafEnds(out, none) ==
    /\ SetYielded(out) /\ CallEnds(out)
    /\ status' = [status EXCEPT ![Top.co] = "dead"]
    /\ Answer(Top.co, Top.way, out # "error", none)
    /\ UNCHANGED <<hasVM, strayed>>

MainEnds ==
    /\ frameCount' = [frameCount EXCEPT ![Main] = 0]
    /\ raising' = FALSE
    /\ UNCHANGED <<status, hasVM, frames, yielded, wrapDead, strayed>>

(* run() of the activation in control returns. *)
RunEnds(out, none) ==
    /\ goStack' = Below
    /\ CASE Top.why = "main"   -> MainEnds
         [] Top.why = "resume" -> FinishCoroutineRun(out, none)
         [] Top.why = "pcall"  -> PCallEnds(out)
         [] Top.why = "leaf"   -> LeafEnds(out, none)

-----------------------------------------------------------------------------
(* What a script does. *)

(* A script function calls another one: a new frame in the same run(). *)
Call ==
    /\ Free
    /\ PushFrame(V)
    /\ goStack' = Append(Below, [Top EXCEPT !.cur = frameCount[V] + 1])
    /\ UNCHANGED <<coVars, yielded, genVars, raising, strayed>>

(* pcall: the native function calls back, in a run() of its own. *)
PCall ==
    /\ Free /\ V \in Nesting
    /\ PushFrame(V)
    /\ goStack' = Append(goStack, Activation(V, frameCount[V] + 1, "pcall", V, "none", calls + 1))
    /\ UNCHANGED <<coVars, yielded, genVars, raising, strayed>>

(* The generator's body returns when its loop is over, other bodies at any
   time. *)
MayReturn == Active /\ (V # Main => Kind[V] = "script" \/ iter[V] = Limit)

(* A return to a frame of the same run() ... *)
ReturnInline ==
    /\ MayReturn
    /\ frameCount[V] > Top.fc
    /\ frameCount' = [frameCount EXCEPT ![V] = @ - 1]
    /\ goStack' = Append(Below, [Top EXCEPT !.cur = frameCount[V] - 1])
    /\ UNCHANGED <<coVars, frames, yielded, genVars, raising, calls, strayed>>

(* ... or to the Go caller of run(), with or without values. *)
ReturnToGo(none) ==
    /\ MayReturn
    /\ frameCount[V] <= Top.fc
    /\ RunEnds("return", none)
    /\ UNCHANGED <<started, genVars, calls>>

(* The script raises an error, or an error that a native call returned goes
   on, to the Go caller of run(). Yielding outside a coroutine is one, too. *)
Error ==
    /\ Free \/ raising
    /\ RunEnds("error", FALSE)
    /\ UNCHANGED <<started, genVars, calls>>

(* coroutine.yield, with or without values; a generator yields the number its
   loop has come to. *)
Yield(none) ==
    /\ Active /\ V # Main
    /\ IF Kind[V] = "generator"
         THEN /\ iter[V] < Limit /\ ~none
              /\ iter' = [iter EXCEPT ![V] = @ + 1]
         ELSE UNCHANGED iter
    /\ RunEnds("yield", none)
    /\ UNCHANGED <<started, next, calls>>

-----------------------------------------------------------------------------
(* Resuming: coroutine.resume, a direct call of a wrapper, or a call of it by
   native code such as the iteration of a for loop. *)

WaysOf(c) == IF c \in Wrapped THEN Ways[c] ELSE {"resume"}

UsesGenerator(c, way) == Kind[c] = "generator" /\ way = "direct"

CanResume(c, way) ==
    /\ Free
    /\ way \in WaysOf(c)
    /\ ~(way = "native" /\ wrapDead[c])
    /\ ~UsesGenerator(c, way)

(* "cannot resume dead coroutine", "cannot resume running coroutine" *)
Refuse(c, way) ==
    /\ CanResume(c, way) /\ status[c] # "suspended"
    /\ Answer(c, way, FALSE, TRUE)
    /\ UNCHANGED <<status, started, hasVM, frames, frameCount, yielded, genVars,
                   goStack, calls, strayed>>

(* A wrapper that was found at its end by native code raises at once. *)
RefuseWrapper(c) ==
    /\ Free /\ c \in Wrapped /\ "native" \in Ways[c] /\ wrapDead[c]
    /\ raising' = TRUE
    /\ UNCHANGED <<coVars, frames, frameCount, yielded, genVars, goStack, calls, strayed>>

(* Mutant: the status is not looked at. *)
ResumableAlways(c, way) == CanResume(c, way)

Resumable(c, way) == CanResume(c, way) /\ status[c] = "suspended"

(* A native function, or a body without calls, runs once and is dead. Such a
   body runs on the VM of the resumer; in a coroutine its run() does not stop
   where the body returns, but goes on with the frames of the resumer. *)
RunOnce(c, way, ok, none) ==
    /\ Resumable(c, way)
    /\ Kind[c] \in {"native", "leaf"}
    /\ started' = [started EXCEPT ![c] = TRUE]
    /\ IF Kind[c] = "leaf" /\ V # Main /\ ok
         THEN /\ V \in Nesting
              /\ status' = [status EXCEPT ![c] = "running"]
              /\ goStack' = Append(goStack,
                    [Activation(V, frameCount[V] + 1, "leaf", c, way, 0)
                       EXCEPT !.cur = frameCount[V]])
              /\ UNCHANGED <<wrapDead, raising>>
         ELSE /\ status' = [status EXCEPT ![c] = "dead"]
              /\ Answer(c, way, ok, none)
              /\ UNCHANGED goStack
    /\ UNCHANGED <<hasVM, frames, frameCount, yielded, genVars, calls, strayed>>

(* The first resume makes the child VM and calls the body. *)
Start(c, way) ==
    /\ Resumable(c, way) /\ ~started[c]
    /\ Kind[c] \in {"script", "generator"}
    /\ PushFrame(c)
    /\ status' = [status EXCEPT ![c] = "running"]
    /\ started' = [started EXCEPT ![c] = TRUE]
    /\ hasVM' = [hasVM EXCEPT ![c] = TRUE]
    /\ goStack' = Append(goStack, Activation(c, 1, "resume", c, way, calls + 1))
    /\ UNCHANGED <<wrapDead, yielded, genVars, raising, strayed>>

(* A later one goes on with the frames of the VM ... *)
Continue(c, way) ==
    /\ Resumable(c, way) /\ started[c] /\ hasVM[c]
    /\ status' = [status EXCEPT ![c] = "running"]
    /\ goStack' = Append(goStack,
                    Activation(c, frameCount[c], "resume", c, way, frames[c][frameCount[c]]))
    /\ UNCHANGED <<started, hasVM, wrapDead, frames, frameCount, yielded, genVars,
                   raising, calls, strayed>>

(* ... and without a VM gives the coroutine up for dead. *)
GiveUp(c, way) ==
    /\ Resumable(c, way) /\ started[c] /\ ~hasVM[c]
    /\ status' = [status EXCEPT ![c] = "dead"]
    /\ Answer(c, way, FALSE, TRUE)
    /\ UNCHANGED <<started, hasVM, frames, frameCount, yielded, genVars, goStack,
                   calls, strayed>>

(* A direct call of a numeric generator does not resume it: a counter beside
   the coroutine plays the loop of its body. *)
CallGenerator(c) ==
    /\ Free /\ UsesGenerator(c, "direct") /\ "direct" \in WaysOf(c)
    /\ IF status[c] # "suspended"
         THEN raising' = TRUE /\ UNCHANGED <<started, status, next>>
         ELSE /\ started' = [started EXCEPT ![c] = TRUE]
              /\ IF next[c] > Limit
                   THEN status' = [status EXCEPT ![c] = "dead"] /\ UNCHANGED next
                   ELSE next' = [next EXCEPT ![c] = @ + 1] /\ UNCHANGED status
              /\ UNCHANGED raising
    /\ UNCHANGED <<hasVM, wrapDead, frames, frameCount, yielded, iter, goStack, calls,
                   strayed>>

ResumeStep(c) ==
    \/ RefuseWrapper(c) \/ CallGenerator(c)
    \/ \E way \in WaysOf(c) :
          \/ Refuse(c, way)
          \/ Start(c, way) \/ Continue(c, way) \/ GiveUp(c, way)
          \/ \E ok, none \in BOOLEAN : RunOnce(c, way, ok, none)

Next ==
    \/ Call \/ PCall \/ ReturnInline \/ Error
    \/ \E none \in BOOLEAN : ReturnToGo(none) \/ Yield(none)
    \/ \E c \in Co : ResumeStep(c)

Spec == Init /\ [][Next]_vars

-----------------------------------------------------------------------------
(* Properties. *)

Activations ==
    [vm : VMs, fc : Nat, cur : Nat, why : {"main", "resume", "pcall", "leaf"},
     co : VMs, way : {"none", "resume", "direct", "native"}, want : Nat]

(* The state is well formed. *)
TypeOK ==
    /\ status \in [Co -> {"suspended", "running", "dead"}]
    /\ started \in [Co -> BOOLEAN] /\ hasVM \in [Co -> BOOLEAN]
    /\ frames \in [VMs -> Seq(Nat)] /\ frameCount \in [VMs -> Nat]
    /\ yielded \in [Co -> BOOLEAN]
    /\ wrapDead \in [Wrapped -> BOOLEAN]
    /\ next \in [Co -> Nat] /\ iter \in [Co -> Nat]
    /\ goStack \in Seq(Activations)
    /\ raising \in BOOLEAN /\ calls \in Nat
    /\ strayed \in BOOLEAN

Resumed == [i \in 1..Len(goStack) |-> goStack[i].co]

(* A coroutine is on the Go stack once or not at all, and "running" is said of
   those that are: a coroutine that resumes itself or one of those that
   resumed it would run twice on one VM. *)
RunningIsOnStack ==
    \A c \in Co :
        LET at == {i \in 1..Len(goStack) : goStack[i].why \in {"resume", "leaf"} /\ Resumed[i] = c}
        IN  /\ (status[c] = "running") <=> (at # {})
            /\ \A i, j \in at : i = j

(* A suspended coroutine that has started can go on: it has its VM, with the
   frames of the yield. A dead one holds no VM, and no yield is left pending.
   Generators are left out: a direct call advances them without a VM. *)
SuspendedCanContinue ==
    \A c \in Co : Kind[c] # "generator" =>
        /\ status[c] = "suspended" /\ started[c] => hasVM[c] /\ frameCount[c] >= 1
        /\ status[c] = "dead" => ~hasVM[c]
        /\ ~yielded[c]

(* "On success it returns true followed by all values returned by fn": pcall
   gets the results of the call it made. *)
ProtectedCallReturns == ~strayed

(* The main program is never entered from a coroutine: its activations are the
   lowest ones. *)
LastOfMain ==
    CHOOSE k \in 0..Len(goStack) : \A i \in 1..Len(goStack) : goStack[i].vm = Main <=> i <= k

Chain == [i \in 1..(Len(goStack) - LastOfMain) |-> goStack[LastOfMain + i].co]
InProgress == [v \in VMs |-> SubSeq(frames[v], 1, frameCount[v])]
Guarded == {goStack[i].want : i \in {j \in 1..Len(goStack) : goStack[j].why = "pcall"}}

Abstract == INSTANCE CoroutineSpec WITH
    Calls <- 1..MaxCalls, ended <- wrapDead,
    chain <- Chain, calls <- InProgress, guarded <- Guarded

(* Frames, activations and flags implement coroutines: control returns to the
   resumer at a yield and to the caller at a return, a resumed coroutine goes
   on with the calls it had, an error ends the innermost protected call or the
   coroutine, and only suspended coroutines are resumed. *)
ImplementsCoroutineSpec == Abstract!Spec
=============================================================================
