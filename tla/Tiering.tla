------------------------------ MODULE Tiering ------------------------------
(***************************************************************************)
(* The tiering manager of the method JIT (internal/methodjit): when Tier 2 *)
(* code is compiled, published, revoked and queued for recompilation, how  *)
(* the published entries reach native callers, and what happens to code    *)
(* that is running meanwhile.                                              *)
(*                                                                         *)
(* One goroutine runs everything: the stack holds the activations of the   *)
(* script, and every step is one of the manager's handlers.  What a gate,  *)
(* a profile or a pass decides about bytecode is a free choice; a compiled *)
(* body keeps the facts it was compiled with (an epoch of the globals and  *)
(* shapes it depends on), the callees it speculated on and the feedback it *)
(* has seen.  `mgr` is the manager with the entry fields of FuncProto, and *)
(* the operators on it are the manager's methods.                          *)
(***************************************************************************)
EXTENDS Integers, Sequences, FiniteSets

CONSTANTS
    Protos,       \* function prototypes
    Loops,        \* those with a loop (FuncProfile.HasLoop)
    Roots,        \* those the host calls
    Calls,        \* the functions each one calls
    Direct,       \* those whose code has Tier2DirectEntrySafe
    Replay,       \* those whose code has DirectEntrySafe: no effect is repeated
                  \* when they are started again
    Rejects,      \* those whose Tier 2 compilation may fail
    Assumes,      \* those whose code depends on a global or a shape
    Name,         \* FuncProto.Name, "<anonymous>" for every function literal
    Tier1,        \* the direct entry of a Tier 1 body
    MaxBodies,    \* bound: Tier 2 bodies compiled
    MaxFeedback,  \* bound: how often feedback matures
    MaxEpoch,     \* bound: changes of the facts code depends on
    MaxDepth      \* bound: activations

ASSUME TieringAssumption ==
    /\ Loops \subseteq Protos /\ Direct \subseteq Protos /\ Replay \subseteq Protos
    /\ Assumes \subseteq Protos /\ Rejects \subseteq Protos
    /\ Roots \subseteq Protos /\ Calls \in [Protos -> SUBSET Protos]
    /\ Name \in [Protos -> STRING]
    /\ MaxBodies \in Nat /\ MaxFeedback \in Nat /\ MaxEpoch \in Nat /\ MaxDepth \in Nat
    /\ Tier1 \notin Int

VARIABLES
    mgr,      \* the manager and the entry fields of each FuncProto
    feedback, \* how mature the feedback of each proto is
    epoch,    \* version of the globals and shapes
    stack,    \* activations, the running one last
    task      \* a promotion, an error, or the unwinding of native frames, under way

vars == <<mgr, feedback, epoch, stack, task>>

Bodies == 1..MaxBodies
Body == [epoch : 0..MaxEpoch, callees : SUBSET Protos, seen : 0..MaxFeedback]

\* How an activation runs: in the interpreter or in Tier 1; in Tier 2 code that
\* executeTier2 entered (tier2), that a native call entered (native), or that the
\* native-call-exit protocol took over (resumed); in the interpreter after one of
\* the latter gave up, inside executeTier2 (deopted) or inside the protocol
\* (fallback), or after an overflow in Tier 1 (overflowed).
Kinds == {"interp", "tier1", "tier2", "native", "resumed", "deopted", "fallback",
          "overflowed"}
\* proto is the function whose code runs, closure the one that was called: the
\* protocol may go on with a callee in the body of its caller.
Frame == [proto : Protos, closure : Protos, code : 0..MaxBodies, kind : Kinds,
          deferred : BOOLEAN, effect : BOOLEAN]
Idle == [kind |-> "idle"]
Unwinding == [kind |-> "unwind"]
Promotion == [kind : {"call", "osr"}, proto : Protos, todo : SUBSET Protos]
\* An error on its way into the activation on top; a pcall there may catch it
\* unless it is an error of the native-call-exit protocol.
Raising == [kind : {"raise"}, catchable : BOOLEAN]
Raise(c) == [kind |-> "raise", catchable |-> c]

Manager ==
    [made : 0..MaxBodies, body : [Bodies -> Body],
     compiled : [Protos -> 0..MaxBodies], failed : SUBSET Protos,
     requests : SUBSET Protos, dependents : [Protos -> SUBSET Protos],
     direct : [Protos -> 0..MaxBodies \cup {Tier1}], tier2 : [Protos -> 0..MaxBodies],
     promoted : SUBSET Protos, cached : [Protos -> SUBSET (Bodies \cup {Tier1})],
     baseline : SUBSET Protos, quiet : SUBSET Protos, osr : SUBSET Protos]

Init ==
    /\ mgr = [made |-> 0,
              body |-> [c \in Bodies |-> [epoch |-> 0, callees |-> {}, seen |-> 0]],
              compiled |-> [p \in Protos |-> 0], failed |-> {}, requests |-> {},
              dependents |-> [p \in Protos |-> {}],
              direct |-> [p \in Protos |-> 0], tier2 |-> [p \in Protos |-> 0],
              promoted |-> {}, cached |-> [p \in Protos |-> {}],
              baseline |-> {}, quiet |-> {}, osr |-> {}]
    /\ feedback = [p \in Protos |-> 0]
    /\ epoch = 0
    /\ stack = <<>>
    /\ task = Idle

-----------------------------------------------------------------------------
(* Entry fields of a FuncProto.  DirectEntryVersion is not kept as a number: *)
(* cached[p] holds the entries that call sites remember under the current    *)
(* version of p, so a new version empties it.                                *)

\* Mutant: the version follows the generic entry only.
SetDirectOnly(m, p, direct, tier2) ==
    [m EXCEPT !.direct[p] = direct, !.tier2[p] = tier2,
              !.cached[p] = IF m.direct[p] = direct THEN @ ELSE {}]

SetEntries(m, p, direct, tier2) ==
    IF m.direct[p] = direct /\ m.tier2[p] = tier2 THEN m
    ELSE [m EXCEPT !.direct[p] = direct, !.tier2[p] = tier2, !.cached[p] = {}]

ClearPointers(m, p) == [SetEntries(m, p, 0, 0) EXCEPT !.promoted = @ \ {p}]

\* What a native caller of p loads, when its call site has nothing cached.
Loaded(m, p) == IF m.direct[p] # 0 THEN m.direct[p] ELSE m.tier2[p]

(* Tier 1. *)

CompileBaseline(m, p) ==
    IF p \in m.baseline THEN m
    ELSE [SetEntries(m, p, IF p \in Replay THEN Tier1 ELSE 0, m.tier2[p])
            EXCEPT !.baseline = @ \cup {p}]

EvictBaseline(m, p) == [ClearPointers(m, p) EXCEPT !.baseline = @ \ {p}]

DisableFeedback(m, p) ==
    IF p \in m.quiet THEN m
    ELSE [EvictBaseline(m, p) EXCEPT !.quiet = @ \cup {p}]

(* Published Tier 2 code. *)

Stale(m, p) ==
    m.compiled[p] # 0 /\ p \in Assumes /\ m.body[m.compiled[p]].epoch # epoch

\* Mutant: the reverse index keeps the callers whose code is gone.
ClearKeepsDependents(m, S) ==
    [m EXCEPT
        !.compiled = [p \in Protos |-> IF p \in S THEN 0 ELSE @[p]],
        !.direct = [p \in Protos |-> IF p \in S THEN 0 ELSE @[p]],
        !.tier2 = [p \in Protos |-> IF p \in S THEN 0 ELSE @[p]],
        !.cached = [p \in Protos |-> IF p \in S /\ Loaded(m, p) # 0 THEN {} ELSE @[p]],
        !.promoted = @ \ S]

\* Mutant: only the generic entry is revoked with the body.
ClearKeepsTier2Entry(m, S) ==
    [m EXCEPT
        !.compiled = [p \in Protos |-> IF p \in S THEN 0 ELSE @[p]],
        !.dependents = [q \in Protos |-> @[q] \ S],
        !.direct = [p \in Protos |-> IF p \in S THEN 0 ELSE @[p]],
        !.promoted = @ \ S]

ClearInstalls(m, S) ==
    [m EXCEPT
        !.compiled = [p \in Protos |-> IF p \in S THEN 0 ELSE @[p]],
        !.dependents = [q \in Protos |-> @[q] \ S],
        !.direct = [p \in Protos |-> IF p \in S THEN 0 ELSE @[p]],
        !.tier2 = [p \in Protos |-> IF p \in S THEN 0 ELSE @[p]],
        !.cached = [p \in Protos |-> IF p \in S /\ Loaded(m, p) # 0 THEN {} ELSE @[p]],
        !.promoted = @ \ S]

ClearInstall(m, p) == ClearInstalls(m, {p})

\* Mutant: the lookup trusts what was published.
TrustPublished(m, p) == m

\* tier2CompiledFor: code whose dependencies changed is dropped on the way.
CheckDependencies(m, p) == IF Stale(m, p) THEN ClearInstall(m, p) ELSE m

QueueDependents(m, q) ==
    LET callers == {p \in m.dependents[q] \ {q} : m.compiled[p] # 0}
        stale == {p \in callers : Stale(m, p)}
        fresh == (callers \ stale) \ m.requests
    IN [ClearInstalls(m, stale \cup fresh) EXCEPT !.requests = @ \cup fresh]

Install(m, p, c) ==
    LET n == [m EXCEPT !.promoted = @ \cup {p},
                       !.cached[p] = IF p \in m.promoted THEN @ ELSE {}]
    IN SetEntries(n, p, IF p \in Direct \cap Replay THEN c ELSE 0,
                        IF p \in Direct THEN c ELSE 0)

Register(m, p, c) ==
    [m EXCEPT !.dependents =
        [q \in Protos |-> IF q \in m.body[c].callees \ {p} THEN @[q] \cup {p}
                                                          ELSE @[q] \ {p}]]

Publish(m, p, c) ==
    QueueDependents([Register(Install(m, p, c), p, c) EXCEPT !.compiled[p] = c], p)

MarkFailed(m, p) == [m EXCEPT !.failed = @ \cup {p}]

\* compileTier2 fails, which it records itself, or is put off.
Failed(m, p) == {MarkFailed(m, p) : x \in {p} \cap Rejects}
Rejected(m, p) == {m} \cup Failed(m, p)

\* A successful compileTier2 followed by markTier2Compiled, for every choice of
\* the callees the body speculates on.
Compiled(m, p) ==
    LET c == m.made + 1
        With(callees) == [epoch |-> epoch, callees |-> callees, seen |-> feedback[p]]
    IN IF m.made = MaxBodies THEN {}
       ELSE {Publish([m EXCEPT !.made = c, !.body[c] = With(callees)], p, c) :
                callees \in SUBSET (Calls[p] \ {p})}

ShouldRefresh(m, p, c) == m.body[c].seen < feedback[p]

Request(m, p) == [m EXCEPT !.requests = @ \cup {p}]
ArmOSR(m, p) == [m EXCEPT !.osr = @ \cup {p}]
DisarmOSR(m, p) == [m EXCEPT !.osr = @ \ {p}]

-----------------------------------------------------------------------------
(* The stack of activations. *)

Top == stack[Len(stack)]
Below == SubSeq(stack, 1, Len(stack) - 1)
WithTop(fr) == Append(Below, fr)
RunsTier2(fr) == fr.kind \in {"tier2", "resumed"}
Active(p) == \E i \in 1..Len(stack) :
                stack[i].proto = p /\ stack[i].kind \in {"tier2", "deopted"}

\* fr after it did something the script can see; kept of what may be started again.
Acted(fr) ==
    [fr EXCEPT !.effect = @ \/ (/\ fr.proto \notin Replay
                                /\ fr.kind \notin {"interp", "deopted", "overflowed"})]

NewFrame(p, kind, c) ==
    [proto |-> p, closure |-> p, code |-> c, kind |-> kind,
     deferred |-> FALSE, effect |-> FALSE]

\* The VM calls p: for a caller in compiled code this is an exit.
Called(p, kind, c) ==
    Append(IF stack = <<>> THEN stack ELSE WithTop(Acted(Top)), NewFrame(p, kind, c))

Running == task = Idle /\ stack # <<>>
MayCall(p) ==
    /\ task = Idle /\ Len(stack) < MaxDepth
    /\ IF stack = <<>> THEN p \in Roots
       ELSE Top.kind # "native" /\ p \in Calls[Top.proto]

-----------------------------------------------------------------------------
(* A call through the VM: TryCompile decides in which tier it runs. *)

\* What TryCompile does before the policy is asked.
Prepare(m, p) ==
    LET n == CheckDependencies(m, p)
    IN IF p \in n.requests
       THEN [ClearInstall(n, p) EXCEPT !.requests = @ \ {p}]
       ELSE n

CallCompiled(p) ==
    LET m == Prepare(mgr, p)
    IN /\ MayCall(p) /\ m.compiled[p] # 0
       /\ mgr' = m
       /\ stack' = Called(p, "tier2", m.compiled[p])
       /\ UNCHANGED <<feedback, epoch, task>>

CallInterpreted(p) ==
    LET m == Prepare(mgr, p)
    IN /\ MayCall(p) /\ m.compiled[p] = 0
       /\ mgr' = m
       /\ stack' = Called(p, "interp", 0)
       /\ UNCHANGED <<feedback, epoch, task>>

\* OSR is armed for a loop that passes its gates.
UseTier1(m, p) ==
    IF p \in m.failed
    THEN {CompileBaseline(DisableFeedback(m, p), p)}
    ELSE {CompileBaseline(m, p)}
         \cup {ArmOSR(CompileBaseline(m, p), p) : x \in {p} \cap Loops}

CallTier1(p) ==
    LET m == Prepare(mgr, p)
    IN /\ MayCall(p) /\ m.compiled[p] = 0
       /\ mgr' \in UseTier1(m, p)
       /\ stack' = Called(p, "tier1", 0)
       /\ UNCHANGED <<feedback, epoch, task>>

\* promoteTier2 and handleOSR first compile the callees of the loops.
LoopCallees(p) == IF p \in Loops THEN Calls[p] \ {p} ELSE {}

CallPromoted(p) ==
    LET m == Prepare(mgr, p)
    IN /\ MayCall(p) /\ m.compiled[p] = 0 /\ p \notin m.failed
       /\ mgr' = m
       /\ task' = [kind |-> "call", proto |-> p, todo |-> LoopCallees(p)]
       /\ UNCHANGED <<feedback, epoch, stack>>

FireOSR ==
    /\ Running /\ Top.kind = "tier1" /\ Top.proto \in mgr.osr
    /\ task' = [kind |-> "osr", proto |-> Top.proto, todo |-> LoopCallees(Top.proto)]
    /\ UNCHANGED <<mgr, feedback, epoch, stack>>

\* ensureNativeLoopCallees and ensureRawIntLoopCallees, one callee.  An error,
\* a delay too, marks the callee as failed.
EnsureCallee(q) ==
    LET m == CheckDependencies(mgr, q)
    IN /\ task \in Promotion /\ q \in task.todo
       /\ task' = [task EXCEPT !.todo = @ \ {q}]
       /\ mgr' \in IF q \in mgr.failed THEN {mgr}
                   ELSE IF m.compiled[q] # 0 THEN {m}
                   ELSE {m} \cup Failed(m, q) \cup Compiled(m, q)
       /\ UNCHANGED <<feedback, epoch, stack>>

Promoting(kind) == task \in Promotion /\ task.kind = kind /\ task.todo = {}

PromoteTier2 ==
    LET p == task.proto
        m == CompileBaseline(mgr, p)
    IN /\ Promoting("call")
       /\ \/ /\ mgr' \in Compiled(m, p)
             /\ stack' = Called(p, "tier2", mgr'.compiled[p])
          \/ /\ mgr' \in {m} \cup {DisableFeedback(k, p) : k \in Failed(m, p)}
             /\ stack' = Called(p, "tier1", 0)
       /\ task' = Idle
       /\ UNCHANGED <<feedback, epoch>>

HandleOSR ==
    LET p == task.proto
        Off(m) == CompileBaseline(DisarmOSR(m, p), p)
    IN /\ Promoting("osr")
       /\ \/ /\ mgr' \in Compiled(mgr, p)
             /\ stack' = WithTop(NewFrame(p, "tier2", mgr'.compiled[p]))
          \/ /\ mgr' \in {Off(mgr)} \cup {Off(DisableFeedback(k, p)) : k \in Failed(mgr, p)}
             /\ UNCHANGED stack
       /\ task' = Idle
       /\ UNCHANGED <<feedback, epoch>>

-----------------------------------------------------------------------------
(* Exits of running code. *)

\* An overflow deopt of Tier 1 goes on in the interpreter; a guard at the entry
\* compiles again and starts over.
Tier1Deopt ==
    LET p == Top.proto
        m == EvictBaseline(mgr, p)
    IN /\ Running /\ Top.kind = "tier1"
       /\ \/ mgr' = m /\ stack' = WithTop(NewFrame(p, "overflowed", 0))
          \/ ~Top.effect /\ mgr' = CompileBaseline(m, p) /\ UNCHANGED stack
       /\ UNCHANGED <<feedback, epoch, task>>

\* recordTier2ExitProfile: a hot exit asks for a new body once feedback matured,
\* and drops the published one unless executeTier2 is running the proto.
Profiled(m, p, c) ==
    {m} \cup (IF ShouldRefresh(m, p, c) /\ p \notin m.requests
              THEN {IF Active(p) THEN Request(m, p) ELSE Request(ClearInstall(m, p), p)}
              ELSE {})

\* A table, global or op exit of an activation of executeTier2.
SideExit ==
    LET p == Top.proto
    IN /\ Running /\ Top.kind = "tier2"
       /\ mgr' \in Profiled(mgr, p, Top.code)
       /\ stack' = WithTop([Acted(Top) EXCEPT
                      !.deferred = @ \/ ShouldRefresh(mgr, p, Top.code)])
       /\ UNCHANGED <<feedback, epoch, task>>

\* The same of a resumed activation, where refreshCallee may switch to a new body.
ResumedExit ==
    LET p == Top.proto
        refresh == ~Top.deferred /\ ShouldRefresh(mgr, p, Top.code)
    IN /\ Running /\ Top.kind = "resumed"
       /\ \/ /\ ~refresh
             /\ mgr' = mgr
             /\ stack' = WithTop(Acted(Top))
          \/ /\ refresh
             /\ mgr' \in Rejected(mgr, p)
             /\ stack' = WithTop([Acted(Top) EXCEPT !.deferred = TRUE])
          \/ /\ refresh
             /\ mgr' \in Compiled(mgr, p)
             /\ stack' = WithTop([Acted(Top) EXCEPT !.code = mgr'.compiled[p]])
       /\ UNCHANGED <<feedback, epoch, task>>

\* applyTier2DeoptAction.
DeoptActions(m, p) ==
    LET n == ClearInstall(m, p)
    IN {EvictBaseline(DisarmOSR(k, p), p) : k \in {Request(n, p), MarkFailed(n, p)}}

\* The caller after its callee returned or failed: what a callee that is part of the
\* caller's native execution did, the caller did too, and an activation of
\* executeTier2 looks at its feedback after each exit.
Resumed(fr, callee, m) ==
    [fr EXCEPT !.effect = @ \/ (callee.effect /\ callee.kind \in {"native", "resumed", "fallback"}),
               !.deferred = @ \/ (/\ fr.kind = "tier2" /\ callee.kind # "native"
                                  /\ ShouldRefresh(m, fr.proto, fr.code))]

\* A failed guard of an activation of executeTier2.  Code that deopts without a resume
\* pc does so before any effect; at its entry it is run again in Tier 1.
Deopt ==
    LET p == Top.proto
        Into(kind) == WithTop(NewFrame(p, kind, 0))
    IN /\ Running /\ Top.kind = "tier2"
       /\ \E m \in DeoptActions(mgr, p) :
            \/ mgr' = m /\ stack' = Into("deopted")
            \/ /\ ~Top.effect
               /\ \/ mgr' = m /\ stack' = Into("interp")
                  \/ mgr' = CompileBaseline(m, p) /\ stack' = Into("deopted")
       /\ UNCHANGED <<feedback, epoch, task>>

\* The same of a resumed activation, which is an error without a resume pc or without
\* a closure of the proto: the context holds that of the callee that exited last, the
\* activation's own or that of a native call it made.
ResumedDeopt ==
    LET p == Top.proto
        n == Len(stack)
    IN /\ Running /\ Top.kind = "resumed"
       /\ mgr' \in DeoptActions(mgr, p)
       /\ \/ /\ p \in {Top.closure} \cup Calls[p]
             /\ stack' = WithTop([Top EXCEPT !.closure = p, !.kind = "fallback",
                                             !.code = 0, !.deferred = FALSE])
             /\ UNCHANGED task
          \/ /\ stack' = [Below EXCEPT ![n - 1].effect = @ \/ Top.effect]
             /\ task' = Raise(FALSE)
       /\ UNCHANGED <<feedback, epoch>>

-----------------------------------------------------------------------------
(* Errors and returns. *)

\* An error leaves the activation on top.  When the VM entered it through
\* executeMethodJIT it is not the caller that gets the error: the VM goes on with the
\* activation in the interpreter, from its start if nothing moved the pc of its frame.
Fail ==
    LET n == Len(stack)
    IN /\ stack # <<>> /\ task \in {Idle} \cup Raising /\ Top.kind # "native"
       /\ IF Top.kind \in {"tier1", "tier2", "deopted", "overflowed"}
          THEN /\ stack' = WithTop(NewFrame(Top.proto, "interp", 0))
               /\ task' = Idle
          ELSE /\ stack' = IF n = 1 THEN <<>>
                           ELSE [Below EXCEPT ![n - 1].effect =
                                   @ \/ (Top.effect /\ Top.kind # "interp")]
               /\ task' = IF n = 1 THEN Idle ELSE Raise(Top.kind = "interp")
       /\ UNCHANGED <<mgr, feedback, epoch>>

\* A pcall of the activation on top gets the error.
Catch ==
    /\ task = Raise(TRUE)
    /\ task' = Idle
    /\ stack' = WithTop(Resumed(Top, NewFrame(Top.proto, "interp", 0), mgr))
    /\ UNCHANGED <<mgr, feedback, epoch>>

\* retireStaleTier2AfterFeedback, when an activation that put off its refresh ends.
Retired(m, p, c) ==
    LET n == QueueDependents(m, p)
        seen == [n EXCEPT !.body[c].seen = feedback[p]]
        cleared == ClearInstall(n, p)
    IN IF ~ShouldRefresh(m, p, c) THEN {m}
       ELSE IF p \in Loops
       THEN {IF p \in n.requests THEN seen ELSE ClearPointers(Request(seen, p), p)}
       ELSE Rejected(cleared, p) \cup Compiled(n, p)

\* tryPromoteCallExitCallee.
PromoteCallee(m, p) ==
    LET n == CheckDependencies(m, p)
    IN {n} \cup (IF n.compiled[p] = 0 /\ p \notin n.failed
                 THEN Failed(n, p) \cup Compiled(n, p) ELSE {})

Return ==
    LET p == Top.proto
        caller == stack[Len(stack) - 1]
        byVM == Top.kind \notin {"native", "resumed", "fallback"}
    IN /\ Running
       /\ \E m \in IF Top.deferred THEN Retired(mgr, p, Top.code) ELSE {mgr} :
            mgr' \in IF Len(stack) > 1 /\ byVM /\ RunsTier2(caller)
                     THEN PromoteCallee(m, p) ELSE {m}
       /\ stack' = IF Len(stack) = 1 THEN <<>>
                   ELSE [Below EXCEPT ![Len(stack) - 1] = Resumed(caller, Top, mgr')]
       /\ UNCHANGED <<feedback, epoch, task>>

-----------------------------------------------------------------------------
(* Native calls between compiled bodies. *)

\* Mutant: the load of the entry is not checked for zero.
NativeCallUnchecked(q) ==
    /\ Running /\ Len(stack) < MaxDepth
    /\ Top.kind \in {"tier2", "native", "resumed"} /\ q \in Calls[Top.proto]
    /\ mgr' = mgr
    /\ stack' = Append(stack, NewFrame(q, "native", Loaded(mgr, q)))
    /\ UNCHANGED <<feedback, epoch, task>>

\* A call site uses the entry it remembers, or loads one; a body that calls its
\* own proto branches to itself.  A Tier 1 body runs to its end.
NativeCall(q) ==
    /\ Running /\ Len(stack) < MaxDepth
    /\ Top.kind \in {"tier2", "native", "resumed"} /\ q \in Calls[Top.proto]
    /\ \E e \in mgr.cached[q] \cup {Loaded(mgr, q)} :
         /\ e # 0
         /\ mgr' = [mgr EXCEPT !.cached[q] = @ \cup ({Loaded(mgr, q)} \ {0})]
         /\ stack' = IF q = Top.proto THEN Append(stack, NewFrame(q, "native", Top.code))
                     ELSE IF e = Tier1 THEN stack
                     ELSE Append(stack, NewFrame(q, "native", e))
    /\ UNCHANGED <<feedback, epoch, task>>

\* Native code exits: every native frame returns to the one below it, down to the
\* Go code that entered it.
NativeExit ==
    /\ Running /\ Top.kind = "native"
    /\ task' = Unwinding
    /\ UNCHANGED <<mgr, feedback, epoch, stack>>

\* The outermost native frame is taken over first.
Outermost == CHOOSE i \in 1..Len(stack) :
    /\ stack[i].kind = "native"
    /\ \A j \in 1..(i - 1) : stack[j].kind # "native"

\* nativeExitCallee: the proto and the body that the exit of a callee q is handled and
\* resumed in; body 0 stands for an error.  Without a body of its own a callee goes on
\* in its caller's, if the two are one function or have one name.
ExitCallee(m, caller, q) ==
    IF m.compiled[q] # 0 THEN [proto |-> q, code |-> m.compiled[q]]
    ELSE IF q = caller.proto \/ Name[q] = Name[caller.proto]
         THEN [proto |-> caller.proto, code |-> caller.code]
    ELSE [proto |-> q, code |-> 0]

\* executeNativeCallExit up to the resumption.  Only the frame that exited records
\* an exit.  A body that has no resume point for the exit fails with the next step.
ResumeCallee ==
    LET i == Outermost
        m == CheckDependencies(mgr, stack[i].proto)
        e == ExitCallee(m, stack[i - 1], stack[i].proto)
        n == IF e.proto \in Replay THEN m
             ELSE SetEntries(m, e.proto, 0, IF e.proto \in Direct THEN e.code ELSE 0)
        last == i = Len(stack)
    IN /\ task = Unwinding /\ e.code # 0
       /\ mgr' \in IF last THEN Profiled(n, e.proto, e.code) ELSE {n}
       /\ stack' = [stack EXCEPT ![i].kind = "resumed", ![i].proto = e.proto,
                                 ![i].code = e.code]
       /\ task' = IF last THEN Idle ELSE Unwinding
       /\ UNCHANGED <<feedback, epoch>>

\* Without code for the callee the exit is an error of the caller.
MissingCallee ==
    LET i == Outermost
        m == CheckDependencies(mgr, stack[i].proto)
    IN /\ task = Unwinding /\ ExitCallee(m, stack[i - 1], stack[i].proto).code = 0
       /\ mgr' = m
       /\ stack' = [SubSeq(stack, 1, i - 1) EXCEPT ![i - 1].effect =
                      @ \/ \E k \in i..Len(stack) : stack[k].effect]
       /\ task' = Raise(FALSE)
       /\ UNCHANGED <<feedback, epoch>>

-----------------------------------------------------------------------------
(* The script. *)

\* More of a running proto's behaviour has been observed.
Observe(p) ==
    /\ task = Idle /\ \E i \in 1..Len(stack) : stack[i].proto = p
    /\ feedback[p] < MaxFeedback
    /\ feedback' = [feedback EXCEPT ![p] = @ + 1]
    /\ UNCHANGED <<mgr, epoch, stack, task>>

\* Running code assigns a global or changes a shape that compiled code assumes.
SetFact ==
    /\ Running /\ epoch < MaxEpoch
    /\ epoch' = epoch + 1
    /\ stack' = WithTop(Acted(Top))
    /\ UNCHANGED <<mgr, feedback, task>>

Next ==
    \/ \E p \in Protos : \/ CallCompiled(p) \/ CallInterpreted(p)
                         \/ CallTier1(p) \/ CallPromoted(p) \/ EnsureCallee(p)
                         \/ NativeCall(p) \/ Observe(p)
    \/ FireOSR \/ PromoteTier2 \/ HandleOSR
    \/ Tier1Deopt \/ SideExit \/ ResumedExit \/ Deopt \/ ResumedDeopt
    \/ Return \/ Fail \/ Catch
    \/ NativeExit \/ ResumeCallee \/ MissingCallee
    \/ SetFact

Spec == Init /\ [][Next]_vars

-----------------------------------------------------------------------------
(* Properties. *)

\* The manager, its stack and its task are well formed; exactly the activations that
\* run Tier 2 code have a body.
TypeOK ==
    /\ mgr \in Manager
    /\ feedback \in [Protos -> 0..MaxFeedback]
    /\ epoch \in 0..MaxEpoch
    /\ stack \in Seq(Frame) /\ Len(stack) <= MaxDepth
    /\ \A i \in 1..Len(stack) :
         (stack[i].code # 0) = (stack[i].kind \in {"tier2", "native", "resumed"})
    /\ task \in {Idle, Unwinding} \cup Promotion \cup Raising

\* The reverse index of speculation dependencies (specDependents) lists a caller
\* under a callee exactly when the caller's published body speculated on it, so a
\* callee that changes reaches all published callers, and no others.
DependentsExact ==
    \A q \in Protos :
        mgr.dependents[q] = {p \in Protos \ {q} :
            mgr.compiled[p] # 0 /\ q \in mgr.body[mgr.compiled[p]].callees}

\* An entry that a call site remembers under the current DirectEntryVersion is the
\* entry it would load now: no change of the entries leaves the version as it was.
CachedEntryIsLoaded ==
    \A p \in Protos : mgr.cached[p] \subseteq {Loaded(mgr, p)}

\* p calls another function of its name, as literals that call literals do: an exit of
\* that function may be handled in the body p was running, whatever became of it.
CallsNamesake(p) == \E q \in Calls[p] \ {p} : Name[q] = Name[p]

\* A native caller can only reach the published body of a function, except where the
\* protocol publishes the body of a running caller again: whatever revoked a body also
\* revoked its entries, and what publishes another one replaces them.  A function that
\* calls itself may be entered in the body it was running while none is published.
EntryOfPublished ==
    \A p \in {q \in Protos : ~CallsNamesake(q)} :
        mgr.compiled[p] # 0 \/ p \notin Calls[p] =>
            /\ mgr.tier2[p] \in {0, mgr.compiled[p]}
            /\ mgr.direct[p] \in {0, Tier1, mgr.compiled[p]}

\* executeTier2 never starts a body whose compilation dependencies no longer hold,
\* however long it was published and whatever invalidated it meanwhile.
EnteredCodeIsValid ==
    [][\A i \in 1..Len(stack') :
        LET fr == stack'[i]
        IN /\ fr.kind = "tier2"
           /\ i > Len(stack) \/ stack[i].kind # "tier2"
           => fr.proto \notin Assumes \/ mgr'.body[fr.code].epoch = epoch']_vars

\* Giving up compiled code never runs an activation again that already did something
\* the script can see: "Recovery must not replay visible side effects".
RecoveryNeverReplays ==
    [][\A i \in 1..Len(stack) :
        /\ stack[i].kind \in {"tier1", "tier2"}
        /\ i <= Len(stack') /\ stack'[i].kind = "interp"
        => ~stack[i].effect]_vars

\* An exit of native code is handled and resumed in the body that took the exit
\* (another body has other exit sites), for a function whose caller has another name
\* and that calls no namesake but itself.
ResumesInItsBody ==
    [][\A i \in 2..Len(stack) :
        /\ stack[i].kind = "native" /\ ~CallsNamesake(stack[i].proto)
        /\ Name[stack[i - 1].proto] # Name[stack[i].proto]
        /\ i <= Len(stack') /\ stack'[i].kind = "resumed"
        => stack'[i].proto = stack[i].proto /\ stack'[i].code = stack[i].code]_vars

\* An exit of native code is handled and resumed in a body of the function that took
\* the exit: "Guard failure, side exit, deoptimization, fallback, or recovery must
\* preserve the same visible result as interpreter execution".  It fails for
\* functions that share the name "<anonymous>" (Anonymous in MCTiering).
ResumesItsFunction ==
    [][\A i \in 1..Len(stack) :
        /\ stack[i].kind = "native"
        /\ i <= Len(stack') /\ stack'[i].kind = "resumed"
        => stack'[i].proto = stack[i].proto]_vars
=============================================================================
