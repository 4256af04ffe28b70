------------------------------ MODULE TaskGroup ------------------------------
(***************************************************************************)
(* sync.group and script contexts (internal/stdlib/bind/sync.go,           *)
(* internal/runtime/script_context.go), on top of the task launchers of    *)
(* both engines and their goroutine budget (internal/runtime/interpreter.go*)
(* and internal/vm/vm.go).                                                 *)
(*                                                                         *)
(* One group, with its context.  A task is a script function that runs on  *)
(* a goroutine of its own, started by group.start or by a go statement.    *)
(* A task may return an error, or panic, which the launchers turn into an  *)
(* error, at any time; a task that watches the context must end once the   *)
(* done channel is closed.  The deadline of context.withTimeout is one     *)
(* more process.  Go's WaitGroup, Once and atomic counter are external.    *)
(***************************************************************************)
EXTENDS Integers, FiniteSets

CONSTANTS
    Main,      \* the goroutine of the script
    Timer,     \* the timer goroutine of context.withTimeout
    Tasks,     \* functions the script starts
    Plain,     \* those it starts with a go statement, outside the group
    Parent,    \* who starts each task
    Engine,    \* "tree" or "bytecode"
    Max,       \* WithMaxGoroutines; 0 means no limit
    CanCancel, \* whether the context of the group can be cancelled
    Deadline,  \* whether the context has a deadline
    NoTask,    \* no task
    MaxWaits   \* bound: calls of group.wait

Procs == {Main, Timer} \cup Tasks

ASSUME TaskAssumption ==
    /\ NoTask \notin Tasks /\ Main \notin Tasks \cup {Timer} /\ Timer \notin Tasks
    /\ IsFiniteSet(Tasks)
    /\ Plain \subseteq Tasks
    /\ Parent \in [Tasks -> Tasks \cup {Main}]
    /\ Engine \in {"tree", "bytecode"}
    /\ Max \in Nat /\ MaxWaits \in Nat
    /\ CanCancel \in BOOLEAN /\ Deadline \in BOOLEAN

VARIABLES
    proc,     \* where each goroutine is
    active,   \* activeGoroutines
    wg,       \* the counter of scriptTaskGroup.wg
    firstErr, \* the task of TaskErrors.firstErr
    errCount, \* TaskErrors.errCount
    once,     \* ScriptContextState.once: "new", "busy" or "done"
    reason,   \* ScriptContextState.err
    done,     \* the done channel is closed
    report,   \* what group.wait returned last
    waits,    \* calls of group.wait so far
    outcome,  \* how each task ended (history)
    panicked  \* a Go panic left the runtime

groupVars == <<wg, firstErr, errCount>>
ctxVars == <<once, reason, done>>
waitVars == <<report, waits>>
vars == <<proc, active, groupVars, ctxVars, waitVars, outcome, panicked>>

Pcs == {"off", "armed", "script", "load", "cas", "release", "record", "cancel",
        "close", "wgdone", "parked", "woken", "read", "count", "over"}

(* pc; the task being started or recorded; the counter value a compare-and-
   swap expects; whether the task failed; where a cancellation returns to. *)
Proc == [pc : Pcs, task : Tasks \cup {NoTask}, seen : Nat, err : BOOLEAN,
         after : {"script", "wgdone", "over"}]

At(pc) == [pc |-> pc, task |-> NoTask, seen |-> 0, err |-> FALSE, after |-> "script"]

Group == Tasks \ Plain
Reports == [ok : BOOLEAN, first : Tasks \cup {NoTask}, count : Nat, waits : Nat]

(* The state is well formed; the counters never go below zero. *)
TypeOK ==
    /\ proc \in [Procs -> Proc]
    /\ active \in Nat /\ wg \in Nat /\ errCount \in Nat
    /\ firstErr \in Tasks \cup {NoTask}
    /\ once \in {"new", "busy", "done"}
    /\ reason \in {"none", "cancelled", "deadline exceeded"}
    /\ done \in BOOLEAN /\ panicked \in BOOLEAN
    /\ report \in Reports
    /\ waits \in 0..MaxWaits
    /\ outcome \in [Tasks -> {"none", "ok", "error"}]

Init ==
    /\ proc = [p \in Procs |->
                 At(IF p = Main THEN "script"
                    ELSE IF p = Timer /\ Deadline THEN "armed" ELSE "off")]
    /\ active = 0
    /\ wg = 0 /\ firstErr = NoTask /\ errCount = 0
    /\ once = "new" /\ reason = "none" /\ done = FALSE
    /\ report = [ok |-> TRUE, first |-> NoTask, count |-> 0, waits |-> 0]
    /\ waits = 0
    /\ outcome = [t \in Tasks |-> "none"]
    /\ panicked = FALSE

Goto(p, pc) == proc' = [proc EXCEPT ![p].pc = pc]

-----------------------------------------------------------------------------
(* Starting a task. *)

(* launchSyncTask of the bytecode engine reserves nothing. *)
Reserves(t) == Max > 0 /\ (Engine = "tree" \/ t \in Plain)

(* Mutant: the group does not count the task. *)
StartUncounted(p, t) ==
    /\ proc[p].pc = "script" /\ proc[t].pc = "off" /\ Parent[t] = p
    /\ wg' = wg
    /\ proc' = IF Reserves(t)
                 THEN [proc EXCEPT ![p].pc = "load", ![p].task = t]
                 ELSE [proc EXCEPT ![t].pc = "script"]
    /\ UNCHANGED <<active, firstErr, errCount, ctxVars, waitVars, outcome, panicked>>

(* Mutant: a task that the budget refuses at once is not counted, but its callback
   runs all the same. *)
StartCountsIfRoom(p, t) ==
    /\ proc[p].pc = "script" /\ proc[t].pc = "off" /\ Parent[t] = p
    /\ wg' = IF t \in Group /\ (Max = 0 \/ active < Max) THEN wg + 1 ELSE wg
    /\ proc' = IF Reserves(t)
                 THEN [proc EXCEPT ![p].pc = "load", ![p].task = t]
                 ELSE [proc EXCEPT ![t].pc = "script"]
    /\ UNCHANGED <<active, firstErr, errCount, ctxVars, waitVars, outcome, panicked>>

(* group.start counts the task before it launches it. *)
StartTask(p, t) ==
    /\ proc[p].pc = "script" /\ proc[t].pc = "off" /\ Parent[t] = p
    /\ wg' = IF t \in Group THEN wg + 1 ELSE wg
    /\ proc' = IF Reserves(t)
                 THEN [proc EXCEPT ![p].pc = "load", ![p].task = t]
                 ELSE [proc EXCEPT ![t].pc = "script"]
    /\ UNCHANGED <<active, firstErr, errCount, ctxVars, waitVars, outcome, panicked>>

(* reserveGoroutineBudget: the load.  Over the limit the task never runs; the
   group is told through the callback, on the goroutine that called start. *)
LoadActive(p) ==
    LET t == proc[p].task
    IN  /\ proc[p].pc = "load"
        /\ IF active < Max
             THEN /\ proc' = [proc EXCEPT ![p].pc = "cas", ![p].seen = active]
                  /\ UNCHANGED outcome
             ELSE /\ proc' = [proc EXCEPT ![t].pc = "over",
                                ![p].pc = IF t \in Group THEN "record" ELSE "script",
                                ![p].err = TRUE]
                  /\ outcome' = [outcome EXCEPT ![t] = "error"]
        /\ UNCHANGED <<active, groupVars, ctxVars, waitVars, panicked>>

(* Mutant: a plain store instead of the compare-and-swap. *)
StoreActive(p) ==
    /\ proc[p].pc = "cas"
    /\ active' = proc[p].seen + 1
    /\ proc' = [proc EXCEPT ![p].pc = "script", ![proc[p].task].pc = "script"]
    /\ UNCHANGED <<groupVars, ctxVars, waitVars, outcome, panicked>>

(* The compare-and-swap, which starts over when another goroutine was faster. *)
CasActive(p) ==
    /\ proc[p].pc = "cas"
    /\ IF active = proc[p].seen
         THEN /\ active' = active + 1
              /\ proc' = [proc EXCEPT ![p].pc = "script", ![proc[p].task].pc = "script"]
         ELSE Goto(p, "load") /\ UNCHANGED active
    /\ UNCHANGED <<groupVars, ctxVars, waitVars, outcome, panicked>>

-----------------------------------------------------------------------------
(* The end of a task. *)

(* The function returns or panics: the deferred calls run. *)
Finish(t, e) ==
    /\ t \in Tasks /\ proc[t].pc = "script"
    /\ proc' = [proc EXCEPT ![t].err = e, ![t].task = t,
                  ![t].pc = IF Reserves(t) THEN "release"
                            ELSE IF t \in Group THEN "record" ELSE "over"]
    /\ outcome' = [outcome EXCEPT ![t] = IF e THEN "error" ELSE "ok"]
    /\ UNCHANGED <<active, groupVars, ctxVars, waitVars, panicked>>

(* Mutant: a task that fails keeps its place. *)
ReleaseOnSuccess(t) ==
    /\ proc[t].pc = "release"
    /\ active' = IF proc[t].err THEN active ELSE active - 1
    /\ Goto(t, IF t \in Group THEN "record" ELSE "over")
    /\ UNCHANGED <<groupVars, ctxVars, waitVars, outcome, panicked>>

(* releaseGoroutineBudget. *)
Release(t) ==
    /\ proc[t].pc = "release"
    /\ active' = active - 1
    /\ Goto(t, IF t \in Group THEN "record" ELSE "over")
    /\ UNCHANGED <<groupVars, ctxVars, waitVars, outcome, panicked>>

(* Mutant: only the first error is counted. *)
RecordOnce(p) ==
    LET first == proc[p].err /\ firstErr = NoTask
    IN  /\ proc[p].pc = "record"
        /\ firstErr' = IF first THEN proc[p].task ELSE firstErr
        /\ errCount' = IF first THEN errCount + 1 ELSE errCount
        /\ proc' = [proc EXCEPT ![p].pc = IF first /\ CanCancel THEN "cancel" ELSE "wgdone",
                                ![p].after = "wgdone"]
        /\ UNCHANGED <<active, wg, ctxVars, waitVars, outcome, panicked>>

(* TaskErrors.Record, under its mutex; the first error cancels the group. *)
Record(p) ==
    LET first == proc[p].err /\ firstErr = NoTask
    IN  /\ proc[p].pc = "record"
        /\ firstErr' = IF first THEN proc[p].task ELSE firstErr
        /\ errCount' = IF proc[p].err THEN errCount + 1 ELSE errCount
        /\ proc' = [proc EXCEPT ![p].pc = IF first /\ CanCancel THEN "cancel" ELSE "wgdone",
                                ![p].after = "wgdone"]
        /\ UNCHANGED <<active, wg, ctxVars, waitVars, outcome, panicked>>

(* wg.Done, which wakes the goroutines in wg.Wait when it reaches zero, and panics
   below zero. *)
WgDone(p) ==
    LET next == IF proc[p].task = p THEN "over" ELSE "script"
    IN  /\ proc[p].pc = "wgdone"
        /\ wg' = wg - 1
        /\ proc' = [q \in Procs |->
                      IF q = p THEN At(next)
                      ELSE IF wg = 1 /\ proc[q].pc = "parked" THEN [proc[q] EXCEPT !.pc = "woken"]
                      ELSE proc[q]]
        /\ panicked' = (panicked \/ wg <= 0)
        /\ UNCHANGED <<active, firstErr, errCount, ctxVars, waitVars, outcome>>

-----------------------------------------------------------------------------
(* Cancelling the context. *)

(* The script calls ctx.cancel or group.cancel. *)
CallCancel(p) ==
    /\ CanCancel /\ proc[p].pc = "script"
    /\ proc' = [proc EXCEPT ![p].pc = "cancel", ![p].after = "script"]
    /\ UNCHANGED <<active, groupVars, ctxVars, waitVars, outcome, panicked>>

(* The deadline passes. *)
TimerFires ==
    /\ proc[Timer].pc = "armed"
    /\ proc' = [proc EXCEPT ![Timer].pc = "cancel", ![Timer].after = "over"]
    /\ UNCHANGED <<active, groupVars, ctxVars, waitVars, outcome, panicked>>

Why(p) == IF p = Timer THEN "deadline exceeded" ELSE "cancelled"

(* Mutant: every call sets the reason. *)
CancelResets(p) ==
    /\ proc[p].pc = "cancel"
    /\ once # "busy"
    /\ reason' = Why(p)
    /\ IF once = "new"
         THEN once' = "busy" /\ Goto(p, "close")
         ELSE once' = once /\ Goto(p, proc[p].after)
    /\ UNCHANGED <<active, groupVars, done, waitVars, outcome, panicked>>

(* Mutant: the channel is closed before the reason is set. *)
CancelClosesFirst(p) ==
    /\ proc[p].pc = "cancel"
    /\ once # "busy"
    /\ IF once = "new"
         THEN once' = "busy" /\ done' = TRUE /\ Goto(p, "close")
         ELSE Goto(p, proc[p].after) /\ UNCHANGED <<once, done>>
    /\ UNCHANGED <<active, groupVars, reason, waitVars, outcome, panicked>>

(* once.Do: the first caller sets the reason, under the mutex of the state;
   the others wait until it has closed the channel too. *)
CancelOnce(p) ==
    /\ proc[p].pc = "cancel"
    /\ once # "busy"
    /\ IF once = "new"
         THEN once' = "busy" /\ reason' = Why(p) /\ Goto(p, "close")
         ELSE Goto(p, proc[p].after) /\ UNCHANGED <<once, reason>>
    /\ UNCHANGED <<active, groupVars, done, waitVars, outcome, panicked>>

(* Mutant: only the flag is set. *)
CloseDoneNever(p) ==
    /\ proc[p].pc = "close"
    /\ once' = "done"
    /\ Goto(p, proc[p].after)
    /\ UNCHANGED <<active, groupVars, reason, done, waitVars, outcome, panicked>>

(* done.Close. *)
CloseDone(p) ==
    /\ proc[p].pc = "close"
    /\ done' = TRUE
    /\ once' = "done"
    /\ Goto(p, proc[p].after)
    /\ UNCHANGED <<active, groupVars, reason, waitVars, outcome, panicked>>

-----------------------------------------------------------------------------
(* group.wait. *)

Wait(p) ==
    /\ proc[p].pc = "script" /\ waits < MaxWaits
    /\ waits' = waits + 1
    /\ Goto(p, IF wg = 0 THEN "read" ELSE "parked")
    /\ UNCHANGED <<active, groupVars, ctxVars, report, outcome, panicked>>

(* A goroutine that wg.Wait wakes panics if the group is in use again. *)
Wake(p) ==
    /\ proc[p].pc = "woken"
    /\ panicked' = (panicked \/ wg # 0)
    /\ Goto(p, IF wg = 0 THEN "read" ELSE "over")
    /\ UNCHANGED <<active, groupVars, ctxVars, waitVars, outcome>>

(* state.error ... *)
ReadError(p) ==
    /\ proc[p].pc = "read"
    /\ IF firstErr = NoTask
         THEN /\ report' = [ok |-> TRUE, first |-> NoTask, count |-> 0, waits |-> waits]
              /\ Goto(p, "script")
         ELSE Goto(p, "count") /\ UNCHANGED report
    /\ UNCHANGED <<active, groupVars, ctxVars, waits, outcome, panicked>>

(* ... and state.errorCount. *)
ReadCount(p) ==
    /\ proc[p].pc = "count"
    /\ report' = [ok |-> FALSE, first |-> firstErr, count |-> errCount, waits |-> waits]
    /\ Goto(p, "script")
    /\ UNCHANGED <<active, groupVars, ctxVars, waits, outcome, panicked>>

(* The steps that the runtime takes by itself. *)
Internal(p) ==
    \/ LoadActive(p) \/ CasActive(p) \/ Release(p) \/ Record(p) \/ WgDone(p)
    \/ CancelOnce(p) \/ CloseDone(p) \/ Wake(p) \/ ReadError(p) \/ ReadCount(p)

Next ==
    \/ \E p \in Procs : Internal(p)
    \/ \E p \in Procs, t \in Tasks : StartTask(p, t)
    \/ \E t \in Tasks, e \in BOOLEAN : Finish(t, e)
    \/ \E p \in Procs : CallCancel(p)
    \/ TimerFires
    \/ Wait(Main)

Spec == Init /\ [][Next]_vars

(* Goroutines that can run do run, and the tasks watch their context: once
   it is cancelled they end, whatever else they call in between. *)
Fairness ==
    /\ \A p \in Procs : WF_vars(Internal(p))
    /\ \A t \in Tasks : SF_vars(done /\ \E e \in BOOLEAN : Finish(t, e))

FairSpec == Spec /\ Fairness

-----------------------------------------------------------------------------
(* Properties. *)

Failed == {t \in Group : outcome[t] = "error"}
Reported == report' # report

(* group.wait tells the whole truth: when it returns, every task of the group
   that was started has ended, the count is the number of those that failed,
   refused ones included, and the error it gives is the first of them. *)
WaitReportsAll ==
    [][Reported =>
         /\ \A t \in Group : proc[t].pc \in {"off", "over"}
         /\ report'.ok <=> Failed = {}
         /\ report'.count = Cardinality(Failed)
         /\ ~report'.ok => report'.first \in Failed]_vars

(* "sync.group() is preferred when one task failure should cancel the rest":
   a wait that reports a failure returns after the context was cancelled, its
   done channel closed and its reason set, whoever began the cancellation. *)
FailureCancelled == CanCancel /\ ~report.ok => done /\ reason # "none"

(* A task that is woken by the done channel finds the reason: Cancel sets it
   before it closes the channel. *)
DoneHasReason == done => reason # "none"

(* The reason that a task found stays: of the deadline, a failed task and the
   script, the first to cancel wins. *)
ReasonIsFinal == [][reason # "none" => reason' = reason]_vars

(* The tasks that hold a place of the budget. *)
Holding == {t \in Tasks : Reserves(t) /\ (outcome[t] = "none" \/ proc[t].pc = "release")
                            /\ proc[t].pc # "off"}

(* The budget counts exactly the goroutines that hold a place, however the
   loads and compare-and-swaps of several goroutines interleave: no place is
   lost when a task fails, and none is taken twice. *)
BudgetExact == active = Cardinality(Holding)

(* "SetMaxGoroutines sets the maximum number of active script-created
   goroutines": no more tasks run than the limit. *)
InFlight == {t \in Tasks : proc[t].pc # "off" /\ outcome[t] = "none"}
GoroutineLimit == Max > 0 => Cardinality(InFlight) <= Max

(* No wait group panics: every Done, that of a refused task included, has its Add,
   and a goroutine that waits for the group is never surprised by its reuse.  It
   holds as long as only the waiting goroutine and tasks of the group start tasks. *)
NoPanic == ~panicked

(* One failure is enough to end a wait for tasks that watch the context: no
   goroutine is left waiting for the budget, the once or the counter. *)
FailureEndsWait ==
    (firstErr # NoTask /\ proc[Main].pc = "parked") ~> proc[Main].pc # "parked"
=============================================================================
