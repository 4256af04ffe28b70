--------------------------- MODULE TaskGroupProofs ---------------------------
(***************************************************************************)
(* Theorems about TaskGroup for any tasks, any tree of starts, any budget  *)
(* and both engines.                                                       *)
(***************************************************************************)
EXTENDS TaskGroup, FiniteSetTheorems, TLAPS

(* p is between Finish, or the refusal of a task, and wg.Done. *)
Settling(p) ==
    \/ proc[p].pc \in {"record", "wgdone"}
    \/ proc[p].pc \in {"cancel", "close"} /\ proc[p].after = "wgdone"

(* The points that each kind of goroutine can be at. *)
Place(p) ==
    /\ p = Main => proc[p].pc \notin {"off", "armed", "release"}
    /\ p = Timer => /\ proc[p].pc \in {"off", "armed", "cancel", "close", "over"}
                    /\ proc[p].pc \in {"cancel", "close"} => proc[p].after = "over"
    /\ p \in Tasks => proc[p].pc \notin {"armed", "parked", "woken", "read", "count"}
    /\ p # Timer /\ proc[p].pc \in {"cancel", "close"} => proc[p].after # "over"

(* What p knows of the task it starts, or of the one it settles: its own, or
   one that the budget refused. *)
Errand(p) ==
    /\ proc[p].pc \in {"load", "cas"} =>
         /\ proc[p].task \in Tasks /\ Parent[proc[p].task] = p
         /\ proc[proc[p].task].pc = "off" /\ Reserves(proc[p].task)
    /\ proc[p].pc = "cas" => proc[p].seen < Max
    /\ proc[p].pc = "release" => p \in Tasks /\ proc[p].task = p /\ Reserves(p)
    /\ Settling(p) =>
         /\ proc[p].task \in Group
         /\ proc[p].task = p \/ (Parent[proc[p].task] = p /\ proc[proc[p].task].pc = "over")
    /\ proc[p].pc \in {"release", "record"} => (proc[p].err <=> outcome[proc[p].task] = "error")

(* A task has an outcome exactly when it has begun to settle itself, or is over. *)
Outcome(t) ==
    /\ outcome[t] # "none" <=> proc[t].task = t \/ proc[t].pc = "over"
    /\ proc[t].task = t => Settling(t) \/ proc[t].pc \in {"release", "over"}

Shape ==
    /\ \A p \in Procs : Place(p) /\ Errand(p)
    /\ \A t \in Tasks : Outcome(t)

(* The types of everything but the two counters. *)
Types ==
    /\ proc \in [Procs -> Proc]
    /\ errCount \in Nat
    /\ firstErr \in Tasks \cup {NoTask}
    /\ once \in {"new", "busy", "done"}
    /\ reason \in {"none", "cancelled", "deadline exceeded"}
    /\ done \in BOOLEAN /\ panicked \in BOOLEAN
    /\ report \in Reports
    /\ waits \in 0..MaxWaits
    /\ outcome \in [Tasks -> {"none", "ok", "error"}]

LEMMA AtType ==
    ASSUME NEW pc \in Pcs
    PROVE  At(pc) \in Proc /\ At(pc).pc = pc /\ At(pc).task = NoTask
  BY DEF At, Proc

LEMMA InitShape == Init => Types /\ Shape
<1> SUFFICES ASSUME Init PROVE Types /\ Shape
  OBVIOUS
<1> USE TaskAssumption
<1>1. \A p \in Procs : proc[p] \in Proc /\ proc[p].task = NoTask
                     /\ proc[p].pc = (IF p = Main THEN "script"
                                      ELSE IF p = Timer /\ Deadline THEN "armed" ELSE "off")
  BY DEF Init, At, Proc, Pcs
<1>2. proc \in [Procs -> Proc]
  BY <1>1 DEF Init
<1>3. Types
  <2>1. report \in Reports
    BY DEF Init, Reports
  <2>2. outcome \in [Tasks -> {"none", "ok", "error"}]
    BY DEF Init
  <2>3. waits \in 0..MaxWaits
    BY DEF Init
  <2>4. QED
    BY <1>2, <2>1, <2>2, <2>3 DEF Types, Init
<1>4. Shape
  BY <1>1 DEF Shape, Place, Errand, Outcome, Settling, Init, Procs
<1>5. QED
  BY <1>3, <1>4

(* What a step does to the goroutines: p alone moves. *)
Moves(p, a, t, n, e, r) ==
    /\ proc' \in [Procs -> Proc]
    /\ proc'[p].pc = a /\ proc'[p].task = t /\ proc'[p].seen = n
    /\ proc'[p].err = e /\ proc'[p].after = r
    /\ \A q \in Procs \ {p} : proc'[q] = proc[q]

LEMMA Put ==
    ASSUME proc \in [Procs -> Proc], NEW p \in Procs, NEW c \in Proc,
           proc' = [proc EXCEPT ![p] = c]
    PROVE  Moves(p, c.pc, c.task, c.seen, c.err, c.after)
  BY DEF Moves

LEMMA GotoMoves ==
    ASSUME proc \in [Procs -> Proc], NEW p \in Procs, NEW a \in Pcs,
           proc' = [proc EXCEPT ![p].pc = a]
    PROVE  Moves(p, a, proc[p].task, proc[p].seen, proc[p].err, proc[p].after)
<1> DEFINE c == [proc[p] EXCEPT !.pc = a]
<1>1. proc' = [proc EXCEPT ![p] = c]
  OBVIOUS
<1>2. c \in Proc /\ c.pc = a /\ c.task = proc[p].task /\ c.seen = proc[p].seen
      /\ c.err = proc[p].err /\ c.after = proc[p].after
  BY proc[p] \in Proc DEF Proc
<1> HIDE DEF c
<1>3. QED
  BY <1>1, <1>2, Put DEF Moves

(* p moves and remembers a task, an outcome, or where it returns to. *)
LEMMA TaskMoves ==
    ASSUME proc \in [Procs -> Proc], NEW p \in Procs, NEW a \in Pcs, NEW t \in Tasks,
           proc' = [proc EXCEPT ![p].pc = a, ![p].task = t]
    PROVE  Moves(p, a, t, proc[p].seen, proc[p].err, proc[p].after)
<1> DEFINE c == [proc[p] EXCEPT !.pc = a, !.task = t]
<1>1. proc' = [proc EXCEPT ![p] = c]
  OBVIOUS
<1>2. c \in Proc /\ c.pc = a /\ c.task = t /\ c.seen = proc[p].seen
      /\ c.err = proc[p].err /\ c.after = proc[p].after
  BY proc[p] \in Proc DEF Proc
<1> HIDE DEF c
<1>3. QED
  BY <1>1, <1>2, Put DEF Moves

LEMMA SeenMoves ==
    ASSUME proc \in [Procs -> Proc], NEW p \in Procs, NEW a \in Pcs, NEW n \in Nat,
           proc' = [proc EXCEPT ![p].pc = a, ![p].seen = n]
    PROVE  Moves(p, a, proc[p].task, n, proc[p].err, proc[p].after)
<1> DEFINE c == [proc[p] EXCEPT !.pc = a, !.seen = n]
<1>1. proc' = [proc EXCEPT ![p] = c]
  OBVIOUS
<1>2. c \in Proc /\ c.pc = a /\ c.task = proc[p].task /\ c.seen = n
      /\ c.err = proc[p].err /\ c.after = proc[p].after
  BY proc[p] \in Proc DEF Proc
<1> HIDE DEF c
<1>3. QED
  BY <1>1, <1>2, Put DEF Moves

LEMMA AfterMoves ==
    ASSUME proc \in [Procs -> Proc], NEW p \in Procs, NEW a \in Pcs,
           NEW r \in {"script", "wgdone", "over"},
           proc' = [proc EXCEPT ![p].pc = a, ![p].after = r]
    PROVE  Moves(p, a, proc[p].task, proc[p].seen, proc[p].err, r)
<1> DEFINE c == [proc[p] EXCEPT !.pc = a, !.after = r]
<1>1. proc' = [proc EXCEPT ![p] = c]
  OBVIOUS
<1>2. c \in Proc /\ c.pc = a /\ c.task = proc[p].task /\ c.seen = proc[p].seen
      /\ c.err = proc[p].err /\ c.after = r
  BY proc[p] \in Proc DEF Proc
<1> HIDE DEF c
<1>3. QED
  BY <1>1, <1>2, Put DEF Moves

LEMMA EndMoves ==
    ASSUME proc \in [Procs -> Proc], NEW p \in Procs, NEW a \in Pcs, NEW t \in Tasks,
           NEW e \in BOOLEAN,
           proc' = [proc EXCEPT ![p].err = e, ![p].task = t, ![p].pc = a]
    PROVE  Moves(p, a, t, proc[p].seen, e, proc[p].after)
<1> DEFINE c == [proc[p] EXCEPT !.err = e, !.task = t, !.pc = a]
<1>1. proc' = [proc EXCEPT ![p] = c]
  OBVIOUS
<1>2. c \in Proc /\ c.pc = a /\ c.task = t /\ c.seen = proc[p].seen
      /\ c.err = e /\ c.after = proc[p].after
  BY proc[p] \in Proc DEF Proc
<1> HIDE DEF c
<1>3. QED
  BY <1>1, <1>2, Put DEF Moves

(* Two goroutines move: t to the point b. *)
Pushes(p, a, e, t, b) ==
    /\ proc' \in [Procs -> Proc]
    /\ proc'[p].pc = a /\ proc'[p].task = proc[p].task /\ proc'[p].err = e
    /\ proc'[p].seen = proc[p].seen /\ proc'[p].after = proc[p].after
    /\ proc'[t].pc = b /\ proc'[t].task = proc[t].task /\ proc'[t].err = proc[t].err
    /\ proc'[t].after = proc[t].after
    /\ \A q \in Procs \ {p, t} : proc'[q] = proc[q]

LEMMA RefuseMoves ==
    ASSUME proc \in [Procs -> Proc], NEW p \in Procs, NEW t \in Procs, p # t, NEW a \in Pcs,
           proc' = [proc EXCEPT ![t].pc = "over", ![p].pc = a, ![p].err = TRUE]
    PROVE  Pushes(p, a, TRUE, t, "over")
<1> DEFINE c == [proc[p] EXCEPT !.pc = a, !.err = TRUE]
           d == [proc[t] EXCEPT !.pc = "over"]
<1>1. proc' = [proc EXCEPT ![t] = d, ![p] = c]
  OBVIOUS
<1>2. c \in Proc /\ c.pc = a /\ c.task = proc[p].task /\ c.seen = proc[p].seen
      /\ c.err = TRUE /\ c.after = proc[p].after
  BY proc[p] \in Proc DEF Proc
<1>3. d \in Proc /\ d.pc = "over" /\ d.task = proc[t].task /\ d.err = proc[t].err
      /\ d.after = proc[t].after
  BY proc[t] \in Proc DEF Proc, Pcs
<1> HIDE DEF c, d
<1>4. /\ proc' \in [Procs -> Proc] /\ proc'[p] = c /\ proc'[t] = d
      /\ \A q \in Procs \ {p, t} : proc'[q] = proc[q]
  <2>1. c \in Proc /\ d \in Proc
    BY <1>2, <1>3
  <2>2. QED
    BY <1>1, <2>1
<1>5. QED
  BY <1>2, <1>3, <1>4 DEF Pushes

LEMMA LaunchMoves ==
    ASSUME proc \in [Procs -> Proc], NEW p \in Procs, NEW t \in Procs, p # t,
           proc' = [proc EXCEPT ![p].pc = "script", ![t].pc = "script"]
    PROVE  Pushes(p, "script", proc[p].err, t, "script")
<1> DEFINE c == [proc[p] EXCEPT !.pc = "script"]
           d == [proc[t] EXCEPT !.pc = "script"]
<1>1. proc' = [proc EXCEPT ![p] = c, ![t] = d]
  OBVIOUS
<1>2. c \in Proc /\ c.pc = "script" /\ c.task = proc[p].task /\ c.seen = proc[p].seen
      /\ c.err = proc[p].err /\ c.after = proc[p].after
  BY proc[p] \in Proc DEF Proc, Pcs
<1>3. d \in Proc /\ d.pc = "script" /\ d.task = proc[t].task /\ d.err = proc[t].err
      /\ d.after = proc[t].after
  BY proc[t] \in Proc DEF Proc, Pcs
<1> HIDE DEF c, d
<1>4. QED
  BY <1>1, <1>2, <1>3 DEF Pushes

LEMMA TypesOf == TypeOK <=> Types /\ active \in Nat /\ wg \in Nat
  BY DEF TypeOK, Types

LEMMA TaskIsProc == Tasks \subseteq Procs /\ Main \in Procs /\ Timer \in Procs
  BY DEF Procs

(* Each action keeps the types and the shape. *)
LEMMA StartShape ==
    ASSUME TypeOK, Shape, NEW p \in Procs, NEW t \in Tasks, StartTask(p, t)
    PROVE  Types' /\ Shape'
<1> USE TaskAssumption, TaskIsProc
<1>1. p # t /\ proc[p].pc = "script" /\ proc[t].pc = "off" /\ Parent[t] = p /\ outcome' = outcome
  BY DEF StartTask
<1>2. CASE Reserves(t)
  <2>1. Moves(p, "load", t, proc[p].seen, proc[p].err, proc[p].after)
    BY <1>2, TaskMoves DEF StartTask, Pcs, TypeOK
  <2>2. Types'
    BY <2>1 DEF TypeOK, Types, Moves, StartTask, ctxVars, waitVars
  <2>3. Shape'
    <3>1. \A q \in Procs : Place(q)'
      BY <1>1, <1>2, <2>1 DEF Moves, Shape, Place, Procs
    <3>2. \A q \in Procs : Errand(q)'
      BY <1>1, <1>2, <2>1 DEF Moves, Shape, Errand, Outcome, Settling, Group
    <3>3. \A q \in Tasks : Outcome(q)'
      BY <1>1, <1>2, <2>1 DEF Moves, Shape, Errand, Outcome, Settling
    <3>4. QED
      BY <3>1, <3>2, <3>3 DEF Shape
  <2>4. QED
    BY <2>2, <2>3
<1>3. CASE ~Reserves(t)
  <2>1. Moves(t, "script", proc[t].task, proc[t].seen, proc[t].err, proc[t].after)
    BY <1>3, GotoMoves DEF StartTask, Pcs, TypeOK
  <2>2. Types'
    BY <2>1 DEF TypeOK, Types, Moves, StartTask, ctxVars, waitVars
  <2>3. Shape'
    <3>1. \A q \in Procs : Place(q)'
      BY <1>1, <1>3, <2>1 DEF Moves, Shape, Place, Procs
    <3>2. \A q \in Procs : Errand(q)'
      BY <1>1, <1>3, <2>1 DEF Moves, Shape, Errand, Outcome, Settling, Group
    <3>3. \A q \in Tasks : Outcome(q)'
      BY <1>1, <1>3, <2>1 DEF Moves, Shape, Errand, Outcome, Settling
    <3>4. QED
      BY <3>1, <3>2, <3>3 DEF Shape
  <2>4. QED
    BY <2>2, <2>3
<1>4. QED
  BY <1>2, <1>3

LEMMA LoadMoves ==
    ASSUME TypeOK, Shape, NEW p \in Procs, LoadActive(p), ~(active < Max)
    PROVE  LET t == proc[p].task
           IN /\ proc[p].pc = "load"
              /\ t \in Tasks /\ t # p /\ Parent[t] = p /\ proc[t].pc = "off"
              /\ Pushes(p, IF t \in Group THEN "record" ELSE "script", TRUE, t, "over")
              /\ outcome'[t] = "error" /\ \A k \in Tasks \ {t} : outcome'[k] = outcome[k]
<1> USE TaskIsProc
<1> DEFINE t == proc[p].task
           a == IF t \in Group THEN "record" ELSE "script"
<1>1. t \in Tasks /\ t # p /\ Parent[t] = p /\ proc[t].pc = "off" /\ proc[p].pc = "load"
  BY DEF LoadActive, Shape, Errand
<1>2. proc' = [proc EXCEPT ![t].pc = "over", ![p].pc = a, ![p].err = TRUE]
      /\ outcome' = [outcome EXCEPT ![t] = "error"]
  BY DEF LoadActive
<1>3. a \in Pcs /\ proc \in [Procs -> Proc]
  BY DEF TypeOK, Pcs
<1> HIDE DEF a
<1>4. Pushes(p, a, TRUE, t, "over")
  BY <1>1, <1>2, <1>3, RefuseMoves
<1>5. outcome'[t] = "error" /\ \A k \in Tasks \ {t} : outcome'[k] = outcome[k]
  BY <1>1, <1>2 DEF TypeOK
<1>6. QED
  BY <1>1, <1>4, <1>5 DEF a

LEMMA LoadShape ==
    ASSUME TypeOK, Shape, NEW p \in Procs, LoadActive(p)
    PROVE  Types' /\ Shape'
<1> USE TaskAssumption, TaskIsProc
<1>1. CASE active < Max
  <2>1. Moves(p, "cas", proc[p].task, active, proc[p].err, proc[p].after)
        /\ proc[p].pc = "load" /\ outcome' = outcome
    BY <1>1, SeenMoves DEF LoadActive, Pcs, TypeOK
  <2>2. Types'
    BY <1>1, <2>1 DEF TypeOK, Types, Moves, LoadActive, groupVars, ctxVars, waitVars
  <2>3. Shape'
    <3>1. \A q \in Procs : Place(q)'
      BY <1>1, <2>1 DEF Moves, Shape, Place, Procs
    <3>2. \A q \in Procs : Errand(q)'
      BY <1>1, <2>1 DEF Moves, Shape, Errand, Outcome, Settling, Group
    <3>3. \A q \in Tasks : Outcome(q)'
      BY <1>1, <2>1 DEF Moves, Shape, Errand, Outcome, Settling
    <3>4. QED
      BY <3>1, <3>2, <3>3 DEF Shape
  <2>4. QED
    BY <2>2, <2>3
<1>2. CASE ~(active < Max)
  <2> PICK t \in Tasks :
        /\ t = proc[p].task /\ proc[p].pc = "load"
        /\ t # p /\ Parent[t] = p /\ proc[t].pc = "off"
        /\ Pushes(p, IF t \in Group THEN "record" ELSE "script", TRUE, t, "over")
        /\ outcome'[t] = "error" /\ \A k \in Tasks \ {t} : outcome'[k] = outcome[k]
    <3> DEFINE k == proc[p].task
    <3>1. /\ proc[p].pc = "load" /\ k \in Tasks
          /\ k # p /\ Parent[k] = p /\ proc[k].pc = "off"
          /\ Pushes(p, IF k \in Group THEN "record" ELSE "script", TRUE, k, "over")
          /\ outcome'[k] = "error" /\ \A j \in Tasks \ {k} : outcome'[j] = outcome[j]
      BY <1>2, LoadMoves
    <3> HIDE DEF k
    <3>2. QED
      BY <3>1 DEF k
  <2>2. Types'
    <3>1. outcome' = [outcome EXCEPT ![t] = "error"]
      BY <1>2 DEF LoadActive
    <3>2. outcome' \in [Tasks -> {"none", "ok", "error"}]
      BY <3>1 DEF TypeOK
    <3>3. QED
      BY <3>2 DEF TypeOK, Types, Pushes, LoadActive, groupVars, ctxVars, waitVars
  <2>3. Shape'
    <3>1. \A q \in Procs : Place(q)'
      BY DEF Pushes, Shape, Place, Procs
    <3>2. ASSUME NEW q \in Procs PROVE Errand(q)'
      <4>1. CASE q = p
        BY <4>1 DEF Pushes, Shape, Errand, Settling, Group
      <4>2. CASE q = t
        BY <4>2 DEF Pushes, Shape, Errand, Settling, Outcome
      <4>3. CASE q \notin {p, t}
        <5>1. proc'[q] = proc[q] /\ Errand(q)
          BY <4>3 DEF Pushes, Shape
        <5>2. proc[q].pc \in {"load", "cas"} \/ Settling(q) \/ proc[q].pc = "release"
              => proc[q].task \notin {p, t} \/ proc[q].task = q
          BY <4>3, <5>1 DEF Errand
        <5>3. QED
          BY <4>3, <5>1, <5>2 DEF Pushes, Errand, Settling, Group
      <4>4. QED
        BY <4>1, <4>2, <4>3
    <3>3. \A q \in Tasks : Outcome(q)'
      BY DEF Pushes, Shape, Errand, Outcome, Settling
    <3>4. QED
      BY <3>1, <3>2, <3>3 DEF Shape
  <2>4. QED
    BY <2>2, <2>3
<1>3. QED
  BY <1>1, <1>2

LEMMA CasMoves ==
    ASSUME TypeOK, Shape, NEW p \in Procs, CasActive(p), active = proc[p].seen
    PROVE  LET t == proc[p].task
           IN /\ proc[p].pc = "cas" /\ proc[p].seen < Max
              /\ t \in Tasks /\ t # p /\ Parent[t] = p /\ proc[t].pc = "off" /\ Reserves(t)
              /\ Pushes(p, "script", proc[p].err, t, "script")
              /\ active' = active + 1
<1> USE TaskIsProc
<1> DEFINE t == proc[p].task
<1>1. /\ proc[p].pc = "cas" /\ proc[p].seen < Max
      /\ t \in Tasks /\ t # p /\ Parent[t] = p /\ proc[t].pc = "off" /\ Reserves(t)
  BY DEF CasActive, Shape, Errand
<1>2. proc' = [proc EXCEPT ![p].pc = "script", ![t].pc = "script"] /\ active' = active + 1
  BY DEF CasActive
<1>3. Pushes(p, "script", proc[p].err, t, "script")
  BY <1>1, <1>2, LaunchMoves DEF TypeOK
<1>4. QED
  BY <1>1, <1>2, <1>3

LEMMA CasShape ==
    ASSUME TypeOK, Shape, NEW p \in Procs, CasActive(p)
    PROVE  Types' /\ Shape'
<1> USE TaskAssumption, TaskIsProc
<1>0. outcome' = outcome
  BY DEF CasActive
<1>1. CASE active = proc[p].seen
  <2> DEFINE t == proc[p].task
  <2>1. /\ proc[p].pc = "cas"
        /\ t \in Tasks /\ t # p /\ Parent[t] = p /\ proc[t].pc = "off" /\ Reserves(t)
        /\ Pushes(p, "script", proc[p].err, t, "script")
    BY <1>1, CasMoves
  <2>2. Types'
    BY <2>1 DEF TypeOK, Types, Pushes, CasActive, groupVars, ctxVars, waitVars
  <2>3. Shape'
    <3>1. \A q \in Procs : Place(q)'
      BY <1>0, <2>1 DEF Pushes, Shape, Place, Procs
    <3>2. \A q \in Procs : Errand(q)'
      BY <1>0, <2>1 DEF Pushes, Shape, Errand, Outcome, Settling, Group
    <3>3. \A q \in Tasks : Outcome(q)'
      BY <1>0, <2>1 DEF Pushes, Shape, Errand, Outcome, Settling
    <3>4. QED
      BY <3>1, <3>2, <3>3 DEF Shape
  <2>4. QED
    BY <2>2, <2>3
<1>2. CASE active # proc[p].seen
  <2>1. Moves(p, "load", proc[p].task, proc[p].seen, proc[p].err, proc[p].after) /\ proc[p].pc = "cas"
    BY <1>2, GotoMoves DEF CasActive, Goto, Pcs, TypeOK
  <2>2. Types'
    BY <2>1 DEF TypeOK, Types, Moves, CasActive, groupVars, ctxVars, waitVars
  <2>3. Shape'
    <3>1. \A q \in Procs : Place(q)'
      BY <1>0, <2>1 DEF Moves, Shape, Place, Procs
    <3>2. \A q \in Procs : Errand(q)'
      BY <1>0, <2>1 DEF Moves, Shape, Errand, Outcome, Settling, Group
    <3>3. \A q \in Tasks : Outcome(q)'
      BY <1>0, <2>1 DEF Moves, Shape, Errand, Outcome, Settling
    <3>4. QED
      BY <3>1, <3>2, <3>3 DEF Shape
  <2>4. QED
    BY <2>2, <2>3
<1>3. QED
  BY <1>1, <1>2

LEMMA FinishMoves ==
    ASSUME TypeOK, NEW t \in Tasks, NEW e \in BOOLEAN, Finish(t, e)
    PROVE  /\ Moves(t, IF Reserves(t) THEN "release"
                       ELSE IF t \in Group THEN "record" ELSE "over",
                    t, proc[t].seen, e, proc[t].after)
           /\ proc[t].pc = "script"
           /\ outcome'[t] = (IF e THEN "error" ELSE "ok")
           /\ \A k \in Tasks \ {t} : outcome'[k] = outcome[k]
<1> DEFINE a == IF Reserves(t) THEN "release" ELSE IF t \in Group THEN "record" ELSE "over"
<1>1. proc' = [proc EXCEPT ![t].err = e, ![t].task = t, ![t].pc = a] /\ proc[t].pc = "script"
      /\ outcome' = [outcome EXCEPT ![t] = IF e THEN "error" ELSE "ok"]
  BY DEF Finish
<1>2. a \in Pcs
  BY DEF Pcs
<1> HIDE DEF a
<1>3. Moves(t, a, t, proc[t].seen, e, proc[t].after)
  BY <1>1, <1>2, EndMoves, TaskIsProc DEF TypeOK
<1>4. outcome'[t] = (IF e THEN "error" ELSE "ok")
      /\ \A k \in Tasks \ {t} : outcome'[k] = outcome[k]
  BY <1>1 DEF TypeOK
<1>5. QED
  BY <1>1, <1>3, <1>4 DEF a

LEMMA FinishShape ==
    ASSUME TypeOK, Shape, NEW t \in Tasks, NEW e \in BOOLEAN, Finish(t, e)
    PROVE  Types' /\ Shape'
<1> USE TaskAssumption, TaskIsProc
<1> DEFINE a == IF Reserves(t) THEN "release" ELSE IF t \in Group THEN "record" ELSE "over"
<1>1. /\ Moves(t, a, t, proc[t].seen, e, proc[t].after)
      /\ proc[t].pc = "script"
      /\ outcome'[t] = (IF e THEN "error" ELSE "ok")
      /\ \A k \in Tasks \ {t} : outcome'[k] = outcome[k]
  BY FinishMoves
<1>2. Types'
  <2>1. outcome' = [outcome EXCEPT ![t] = IF e THEN "error" ELSE "ok"]
    BY DEF Finish
  <2>2. outcome' \in [Tasks -> {"none", "ok", "error"}]
    BY <2>1 DEF TypeOK
  <2>3. QED
    BY <1>1, <2>2 DEF TypeOK, Types, Moves, Finish, groupVars, ctxVars, waitVars
<1>3. Shape'
  <2>1. \A q \in Procs : Place(q)'
    BY <1>1 DEF Moves, Shape, Place, Procs
  <2>2. ASSUME NEW q \in Procs PROVE Errand(q)'
    <3>1. CASE q = t
      BY <1>1, <3>1 DEF Moves, Shape, Errand, Settling, Group
    <3>2. CASE q # t
      <4>1. proc'[q] = proc[q] /\ Errand(q)
        BY <1>1, <3>2 DEF Moves, Shape
      <4>2. proc[q].pc \in {"load", "cas"} \/ Settling(q) \/ proc[q].pc = "release"
            => proc[q].task # t
        BY <1>1, <3>2, <4>1 DEF Errand
      <4>3. QED
        BY <1>1, <4>1, <4>2 DEF Moves, Errand, Settling, Group
    <3>3. QED
      BY <3>1, <3>2
  <2>3. \A q \in Tasks : Outcome(q)'
    BY <1>1 DEF Moves, Shape, Errand, Outcome, Settling
  <2>4. QED
    BY <2>1, <2>2, <2>3 DEF Shape
<1>4. QED
  BY <1>2, <1>3

LEMMA ReleaseMoves ==
    ASSUME TypeOK, NEW p \in Procs, Release(p)
    PROVE  /\ Moves(p, IF p \in Group THEN "record" ELSE "over", proc[p].task, proc[p].seen, proc[p].err, proc[p].after)
           /\ proc[p].pc = "release" /\ outcome' = outcome
<1> DEFINE a == IF p \in Group THEN "record" ELSE "over"
<1>1. proc' = [proc EXCEPT ![p].pc = a] /\ a \in Pcs
  BY DEF Release, Goto, Pcs
<1>2. Moves(p, a, proc[p].task, proc[p].seen, proc[p].err, proc[p].after)
  BY <1>1, GotoMoves DEF TypeOK
<1>3. QED
  BY <1>2 DEF Release

LEMMA ReleaseShape ==
    ASSUME TypeOK, Shape, NEW p \in Procs, Release(p)
    PROVE  Types' /\ Shape'
<1> USE TaskAssumption, TaskIsProc
<1>1. /\ Moves(p, IF p \in Group THEN "record" ELSE "over", proc[p].task, proc[p].seen, proc[p].err, proc[p].after)
      /\ proc[p].pc = "release" /\ outcome' = outcome
  BY ReleaseMoves
<1>2. Types'
  BY <1>1 DEF TypeOK, Types, Moves, Release, groupVars, ctxVars, waitVars
<1>3. Shape'
  <2>1. \A q \in Procs : Place(q)'
    BY <1>1 DEF Moves, Shape, Place, Procs
  <2>2. \A q \in Procs : Errand(q)'
    BY <1>1 DEF Moves, Shape, Errand, Outcome, Settling, Group
  <2>3. \A q \in Tasks : Outcome(q)'
    BY <1>1 DEF Moves, Shape, Errand, Outcome, Settling
  <2>4. QED
    BY <2>1, <2>2, <2>3 DEF Shape
<1>4. QED
  BY <1>2, <1>3

LEMMA RecordMoves ==
    ASSUME TypeOK, NEW p \in Procs, Record(p)
    PROVE  /\ Moves(p, IF proc[p].err /\ firstErr = NoTask /\ CanCancel THEN "cancel" ELSE "wgdone",
                    proc[p].task, proc[p].seen, proc[p].err, "wgdone")
           /\ proc[p].pc = "record" /\ outcome' = outcome
<1> DEFINE a == IF proc[p].err /\ firstErr = NoTask /\ CanCancel THEN "cancel" ELSE "wgdone"
<1>1. proc' = [proc EXCEPT ![p].pc = a, ![p].after = "wgdone"] /\ a \in Pcs
  BY DEF Record, Pcs
<1> HIDE DEF a
<1>2. Moves(p, a, proc[p].task, proc[p].seen, proc[p].err, "wgdone")
  BY <1>1, AfterMoves DEF TypeOK
<1>3. QED
  BY <1>2 DEF Record, a

LEMMA RecordShape ==
    ASSUME TypeOK, Shape, NEW p \in Procs, Record(p)
    PROVE  Types' /\ Shape'
<1> USE TaskAssumption, TaskIsProc
<1>1. /\ Moves(p, IF proc[p].err /\ firstErr = NoTask /\ CanCancel THEN "cancel" ELSE "wgdone",
               proc[p].task, proc[p].seen, proc[p].err, "wgdone")
      /\ proc[p].pc = "record" /\ outcome' = outcome
  BY RecordMoves
<1>2. Types'
  <2>1. errCount' \in Nat /\ firstErr' \in Tasks \cup {NoTask}
    <3>1. proc[p].task \in Tasks
      BY <1>1 DEF Shape, Errand, Settling, Group
    <3>2. /\ firstErr' \in {firstErr, proc[p].task}
          /\ errCount' \in {errCount, errCount + 1}
      BY DEF Record
    <3>3. errCount \in Nat /\ firstErr \in Tasks \cup {NoTask}
      BY DEF TypeOK
    <3>4. QED
      BY <3>1, <3>2, <3>3
  <2>2. QED
    BY <1>1, <2>1 DEF TypeOK, Types, Moves, Record, ctxVars, waitVars
<1>3. p # Timer
  BY <1>1 DEF Shape, Place
<1>4. Shape'
  <2>1. \A q \in Procs : Place(q)'
    BY <1>1, <1>3 DEF Moves, Shape, Place, Procs
  <2>2. \A q \in Procs : Errand(q)'
    BY <1>1, <1>3 DEF Moves, Shape, Errand, Outcome, Settling, Group
  <2>3. \A q \in Tasks : Outcome(q)'
    BY <1>1, <1>3 DEF Moves, Shape, Place, Errand, Outcome, Settling
  <2>4. QED
    BY <2>1, <2>2, <2>3 DEF Shape
<1>5. QED
  BY <1>2, <1>4

LEMMA DoneMoves ==
    ASSUME TypeOK, NEW p \in Procs, WgDone(p)
    PROVE  /\ proc[p].pc = "wgdone" /\ outcome' = outcome /\ wg' = wg - 1
           /\ proc' \in [Procs -> Proc]
           /\ proc'[p].pc = (IF proc[p].task = p THEN "over" ELSE "script")
           /\ proc'[p].task = NoTask
           /\ \A q \in Procs \ {p} :
                /\ proc'[q].task = proc[q].task /\ proc'[q].seen = proc[q].seen
                /\ proc'[q].err = proc[q].err /\ proc'[q].after = proc[q].after
                /\ \/ proc'[q].pc = proc[q].pc
                   \/ proc[q].pc = "parked" /\ proc'[q].pc = "woken" /\ wg = 1
<1> DEFINE next == IF proc[p].task = p THEN "over" ELSE "script"
           Woken(q) == [proc[q] EXCEPT !.pc = "woken"]
           New(q) == IF q = p THEN At(next)
                     ELSE IF wg = 1 /\ proc[q].pc = "parked" THEN Woken(q) ELSE proc[q]
<1>1. /\ proc[p].pc = "wgdone" /\ outcome' = outcome /\ wg' = wg - 1
      /\ proc' = [q \in Procs |-> New(q)]
  BY DEF WgDone
<1>2. At(next) \in Proc /\ At(next).pc = next /\ At(next).task = NoTask
  BY AtType DEF Pcs
<1>3. \A q \in Procs : proc[q] \in Proc
  BY DEF TypeOK
<1>4. ASSUME NEW q \in Procs
      PROVE  /\ Woken(q) \in Proc /\ Woken(q).pc = "woken" /\ Woken(q).task = proc[q].task
             /\ Woken(q).seen = proc[q].seen /\ Woken(q).err = proc[q].err
             /\ Woken(q).after = proc[q].after
  BY <1>3 DEF Proc, Pcs
<1> HIDE DEF Woken, next
<1>5. \A q \in Procs : New(q) \in Proc
  BY <1>2, <1>3, <1>4
<1>6. \A q \in Procs : proc'[q] = New(q)
  BY <1>1
<1>7. proc' \in [Procs -> Proc]
  BY <1>1, <1>5
<1>8. proc'[p].pc = next /\ proc'[p].task = NoTask
  BY <1>2, <1>6
<1>9. ASSUME NEW q \in Procs \ {p}
      PROVE  /\ proc'[q].task = proc[q].task /\ proc'[q].seen = proc[q].seen
             /\ proc'[q].err = proc[q].err /\ proc'[q].after = proc[q].after
             /\ \/ proc'[q].pc = proc[q].pc
                \/ proc[q].pc = "parked" /\ proc'[q].pc = "woken" /\ wg = 1
  BY <1>4, <1>6, <1>9
<1>10. QED
  BY <1>1, <1>7, <1>8, <1>9 DEF next

LEMMA DoneShape ==
    ASSUME TypeOK, Shape, NEW p \in Procs, WgDone(p)
    PROVE  Types' /\ Shape'
<1> USE TaskAssumption, TaskIsProc
<1>1. /\ proc[p].pc = "wgdone" /\ outcome' = outcome
      /\ proc' \in [Procs -> Proc]
      /\ proc'[p].pc = (IF proc[p].task = p THEN "over" ELSE "script")
      /\ proc'[p].task = NoTask
      /\ \A q \in Procs \ {p} :
           /\ proc'[q].task = proc[q].task /\ proc'[q].seen = proc[q].seen
           /\ proc'[q].err = proc[q].err /\ proc'[q].after = proc[q].after
           /\ \/ proc'[q].pc = proc[q].pc
              \/ proc[q].pc = "parked" /\ proc'[q].pc = "woken"
  BY DoneMoves
<1>2. Types'
  <2>1. UNCHANGED <<firstErr, errCount, ctxVars, waitVars>>
    BY DEF WgDone
  <2>2. panicked' \in BOOLEAN
    <3>1. panicked' = (panicked \/ wg <= 0)
      BY DEF WgDone
    <3>2. QED
      BY <3>1, Zenon
  <2>3. QED
    BY <1>1, <2>1, <2>2 DEF TypeOK, Types, ctxVars, waitVars
<1>3. p # Timer
  BY <1>1 DEF Shape, Place
<1>4. Shape'
  <2>1. \A q \in Procs : Place(q)'
    BY <1>1, <1>3 DEF Shape, Place, Procs
  <2>2. \A q \in Procs : Errand(q)'
    BY <1>1, <1>3 DEF Place, Shape, Errand, Outcome, Settling, Group
  <2>3. \A q \in Tasks : Outcome(q)'
    BY <1>1, <1>3 DEF Place, Shape, Errand, Outcome, Settling
  <2>4. QED
    BY <2>1, <2>2, <2>3 DEF Shape
<1>5. QED
  BY <1>2, <1>4

LEMMA CancelMoves ==
    ASSUME TypeOK, NEW p \in Procs, CallCancel(p)
    PROVE  /\ Moves(p, "cancel", proc[p].task, proc[p].seen, proc[p].err, "script")
           /\ proc[p].pc = "script" /\ outcome' = outcome
  BY AfterMoves DEF CallCancel, TypeOK, Pcs

LEMMA CancelShape ==
    ASSUME TypeOK, Shape, NEW p \in Procs, CallCancel(p)
    PROVE  Types' /\ Shape'
<1> USE TaskAssumption, TaskIsProc
<1>1. /\ Moves(p, "cancel", proc[p].task, proc[p].seen, proc[p].err, "script")
      /\ proc[p].pc = "script" /\ outcome' = outcome
  BY CancelMoves
<1>2. Types'
  BY <1>1 DEF TypeOK, Types, Moves, CallCancel, groupVars, ctxVars, waitVars
<1>3. Shape'
  <2>1. \A q \in Procs : Place(q)'
    BY <1>1 DEF Moves, Shape, Place, Procs
  <2>2. \A q \in Procs : Errand(q)'
    BY <1>1 DEF Moves, Shape, Errand, Outcome, Settling, Group
  <2>3. \A q \in Tasks : Outcome(q)'
    BY <1>1 DEF Moves, Shape, Errand, Outcome, Settling
  <2>4. QED
    BY <2>1, <2>2, <2>3 DEF Shape
<1>4. QED
  BY <1>2, <1>3

LEMMA TimerMoves ==
    ASSUME TypeOK, TimerFires
    PROVE  /\ Moves(Timer, "cancel", proc[Timer].task, proc[Timer].seen, proc[Timer].err, "over")
           /\ proc[Timer].pc = "armed" /\ outcome' = outcome
  BY AfterMoves, TaskIsProc DEF TimerFires, TypeOK, Pcs

LEMMA TimerShape ==
    ASSUME TypeOK, Shape, TimerFires
    PROVE  Types' /\ Shape'
<1> USE TaskAssumption, TaskIsProc
<1>1. /\ Moves(Timer, "cancel", proc[Timer].task, proc[Timer].seen, proc[Timer].err, "over")
      /\ proc[Timer].pc = "armed" /\ outcome' = outcome
  BY TimerMoves
<1>2. Types'
  BY <1>1 DEF TypeOK, Types, Moves, TimerFires, groupVars, ctxVars, waitVars
<1>3. Shape'
  <2>1. \A q \in Procs : Place(q)'
    BY <1>1 DEF Moves, Shape, Place, Procs
  <2>2. \A q \in Procs : Errand(q)'
    BY <1>1 DEF Moves, Shape, Errand, Outcome, Settling, Group
  <2>3. \A q \in Tasks : Outcome(q)'
    BY <1>1 DEF Moves, Shape, Errand, Outcome, Settling
  <2>4. QED
    BY <2>1, <2>2, <2>3 DEF Shape
<1>4. QED
  BY <1>2, <1>3

LEMMA OnceMoves ==
    ASSUME TypeOK, NEW p \in Procs, CancelOnce(p)
    PROVE  /\ Moves(p, IF once = "new" THEN "close" ELSE proc[p].after, proc[p].task, proc[p].seen, proc[p].err, proc[p].after)
           /\ proc[p].pc = "cancel" /\ outcome' = outcome
<1> DEFINE a == IF once = "new" THEN "close" ELSE proc[p].after
<1>1. proc' = [proc EXCEPT ![p].pc = a]
  BY DEF CancelOnce, Goto
<1>2. a \in Pcs
  BY proc[p] \in Proc DEF TypeOK, Proc, Pcs
<1> HIDE DEF a
<1>3. Moves(p, a, proc[p].task, proc[p].seen, proc[p].err, proc[p].after)
  BY <1>1, <1>2, GotoMoves DEF TypeOK
<1>4. QED
  BY <1>3 DEF CancelOnce, a

LEMMA OnceShape ==
    ASSUME TypeOK, Shape, NEW p \in Procs, CancelOnce(p)
    PROVE  Types' /\ Shape'
<1> USE TaskAssumption, TaskIsProc
<1>1. /\ Moves(p, IF once = "new" THEN "close" ELSE proc[p].after, proc[p].task, proc[p].seen, proc[p].err, proc[p].after)
      /\ proc[p].pc = "cancel" /\ outcome' = outcome
  BY OnceMoves
<1>2. Types'
  <2>1. once' \in {"new", "busy", "done"} /\ reason' \in {"none", "cancelled", "deadline exceeded"}
    BY DEF CancelOnce, TypeOK, Why
  <2>2. QED
    BY <1>1, <2>1 DEF TypeOK, Types, Moves, CancelOnce, groupVars, waitVars
<1>3. proc[p].after \in {"script", "wgdone", "over"}
  BY proc[p] \in Proc DEF TypeOK, Proc
<1>4. Shape'
  <2>1. \A q \in Procs : Place(q)'
    BY <1>1, <1>3 DEF Moves, Shape, Place, Procs
  <2>2. \A q \in Procs : Errand(q)'
    BY <1>1, <1>3 DEF Moves, Shape, Errand, Outcome, Settling, Group
  <2>3. \A q \in Tasks : Outcome(q)'
    BY <1>1, <1>3 DEF Moves, Shape, Place, Errand, Outcome, Settling
  <2>4. QED
    BY <2>1, <2>2, <2>3 DEF Shape
<1>5. QED
  BY <1>2, <1>4

LEMMA CloseMoves ==
    ASSUME TypeOK, NEW p \in Procs, CloseDone(p)
    PROVE  /\ Moves(p, proc[p].after, proc[p].task, proc[p].seen, proc[p].err, proc[p].after)
           /\ proc[p].pc = "close" /\ outcome' = outcome
<1>1. proc' = [proc EXCEPT ![p].pc = proc[p].after]
  BY DEF CloseDone, Goto
<1>2. proc[p].after \in Pcs
  BY proc[p] \in Proc DEF TypeOK, Proc, Pcs
<1>3. QED
  BY <1>1, <1>2, GotoMoves DEF TypeOK, CloseDone

LEMMA CloseShape ==
    ASSUME TypeOK, Shape, NEW p \in Procs, CloseDone(p)
    PROVE  Types' /\ Shape'
<1> USE TaskAssumption, TaskIsProc
<1>1. /\ Moves(p, proc[p].after, proc[p].task, proc[p].seen, proc[p].err, proc[p].after)
      /\ proc[p].pc = "close" /\ outcome' = outcome
  BY CloseMoves
<1>2. Types'
  BY <1>1 DEF TypeOK, Types, Moves, CloseDone, groupVars, waitVars
<1>3. proc[p].after \in {"script", "wgdone", "over"}
  BY proc[p] \in Proc DEF TypeOK, Proc
<1>4. Shape'
  <2>1. \A q \in Procs : Place(q)'
    BY <1>1, <1>3 DEF Moves, Shape, Place, Procs
  <2>2. \A q \in Procs : Errand(q)'
    BY <1>1, <1>3 DEF Moves, Shape, Errand, Outcome, Settling, Group
  <2>3. \A q \in Tasks : Outcome(q)'
    BY <1>1, <1>3 DEF Moves, Shape, Place, Errand, Outcome, Settling
  <2>4. QED
    BY <2>1, <2>2, <2>3 DEF Shape
<1>5. QED
  BY <1>2, <1>4

(* Main waits: it only moves between points of group.wait. *)
LEMMA WaitMoves ==
    ASSUME TypeOK, NEW p \in Procs, Wait(p) \/ Wake(p) \/ ReadError(p) \/ ReadCount(p)
    PROVE  /\ \E a \in {"script", "parked", "read", "count", "over"} : Moves(p, a, proc[p].task, proc[p].seen, proc[p].err, proc[p].after)
           /\ proc[p].pc \in {"script", "woken", "read", "count"}
           /\ outcome' = outcome
<1>1. PICK a \in {"script", "parked", "read", "count", "over"} : proc' = [proc EXCEPT ![p].pc = a]
  BY DEF Wait, Wake, ReadError, ReadCount, Goto
<1>2. Moves(p, a, proc[p].task, proc[p].seen, proc[p].err, proc[p].after)
  BY <1>1, GotoMoves DEF TypeOK, Pcs
<1>3. QED
  BY <1>2 DEF Wait, Wake, ReadError, ReadCount

LEMMA WaitShape ==
    ASSUME TypeOK, Shape, NEW p \in Procs,
           (p = Main /\ Wait(p)) \/ Wake(p) \/ ReadError(p) \/ ReadCount(p)
    PROVE  Types' /\ Shape'
<1> USE TaskAssumption, TaskIsProc
<1>1. p = Main
  BY DEF Shape, Place, Wait, Wake, ReadError, ReadCount, Procs
<1>2. PICK a \in {"script", "parked", "read", "count", "over"} : Moves(p, a, proc[p].task, proc[p].seen, proc[p].err, proc[p].after)
  BY WaitMoves
<1>3. proc[p].pc \in {"script", "woken", "read", "count"} /\ outcome' = outcome
  BY WaitMoves
<1>4. Types'
  <2>1. panicked' \in BOOLEAN /\ waits' \in 0..MaxWaits /\ report' \in Reports
    <3>0. /\ panicked \in BOOLEAN /\ waits \in 0..MaxWaits /\ report \in Reports
          /\ firstErr \in Tasks \cup {NoTask} /\ errCount \in Nat
      BY DEF TypeOK
    <3>1. CASE Wait(p)
      BY <3>0, <3>1 DEF Wait
    <3>2. CASE Wake(p)
      BY <3>0, <3>2 DEF Wake, waitVars
    <3>3. CASE ReadError(p)
      <4>1. waits' = waits /\ panicked' = panicked
            /\ \/ report' = [ok |-> TRUE, first |-> NoTask, count |-> 0, waits |-> waits]
               \/ report' = report
        BY <3>3 DEF ReadError
      <4>2. [ok |-> TRUE, first |-> NoTask, count |-> 0, waits |-> waits] \in Reports
        BY <3>0 DEF Reports
      <4>3. QED
        BY <3>0, <4>1, <4>2
    <3>4. CASE ReadCount(p)
      <4>1. /\ waits' = waits /\ panicked' = panicked
            /\ report' = [ok |-> FALSE, first |-> firstErr, count |-> errCount, waits |-> waits]
        BY <3>4 DEF ReadCount
      <4>2. QED
        BY <3>0, <4>1 DEF Reports
    <3>5. QED
      BY <3>1, <3>2, <3>3, <3>4
  <2>2. UNCHANGED <<groupVars, ctxVars>>
    BY DEF Wait, Wake, ReadError, ReadCount
  <2>3. QED
    BY <1>2, <1>3, <2>1, <2>2 DEF TypeOK, Types, Moves, groupVars, ctxVars
<1>5. Shape'
  <2>1. \A q \in Procs : Place(q)'
    BY <1>1, <1>2, <1>3 DEF Moves, Shape, Place, Procs
  <2>2. \A q \in Procs : Errand(q)'
    BY <1>1, <1>2, <1>3 DEF Moves, Shape, Errand, Outcome, Settling, Group
  <2>3. \A q \in Tasks : Outcome(q)'
    BY <1>1, <1>2, <1>3 DEF Moves, Shape, Errand, Outcome, Settling
  <2>4. QED
    BY <2>1, <2>2, <2>3 DEF Shape
<1>6. QED
  BY <1>4, <1>5

(* The sets that the counters count. *)
LEMMA OneMore ==
    ASSUME NEW S \in SUBSET Tasks, NEW t \in Tasks, t \notin S
    PROVE  Cardinality(S \cup {t}) = Cardinality(S) + 1
  BY TaskAssumption, FS_Subset, FS_AddElement

LEMMA OneLess ==
    ASSUME NEW S \in SUBSET Tasks, NEW t \in S
    PROVE  Cardinality(S \ {t}) = Cardinality(S) - 1
  BY TaskAssumption, FS_Subset, FS_RemoveElement

LEMMA CountType ==
    ASSUME NEW S \in SUBSET Tasks
    PROVE  Cardinality(S) \in Nat /\ (Cardinality(S) = 0 <=> S = {})
  BY TaskAssumption, FS_Subset, FS_CardinalityType, FS_EmptySet

(* The steps of the budget. *)
LEMMA BudgetStep ==
    ASSUME TypeOK, Shape, BudgetExact, [Next]_vars
    PROVE  BudgetExact'
<1> USE TaskAssumption, TaskIsProc
<1>0. Holding \in SUBSET Tasks
  BY DEF Holding
<1>1. ASSUME NEW p \in Procs, NEW t \in Tasks, StartTask(p, t) PROVE BudgetExact'
  <2>1. p # t /\ proc[t].pc = "off" /\ outcome' = outcome /\ active' = active
    BY <1>1 DEF StartTask
  <2>2. Holding' = Holding
    <3>1. CASE Reserves(t)
      <4>1. Moves(p, "load", t, proc[p].seen, proc[p].err, proc[p].after) /\ proc[p].pc = "script"
        BY <1>1, <3>1, TaskMoves DEF StartTask, Pcs, TypeOK
      <4>2. QED
        BY <2>1, <4>1 DEF Holding, Moves
    <3>2. CASE ~Reserves(t)
      <4>1. Moves(t, "script", proc[t].task, proc[t].seen, proc[t].err, proc[t].after)
        BY <1>1, <3>2, GotoMoves DEF StartTask, Pcs, TypeOK
      <4>2. QED
        BY <2>1, <3>2, <4>1 DEF Holding, Moves
    <3>3. QED
      BY <3>1, <3>2
  <2>3. QED
    BY <2>1, <2>2 DEF BudgetExact
<1>2. ASSUME NEW p \in Procs, LoadActive(p) PROVE BudgetExact'
  <2>1. active' = active
    BY <1>2 DEF LoadActive
  <2>2. CASE active < Max
    <3>1. Moves(p, "cas", proc[p].task, active, proc[p].err, proc[p].after)
          /\ proc[p].pc = "load" /\ outcome' = outcome
      BY <1>2, <2>2, SeenMoves DEF LoadActive, Pcs, TypeOK
    <3>2. Holding' = Holding
      BY <3>1 DEF Holding, Moves
    <3>3. QED
      BY <2>1, <3>2 DEF BudgetExact
  <2>3. CASE ~(active < Max)
    <3> DEFINE t == proc[p].task
    <3>1. /\ proc[p].pc = "load" /\ t \in Tasks /\ t # p /\ proc[t].pc = "off"
          /\ Pushes(p, IF t \in Group THEN "record" ELSE "script", TRUE, t, "over")
          /\ outcome'[t] = "error" /\ \A k \in Tasks \ {t} : outcome'[k] = outcome[k]
      BY <1>2, <2>3, LoadMoves
    <3> HIDE DEF t
    <3>2. Holding' = Holding
      BY <3>1 DEF Holding, Pushes
    <3>3. QED
      BY <2>1, <3>2 DEF BudgetExact
  <2>4. QED
    BY <2>2, <2>3
<1>3. ASSUME NEW p \in Procs, CasActive(p) PROVE BudgetExact'
  <2>1. outcome' = outcome
    BY <1>3 DEF CasActive
  <2>2. CASE active = proc[p].seen
    <3> DEFINE t == proc[p].task
    <3>1. /\ proc[p].pc = "cas" /\ t \in Tasks /\ t # p /\ proc[t].pc = "off" /\ Reserves(t)
          /\ Pushes(p, "script", proc[p].err, t, "script") /\ active' = active + 1
      BY <1>3, <2>2, CasMoves
    <3> HIDE DEF t
    <3>2. outcome[t] = "none"
      <4>1. Outcome(t) /\ Place(t)
        BY <3>1 DEF Shape
      <4>2. QED
        BY <3>1, <4>1 DEF TypeOK, Outcome, Settling
    <3>3. Holding' = Holding \cup {t} /\ t \notin Holding
      BY <2>1, <3>1, <3>2 DEF Holding, Pushes
    <3>4. QED
      BY <1>0, <3>1, <3>3, OneMore DEF BudgetExact
  <2>3. CASE active # proc[p].seen
    <3>1. Moves(p, "load", proc[p].task, proc[p].seen, proc[p].err, proc[p].after) /\ proc[p].pc = "cas" /\ active' = active
      BY <1>3, <2>3, GotoMoves DEF CasActive, Goto, Pcs, TypeOK
    <3>2. Holding' = Holding
      BY <2>1, <3>1 DEF Holding, Moves
    <3>3. QED
      BY <3>1, <3>2 DEF BudgetExact
  <2>4. QED
    BY <2>2, <2>3
<1>4. ASSUME NEW t \in Tasks, NEW e \in BOOLEAN, Finish(t, e) PROVE BudgetExact'
  <2>1. /\ Moves(t, IF Reserves(t) THEN "release"
                    ELSE IF t \in Group THEN "record" ELSE "over",
                 t, proc[t].seen, e, proc[t].after)
        /\ proc[t].pc = "script"
        /\ outcome'[t] = (IF e THEN "error" ELSE "ok")
        /\ \A k \in Tasks \ {t} : outcome'[k] = outcome[k]
    BY <1>4, FinishMoves
  <2>2. outcome[t] = "none"
    BY <2>1 DEF TypeOK, Shape, Outcome, Settling
  <2>3. Holding' = Holding
    BY <2>1, <2>2 DEF Holding, Moves
  <2>4. QED
    BY <1>4, <2>3 DEF BudgetExact, Finish
<1>5. ASSUME NEW p \in Procs, Release(p) PROVE BudgetExact'
  <2>1. /\ Moves(p, IF p \in Group THEN "record" ELSE "over", proc[p].task, proc[p].seen, proc[p].err, proc[p].after)
        /\ proc[p].pc = "release" /\ outcome' = outcome
    BY <1>5, ReleaseMoves
  <2>2. p \in Tasks /\ Reserves(p) /\ outcome[p] # "none"
    BY <2>1 DEF Shape, Errand, Outcome
  <2>3. Holding' = Holding \ {p} /\ p \in Holding
    BY <2>1, <2>2 DEF Holding, Moves
  <2>4. QED
    BY <1>0, <1>5, <2>3, OneLess DEF BudgetExact, Release
<1>6. ASSUME NEW p \in Procs, Record(p) PROVE BudgetExact'
  <2>1. /\ Moves(p, IF proc[p].err /\ firstErr = NoTask /\ CanCancel THEN "cancel" ELSE "wgdone",
                 proc[p].task, proc[p].seen, proc[p].err, "wgdone")
        /\ proc[p].pc = "record" /\ outcome' = outcome
    BY <1>6, RecordMoves
  <2>2. Holding' = Holding
    BY <2>1 DEF Holding, Moves
  <2>3. QED
    BY <1>6, <2>2 DEF BudgetExact, Record
<1>7. ASSUME NEW p \in Procs, WgDone(p) PROVE BudgetExact'
  <2>1. /\ proc[p].pc = "wgdone" /\ outcome' = outcome
        /\ proc'[p].pc \in {"over", "script"}
        /\ \A q \in Procs \ {p} : \/ proc'[q].pc = proc[q].pc
                                  \/ proc[q].pc = "parked" /\ proc'[q].pc = "woken"
    BY <1>7, DoneMoves
  <2>2. Holding' = Holding
    BY <2>1 DEF Holding
  <2>3. QED
    BY <1>7, <2>2 DEF BudgetExact, WgDone
<1>8. ASSUME NEW p \in Procs, CallCancel(p) PROVE BudgetExact'
  <2>1. /\ Moves(p, "cancel", proc[p].task, proc[p].seen, proc[p].err, "script")
        /\ proc[p].pc = "script" /\ outcome' = outcome
    BY <1>8, CancelMoves
  <2>2. Holding' = Holding
    BY <2>1 DEF Holding, Moves
  <2>3. QED
    BY <1>8, <2>2 DEF BudgetExact, CallCancel
<1>9. ASSUME TimerFires PROVE BudgetExact'
  <2>1. /\ Moves(Timer, "cancel", proc[Timer].task, proc[Timer].seen, proc[Timer].err, "over")
        /\ outcome' = outcome
    BY <1>9, TimerMoves
  <2>2. Holding' = Holding
    BY <2>1 DEF Holding, Moves
  <2>3. QED
    BY <1>9, <2>2 DEF BudgetExact, TimerFires
<1>10. ASSUME NEW p \in Procs, CancelOnce(p) PROVE BudgetExact'
  <2>1. /\ Moves(p, IF once = "new" THEN "close" ELSE proc[p].after, proc[p].task, proc[p].seen, proc[p].err, proc[p].after)
        /\ proc[p].pc = "cancel" /\ outcome' = outcome
    BY <1>10, OnceMoves
  <2>2. proc[p].after \in {"script", "wgdone", "over"}
    BY proc[p] \in Proc DEF TypeOK, Proc
  <2>3. Holding' = Holding
    BY <2>1, <2>2 DEF Holding, Moves
  <2>4. QED
    BY <1>10, <2>3 DEF BudgetExact, CancelOnce
<1>11. ASSUME NEW p \in Procs, CloseDone(p) PROVE BudgetExact'
  <2>1. /\ Moves(p, proc[p].after, proc[p].task, proc[p].seen, proc[p].err, proc[p].after)
        /\ proc[p].pc = "close" /\ outcome' = outcome
    BY <1>11, CloseMoves
  <2>2. proc[p].after \in {"script", "wgdone", "over"}
    BY proc[p] \in Proc DEF TypeOK, Proc
  <2>3. Holding' = Holding
    BY <2>1, <2>2 DEF Holding, Moves
  <2>4. QED
    BY <1>11, <2>3 DEF BudgetExact, CloseDone
<1>12. ASSUME NEW p \in Procs, (p = Main /\ Wait(p)) \/ Wake(p) \/ ReadError(p) \/ ReadCount(p)
       PROVE  BudgetExact'
  <2>1. p = Main
    BY <1>12 DEF Shape, Place, Wait, Wake, ReadError, ReadCount, Procs
  <2>2. PICK a \in {"script", "parked", "read", "count", "over"} : Moves(p, a, proc[p].task, proc[p].seen, proc[p].err, proc[p].after)
    BY <1>12, WaitMoves
  <2>3. Holding' = Holding
    <3>1. outcome' = outcome
      BY <1>12, WaitMoves
    <3>2. QED
      BY <2>1, <2>2, <3>1 DEF Holding, Moves
  <2>4. active' = active
    BY <1>12 DEF Wait, Wake, ReadError, ReadCount
  <2>5. QED
    BY <2>3, <2>4 DEF BudgetExact
<1>13. CASE UNCHANGED vars
  <2>1. Holding' = Holding
    BY <1>13 DEF Holding, vars
  <2>2. QED
    BY <1>13, <2>1 DEF BudgetExact, vars
<1>14. QED
  BY <1>1, <1>2, <1>3, <1>4, <1>5, <1>6, <1>7, <1>8, <1>9, <1>10, <1>11, <1>12, <1>13
  DEF Next, Internal

(* Every step keeps the types, but those of the two counters, and the shape. *)
LEMMA StepShape ==
    ASSUME TypeOK, Shape, [Next]_vars
    PROVE  Types' /\ Shape'
<1>1. CASE Next
  <2>1. ASSUME NEW p \in Procs, Internal(p) PROVE Types' /\ Shape'
    BY <2>1, LoadShape, CasShape, ReleaseShape, RecordShape, DoneShape, OnceShape, CloseShape,
       WaitShape DEF Internal
  <2>2. Wait(Main) => Types' /\ Shape'
    BY WaitShape, TaskIsProc
  <2>3. QED
    BY <1>1, <2>1, <2>2, StartShape, FinishShape, CancelShape, TimerShape DEF Next
<1>2. CASE UNCHANGED vars
  <2>1. UNCHANGED <<proc, errCount, firstErr, once, reason, done, panicked, report, waits, outcome>>
    BY <1>2 DEF vars, groupVars, ctxVars, waitVars
  <2>2. Types'
    BY <2>1 DEF TypeOK, Types
  <2>3. Shape'
    BY <2>1 DEF Shape, Place, Errand, Outcome, Settling
  <2>4. QED
    BY <2>2, <2>3
<1>3. QED
  BY <1>1, <1>2

-----------------------------------------------------------------------------
(* What wg counts: the tasks of the group between group.start and wg.Done,
   those that their parent is starting, or settles, included. *)
Handled(t) ==
    /\ proc[Parent[t]].task = t
    /\ proc[Parent[t]].pc \in {"load", "cas"} \/ Settling(Parent[t])

Counted == {t \in Group : proc[t].pc \notin {"off", "over"} \/ Handled(t)}

(* What a step does to the counter, and to what it counts. *)
SameCount == Counted' = Counted /\ wg' = wg
Counts(t) == t \notin Counted /\ Counted' = Counted \cup {t} /\ wg' = wg + 1
Uncounts(t) == t \in Counted /\ Counted' = Counted \ {t} /\ wg' = wg - 1

(* The failures that TaskErrors.Record has seen. *)
Pending(t) ==
    \/ proc[t].task = t /\ proc[t].pc \in {"release", "record"}
    \/ proc[Parent[t]].task = t /\ proc[Parent[t]].pc = "record"

Recorded == {t \in Failed : ~Pending(t)}

SameErrors == Recorded' = Recorded /\ errCount' = errCount /\ firstErr' = firstErr
Records(t) ==
    /\ t \notin Recorded /\ Recorded' = Recorded \cup {t} /\ errCount' = errCount + 1
    /\ firstErr' = IF firstErr = NoTask THEN t ELSE firstErr

LEMMA ParentIsProc == \A t \in Group : t \in Tasks /\ Parent[t] \in Procs /\ Parent[t] # Timer
  BY TaskAssumption DEF Group, Procs

(* p moves from one point to another that means the same for both counters. *)
LEMMA Alike ==
    ASSUME TypeOK, Shape, NEW p \in Procs, NEW a, NEW n, NEW e, NEW r,
           Moves(p, a, proc[p].task, n, e, r), outcome' = outcome, UNCHANGED groupVars,
           p \in Group => (a \in {"off", "over"} <=> proc[p].pc \in {"off", "over"}),
           p # Timer => /\ a \in {"load", "cas"} <=> proc[p].pc \in {"load", "cas"}
                        /\ Settling(p)' <=> Settling(p)
                        /\ a = "record" <=> proc[p].pc = "record"
                        /\ a = "release" <=> proc[p].pc = "release"
    PROVE  SameCount /\ SameErrors
<1> USE ParentIsProc
<1>0. Timer \notin Group
  BY TaskAssumption DEF Group
<1>1. \A q \in Procs : /\ proc'[q].task = proc[q].task
                       /\ q # p => proc'[q] = proc[q]
                       /\ q # p => (Settling(q)' <=> Settling(q))
  BY DEF Moves, Settling
<1>2. proc'[p].pc = a
  BY DEF Moves
<1>3. \A t \in Group : Handled(t)' <=> Handled(t)
  BY <1>1, <1>2 DEF Handled
<1>4. ASSUME NEW t \in Group PROVE Pending(t)' <=> Pending(t)
  <2>1. \A q \in Procs \ {Timer} : /\ proc'[q].pc = "record" <=> proc[q].pc = "record"
                                   /\ proc'[q].pc = "release" <=> proc[q].pc = "release"
    BY <1>1, <1>2
  <2>2. t \in Procs \ {Timer} /\ Parent[t] \in Procs \ {Timer}
    BY <1>0, TaskIsProc
  <2>3. QED
    BY <1>1, <2>1, <2>2 DEF Pending
<1>5. ASSUME NEW t \in Group
      PROVE  proc'[t].pc \in {"off", "over"} <=> proc[t].pc \in {"off", "over"}
  <2>1. CASE t = p
    BY <1>2, <2>1
  <2>2. CASE t # p
    BY <1>1, <2>2, TaskIsProc
  <2>3. QED
    BY <2>1, <2>2
<1>6. Counted' = Counted
  BY <1>3, <1>5 DEF Counted
<1>7. Recorded' = Recorded
  BY <1>4 DEF Recorded, Failed
<1>8. QED
  BY <1>6, <1>7 DEF SameCount, SameErrors, groupVars

(* The actions that change what is counted. *)
LEMMA StartCount ==
    ASSUME TypeOK, Shape, NEW p \in Procs, NEW t \in Tasks, StartTask(p, t)
    PROVE  SameErrors /\ (t \in Group => Counts(t)) /\ (t \notin Group => SameCount)
<1> USE TaskAssumption, TaskIsProc, ParentIsProc
<1>1. /\ p # t /\ proc[p].pc = "script" /\ proc[t].pc = "off" /\ Parent[t] = p
      /\ outcome' = outcome /\ firstErr' = firstErr /\ errCount' = errCount
      /\ wg' = (IF t \in Group THEN wg + 1 ELSE wg)
  BY DEF StartTask
<1>2. CASE Reserves(t)
  <2>1. Moves(p, "load", t, proc[p].seen, proc[p].err, proc[p].after)
    BY <1>2, TaskMoves DEF StartTask, Pcs, TypeOK
  <2>2. \A k \in Group : Handled(k)' <=> Handled(k) \/ k = t
    BY <1>1, <2>1 DEF Moves, Handled, Settling
  <2>3. ~Handled(t)
    BY <1>1 DEF Handled, Settling
  <2>4. \A k \in Group : Pending(k)' <=> Pending(k)
    BY <1>1, <2>1 DEF Moves, Pending
  <2>5. \A k \in Group : proc'[k].pc \in {"off", "over"} <=> proc[k].pc \in {"off", "over"}
    BY <1>1, <2>1 DEF Moves
  <2>6. Counted' = Counted \cup ({t} \cap Group) /\ t \notin Counted
    BY <1>1, <2>2, <2>3, <2>5 DEF Counted
  <2>7. Recorded' = Recorded
    BY <1>1, <2>4 DEF Recorded, Failed
  <2>8. QED
    BY <1>1, <2>6, <2>7 DEF SameErrors, Counts, SameCount
<1>3. CASE ~Reserves(t)
  <2>1. Moves(t, "script", proc[t].task, proc[t].seen, proc[t].err, proc[t].after)
    BY <1>3, GotoMoves DEF StartTask, Pcs, TypeOK
  <2>2. \A k \in Group : Handled(k)' <=> Handled(k)
    BY <1>1, <2>1 DEF Moves, Handled, Settling
  <2>3. ~Handled(t)
    BY <1>1 DEF Handled, Settling
  <2>4. \A k \in Group : Pending(k)' <=> Pending(k)
    BY <1>1, <2>1 DEF Moves, Pending
  <2>5. Counted' = Counted \cup ({t} \cap Group) /\ t \notin Counted
    BY <1>1, <2>1, <2>2, <2>3 DEF Counted, Moves
  <2>6. Recorded' = Recorded
    BY <1>1, <2>4 DEF Recorded, Failed
  <2>7. QED
    BY <1>1, <2>5, <2>6 DEF SameErrors, Counts, SameCount
<1>4. QED
  BY <1>2, <1>3

LEMMA LoadCount ==
    ASSUME TypeOK, Shape, NEW p \in Procs, LoadActive(p)
    PROVE  SameErrors /\ SameCount
<1> USE TaskAssumption, TaskIsProc, ParentIsProc
<1>0. UNCHANGED groupVars /\ proc[p].pc = "load"
  BY DEF LoadActive
<1>1. CASE active < Max
  <2>1. Moves(p, "cas", proc[p].task, active, proc[p].err, proc[p].after) /\ outcome' = outcome
    BY <1>1, SeenMoves DEF LoadActive, Pcs, TypeOK
  <2>2. ~Settling(p) /\ ~Settling(p)'
    BY <1>0, <2>1 DEF Moves, Settling
  <2>3. QED
    BY <1>0, <2>1, <2>2, Alike
<1>2. CASE ~(active < Max)
  <2>1. PICK t \in Tasks :
        /\ t = proc[p].task /\ t # p /\ Parent[t] = p /\ proc[t].pc = "off"
        /\ Pushes(p, IF t \in Group THEN "record" ELSE "script", TRUE, t, "over")
        /\ outcome'[t] = "error" /\ \A k \in Tasks \ {t} : outcome'[k] = outcome[k]
    <3> DEFINE k == proc[p].task
    <3>1. /\ k \in Tasks /\ k # p /\ Parent[k] = p /\ proc[k].pc = "off"
          /\ Pushes(p, IF k \in Group THEN "record" ELSE "script", TRUE, k, "over")
          /\ outcome'[k] = "error" /\ \A j \in Tasks \ {k} : outcome'[j] = outcome[j]
      BY <1>2, LoadMoves
    <3> HIDE DEF k
    <3>2. QED
      BY <3>1 DEF k
  <2>2. outcome[t] = "none"
    <3>1. Outcome(t)
      BY <2>1 DEF Shape
    <3>2. QED
      BY <2>1, <3>1 DEF TypeOK, Outcome, Settling
  <2>3. proc[p].task = t /\ proc'[p].task = t
    BY <2>1 DEF Pushes
  <2>4. \A k \in Group : Handled(k)' <=> Handled(k)
    BY <1>0, <2>1, <2>3 DEF Pushes, Handled, Settling
  <2>5. t \in Group => Handled(t) /\ Pending(t)'
    <3>1. t \in Group => proc'[p].pc = "record"
      BY <2>1 DEF Pushes
    <3>2. QED
      BY <1>0, <2>1, <2>3, <3>1 DEF Handled, Pending
  <2>6. \A k \in Group \ {t} : Pending(k)' <=> Pending(k)
    BY <1>0, <2>1, <2>3 DEF Pushes, Pending
  <2>7. \A k \in Group \ {t} : proc'[k].pc \in {"off", "over"} <=> proc[k].pc \in {"off", "over"}
    BY <1>0, <2>1 DEF Pushes
  <2>8. Counted' = Counted
    BY <2>4, <2>5, <2>7 DEF Counted
  <2>9. Recorded' = Recorded
    <3>1. t \notin Recorded /\ t \notin Recorded'
      BY <2>2, <2>5 DEF Recorded, Failed
    <3>2. \A k \in Group \ {t} : k \in Recorded' <=> k \in Recorded
      BY <2>1, <2>6 DEF Recorded, Failed
    <3>3. QED
      BY <3>1, <3>2 DEF Recorded, Failed
  <2>10. QED
    BY <1>0, <2>8, <2>9 DEF SameErrors, SameCount, groupVars
<1>3. QED
  BY <1>1, <1>2

LEMMA CasCount ==
    ASSUME TypeOK, Shape, NEW p \in Procs, CasActive(p)
    PROVE  SameErrors /\ SameCount
<1> USE TaskAssumption, TaskIsProc, ParentIsProc
<1>0. UNCHANGED groupVars /\ proc[p].pc = "cas" /\ outcome' = outcome
  BY DEF CasActive
<1>1. CASE active # proc[p].seen
  <2>1. Moves(p, "load", proc[p].task, proc[p].seen, proc[p].err, proc[p].after)
    BY <1>1, GotoMoves DEF CasActive, Goto, Pcs, TypeOK
  <2>2. ~Settling(p) /\ ~Settling(p)'
    BY <1>0, <2>1 DEF Moves, Settling
  <2>3. QED
    BY <1>0, <2>1, <2>2, Alike
<1>2. CASE active = proc[p].seen
  <2> DEFINE t == proc[p].task
  <2>1. /\ t \in Tasks /\ t # p /\ Parent[t] = p /\ proc[t].pc = "off"
        /\ Pushes(p, "script", proc[p].err, t, "script")
    BY <1>2, CasMoves
  <2>2. proc[p].task = t /\ proc'[p].task = t
    BY <2>1 DEF Pushes
  <2> HIDE DEF t
  <2>3. \A k \in Group \ {t} : Handled(k)' <=> Handled(k)
    BY <1>0, <2>1, <2>2 DEF Pushes, Handled, Settling
  <2>4. t \in Group => Handled(t)
    BY <1>0, <2>1, <2>2 DEF Handled
  <2>5. \A k \in Group : Pending(k)' <=> Pending(k)
    BY <1>0, <2>1, <2>2 DEF Pushes, Pending
  <2>6. /\ \A k \in Group \ {t} : proc'[k].pc \in {"off", "over"} <=> proc[k].pc \in {"off", "over"}
        /\ proc'[t].pc = "script"
    BY <1>0, <2>1 DEF Pushes
  <2>7. Counted' = Counted
    BY <2>3, <2>4, <2>6 DEF Counted
  <2>8. Recorded' = Recorded
    BY <1>0, <2>5 DEF Recorded, Failed
  <2>9. QED
    BY <1>0, <2>7, <2>8 DEF SameErrors, SameCount, groupVars
<1>3. QED
  BY <1>1, <1>2

LEMMA FinishCount ==
    ASSUME TypeOK, Shape, NEW t \in Tasks, NEW e \in BOOLEAN, Finish(t, e)
    PROVE  SameErrors /\ SameCount
<1> USE TaskAssumption, TaskIsProc, ParentIsProc
<1>0. UNCHANGED groupVars
  BY DEF Finish
<1> DEFINE a == IF Reserves(t) THEN "release" ELSE IF t \in Group THEN "record" ELSE "over"
<1>1. /\ Moves(t, a, t, proc[t].seen, e, proc[t].after)
      /\ proc[t].pc = "script"
      /\ outcome'[t] = (IF e THEN "error" ELSE "ok")
      /\ \A k \in Tasks \ {t} : outcome'[k] = outcome[k]
  BY FinishMoves
<1>2. outcome[t] = "none"
  BY <1>1 DEF TypeOK, Shape, Outcome, Settling
<1>3. t \in Group => a \in {"release", "record"}
  OBVIOUS
<1> HIDE DEF a
<1>4. \A k \in Group \ {t} : Handled(k)' <=> Handled(k)
  BY <1>1 DEF Moves, Handled, Settling
<1>5. \A k \in Group \ {t} : Pending(k)' <=> Pending(k)
  BY <1>1 DEF Moves, Pending
<1>6. t \in Group => Pending(t)' /\ proc'[t].pc \notin {"off", "over"}
  BY <1>1, <1>3 DEF Moves, Pending
<1>7. \A k \in Group \ {t} : proc'[k].pc = proc[k].pc
  BY <1>1 DEF Moves
<1>8. Counted' = Counted
  BY <1>1, <1>4, <1>6, <1>7 DEF Counted
<1>9. Recorded' = Recorded
  BY <1>1, <1>2, <1>5, <1>6 DEF Recorded, Failed
<1>10. QED
  BY <1>0, <1>8, <1>9 DEF SameErrors, SameCount, groupVars

LEMMA ReleaseCount ==
    ASSUME TypeOK, Shape, NEW p \in Procs, Release(p)
    PROVE  SameErrors /\ SameCount
<1> USE TaskAssumption, TaskIsProc, ParentIsProc
<1>0. UNCHANGED groupVars
  BY DEF Release
<1>1. /\ Moves(p, IF p \in Group THEN "record" ELSE "over", proc[p].task, proc[p].seen, proc[p].err, proc[p].after)
      /\ proc[p].pc = "release" /\ outcome' = outcome
  BY ReleaseMoves
<1>2. p \in Tasks /\ proc[p].task = p
  BY <1>1 DEF Shape, Errand
<1>3. \A k \in Group \ {p} : Handled(k)' <=> Handled(k)
  BY <1>1, <1>2 DEF Moves, Handled, Settling
<1>4. \A k \in Group : Pending(k)' <=> Pending(k)
  BY <1>1, <1>2 DEF Moves, Pending
<1>5. /\ p \in Group => proc'[p].pc \notin {"off", "over"}
      /\ \A k \in Group \ {p} : proc'[k].pc = proc[k].pc
  BY <1>1 DEF Moves
<1>6. Counted' = Counted
  BY <1>1, <1>3, <1>5 DEF Counted
<1>7. Recorded' = Recorded
  BY <1>1, <1>4 DEF Recorded, Failed
<1>8. QED
  BY <1>0, <1>6, <1>7 DEF SameErrors, SameCount, groupVars

LEMMA RecordCount ==
    ASSUME TypeOK, Shape, NEW p \in Procs, Record(p)
    PROVE  SameCount /\ (SameErrors \/ \E t \in Group : Records(t))
<1> USE TaskAssumption, TaskIsProc, ParentIsProc
<1>1. /\ Moves(p, IF proc[p].err /\ firstErr = NoTask /\ CanCancel THEN "cancel" ELSE "wgdone",
               proc[p].task, proc[p].seen, proc[p].err, "wgdone")
      /\ proc[p].pc = "record" /\ outcome' = outcome
  BY RecordMoves
<1>2. PICK t \in Group : /\ t = proc[p].task /\ t = proc'[p].task
                         /\ t = p \/ (Parent[t] = p /\ proc[t].pc = "over")
                         /\ proc[p].err <=> outcome[t] = "error"
  BY <1>1 DEF Moves, Shape, Errand, Settling
<1>3. /\ proc'[p].pc \notin {"off", "over", "load", "cas", "record", "release"}
      /\ Settling(p) /\ Settling(p)'
  BY <1>1 DEF Moves, Settling
<1>4. \A k \in Group : Handled(k)' <=> Handled(k)
  BY <1>1, <1>2, <1>3 DEF Moves, Handled, Settling
<1>5. \A k \in Group : proc'[k].pc \in {"off", "over"} <=> proc[k].pc \in {"off", "over"}
  BY <1>1, <1>3 DEF Moves
<1>6. Counted' = Counted
  BY <1>4, <1>5 DEF Counted
<1>7. Pending(t) /\ ~Pending(t)'
  <2>1. Pending(t)
    BY <1>1, <1>2 DEF Pending
  <2>2. CASE t = p
    <3>1. Parent[t] # p => ~(proc[Parent[t]].task = t /\ proc[Parent[t]].pc = "record")
      BY <1>1, <2>2 DEF Shape, Errand, Settling
    <3>2. Parent[t] # p => proc'[Parent[t]] = proc[Parent[t]]
      BY <1>1 DEF Moves
    <3>3. QED
      BY <1>3, <2>1, <2>2, <3>1, <3>2 DEF Pending
  <2>3. CASE t # p
    BY <1>1, <1>2, <1>3, <2>3 DEF Pending, Moves
  <2>4. QED
    BY <2>1, <2>2, <2>3
<1>8. \A k \in Group \ {t} : Pending(k)' <=> Pending(k)
  BY <1>1, <1>2, <1>3 DEF Moves, Pending
<1>9. SameCount
  BY <1>6 DEF SameCount, Record
<1>10. CASE proc[p].err
  <2>1. Recorded' = Recorded \cup {t} /\ t \notin Recorded
    BY <1>1, <1>2, <1>7, <1>8, <1>10 DEF Recorded, Failed
  <2>2. /\ errCount' = errCount + 1
        /\ firstErr' = IF firstErr = NoTask THEN t ELSE firstErr
    BY <1>2, <1>10 DEF Record
  <2>3. QED
    BY <1>9, <2>1, <2>2 DEF Records
<1>11. CASE ~proc[p].err
  <2>1. Recorded' = Recorded
    BY <1>1, <1>2, <1>7, <1>8, <1>11 DEF Recorded, Failed
  <2>2. errCount' = errCount /\ firstErr' = firstErr
    BY <1>11 DEF Record
  <2>3. QED
    BY <1>9, <2>1, <2>2 DEF SameErrors
<1>12. QED
  BY <1>10, <1>11

LEMMA DoneCount ==
    ASSUME TypeOK, Shape, NEW p \in Procs, WgDone(p)
    PROVE  SameErrors /\ \E t \in Group : Uncounts(t)
<1> USE TaskAssumption, TaskIsProc, ParentIsProc
<1>1. /\ proc[p].pc = "wgdone" /\ outcome' = outcome /\ wg' = wg - 1
      /\ proc'[p].pc = (IF proc[p].task = p THEN "over" ELSE "script")
      /\ proc'[p].task = NoTask
      /\ \A q \in Procs \ {p} :
           /\ proc'[q].task = proc[q].task /\ proc'[q].after = proc[q].after
           /\ \/ proc'[q].pc = proc[q].pc
              \/ proc[q].pc = "parked" /\ proc'[q].pc = "woken"
  BY DoneMoves
<1>2. PICK t \in Group : /\ t = proc[p].task
                         /\ t = p \/ (Parent[t] = p /\ proc[t].pc = "over")
  BY <1>1 DEF Shape, Errand, Settling
<1>3. \A k \in Group \ {t} : Handled(k)' <=> Handled(k)
  BY <1>1, <1>2 DEF Handled, Settling
<1>4. \A k \in Group : Pending(k)' <=> Pending(k)
  BY <1>1, <1>2 DEF Pending
<1>5. \A k \in Group \ {t} : proc'[k].pc \in {"off", "over"} <=> proc[k].pc \in {"off", "over"}
  BY <1>1, <1>2
<1>6. t \in Counted
  BY <1>1, <1>2 DEF Counted, Handled, Settling
<1>7. t \notin Counted'
  <2>1. proc'[t].pc = "over"
    BY <1>1, <1>2
  <2>2. ~Handled(t)'
    <3>1. CASE Parent[t] = p
      BY <1>1, <1>2, <3>1 DEF Handled
    <3>2. CASE Parent[t] # p
      <4>1. t = p
        BY <1>2, <3>2
      <4>2. Errand(Parent[t])
        BY DEF Shape
      <4>3. ~Handled(t)
        BY <1>1, <3>2, <4>1, <4>2 DEF Errand, Handled
      <4>4. QED
        BY <1>1, <3>2, <4>3 DEF Handled, Settling
    <3>3. QED
      BY <3>1, <3>2
  <2>3. QED
    BY <2>1, <2>2 DEF Counted
<1>8. Counted' = Counted \ {t}
  BY <1>3, <1>5, <1>7 DEF Counted
<1>9. Recorded' = Recorded
  BY <1>1, <1>4 DEF Recorded, Failed
<1>10. errCount' = errCount /\ firstErr' = firstErr
  BY DEF WgDone
<1>11. QED
  BY <1>1, <1>6, <1>8, <1>9, <1>10 DEF SameErrors, Uncounts

LEMMA CancelCount ==
    ASSUME TypeOK, Shape, NEW p \in Procs, CallCancel(p)
    PROVE  SameErrors /\ SameCount
<1>1. /\ Moves(p, "cancel", proc[p].task, proc[p].seen, proc[p].err, "script")
      /\ proc[p].pc = "script" /\ outcome' = outcome
  BY CancelMoves
<1>2. UNCHANGED groupVars
  BY DEF CallCancel
<1>3. ~Settling(p) /\ ~Settling(p)'
  BY <1>1 DEF Moves, Settling
<1>4. QED
  BY <1>1, <1>2, <1>3, Alike

LEMMA TimerCount ==
    ASSUME TypeOK, Shape, TimerFires
    PROVE  SameErrors /\ SameCount
<1>1. /\ Moves(Timer, "cancel", proc[Timer].task, proc[Timer].seen, proc[Timer].err, "over")
      /\ proc[Timer].pc = "armed" /\ outcome' = outcome
  BY TimerMoves
<1>2. UNCHANGED groupVars
  BY DEF TimerFires
<1>3. Timer \in Procs /\ Timer \notin Group
  BY TaskAssumption, TaskIsProc DEF Group
<1>4. QED
  BY <1>1, <1>2, <1>3, Alike

LEMMA OnceCount ==
    ASSUME TypeOK, Shape, NEW p \in Procs, CancelOnce(p)
    PROVE  SameErrors /\ SameCount
<1> DEFINE a == IF once = "new" THEN "close" ELSE proc[p].after
<1>1. /\ Moves(p, a, proc[p].task, proc[p].seen, proc[p].err, proc[p].after)
      /\ proc[p].pc = "cancel" /\ outcome' = outcome
  BY OnceMoves
<1>2. UNCHANGED groupVars
  BY DEF CancelOnce
<1>3. /\ proc[p].after \in {"script", "wgdone", "over"}
      /\ p # Timer => proc[p].after # "over"
  BY <1>1, proc[p] \in Proc DEF TypeOK, Proc, Shape, Place
<1>4. Timer \notin Group
  BY TaskAssumption DEF Group
<1>5. p # Timer => a \in {"close", "script", "wgdone"} /\ (Settling(p)' <=> Settling(p))
  BY <1>1, <1>3 DEF Moves, Settling
<1> HIDE DEF a
<1>6. QED
  BY <1>1, <1>2, <1>4, <1>5, Alike

LEMMA CloseCount ==
    ASSUME TypeOK, Shape, NEW p \in Procs, CloseDone(p)
    PROVE  SameErrors /\ SameCount
<1> DEFINE a == proc[p].after
<1>1. /\ Moves(p, a, proc[p].task, proc[p].seen, proc[p].err, proc[p].after)
      /\ proc[p].pc = "close" /\ outcome' = outcome
  BY CloseMoves
<1>2. UNCHANGED groupVars
  BY DEF CloseDone
<1>3. /\ proc[p].after \in {"script", "wgdone", "over"}
      /\ p # Timer => proc[p].after # "over"
  BY <1>1, proc[p] \in Proc DEF TypeOK, Proc, Shape, Place
<1>4. Timer \notin Group
  BY TaskAssumption DEF Group
<1>5. p # Timer => a \in {"script", "wgdone"} /\ (Settling(p)' <=> Settling(p))
  BY <1>1, <1>3 DEF Moves, Settling
<1> HIDE DEF a
<1>6. QED
  BY <1>1, <1>2, <1>4, <1>5, Alike

LEMMA WaitCount ==
    ASSUME TypeOK, Shape, NEW p \in Procs,
           (p = Main /\ Wait(p)) \/ Wake(p) \/ ReadError(p) \/ ReadCount(p)
    PROVE  SameErrors /\ SameCount
<1>1. p = Main
  BY DEF Shape, Place, Wait, Wake, ReadError, ReadCount, Procs
<1>2. PICK a \in {"script", "parked", "read", "count", "over"} :
        Moves(p, a, proc[p].task, proc[p].seen, proc[p].err, proc[p].after)
  BY WaitMoves
<1>3. proc[p].pc \in {"script", "woken", "read", "count"} /\ outcome' = outcome
  BY WaitMoves
<1>4. UNCHANGED groupVars
  BY DEF Wait, Wake, ReadError, ReadCount
<1>5. p \notin Group
  BY <1>1, TaskAssumption DEF Group
<1>6. ~Settling(p) /\ ~Settling(p)'
  BY <1>2, <1>3 DEF Moves, Settling
<1>7. QED
  BY <1>2, <1>3, <1>4, <1>5, <1>6, Alike

(* A step starts to count at most one task, whose parent is running, or stops
   counting one; and it records at most one failure. *)
LEMMA CountStep ==
    ASSUME TypeOK, Shape, [Next]_vars
    PROVE  /\ SameErrors \/ \E t \in Group : Records(t)
           /\ \/ SameCount
              \/ \E t \in Group : Counts(t) /\ proc[Parent[t]].pc = "script"
              \/ \E t \in Group : Uncounts(t)
<1> DEFINE Goal == /\ SameErrors \/ \E t \in Group : Records(t)
                   /\ \/ SameCount
                      \/ \E t \in Group : Counts(t) /\ proc[Parent[t]].pc = "script"
                      \/ \E t \in Group : Uncounts(t)
<1>1. ASSUME NEW p \in Procs, NEW t \in Tasks, StartTask(p, t) PROVE Goal
  <2>1. proc[Parent[t]].pc = "script"
    BY <1>1 DEF StartTask
  <2>2. QED
    BY <1>1, <2>1, StartCount
<1>2. ASSUME NEW p \in Procs, Internal(p) PROVE Goal
  BY <1>2, LoadCount, CasCount, ReleaseCount, RecordCount, DoneCount, OnceCount, CloseCount,
     WaitCount DEF Internal
<1>3. ASSUME NEW t \in Tasks, NEW e \in BOOLEAN, Finish(t, e) PROVE Goal
  BY <1>3, FinishCount
<1>4. ASSUME NEW p \in Procs, CallCancel(p) PROVE Goal
  BY <1>4, CancelCount
<1>5. ASSUME TimerFires PROVE Goal
  BY <1>5, TimerCount
<1>6. ASSUME Wait(Main) PROVE Goal
  BY <1>6, WaitCount, TaskIsProc
<1>7. ASSUME UNCHANGED vars PROVE Goal
  <2>1. UNCHANGED <<proc, outcome, wg, errCount, firstErr>>
    BY <1>7 DEF vars, groupVars
  <2>2. Counted' = Counted
    BY <2>1 DEF Counted, Handled, Settling
  <2>3. Recorded' = Recorded
    BY <2>1 DEF Recorded, Failed, Pending
  <2>4. QED
    BY <2>1, <2>2, <2>3 DEF SameCount, SameErrors
<1> HIDE DEF Goal
<1>8. Goal
  BY <1>1, <1>2, <1>3, <1>4, <1>5, <1>6, <1>7 DEF Next
<1>9. QED
  BY <1>8 DEF Goal

(* Both counters count exactly what they stand for. *)
CountExact == wg = Cardinality(Counted)
ErrorsExact ==
    /\ errCount = Cardinality(Recorded)
    /\ (firstErr = NoTask /\ Recorded = {}) \/ firstErr \in Recorded

LEMMA ExactStep ==
    ASSUME TypeOK, Shape, CountExact, ErrorsExact, [Next]_vars
    PROVE  CountExact' /\ ErrorsExact'
<1>0. /\ Counted \in SUBSET Tasks /\ Recorded \in SUBSET Tasks /\ Group \subseteq Tasks
      /\ NoTask \notin Recorded
  BY TaskAssumption DEF Counted, Recorded, Failed, Group
<1>1. CountExact'
  <2>1. SameCount => CountExact'
    BY DEF SameCount, CountExact
  <2>2. ASSUME NEW t \in Group, Counts(t) PROVE CountExact'
    BY <1>0, <2>2, OneMore DEF Counts, CountExact
  <2>3. ASSUME NEW t \in Group, Uncounts(t) PROVE CountExact'
    BY <1>0, <2>3, OneLess DEF Uncounts, CountExact
  <2>4. QED
    BY <2>1, <2>2, <2>3, CountStep
<1>2. ErrorsExact'
  <2>1. SameErrors => ErrorsExact'
    BY DEF SameErrors, ErrorsExact
  <2>2. ASSUME NEW t \in Group, Records(t) PROVE ErrorsExact'
    <3>1. errCount' = Cardinality(Recorded')
      BY <1>0, <2>2, OneMore DEF Records, ErrorsExact
    <3>2. firstErr' \in Recorded'
      BY <1>0, <2>2 DEF Records, ErrorsExact
    <3>3. QED
      BY <3>1, <3>2 DEF ErrorsExact
  <2>3. QED
    BY <2>1, <2>2, CountStep
<1>3. QED
  BY <1>1, <1>2

(* The invariant that every theorem below starts from. *)
Inv == TypeOK /\ Shape /\ BudgetExact /\ CountExact /\ ErrorsExact

LEMMA InitInv == Init => Inv
<1> SUFFICES ASSUME Init PROVE Inv
  OBVIOUS
<1>1. Types /\ Shape
  BY InitShape
<1>2. TypeOK
  BY <1>1, TypesOf DEF Init
<1>3. \A p \in Procs : proc[p].pc \in {"script", "armed", "off"}
  BY DEF Init, At
<1>4. \A t \in Tasks : proc[t].pc = "off" /\ outcome[t] = "none"
  BY TaskAssumption, TaskIsProc DEF Init, At
<1>5. Holding = {} /\ Recorded = {} /\ Counted = {}
  <2>1. Holding = {}
    BY <1>4 DEF Holding
  <2>2. Recorded = {}
    BY <1>4 DEF Recorded, Failed, Group
  <2>3. Counted = {}
    BY <1>3, <1>4, ParentIsProc DEF Counted, Handled, Settling
  <2>4. QED
    BY <2>1, <2>2, <2>3
<1>6. QED
  BY <1>1, <1>2, <1>5, FS_EmptySet DEF Inv, BudgetExact, CountExact, ErrorsExact, Init

LEMMA NextInv ==
    ASSUME Inv, [Next]_vars
    PROVE  Inv'
<1>1. Types' /\ Shape'
  BY StepShape DEF Inv
<1>2. BudgetExact'
  BY BudgetStep DEF Inv
<1>3. CountExact' /\ ErrorsExact'
  BY ExactStep DEF Inv
<1>4. active' \in Nat /\ wg' \in Nat
  <2>1. Holding' \in SUBSET Tasks /\ Counted' \in SUBSET Tasks
    BY DEF Holding, Counted, Group
  <2>2. QED
    BY <1>2, <1>3, <2>1, CountType DEF BudgetExact, CountExact
<1>5. TypeOK'
  BY <1>1, <1>4 DEF TypeOK, Types
<1>6. QED
  BY <1>1, <1>2, <1>3, <1>5 DEF Inv

LEMMA InvHolds == Spec => []Inv
  BY InitInv, NextInv, PTL DEF Spec

(* The state is well formed; the budget and the wait group never go below
   zero, whatever the tasks do: releaseGoroutineBudget and wg.Done are called
   as often as the reservations and wg.Add that they undo. *)
THEOREM TypeCorrect == Spec => []TypeOK
<1>1. Inv => TypeOK
  BY DEF Inv
<1>2. QED
  BY <1>1, InvHolds, PTL

(* activeGoroutines is the number of tasks that hold a place of the budget,
   for any number of goroutines that load, compare and swap at once. *)
THEOREM BudgetIsExact == Spec => []BudgetExact
<1>1. Inv => BudgetExact
  BY DEF Inv
<1>2. QED
  BY <1>1, InvHolds, PTL

-----------------------------------------------------------------------------
(* The limit. *)
LEMMA WithinMax ==
    ASSUME Inv, Max > 0 => active <= Max, [Next]_vars
    PROVE  (Max > 0 => active <= Max)'
<1> USE TaskAssumption
<1>0. active \in Nat /\ TypeOK /\ Shape
  BY DEF Inv, TypeOK
<1>1. ASSUME NEW p \in Procs, CasActive(p), active = proc[p].seen PROVE active' <= Max
  <2>1. proc[p].seen < Max /\ active' = active + 1
    BY <1>0, <1>1, CasMoves
  <2>2. QED
    BY <1>0, <1>1, <2>1
<1>2. \/ active' \in {active, active - 1}
      \/ \E p \in Procs : CasActive(p) /\ active = proc[p].seen
  BY DEF Next, Internal, StartTask, LoadActive, CasActive, Finish, Release, Record, WgDone,
         CallCancel, TimerFires, CancelOnce, CloseDone, Wait, Wake, ReadError, ReadCount, vars
<1>3. QED
  BY <1>0, <1>1, <1>2

(* The interpreter reserves a place for every task, and then no more tasks
   than the limit run at once.  The bytecode engine reserves none for a task
   of a group: the run "limit" shows the limit exceeded there. *)
THEOREM LimitHolds ==
    ASSUME Engine = "tree"
    PROVE  Spec => []GoroutineLimit
<1> DEFINE Within == Max > 0 => active <= Max
<1>1. Init => Within
  BY TaskAssumption DEF Init
<1>2. Inv /\ Within /\ [Next]_vars => Within'
  BY WithinMax
<1>3. Inv /\ Within => GoroutineLimit
  <2> SUFFICES ASSUME Inv, Within, Max > 0 PROVE Cardinality(InFlight) <= Max
    BY DEF GoroutineLimit
  <2>1. InFlight \subseteq Holding /\ Holding \in SUBSET Tasks
    BY DEF InFlight, Holding, Reserves
  <2>2. IsFiniteSet(Holding)
    BY <2>1, TaskAssumption, FS_Subset
  <2>3. Cardinality(InFlight) <= Cardinality(Holding)
    BY <2>1, <2>2, FS_Subset
  <2>4. /\ Cardinality(Holding) \in Nat /\ Cardinality(InFlight) \in Nat
        /\ Cardinality(Holding) = active /\ Max \in Nat
    <3>1. InFlight \in SUBSET Tasks
      BY DEF InFlight
    <3>2. QED
      BY <2>1, <3>1, CountType, TaskAssumption DEF Inv, BudgetExact
  <2>5. QED
    BY <2>3, <2>4
<1> HIDE DEF Within
<1>4. QED
  BY <1>1, <1>2, <1>3, InvHolds, PTL DEF Spec

-----------------------------------------------------------------------------
(* The context. *)

(* once, the reason and the channel agree. *)
ContextExact ==
    /\ once = "new" <=> reason = "none"
    /\ once = "done" <=> done
    /\ \A p \in Procs : proc[p].pc = "close" => once # "new"

(* A step that leaves the context alone, and the goroutines that cancel it. *)
ContextQuiet ==
    /\ UNCHANGED ctxVars
    /\ \A p \in Procs : /\ proc'[p].pc = "close" => proc[p].pc = "close"
                        /\ proc[p].pc \in {"cancel", "close"} =>
                             proc'[p].pc = proc[p].pc /\ proc'[p].after = proc[p].after

(* A step that nobody who returns from wg.Wait takes. *)
WaitQuiet ==
    /\ UNCHANGED <<report, panicked>>
    /\ \A p \in Procs : proc'[p].pc \in {"woken", "read", "count"} => proc[p].pc = proc'[p].pc

LEMMA Frame ==
    ASSUME Inv, [Next]_vars
    PROVE  \/ ContextQuiet /\ WaitQuiet
           \/ ContextQuiet /\ \/ \E p \in Procs : WgDone(p) \/ Wake(p) \/ ReadError(p) \/ ReadCount(p)
                              \/ Wait(Main)
           \/ WaitQuiet /\ \E p \in Procs : CancelOnce(p) \/ CloseDone(p)
<1> USE TaskIsProc
<1> DEFINE Same == ContextQuiet /\ WaitQuiet
<1>0. TypeOK /\ Shape
  BY DEF Inv
<1>1. ASSUME NEW p \in Procs, NEW t \in Tasks, StartTask(p, t) PROVE Same
  <2>0. UNCHANGED <<ctxVars, report, panicked>> /\ proc[p].pc = "script" /\ proc[t].pc = "off"
    BY <1>1 DEF StartTask, waitVars
  <2>1. CASE Reserves(t)
    <3>1. Moves(p, "load", t, proc[p].seen, proc[p].err, proc[p].after)
      BY <1>0, <1>1, <2>1, TaskMoves DEF StartTask, Pcs, TypeOK
    <3>2. QED
      BY <2>0, <3>1 DEF Moves, ContextQuiet, WaitQuiet
  <2>2. CASE ~Reserves(t)
    <3>1. Moves(t, "script", proc[t].task, proc[t].seen, proc[t].err, proc[t].after)
      BY <1>0, <1>1, <2>2, GotoMoves DEF StartTask, Pcs, TypeOK
    <3>2. QED
      BY <2>0, <3>1 DEF Moves, ContextQuiet, WaitQuiet
  <2>3. QED
    BY <2>1, <2>2
<1>2. ASSUME NEW p \in Procs, LoadActive(p) PROVE Same
  <2>0. UNCHANGED <<ctxVars, report, panicked>> /\ proc[p].pc = "load"
    BY <1>2 DEF LoadActive, waitVars
  <2>1. CASE active < Max
    <3>1. Moves(p, "cas", proc[p].task, active, proc[p].err, proc[p].after)
      BY <1>0, <1>2, <2>1, SeenMoves DEF LoadActive, Pcs, TypeOK
    <3>2. QED
      BY <2>0, <3>1 DEF Moves, ContextQuiet, WaitQuiet
  <2>2. CASE ~(active < Max)
    <3> DEFINE t == proc[p].task
    <3>1. /\ t \in Tasks /\ proc[t].pc = "off"
          /\ Pushes(p, IF t \in Group THEN "record" ELSE "script", TRUE, t, "over")
      BY <1>0, <1>2, <2>2, LoadMoves
    <3> HIDE DEF t
    <3>2. QED
      BY <2>0, <3>1 DEF Pushes, ContextQuiet, WaitQuiet
  <2>3. QED
    BY <2>1, <2>2
<1>3. ASSUME NEW p \in Procs, CasActive(p) PROVE Same
  <2>0. UNCHANGED <<ctxVars, report, panicked>> /\ proc[p].pc = "cas"
    BY <1>3 DEF CasActive, waitVars
  <2>1. CASE active = proc[p].seen
    <3> DEFINE t == proc[p].task
    <3>1. t \in Tasks /\ proc[t].pc = "off" /\ Pushes(p, "script", proc[p].err, t, "script")
      BY <1>0, <1>3, <2>1, CasMoves
    <3> HIDE DEF t
    <3>2. QED
      BY <2>0, <3>1 DEF Pushes, ContextQuiet, WaitQuiet
  <2>2. CASE active # proc[p].seen
    <3>1. Moves(p, "load", proc[p].task, proc[p].seen, proc[p].err, proc[p].after)
      BY <1>0, <1>3, <2>2, GotoMoves DEF CasActive, Goto, Pcs, TypeOK
    <3>2. QED
      BY <2>0, <3>1 DEF Moves, ContextQuiet, WaitQuiet
  <2>3. QED
    BY <2>1, <2>2
<1>4. ASSUME NEW t \in Tasks, NEW e \in BOOLEAN, Finish(t, e) PROVE Same
  <2>1. /\ Moves(t, IF Reserves(t) THEN "release" ELSE IF t \in Group THEN "record" ELSE "over",
                 t, proc[t].seen, e, proc[t].after)
        /\ proc[t].pc = "script"
    BY <1>0, <1>4, FinishMoves
  <2>2. UNCHANGED <<ctxVars, report, panicked>>
    BY <1>4 DEF Finish, waitVars
  <2>3. QED
    BY <2>1, <2>2 DEF Moves, ContextQuiet, WaitQuiet
<1>5. ASSUME NEW p \in Procs, Release(p) PROVE Same
  <2>1. /\ Moves(p, IF p \in Group THEN "record" ELSE "over", proc[p].task, proc[p].seen,
                 proc[p].err, proc[p].after)
        /\ proc[p].pc = "release"
    BY <1>0, <1>5, ReleaseMoves
  <2>2. UNCHANGED <<ctxVars, report, panicked>>
    BY <1>5 DEF Release, waitVars
  <2>3. QED
    BY <2>1, <2>2 DEF Moves, ContextQuiet, WaitQuiet
<1>6. ASSUME NEW p \in Procs, Record(p) PROVE Same
  <2>1. /\ Moves(p, IF proc[p].err /\ firstErr = NoTask /\ CanCancel THEN "cancel" ELSE "wgdone",
                 proc[p].task, proc[p].seen, proc[p].err, "wgdone")
        /\ proc[p].pc = "record"
    BY <1>0, <1>6, RecordMoves
  <2>2. UNCHANGED <<ctxVars, report, panicked>>
    BY <1>6 DEF Record, waitVars
  <2>3. QED
    BY <2>1, <2>2 DEF Moves, ContextQuiet, WaitQuiet
<1>7. ASSUME NEW p \in Procs, WgDone(p) PROVE ContextQuiet
  <2>1. /\ proc[p].pc = "wgdone"
        /\ proc'[p].pc = (IF proc[p].task = p THEN "over" ELSE "script")
        /\ \A q \in Procs \ {p} : /\ proc'[q].after = proc[q].after
                                  /\ \/ proc'[q].pc = proc[q].pc
                                     \/ proc[q].pc = "parked" /\ proc'[q].pc = "woken"
    BY <1>0, <1>7, DoneMoves
  <2>2. UNCHANGED ctxVars
    BY <1>7 DEF WgDone
  <2>3. QED
    BY <2>1, <2>2 DEF ContextQuiet
<1>8. ASSUME NEW p \in Procs, CallCancel(p) PROVE Same
  <2>1. /\ Moves(p, "cancel", proc[p].task, proc[p].seen, proc[p].err, "script")
        /\ proc[p].pc = "script"
    BY <1>0, <1>8, CancelMoves
  <2>2. UNCHANGED <<ctxVars, report, panicked>>
    BY <1>8 DEF CallCancel, waitVars
  <2>3. QED
    BY <2>1, <2>2 DEF Moves, ContextQuiet, WaitQuiet
<1>9. ASSUME TimerFires PROVE Same
  <2>1. /\ Moves(Timer, "cancel", proc[Timer].task, proc[Timer].seen, proc[Timer].err, "over")
        /\ proc[Timer].pc = "armed"
    BY <1>0, <1>9, TimerMoves
  <2>2. UNCHANGED <<ctxVars, report, panicked>>
    BY <1>9 DEF TimerFires, waitVars
  <2>3. QED
    BY <2>1, <2>2 DEF Moves, ContextQuiet, WaitQuiet
<1>10. ASSUME NEW p \in Procs, Wait(p) \/ Wake(p) \/ ReadError(p) \/ ReadCount(p)
       PROVE  ContextQuiet
  <2>1. PICK a \in {"script", "parked", "read", "count", "over"} :
          Moves(p, a, proc[p].task, proc[p].seen, proc[p].err, proc[p].after)
    BY <1>0, <1>10, WaitMoves
  <2>2. UNCHANGED ctxVars
    BY <1>10 DEF Wait, Wake, ReadError, ReadCount
  <2>3. proc[p].pc \in {"script", "woken", "read", "count"}
    BY <1>0, <1>10, WaitMoves
  <2>4. QED
    BY <2>1, <2>2, <2>3 DEF Moves, ContextQuiet
<1>11. ASSUME NEW p \in Procs, CancelOnce(p) \/ CloseDone(p) PROVE WaitQuiet
  <2>1. proc[p].after \in {"script", "wgdone", "over"}
    BY <1>0, proc[p] \in Proc DEF TypeOK, Proc
  <2>2. PICK a \in {"close", proc[p].after} :
          Moves(p, a, proc[p].task, proc[p].seen, proc[p].err, proc[p].after)
    BY <1>0, <1>11, OnceMoves, CloseMoves
  <2>3. UNCHANGED <<report, panicked>>
    BY <1>11 DEF CancelOnce, CloseDone, waitVars
  <2>4. QED
    BY <2>1, <2>2, <2>3 DEF Moves, WaitQuiet
<1>12. UNCHANGED vars => Same
  BY DEF vars, waitVars, ContextQuiet, WaitQuiet
<1> HIDE DEF Same
<1>13. \/ Same
       \/ ContextQuiet /\ \/ \E p \in Procs : WgDone(p) \/ Wake(p) \/ ReadError(p) \/ ReadCount(p)
                          \/ Wait(Main)
       \/ WaitQuiet /\ \E p \in Procs : CancelOnce(p) \/ CloseDone(p)
  BY <1>1, <1>2, <1>3, <1>4, <1>5, <1>6, <1>7, <1>8, <1>9, <1>10, <1>11, <1>12 DEF Next, Internal
<1>14. QED
  BY <1>13 DEF Same

LEMMA ContextStep ==
    ASSUME Inv, ContextExact, [Next]_vars
    PROVE  ContextExact' /\ (reason # "none" => reason' = reason)
<1>0. TypeOK /\ Shape
  BY DEF Inv
<1>1. CASE ContextQuiet
  <2>1. once' = once /\ reason' = reason /\ done' = done
    BY <1>1 DEF ContextQuiet, ctxVars
  <2>2. \A p \in Procs : proc'[p].pc = "close" => proc[p].pc = "close"
    BY <1>1 DEF ContextQuiet
  <2>3. QED
    BY <2>1, <2>2 DEF ContextExact
<1>2. ASSUME NEW p \in Procs, CancelOnce(p)
      PROVE  ContextExact' /\ (reason # "none" => reason' = reason)
  <2>1. Moves(p, IF once = "new" THEN "close" ELSE proc[p].after, proc[p].task, proc[p].seen,
              proc[p].err, proc[p].after)
    BY <1>0, <1>2, OnceMoves
  <2>2. proc[p].after # "close"
    BY <1>0, proc[p] \in Proc DEF TypeOK, Proc
  <2>3. CASE once = "new"
    <3>1. once' = "busy" /\ reason' = Why(p) /\ done' = done
      BY <1>2, <2>3 DEF CancelOnce
    <3>2. QED
      BY <2>3, <3>1 DEF ContextExact, Why
  <2>4. CASE once # "new"
    <3>1. once' = once /\ reason' = reason /\ done' = done
      BY <1>2, <2>4 DEF CancelOnce
    <3>2. \A q \in Procs : proc'[q].pc = "close" => proc[q].pc = "close"
      BY <2>1, <2>2, <2>4 DEF Moves
    <3>3. QED
      BY <3>1, <3>2 DEF ContextExact
  <2>5. QED
    BY <2>3, <2>4
<1>3. ASSUME NEW p \in Procs, CloseDone(p)
      PROVE  ContextExact' /\ (reason # "none" => reason' = reason)
  <2>1. proc[p].pc = "close" /\ done' = TRUE /\ once' = "done" /\ reason' = reason
    BY <1>3 DEF CloseDone
  <2>2. QED
    BY <2>1 DEF ContextExact
<1>4. QED
  BY <1>1, <1>2, <1>3, Frame

LEMMA InitContext == Init => ContextExact
  BY DEF Init, At, ContextExact

LEMMA ContextHolds == Spec => []ContextExact
  BY InitContext, ContextStep, InvHolds, PTL DEF Spec

(* A task that the closed channel wakes finds the reason, whoever cancels and
   however many do: Cancel sets it before it closes the channel. *)
THEOREM DoneReason == Spec => []DoneHasReason
<1>1. ContextExact => DoneHasReason
  BY DEF ContextExact, DoneHasReason
<1>2. QED
  BY <1>1, ContextHolds, PTL

(* The reason that a task found stays: once.Do lets one caller set it. *)
THEOREM ReasonFinal == Spec => ReasonIsFinal
<1>1. Inv /\ ContextExact /\ [Next]_vars => [reason # "none" => reason' = reason]_vars
  BY ContextStep
<1>2. QED
  BY <1>1, InvHolds, ContextHolds, PTL DEF Spec, ReasonIsFinal

-----------------------------------------------------------------------------
(* The failure of a task and group.wait. *)

(* Once a failure is recorded the context is cancelled, or the goroutine that
   recorded it is about to cancel it, before its wg.Done. *)
Cancelling ==
    CanCancel /\ firstErr # NoTask =>
      \/ once = "done"
      \/ \E p \in Procs : proc[p].pc \in {"cancel", "close"} /\ proc[p].after = "wgdone"

LEMMA CancellingStep ==
    ASSUME Inv, Cancelling, [Next]_vars
    PROVE  Cancelling'
<1> SUFFICES ASSUME CanCancel, firstErr' # NoTask
             PROVE  \/ once' = "done"
                    \/ \E p \in Procs : proc'[p].pc \in {"cancel", "close"} /\ proc'[p].after = "wgdone"
  BY DEF Cancelling
<1>0. TypeOK /\ Shape
  BY DEF Inv
<1>1. CASE firstErr = NoTask
  <2>1. PICK p \in Procs : Record(p)
    BY <1>1 DEF Next, Internal, StartTask, LoadActive, CasActive, Finish, Release, WgDone,
            CallCancel, TimerFires, CancelOnce, CloseDone, Wait, Wake, ReadError, ReadCount,
            vars, groupVars
  <2>2. proc[p].err
    BY <1>1, <2>1 DEF Record
  <2>3. Moves(p, "cancel", proc[p].task, proc[p].seen, proc[p].err, "wgdone")
    BY <1>0, <1>1, <2>1, <2>2, RecordMoves
  <2>4. QED
    BY <2>3 DEF Moves
<1>2. CASE firstErr # NoTask
  <2>1. CASE ContextQuiet
    <3>1. once' = once
      BY <2>1 DEF ContextQuiet, ctxVars
    <3>2. \A p \in Procs : proc[p].pc \in {"cancel", "close"} =>
                            proc'[p].pc = proc[p].pc /\ proc'[p].after = proc[p].after
      BY <2>1 DEF ContextQuiet
    <3>3. QED
      BY <1>2, <3>1, <3>2 DEF Cancelling
  <2>2. ASSUME NEW q \in Procs, CancelOnce(q)
        PROVE  \/ once' = "done"
               \/ \E p \in Procs : proc'[p].pc \in {"cancel", "close"} /\ proc'[p].after = "wgdone"
    <3>1. CASE once = "new"
      <4>1. Moves(q, "close", proc[q].task, proc[q].seen, proc[q].err, proc[q].after)
        BY <1>0, <2>2, <3>1, OnceMoves
      <4>2. PICK p \in Procs : proc[p].pc \in {"cancel", "close"} /\ proc[p].after = "wgdone"
        BY <1>2, <3>1 DEF Cancelling
      <4>3. QED
        BY <4>1, <4>2 DEF Moves
    <3>2. CASE once # "new"
      BY <1>0, <2>2, <3>2 DEF CancelOnce, TypeOK
    <3>3. QED
      BY <3>1, <3>2
  <2>3. ASSUME NEW q \in Procs, CloseDone(q) PROVE once' = "done"
    BY <2>3 DEF CloseDone
  <2>4. QED
    BY <2>1, <2>2, <2>3, Frame
<1>3. QED
  BY <1>1, <1>2

LEMMA CancellingHolds == Spec => []Cancelling
<1>1. Init => Cancelling
  BY DEF Init, Cancelling
<1>2. QED
  BY <1>1, CancellingStep, InvHolds, PTL DEF Spec

(* Only Main and the tasks of the group start tasks of the group. *)
OwnStarts == \A t \in Group : Parent[t] \in Group \cup {Main}

(* Between its return from wg.Wait and its report Main finds the group idle. *)
Returning == proc[Main].pc \in {"woken", "read", "count"}
Idle ==
    /\ Returning => Counted = {}
    /\ proc[Main].pc = "count" => firstErr # NoTask
    /\ CanCancel /\ ~report.ok => done
    /\ ~panicked

(* An idle group has settled: every failure is recorded, and cancelled. *)
LEMMA Settled ==
    ASSUME Inv, Cancelling, ContextExact, Counted = {}
    PROVE  /\ Recorded = Failed
           /\ \A t \in Group : proc[t].pc \in {"off", "over"}
           /\ CanCancel /\ firstErr # NoTask => done
<1> USE ParentIsProc, TaskIsProc
<1>0. Shape
  BY DEF Inv
<1>1. \A t \in Group : ~Pending(t)
  BY DEF Counted, Pending, Handled, Settling
<1>2. Recorded = Failed
  BY <1>1 DEF Recorded, Failed
<1>3. \A t \in Group : proc[t].pc \in {"off", "over"}
  BY DEF Counted
<1>4. ASSUME NEW p \in Procs, proc[p].pc \in {"cancel", "close"}, proc[p].after = "wgdone"
      PROVE  FALSE
  <2>1. PICK t \in Group : /\ t = proc[p].task
                           /\ t = p \/ Parent[t] = p
    BY <1>0, <1>4 DEF Shape, Errand, Settling
  <2>2. t \in Counted
    BY <1>4, <2>1 DEF Counted, Handled, Settling
  <2>3. QED
    BY <2>2
<1>5. CanCancel /\ firstErr # NoTask => done
  BY <1>4 DEF Cancelling, ContextExact
<1>6. QED
  BY <1>2, <1>3, <1>5

LEMMA StaysIdle ==
    ASSUME OwnStarts, Inv, Counted = {}, Returning, [Next]_vars
    PROVE  Counted' = {}
<1>1. ASSUME NEW t \in Group, Counts(t), proc[Parent[t]].pc = "script" PROVE FALSE
  <2>1. Parent[t] # Main
    BY <1>1 DEF Returning
  <2>2. Parent[t] \in Group
    BY <2>1 DEF OwnStarts
  <2>3. Parent[t] \in Counted
    BY <1>1, <2>2 DEF Counted
  <2>4. QED
    BY <2>3
<1>2. QED
  BY <1>1, CountStep DEF Inv, SameCount, Uncounts

(* The steps of group.wait. *)
LEMMA IdleStep ==
    ASSUME OwnStarts, Inv, Cancelling, ContextExact, Idle, [Next]_vars
    PROVE  Idle'
<1> USE TaskIsProc
<1>0. TypeOK /\ Shape /\ Counted \in SUBSET Tasks
  BY DEF Inv, Counted, Group
<1>1. firstErr # NoTask => firstErr' # NoTask
  BY CountStep DEF Inv, SameErrors, Records
<1>2. done => done'
  BY <1>0 DEF Next, Internal, StartTask, LoadActive, CasActive, Finish, Release, Record, WgDone,
         CallCancel, TimerFires, CancelOnce, CloseDone, Wait, Wake, ReadError, ReadCount,
         vars, ctxVars
<1>3. CASE WaitQuiet
  <2>1. /\ Returning' => Returning
        /\ proc'[Main].pc = "count" => proc[Main].pc = "count"
    BY <1>3 DEF WaitQuiet, Returning
  <2>2. Returning' => Counted' = {}
    BY <2>1, StaysIdle DEF Idle
  <2>3. report' = report /\ panicked' = panicked
    BY <1>3 DEF WaitQuiet
  <2>4. QED
    BY <1>1, <1>2, <2>1, <2>2, <2>3 DEF Idle
<1>4. ASSUME NEW p \in Procs, WgDone(p) PROVE Idle'
  <2>1. /\ proc'[p].pc \in {"over", "script"} /\ wg' = wg - 1
        /\ \A q \in Procs \ {p} : \/ proc'[q].pc = proc[q].pc
                                  \/ proc[q].pc = "parked" /\ proc'[q].pc = "woken" /\ wg = 1
    BY <1>0, <1>4, DoneMoves
  <2>2. Returning' => Counted' = {}
    <3>1. CASE Returning
      BY <3>1, StaysIdle DEF Idle
    <3>2. CASE Returning' /\ ~Returning
      <4>1. wg' = 0
        BY <2>1, <3>2 DEF Returning
      <4>2. CountExact' /\ Counted' \in SUBSET Tasks
        BY NextInv DEF Inv, Counted, Group
      <4>3. QED
        BY <4>1, <4>2, CountType DEF CountExact
    <3>3. QED
      BY <3>1, <3>2
  <2>3. proc'[Main].pc = "count" => proc[Main].pc = "count"
    BY <2>1
  <2>4. report' = report /\ panicked' = (panicked \/ wg <= 0)
    BY <1>4 DEF WgDone, waitVars
  <2>5. ~(wg <= 0)
    <3>1. PICK t \in Group : Uncounts(t)
      BY <1>0, <1>4, DoneCount
    <3>2. t \in Counted
      BY <3>1 DEF Uncounts
    <3>3. QED
      BY <1>0, <3>2, CountType DEF Inv, CountExact
  <2>6. ~panicked'
    <3>1. ~panicked
      BY DEF Idle
    <3>2. QED
      BY <2>4, <2>5, <3>1, Zenon
  <2>7. QED
    BY <1>1, <1>2, <2>2, <2>3, <2>4, <2>6 DEF Idle
<1>5. ASSUME Wait(Main) PROVE Idle'
  <2>1. Moves(Main, IF wg = 0 THEN "read" ELSE "parked", proc[Main].task, proc[Main].seen,
              proc[Main].err, proc[Main].after)
    BY <1>0, <1>5, GotoMoves DEF Wait, Goto, TypeOK, Pcs
  <2>2. wg = 0 => Counted' = {}
    <3>1. SameCount
      BY <1>0, <1>5, WaitCount
    <3>2. QED
      BY <1>0, <3>1, CountType DEF SameCount, Inv, CountExact
  <2>3. report' = report /\ panicked' = panicked
    BY <1>5 DEF Wait
  <2>4. QED
    BY <1>2, <2>1, <2>2, <2>3 DEF Moves, Idle, Returning
<1>6. ASSUME NEW p \in Procs, Wake(p) \/ ReadError(p) \/ ReadCount(p) PROVE Idle'
  <2>1. p = Main /\ Returning
    BY <1>0, <1>6 DEF Shape, Place, Wake, ReadError, ReadCount, Procs, Returning
  <2>2. Counted = {} /\ Counted' = {} /\ wg = 0
    <3>1. Counted = {}
      BY <2>1 DEF Idle
    <3>2. QED
      BY <1>0, <2>1, <3>1, StaysIdle, CountType DEF Inv, CountExact
  <2>3. PICK a \in {"script", "parked", "read", "count", "over"} :
          Moves(p, a, proc[p].task, proc[p].seen, proc[p].err, proc[p].after)
    BY <1>0, <1>6, WaitMoves
  <2>4. proc'[Main].pc = "count" => firstErr' # NoTask
    <3>1. CASE ReadError(p) /\ firstErr # NoTask
      BY <1>1, <3>1
    <3>2. CASE ~(ReadError(p) /\ firstErr # NoTask)
      <4>1. PICK b \in {"script", "read", "over"} : proc' = [proc EXCEPT ![p].pc = b]
        BY <1>6, <3>2 DEF Wake, ReadError, ReadCount, Goto
      <4>2. Moves(p, b, proc[p].task, proc[p].seen, proc[p].err, proc[p].after)
        BY <1>0, <4>1, GotoMoves DEF TypeOK, Pcs
      <4>3. QED
        BY <2>1, <4>2 DEF Moves
    <3>3. QED
      BY <3>1, <3>2
  <2>5. CanCancel /\ ~report'.ok => done'
    <3>1. CASE ReadCount(p)
      <4>1. firstErr # NoTask
        BY <2>1, <3>1 DEF ReadCount, Idle
      <4>2. QED
        BY <1>2, <2>2, <4>1, Settled
    <3>2. CASE ReadError(p) \/ Wake(p)
      <4>1. report' = report \/ report' = [ok |-> TRUE, first |-> NoTask, count |-> 0, waits |-> waits]
        BY <3>2 DEF ReadError, Wake, waitVars
      <4>2. QED
        BY <1>2, <4>1 DEF Idle
    <3>3. QED
      BY <1>6, <3>1, <3>2
  <2>6. ~panicked'
    BY <1>6, <2>2 DEF Wake, ReadError, ReadCount, Idle
  <2>7. QED
    BY <2>2, <2>4, <2>5, <2>6 DEF Idle
<1>7. QED
  BY <1>3, <1>4, <1>5, <1>6, Frame

LEMMA IdleHolds ==
    ASSUME OwnStarts
    PROVE  Spec => []Idle
<1>1. Init => Idle
  <2> SUFFICES ASSUME Init PROVE Idle
    OBVIOUS
  <2>1. proc[Main].pc = "script"
    BY TaskIsProc DEF Init, At
  <2>2. QED
    BY <2>1 DEF Init, Idle, Returning
<1>2. Inv /\ Cancelling /\ ContextExact /\ Idle /\ [Next]_vars => Idle'
  BY IdleStep
<1>3. QED
  BY <1>1, <1>2, InvHolds, CancellingHolds, ContextHolds, PTL DEF Spec

(* wg.Wait never finds the group in use again and wg.Done never finds the
   counter at zero, if only Main and the tasks of the group start tasks of the
   group: a task that starts another one is counted itself until the other one
   is, and every start, a refused one too, has its own Add before its Done. *)
THEOREM WaitNeverPanics ==
    ASSUME OwnStarts
    PROVE  Spec => []NoPanic
<1>1. Idle => NoPanic
  BY DEF Idle, NoPanic
<1>2. QED
  BY <1>1, IdleHolds, PTL

(* A wait that reports a failure returns after the context was cancelled,
   although another goroutine than the first to fail may have begun the
   cancellation: scriptTaskGroup.record cancels before wg.Done. *)
THEOREM FailureCancels ==
    ASSUME OwnStarts
    PROVE  Spec => []FailureCancelled
<1>1. Idle /\ ContextExact => FailureCancelled
  BY DEF Idle, ContextExact, FailureCancelled
<1>2. QED
  BY <1>1, IdleHolds, ContextHolds, PTL

LEMMA ReportStep ==
    ASSUME OwnStarts, Inv, Cancelling, ContextExact, Idle, [Next]_vars, report' # report
    PROVE  /\ \A t \in Group : proc[t].pc \in {"off", "over"}
           /\ report'.ok <=> Failed = {}
           /\ report'.count = Cardinality(Failed)
           /\ ~report'.ok => report'.first \in Failed
<1>0. TypeOK /\ Shape /\ ErrorsExact
  BY DEF Inv
<1>1. PICK p \in Procs : ReadError(p) \/ ReadCount(p)
  BY DEF Next, Internal, StartTask, LoadActive, CasActive, Finish, Release, Record, WgDone,
         CallCancel, TimerFires, CancelOnce, CloseDone, Wait, Wake, vars, waitVars
<1>2. p = Main /\ Returning
  BY <1>0, <1>1 DEF Shape, Place, ReadError, ReadCount, Procs, Returning
<1>3. Recorded = Failed /\ \A t \in Group : proc[t].pc \in {"off", "over"}
  BY <1>2, Settled DEF Idle
<1>4. CASE ReadError(p)
  <2>1. /\ firstErr = NoTask
        /\ report' = [ok |-> TRUE, first |-> NoTask, count |-> 0, waits |-> waits]
    BY <1>4 DEF ReadError
  <2>2. Failed = {}
    BY <1>0, <1>3, <2>1, TaskAssumption DEF ErrorsExact, Failed, Group
  <2>3. QED
    BY <1>3, <2>1, <2>2, FS_EmptySet
<1>5. CASE ReadCount(p)
  <2>1. report' = [ok |-> FALSE, first |-> firstErr, count |-> errCount, waits |-> waits]
    BY <1>5 DEF ReadCount
  <2>2. firstErr # NoTask
    BY <1>2, <1>5 DEF ReadCount, Idle
  <2>3. firstErr \in Failed /\ errCount = Cardinality(Failed)
    BY <1>0, <1>3, <2>2 DEF ErrorsExact
  <2>4. QED
    BY <1>3, <2>1, <2>3
<1>6. QED
  BY <1>1, <1>4, <1>5

(* group.wait tells the whole truth about the tasks it waited for, whatever
   the engine, the budget and the order in which they start, fail and end. *)
THEOREM WaitTellsAll ==
    ASSUME OwnStarts
    PROVE  Spec => WaitReportsAll
<1>1. Inv /\ Cancelling /\ ContextExact /\ Idle /\ [Next]_vars =>
        [Reported =>
           /\ \A t \in Group : proc[t].pc \in {"off", "over"}
           /\ report'.ok <=> Failed = {}
           /\ report'.count = Cardinality(Failed)
           /\ ~report'.ok => report'.first \in Failed]_vars
  BY ReportStep DEF Reported
<1>2. QED
  BY <1>1, InvHolds, CancellingHolds, ContextHolds, IdleHolds, PTL DEF Spec, WaitReportsAll
=============================================================================
