------------------------------- MODULE Channel -------------------------------
(***************************************************************************)
(* Script channels (internal/runtime/channel.go) and the select statement  *)
(* of both engines.  A Channel wraps a Go channel with a closed flag that  *)
(* is guarded by a mutex: senders look at the flag first, give the mutex   *)
(* back, and only then send on the Go channel, so the channel can be       *)
(* closed in between; the panic of Go is recovered and becomes an error.   *)
(* A select with a default clause does not use Go's select: it polls its   *)
(* cases one by one.                                                       *)
(*                                                                         *)
(* The Go channel is external: its buffer, its close and its rendezvous    *)
(* are modelled from the language definition.                              *)
(***************************************************************************)
EXTENDS Naturals, Sequences

CONSTANTS
    Procs,   \* goroutines running script code
    Chans,   \* channels
    Cap,     \* capacity of each channel
    Menu,    \* the operations the script uses: [kind, cases]
    NoProc,  \* a mutex nobody holds
    MaxOps   \* bound: operations of one goroutine

Kinds == {"send", "recv", "select", "poll", "recvstop", "close"}
Case == [dir : {"send", "recv", "close"}, ch : Chans]

ASSUME ChannelAssumption ==
    /\ NoProc \notin Procs
    /\ Cap \in [Chans -> Nat]
    /\ MaxOps \in Nat
    /\ Menu \subseteq [kind : Kinds, cases : Seq(Case) \ {<<>>}]
    /\ \A o \in Menu : \A i \in 1..Len(o.cases) :
          (o.cases[i].dir = "close") <=> (o.kind = "close")

VARIABLES
    flag,     \* Channel.closed
    mu,       \* Channel.mu, held for more than one step by Close only
    buf,      \* the buffer of the Go channel
    goClosed, \* the Go channel is closed
    op,       \* the operation of each goroutine
    count,    \* operations each goroutine has started
    stop,     \* the stop channel of RecvOrStop is closed
    result,   \* how the last operation of each goroutine ended
    panicked, \* a Go panic left the runtime
    sent,     \* values whose send committed (history)
    rcvd      \* values received (history)

goVars == <<buf, goClosed, sent, rcvd>>
vars == <<flag, mu, buf, goClosed, op, count, stop, result, panicked, sent, rcvd>>

Idle == [kind |-> "none", cases |-> <<>>, at |-> 0, pc |-> "idle"]

Values == Procs \X (1..MaxOps)
Results == {"none", "sent", "received", "closed", "ok", "error", "default", "stopped"}
Operations == [kind : Kinds \cup {"none"}, cases : Seq(Case), at : Nat,
               pc : {"idle", "check", "try", "wait", "lock", "closing"}]

(* Every send of a goroutine has a value of its own. *)
ValueOf(g) == <<g, count[g]>>

Init ==
    /\ flag = [c \in Chans |-> FALSE]
    /\ mu = [c \in Chans |-> NoProc]
    /\ buf = [c \in Chans |-> <<>>]
    /\ goClosed = [c \in Chans |-> FALSE]
    /\ op = [g \in Procs |-> Idle]
    /\ count = [g \in Procs |-> 0]
    /\ stop = FALSE
    /\ result = [g \in Procs |-> "none"]
    /\ panicked = FALSE
    /\ sent = [c \in Chans |-> <<>>]
    /\ rcvd = [c \in Chans |-> <<>>]

-----------------------------------------------------------------------------
(* Which cases an operation is offering to the Go runtime: a blocking one
   offers them all at once, a poll the one it has come to. *)
Offers(g, i) ==
    \/ op[g].pc = "wait" /\ i \in 1..Len(op[g].cases)
    \/ op[g].pc = "try" /\ i = op[g].at

Ch(g, i) == op[g].cases[i].ch
Dir(g, i) == op[g].cases[i].dir

(* A goroutine parked on the other side of an unbuffered channel. *)
Partner(g, c, dir) ==
    /\ Cap[c] = 0
    /\ \E h \in Procs \ {g} : op[h].pc = "wait" /\
          \E j \in 1..Len(op[h].cases) : op[h].cases[j] = [dir |-> dir, ch |-> c]

(* Whether the Go runtime can carry out a case at once. *)
CanProceed(g, cs) ==
    \/ goClosed[cs.ch]
    \/ cs.dir = "send" /\ (Len(buf[cs.ch]) < Cap[cs.ch] \/ Partner(g, cs.ch, "recv"))
    \/ cs.dir = "recv" /\ (buf[cs.ch] # <<>> \/ Partner(g, cs.ch, "send"))

Finish(g, r) ==
    /\ op' = [op EXCEPT ![g] = Idle]
    /\ result' = [result EXCEPT ![g] = r]

-----------------------------------------------------------------------------
(* An operation begins. *)
Start(g, o) ==
    /\ op[g].pc = "idle"
    /\ count[g] < MaxOps
    /\ op' = [op EXCEPT ![g] = [kind |-> o.kind, cases |-> o.cases, at |-> 1,
                               pc |-> IF o.kind = "close" THEN "lock" ELSE "check"]]
    /\ count' = [count EXCEPT ![g] = @ + 1]
    /\ result' = [result EXCEPT ![g] = "none"]
    /\ UNCHANGED <<flag, mu, stop, panicked, goVars>>

(* Mutant: the loop over the cases runs once too often. *)
NextCasePastEnd(o) ==
    CASE o.kind = "poll" -> [o EXCEPT !.pc = "try"]
      [] o.kind # "poll" /\ o.at <= Len(o.cases) -> [o EXCEPT !.at = @ + 1]
      [] OTHER -> [o EXCEPT !.pc = "wait"]

(* A case is in order: a poll tries it, a blocking operation goes on to the
   next one and parks on all of them at the end. *)
NextCase(o) ==
    CASE o.kind = "poll" -> [o EXCEPT !.pc = "try"]
      [] o.kind # "poll" /\ o.at < Len(o.cases) -> [o EXCEPT !.at = @ + 1]
      [] OTHER -> [o EXCEPT !.pc = "wait"]

(* Mutant: the flag is read without the mutex. *)
CheckUnlocked(g) ==
    /\ op[g].pc = "check"
    /\ IF Dir(g, op[g].at) = "send" /\ flag[Ch(g, op[g].at)]
         THEN Finish(g, "error")
         ELSE /\ op' = [op EXCEPT ![g] = NextCase(@)]
              /\ UNCHANGED result
    /\ UNCHANGED <<flag, mu, count, stop, panicked, goVars>>

(* The closed flag is read under the mutex for every case that sends. *)
Check(g) ==
    /\ op[g].pc = "check"
    /\ Dir(g, op[g].at) = "send" => mu[Ch(g, op[g].at)] = NoProc
    /\ IF Dir(g, op[g].at) = "send" /\ flag[Ch(g, op[g].at)]
         THEN Finish(g, "error")
         ELSE /\ op' = [op EXCEPT ![g] = NextCase(@)]
              /\ UNCHANGED result
    /\ UNCHANGED <<flag, mu, count, stop, panicked, goVars>>

(* A case that a poll finds not ready: the next one, or the default clause. *)
PollNext(g) ==
    /\ op[g].pc = "try"
    /\ ~CanProceed(g, op[g].cases[op[g].at])
    /\ IF op[g].at < Len(op[g].cases)
         THEN /\ op' = [op EXCEPT ![g].at = @ + 1, ![g].pc = "check"]
              /\ UNCHANGED result
         ELSE Finish(g, "default")
    /\ UNCHANGED <<flag, mu, count, stop, panicked, goVars>>

-----------------------------------------------------------------------------
(* The Go channel. *)

GoSend(g, i) ==
    LET c == Ch(g, i)
    IN  /\ Offers(g, i) /\ Dir(g, i) = "send"
        /\ ~goClosed[c] /\ Len(buf[c]) < Cap[c]
        /\ buf' = [buf EXCEPT ![c] = Append(@, ValueOf(g))]
        /\ sent' = [sent EXCEPT ![c] = Append(@, ValueOf(g))]
        /\ Finish(g, "sent")
        /\ UNCHANGED <<flag, mu, count, stop, panicked, goClosed, rcvd>>

GoRecv(g, i) ==
    LET c == Ch(g, i)
    IN  /\ Offers(g, i) /\ Dir(g, i) = "recv"
        /\ buf[c] # <<>>
        /\ buf' = [buf EXCEPT ![c] = Tail(@)]
        /\ rcvd' = [rcvd EXCEPT ![c] = Append(@, Head(buf[c]))]
        /\ Finish(g, "received")
        /\ UNCHANGED <<flag, mu, count, stop, panicked, goClosed, sent>>

(* A sender and a receiver meet on an unbuffered channel; at most one of them
   is polling, the other is parked. *)
GoRendezvous(g, i, h, j) ==
    LET c == Ch(g, i)
    IN  /\ g # h
        /\ Offers(g, i) /\ Offers(h, j)
        /\ "wait" \in {op[g].pc, op[h].pc}
        /\ Dir(g, i) = "send" /\ op[h].cases[j] = [dir |-> "recv", ch |-> c]
        /\ Cap[c] = 0 /\ ~goClosed[c]
        /\ sent' = [sent EXCEPT ![c] = Append(@, ValueOf(g))]
        /\ rcvd' = [rcvd EXCEPT ![c] = Append(@, ValueOf(g))]
        /\ op' = [op EXCEPT ![g] = Idle, ![h] = Idle]
        /\ result' = [result EXCEPT ![g] = "sent", ![h] = "received"]
        /\ UNCHANGED <<flag, mu, count, stop, panicked, buf, goClosed>>

(* A receive from a closed and drained channel yields nil, false. *)
GoRecvClosed(g, i) ==
    /\ Offers(g, i) /\ Dir(g, i) = "recv"
    /\ goClosed[Ch(g, i)] /\ buf[Ch(g, i)] = <<>>
    /\ Finish(g, "closed")
    /\ UNCHANGED <<flag, mu, count, stop, panicked, goVars>>

(* Mutant: the panic is not recovered. *)
SendPanics(g, i) ==
    /\ Offers(g, i) /\ Dir(g, i) = "send"
    /\ goClosed[Ch(g, i)]
    /\ Finish(g, "error")
    /\ panicked' = TRUE
    /\ UNCHANGED <<flag, mu, count, stop, goVars>>

(* A send finds the Go channel closed, also when it was parked: the panic is
   recovered and the operation returns the error "send on closed channel". *)
SendRecovers(g, i) ==
    /\ Offers(g, i) /\ Dir(g, i) = "send"
    /\ goClosed[Ch(g, i)]
    /\ Finish(g, "error")
    /\ UNCHANGED <<flag, mu, count, stop, panicked, goVars>>

(* RecvOrStop sees that its stop channel is closed. *)
RecvStopped(g) ==
    /\ op[g].pc = "wait" /\ op[g].kind = "recvstop"
    /\ stop
    /\ Finish(g, "stopped")
    /\ UNCHANGED <<flag, mu, count, stop, panicked, goVars>>

-----------------------------------------------------------------------------
(* Close. *)

(* Mutant: the flag is tested without setting it under the same lock. *)
CloseTests(g) ==
    LET c == Ch(g, 1)
    IN  /\ op[g].pc = "lock"
        /\ mu[c] = NoProc
        /\ IF flag[c]
             THEN Finish(g, "error") /\ UNCHANGED <<flag, mu>>
             ELSE /\ op' = [op EXCEPT ![g].pc = "closing"]
                  /\ UNCHANGED <<mu, flag, result>>
        /\ UNCHANGED <<count, stop, panicked, goVars>>

CloseFlag(g) ==
    LET c == Ch(g, 1)
    IN  /\ op[g].pc = "lock"
        /\ mu[c] = NoProc
        /\ IF flag[c]
             THEN Finish(g, "error") /\ UNCHANGED <<flag, mu>>
             ELSE /\ flag' = [flag EXCEPT ![c] = TRUE]
                  /\ mu' = [mu EXCEPT ![c] = g]
                  /\ op' = [op EXCEPT ![g].pc = "closing"]
                  /\ UNCHANGED result
        /\ UNCHANGED <<count, stop, panicked, goVars>>

(* Mutant: the mutex is not given back. *)
CloseLeaksLock(g) ==
    LET c == Ch(g, 1)
    IN  /\ op[g].pc = "closing"
        /\ panicked' = (panicked \/ goClosed[c])
        /\ goClosed' = [goClosed EXCEPT ![c] = TRUE]
        /\ Finish(g, "ok")
        /\ UNCHANGED <<flag, mu, count, stop, buf, sent, rcvd>>

(* close(c.ch), which panics on a closed Go channel, and the deferred unlock. *)
CloseGo(g) ==
    LET c == Ch(g, 1)
    IN  /\ op[g].pc = "closing"
        /\ panicked' = (panicked \/ goClosed[c])
        /\ goClosed' = [goClosed EXCEPT ![c] = TRUE]
        /\ mu' = [mu EXCEPT ![c] = NoProc]
        /\ Finish(g, "ok")
        /\ UNCHANGED <<flag, count, stop, buf, sent, rcvd>>

(* The host closes the stop channel. *)
Stop ==
    /\ ~stop /\ stop' = TRUE
    /\ UNCHANGED <<flag, mu, op, count, result, panicked, goVars>>

GoStep(g) ==
    \/ \E i \in 1..Len(op[g].cases) :
          GoSend(g, i) \/ GoRecv(g, i) \/ GoRecvClosed(g, i) \/ SendRecovers(g, i)
    \/ \E h \in Procs : \E i \in 1..Len(op[g].cases), j \in 1..Len(op[h].cases) :
          GoRendezvous(g, i, h, j) \/ GoRendezvous(h, j, g, i)

Step(g) ==
    \/ Check(g) \/ PollNext(g) \/ RecvStopped(g) \/ CloseFlag(g) \/ CloseGo(g)
    \/ GoStep(g)

Next ==
    \/ \E g \in Procs, o \in Menu : Start(g, o)
    \/ \E g \in Procs : Step(g)
    \/ Stop

Spec == Init /\ [][Next]_vars

(* The Go scheduler runs what can run; nothing makes a script start an
   operation or a host close the stop channel. *)
FairSpec == Spec /\ \A g \in Procs : WF_vars(Step(g))

-----------------------------------------------------------------------------
(* Properties. *)

(* The state is well formed: the loop over the cases of a select stays within
   them. *)
TypeOK ==
    /\ flag \in [Chans -> BOOLEAN] /\ goClosed \in [Chans -> BOOLEAN]
    /\ mu \in [Chans -> Procs \cup {NoProc}]
    /\ buf \in [Chans -> Seq(Values)]
    /\ op \in [Procs -> Operations]
    /\ count \in [Procs -> 0..MaxOps]
    /\ stop \in BOOLEAN /\ panicked \in BOOLEAN
    /\ result \in [Procs -> Results]
    /\ sent \in [Chans -> Seq(Values)] /\ rcvd \in [Chans -> Seq(Values)]
    /\ \A g \in Procs : op[g].pc # "idle" =>
          op[g].at \in 1..Len(op[g].cases) /\ count[g] \in 1..MaxOps

(* "The script visible behavior should be an ordinary send error, not a host
   panic": no interleaving of sends, selects and closes makes a Go panic leave
   the runtime, neither a send on nor a close of a closed Go channel. *)
NoPanic == ~panicked

(* The flag that senders trust is set before the Go channel is closed, and the
   mutex hides the time in between. *)
FlagCoversClose ==
    \A c \in Chans :
        /\ goClosed[c] => flag[c]
        /\ flag[c] /\ ~goClosed[c] => mu[c] # NoProc

(* Whatever the interleaving, each channel is the bounded FIFO of ChannelSpec:
   no value is lost, duplicated, reordered or accepted after the close, and a
   script is told that a channel is closed only when it is: the flag is ahead
   of the Go channel, but a sender never sees that. *)
Abstract == INSTANCE ChannelSpec WITH closed <- goClosed

ImplementsChannelSpec == Abstract!Spec

(* Closing a channel ends every operation on it, parked ones included: the
   receivers are told, the senders get their error. *)
CloseUnblocks ==
    \A g \in Procs, c \in Chans :
        (goClosed[c] /\ \E i \in 1..Len(op[g].cases) : Ch(g, i) = c)
            ~> op[g].pc = "idle"
=============================================================================
