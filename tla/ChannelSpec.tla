----------------------------- MODULE ChannelSpec -----------------------------
(***************************************************************************)
(* What docs/spec/concurrency.md promises of channels, whatever the flag,  *)
(* the mutex and the recovered panics underneath: each channel is a        *)
(* bounded FIFO that accepts values until it is closed and is drained      *)
(* after that, and an operation is told once how it ended, truthfully.     *)
(***************************************************************************)
EXTENDS Naturals, Sequences

CONSTANTS Procs, Chans, Cap, Values

VARIABLES
    sent,   \* the values whose send committed, in that order
    rcvd,   \* the values received, in that order
    closed, \* the channel is closed
    result  \* what each goroutine was told; "none" while it is in an operation

vars == <<sent, rcvd, closed, result>>

Queued(c) == Len(sent[c]) - Len(rcvd[c])

Told(g, r) == result[g] = "none" /\ result' = [result EXCEPT ![g] = r]

Init ==
    /\ sent = [c \in Chans |-> <<>>]
    /\ rcvd = [c \in Chans |-> <<>>]
    /\ closed = [c \in Chans |-> FALSE]
    /\ result = [g \in Procs |-> "none"]

(* A goroutine begins its next operation. *)
Begin(g) ==
    /\ result' = [result EXCEPT ![g] = "none"]
    /\ UNCHANGED <<sent, rcvd, closed>>

(* A send commits: the channel is open and has room. *)
Send(g, c, v) ==
    /\ ~closed[c] /\ Queued(c) < Cap[c]
    /\ sent' = [sent EXCEPT ![c] = Append(@, v)]
    /\ Told(g, "sent")
    /\ UNCHANGED <<rcvd, closed>>

(* A receive takes the oldest value that nobody has received. *)
Recv(g, c) ==
    /\ Queued(c) > 0
    /\ rcvd' = [rcvd EXCEPT ![c] = Append(@, sent[c][Len(@) + 1])]
    /\ Told(g, "received")
    /\ UNCHANGED <<sent, closed>>

(* A send and a receive complete together. *)
Rendezvous(g, h, c, v) ==
    /\ ~closed[c] /\ Queued(c) = 0
    /\ sent' = [sent EXCEPT ![c] = Append(@, v)]
    /\ rcvd' = [rcvd EXCEPT ![c] = Append(@, v)]
    /\ {result[g], result[h]} = {"none"}
    /\ result' = [result EXCEPT ![g] = "sent", ![h] = "received"]
    /\ UNCHANGED closed

(* A channel is closed once. *)
Close(g, c) ==
    /\ ~closed[c]
    /\ closed' = [closed EXCEPT ![c] = TRUE]
    /\ Told(g, "ok")
    /\ UNCHANGED <<sent, rcvd>>

(* Only a channel that is closed makes a send or a close fail. *)
Fail(g, c) ==
    /\ closed[c]
    /\ Told(g, "error")
    /\ UNCHANGED <<sent, rcvd, closed>>

(* Only a channel that is closed and drained makes a receive yield nil. *)
Drained(g, c) ==
    /\ closed[c] /\ Queued(c) = 0
    /\ Told(g, "closed")
    /\ UNCHANGED <<sent, rcvd, closed>>

(* A select takes its default clause, a cancellable receive is cancelled. *)
GiveUp(g) ==
    /\ \E r \in {"default", "stopped"} : Told(g, r)
    /\ UNCHANGED <<sent, rcvd, closed>>

Next ==
    \E g \in Procs :
        \/ Begin(g) \/ GiveUp(g)
        \/ \E c \in Chans :
              \/ \E v \in Values :
                    Send(g, c, v) \/ \E h \in Procs \ {g} : Rendezvous(g, h, c, v)
              \/ Recv(g, c) \/ Close(g, c) \/ Fail(g, c) \/ Drained(g, c)

Spec == Init /\ [][Next]_vars
=============================================================================
