---------------------------- MODULE CoroutineSpec ----------------------------
(***************************************************************************)
(* What coroutines promise a script, without frames, Go activations or     *)
(* flags.  Control is in the main program or in the last coroutine of a    *)
(* chain of resumes.  Each has a stack of calls, which a yield leaves as   *)
(* it is.  An error ends the innermost protected call, or the coroutine.   *)
(***************************************************************************)
EXTENDS Naturals, Sequences, SequencesExt

CONSTANTS
    Co,        \* coroutines
    Main,      \* the main program
    Kind,      \* the body of each coroutine
    Wrapped,   \* coroutines made with coroutine.wrap
    Calls      \* names of calls

VARIABLES
    status,   \* "suspended", "running" or "dead"
    chain,    \* the coroutines that were resumed and have not given control back
    calls,    \* the calls in progress in the main program and in each coroutine
    guarded,  \* the calls that pcall made
    raising,  \* an error is on its way to the calls in control
    ended     \* wrappers that a loop over them found at their end

avars == <<status, chain, calls, guarded, raising, ended>>

Running == IF chain = <<>> THEN Main ELSE Last(chain)

Init ==
    /\ status = [c \in Co |-> "suspended"]
    /\ chain = <<>>
    /\ \E k \in Calls : calls = [v \in Co \cup {Main} |-> IF v = Main THEN <<k>> ELSE <<>>]
    /\ guarded = {}
    /\ raising = FALSE
    /\ ended = [c \in Wrapped |-> FALSE]

Fresh(k) == k \in Calls /\ \A v \in Co \cup {Main} : k \notin Range(calls[v])

(* The part of a stack of calls that an error in it leaves. *)
Unwound(s) ==
    LET n == CHOOSE i \in 1..Len(s) :
               s[i] \in guarded /\ \A j \in (i + 1)..Len(s) : s[j] \notin guarded
    IN  SubSeq(s, 1, n - 1)

IsGuarded(s) == \E i \in 1..Len(s) : s[i] \in guarded

(* A loop over a wrapper takes an error, or no value, for its end. *)
MayEnd(c) ==
    ended' \in {ended} \cup {[ended EXCEPT ![d] = TRUE] : d \in {c} \cap Wrapped}

-----------------------------------------------------------------------------
Call(k) ==
    /\ calls[Running] # <<>> /\ ~raising /\ Fresh(k)
    /\ calls' = [calls EXCEPT ![Running] = Append(@, k)]
    /\ guarded' \in {guarded \ {k}, guarded \cup {k}}
    /\ UNCHANGED <<status, chain, raising, ended>>

Return ==
    /\ Len(calls[Running]) > 1 /\ ~raising
    /\ calls' = [calls EXCEPT ![Running] = Front(@)]
    /\ guarded' = guarded \ {Last(calls[Running])}
    /\ UNCHANGED <<status, chain, raising, ended>>

(* The outermost call returns: the coroutine is dead, the program over. *)
Finish ==
    /\ Len(calls[Running]) = 1 /\ ~raising
    /\ calls' = [calls EXCEPT ![Running] = <<>>]
    /\ IF Running = Main
         THEN UNCHANGED <<status, chain>>
         ELSE /\ status' = [status EXCEPT ![Running] = "dead"]
              /\ chain' = Front(chain)
    /\ MayEnd(Running)
    /\ UNCHANGED <<guarded, raising>>

(* An error goes to the innermost pcall of the coroutine in control. Without
   one it kills the coroutine; resume reports that as a value, while the
   wrapper raises the error again in the calls of the resumer. *)
Fail ==
    /\ calls[Running] # <<>>
    /\ IF IsGuarded(calls[Running])
         THEN /\ calls' = [calls EXCEPT ![Running] = Unwound(@)]
              /\ raising' = FALSE
              /\ UNCHANGED <<status, chain>>
         ELSE /\ calls' = [calls EXCEPT ![Running] = <<>>]
              /\ IF Running = Main
                   THEN raising' = FALSE /\ UNCHANGED <<status, chain>>
                   ELSE /\ status' = [status EXCEPT ![Running] = "dead"]
                        /\ chain' = Front(chain)
                        /\ raising' = (Running \in Wrapped)
    /\ guarded' = guarded \cap UNION {Range(calls'[v]) : v \in Co \cup {Main}}
    /\ MayEnd(Running)

-----------------------------------------------------------------------------
(* A suspended coroutine starts, or continues with the calls it had. *)
Resume(c) ==
    /\ calls[Running] # <<>> /\ ~raising
    /\ status[c] = "suspended"
    /\ status' = [status EXCEPT ![c] = "running"]
    /\ chain' = Append(chain, c)
    /\ \/ calls[c] # <<>> /\ UNCHANGED calls
       \/ calls[c] = <<>> /\ \E k \in Calls : Fresh(k) /\ calls' = [calls EXCEPT ![c] = <<k>>]
    /\ UNCHANGED <<guarded, raising, ended>>

(* A body that makes no calls can run to its end at once. *)
RunOnce(c) ==
    /\ calls[Running] # <<>> /\ ~raising
    /\ status[c] = "suspended" /\ Kind[c] # "script"
    /\ status' = [status EXCEPT ![c] = "dead"]
    /\ raising' \in {FALSE, (c \in Wrapped)}
    /\ MayEnd(c)
    /\ UNCHANGED <<chain, calls, guarded>>

(* Any other coroutine cannot be resumed, and nothing changes. *)
Refuse(c) ==
    /\ calls[Running] # <<>> /\ ~raising
    /\ status[c] # "suspended" \/ (c \in Wrapped /\ ended[c])
    /\ raising' = (c \in Wrapped)
    /\ MayEnd(c)
    /\ UNCHANGED <<status, chain, calls, guarded>>

Yield ==
    /\ Running # Main /\ ~raising
    /\ status' = [status EXCEPT ![Running] = "suspended"]
    /\ chain' = Front(chain)
    /\ MayEnd(Running)
    /\ UNCHANGED <<calls, guarded, raising>>

Next ==
    \/ \E k \in Calls : Call(k)
    \/ Return \/ Finish \/ Fail \/ Yield
    \/ \E c \in Co : Resume(c) \/ RunOnce(c) \/ Refuse(c)

Spec == Init /\ [][Next]_avars
=============================================================================
