----------------------------- MODULE LabelStore -----------------------------
(* What AddLabel promises its callers (server.go:321-325): every call takes
   effect at one instant between its start and its return, either as the next
   entry of the log or, when the label would change nothing, not at all; a
   call that reports an error had no effect; a crash loses no entry.       *)
EXTENDS LabelLog

CONSTANTS
    Clients,      \* callers, each with at most one call in progress
    NoRequest     \* the request of a client that waits for nothing

VARIABLES
    log,          \* the label log
    pending,      \* the label each client waits for, or NoRequest
    reply         \* the answer each client has got

vars == <<log, pending, reply>>

Init ==
    /\ log = EmptyLog
    /\ pending = [c \in Clients |-> NoRequest]
    /\ reply = [c \in Clients |-> "none"]

Call(c, e) ==
    /\ pending[c] = NoRequest
    /\ pending' = [pending EXCEPT ![c] = e]
    /\ reply' = [reply EXCEPT ![c] = "none"]
    /\ UNCHANGED log

Answer(c, r) ==
    /\ pending[c] # NoRequest
    /\ pending' = [pending EXCEPT ![c] = NoRequest]
    /\ reply' = [reply EXCEPT ![c] = r]

NoEffect(c) == IsNoOp(log, pending[c], LatestMatch(log, pending[c], LastSeq(log)))

Append(c) ==
    /\ Answer(c, "created")
    /\ ~ NoEffect(c)
    /\ log' = WithRow(log, LastSeq(log) + 1, pending[c])

Ignore(c) ==
    /\ Answer(c, "noop")
    /\ NoEffect(c)
    /\ UNCHANGED log

Fail(c) == Answer(c, "failed") /\ UNCHANGED log

(* A call turned away before it starts: the label is not allowed, or has no source. *)
Refuse(c) ==
    /\ pending[c] = NoRequest
    /\ \E r \in {"denied", "failed"} : reply' = [reply EXCEPT ![c] = r]
    /\ UNCHANGED <<log, pending>>

Crash ==
    /\ pending' = [c \in Clients |-> NoRequest]
    /\ reply' = [c \in Clients |-> "none"]
    /\ UNCHANGED log

Next ==
    \/ \E c \in Clients :
        \/ \E e \in Entry : Call(c, e)
        \/ Append(c) \/ Ignore(c) \/ Fail(c) \/ Refuse(c)
    \/ Crash

Spec == Init /\ [][Next]_vars
=============================================================================
