----------------------------- MODULE CogService -----------------------------
(***************************************************************************)
(* What the cognition queue promises the rest of the orchestrator, without *)
(* saying how: callers hand it a function, at most one function runs at a  *)
(* time, a function runs at most once, and the error a caller gets back    *)
(* tells the truth about what happened to the function.  CogQueue          *)
(* implements this module, and WarRoomInbox is built on it.                *)
(***************************************************************************)

CONSTANTS
    Requests,     \* identities of the submitted requests
    Background    \* the requests the queue may drop under system pressure

VARIABLES
    phase,        \* what has become of the request's function
    cancelled,    \* whether the caller's context is done
    reply         \* what Submit returned, "none" while it has not returned

svars == <<phase, cancelled, reply>>

Phases  == {"idle", "queued", "running", "executed", "skipped"}
Replies == {"none", "fn", "ctx", "dropped", "stopped"}

SInit ==
    /\ phase = [r \in Requests |-> "idle"]
    /\ cancelled = [r \in Requests |-> FALSE]
    /\ reply = [r \in Requests |-> "none"]

(* A caller enters Submit. *)
Accept(r) ==
    /\ phase[r] = "idle"
    /\ phase' = [phase EXCEPT ![r] = "queued"]
    /\ UNCHANGED <<cancelled, reply>>

(* The caller's context is cancelled, at any moment of the request's life. *)
CancelContext(r) ==
    /\ ~cancelled[r]
    /\ cancelled' = [cancelled EXCEPT ![r] = TRUE]
    /\ UNCHANGED <<phase, reply>>

(* The queue runs the function: never beside another one. *)
Begin(r) ==
    /\ phase[r] = "queued"
    /\ \A q \in Requests : phase[q] # "running"
    /\ phase' = [phase EXCEPT ![r] = "running"]
    /\ UNCHANGED <<cancelled, reply>>

End(r) ==
    /\ phase[r] = "running"
    /\ phase' = [phase EXCEPT ![r] = "executed"]
    /\ UNCHANGED <<cancelled, reply>>

(* The queue discards the function of a cancelled or a background request. *)
Skip(r) ==
    /\ phase[r] = "queued"
    /\ cancelled[r] \/ r \in Background
    /\ phase' = [phase EXCEPT ![r] = "skipped"]
    /\ UNCHANGED <<cancelled, reply>>

(* A caller that could not even enqueue takes the function back and returns. *)
Withdraw(r) ==
    /\ phase[r] = "queued"
    /\ reply[r] = "none"
    /\ cancelled[r]
    /\ phase' = [phase EXCEPT ![r] = "skipped"]
    /\ reply' = [reply EXCEPT ![r] = "ctx"]
    /\ UNCHANGED cancelled

(* Submit returns v. *)
Truthful(r, v) ==
    \/ v = "fn" /\ phase[r] = "executed"
    \/ v = "ctx" /\ cancelled[r] /\ phase[r] # "idle"
    \/ v \in {"dropped", "stopped"} /\ phase[r] = "skipped" /\ r \in Background

Return(r, v) ==
    /\ reply[r] = "none"
    /\ Truthful(r, v)
    /\ reply' = [reply EXCEPT ![r] = v]
    /\ UNCHANGED <<phase, cancelled>>

(* The identity is used again for a new request once nobody refers to it. *)
Reuse(r) ==
    /\ reply[r] # "none"
    /\ phase[r] \in {"executed", "skipped"}
    /\ phase' = [phase EXCEPT ![r] = "idle"]
    /\ cancelled' = [cancelled EXCEPT ![r] = FALSE]
    /\ reply' = [reply EXCEPT ![r] = "none"]

SNext ==
    \E r \in Requests :
        \/ Accept(r)
        \/ CancelContext(r)
        \/ Begin(r)
        \/ End(r)
        \/ Skip(r)
        \/ Withdraw(r)
        \/ \E v \in Replies \ {"none"} : Return(r, v)
        \/ Reuse(r)

SSpec == SInit /\ [][SNext]_svars

=============================================================================
