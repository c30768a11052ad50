------------------------------ MODULE Mailbox ------------------------------
(***************************************************************************)
(* What the war room promises of the Boss's messages (internal/warroom/    *)
(* service.go), without its goroutines, flags and locks.  Each message is  *)
(* handled once, by one operation.  The messages of a stream that were not *)
(* held are handled in the order they were accepted, those that arrive     *)
(* during an operation together by a later one, and a stream has one such  *)
(* operation at a time: in particular one Boss command after the other.    *)
(* Messages held while Ollama is away are handled each by an operation of  *)
(* its own, beside all others.                                             *)
(*                                                                         *)
(* An operation is named by the first message it handles.                  *)
(***************************************************************************)
EXTENDS Naturals, Sequences, SequencesExt

CONSTANTS
    Agents,      \* agents the Boss can write to directly
    Channel,     \* the war-room channel
    Msgs,        \* messages, each sent once
    Target,      \* the agent or the channel each message goes to
    None

VARIABLES
    posted,      \* the messages accepted
    line,        \* what waits in each stream, the oldest first
    held,        \* what waits for Ollama
    carried,     \* the operation that handles each message
    stage,       \* how far each operation is
    busy         \* the operation each stream waits for

mvars == <<posted, line, held, carried, stage, busy>>

MInit ==
    /\ posted = {}
    /\ line = [s \in Agents \cup {Channel} |-> <<>>]
    /\ held = <<>>
    /\ carried = [m \in Msgs |-> None]
    /\ stage = [m \in Msgs |-> "none"]
    /\ busy = [s \in Agents \cup {Channel} |-> None]

(* A message is accepted, behind those of its stream ... *)
Post(m) ==
    /\ m \notin posted
    /\ posted' = posted \cup {m}
    /\ line' = [line EXCEPT ![Target[m]] = Append(@, m)]
    /\ UNCHANGED <<held, carried, stage, busy>>

(* ... or behind those that wait for Ollama: never a Boss command. *)
Hold(m) ==
    /\ m \notin posted
    /\ Target[m] \in Agents
    /\ posted' = posted \cup {m}
    /\ held' = Append(held, m)
    /\ UNCHANGED <<line, carried, stage, busy>>

(* The first messages of a stream that is not busy are handled together. *)
Take(s) ==
    /\ busy[s] = None
    /\ \E k \in 1..Len(line[s]) :
          LET lot == SubSeq(line[s], 1, k)
              o   == Head(line[s])
          IN  /\ stage[o] = "none"
              /\ \A m \in Msgs : Contains(lot, m) => carried[m] = None
              /\ stage' = [stage EXCEPT ![o] = "open"]
              /\ carried' = [m \in Msgs |-> IF Contains(lot, m) THEN o ELSE carried[m]]
              /\ line' = [line EXCEPT ![s] = SubSeq(@, k + 1, Len(@))]
              /\ busy' = [busy EXCEPT ![s] = o]
    /\ UNCHANGED <<posted, held>>

(* All that is held is handled, each message for itself. *)
TakeHeld ==
    /\ \A m \in Msgs : Contains(held, m) => stage[m] = "none" /\ carried[m] = None
    /\ held' = <<>>
    /\ stage' = [m \in Msgs |-> IF Contains(held, m) THEN "open" ELSE stage[m]]
    /\ carried' = [m \in Msgs |-> IF Contains(held, m) THEN m ELSE carried[m]]
    /\ UNCHANGED <<posted, line, busy>>

(* An operation ends, and its stream is free. *)
Finish(o) ==
    /\ stage[o] = "open"
    /\ stage' = [stage EXCEPT ![o] = "over"]
    /\ busy' = [s \in DOMAIN busy |-> IF busy[s] = o THEN None ELSE busy[s]]
    /\ UNCHANGED <<posted, line, held, carried>>

MNext ==
    \/ \E m \in Msgs : Post(m) \/ Hold(m) \/ Finish(m)
    \/ \E s \in Agents \cup {Channel} : Take(s)
    \/ TakeHeld

MSpec == MInit /\ [][MNext]_mvars

=============================================================================
