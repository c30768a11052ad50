--------------------------- MODULE ApprovalsProofs ---------------------------
(* Theorems about Approvals, for every set of calls, commands and decisions *)
(* under way and every number of attempts.                                  *)
EXTENDS Approvals, TLAPS

(* No decision is on its way to the call. *)
NobodySends(c) == \A d \in Deciders : decider[d].at = "send" => decider[d].waiter # c

(* A verdict is only ever in the channel of a call that waits for it, and a *)
(* yes in it is the Boss's to this call.                                    *)
ChannelOK ==
    \A c \in Calls :
        /\ channel[c] # "empty" => step[c] = "asked"
        /\ channel[c] = "yes" => c \in granted

(* The call a command leads to waits for that command, and is unheard. *)
PendingOK ==
    \A k \in Cmds :
        pending[k] # None =>
            /\ step[pending[k]] = "asked"
            /\ cmd[pending[k]] = k
            /\ channel[pending[k]] = "empty"
            /\ NobodySends(pending[k])

(* A decision is sent to one call, which still waits or has given up. *)
SenderOK ==
    \A d \in Deciders :
        decider[d].at = "send" =>
            /\ decider[d].waiter \in Calls
            /\ channel[decider[d].waiter] = "empty"
            /\ step[decider[d].waiter] \in {"asked", "ended"}
            /\ \A e \in Deciders :
                  decider[e].at = "send" /\ decider[e].waiter = decider[d].waiter => e = d

(* A call under way has a command. *)
CmdOK == \A c \in Calls : step[c] \in {"try", "asked", "run"} => cmd[c] \in Cmds

GateInv == TypeOK /\ ChannelOK /\ PendingOK /\ SenderOK /\ CmdOK /\ RunNeedsOwnYes

-----------------------------------------------------------------------------
LEMMA InitGate == Init => GateInv
<1> SUFFICES ASSUME Init PROVE GateInv
  OBVIOUS
<1>1. TypeOK
  <2>1. decider \in [Deciders -> [at : {"idle", "send", "record"},
                                 row : Cmds \cup {None}, yes : BOOLEAN,
                                 waiter : Calls \cup {None}]]
    BY DEF Init, Idle
  <2>2. /\ step \in [Calls -> Steps]
        /\ channel \in [Calls -> {"empty", "yes", "no"}]
        /\ rows \in [Cmds -> Statuses]
    BY DEF Init, Steps, Statuses
  <2>3. /\ attempt \in [Calls -> 0..MaxAttempts]
        /\ asked \in [Cmds -> 0..2]
    BY CallsAssumption DEF Init
  <2> QED
    BY <2>1, <2>2, <2>3 DEF TypeOK, Init
<1>2. ChannelOK /\ PendingOK /\ CmdOK /\ RunNeedsOwnYes
  BY DEF Init, ChannelOK, PendingOK, CmdOK, RunNeedsOwnYes
<1>3. SenderOK
  BY DEF Init, SenderOK, Idle
<1> QED
  BY <1>1, <1>2, <1>3 DEF GateInv

(* The end of a call, or its next attempt, touches that call only. *)
LEMMA EndOrNext ==
    ASSUME TypeOK, NEW c \in Calls, End(c) \/ NextAttempt(c)
    PROVE  /\ step' \in [Calls -> Steps] /\ step'[c] \in {"try", "ended"}
           /\ cmd' \in [Calls -> Cmds \cup {None}]
           /\ attempt' \in [Calls -> 0..MaxAttempts]
           /\ \A b \in Calls \ {c} : step'[b] = step[b] /\ cmd'[b] = cmd[b]
           /\ step'[c] = "try" => cmd'[c] = cmd[c]
<1>1. CASE End(c)
  <2>1. 0 \in 0..MaxAttempts
    BY CallsAssumption
  <2> QED
    BY <1>1, <2>1 DEF End, TypeOK, Steps
<1>2. CASE NextAttempt(c) /\ ~End(c)
  <2>1. attempt[c] + 1 \in 0..MaxAttempts
    BY <1>2, CallsAssumption DEF NextAttempt, TypeOK
  <2> QED
    BY <1>2, <2>1 DEF NextAttempt, TypeOK, Steps
<1> QED
  BY <1>1, <1>2

LEMMA TypeStep == TypeOK /\ CmdOK /\ SenderOK /\ [Next]_vars => TypeOK'
<1> SUFFICES ASSUME TypeOK, CmdOK, SenderOK, [Next]_vars PROVE TypeOK'
  OBVIOUS
<1> USE DEF callVars, gateVars, history
<1>1. ASSUME NEW c \in Calls, TryFails(c) \/ RunEnds(c) PROVE TypeOK'
  BY <1>1, EndOrNext DEF TryFails, RunEnds, TypeOK
<1>2. ASSUME NEW c \in Calls, RunPlain(c) PROVE TypeOK'
  BY <1>2 DEF RunPlain, TypeOK, Steps
<1>3. ASSUME NEW c \in Calls, Request(c) PROVE TypeOK'
  <2>1. cmd[c] \in Cmds
    BY <1>3 DEF Request, CmdOK
  <2>2. pending' \in [Cmds -> Calls \cup {None}] /\ step' \in [Calls -> Steps]
    BY <1>3, <2>1 DEF Request, Register, TypeOK, Steps
  <2>3. asked' \in [Cmds -> 0..2]
    BY <1>3, <2>1 DEF Request, TypeOK
  <2>4. callbacks' \subseteq Calls \X Cmds
    BY <1>3, <2>1 DEF Request, TypeOK
  <2> QED
    BY <1>3, <2>2, <2>3, <2>4 DEF Request, TypeOK
<1>4. ASSUME NEW c \in Calls, Hear(c) \/ TimeOut(c) PROVE TypeOK'
  <2>1. /\ pending' \in [Cmds -> Calls \cup {None}]
        /\ channel' \in [Calls -> {"empty", "yes", "no"}]
        /\ granted' \subseteq Calls
        /\ UNCHANGED <<callbacks, rows, decider, asked, byChat>>
    BY <1>4 DEF Hear, TimeOut, Deregister, TypeOK
  <2>2. CASE End(c)
    BY <2>1, <2>2, EndOrNext DEF TypeOK
  <2>3. CASE step' = [step EXCEPT ![c] = "run"] /\ UNCHANGED <<cmd, attempt>>
    BY <2>1, <2>3 DEF TypeOK, Steps
  <2> QED
    BY <1>4, <2>2, <2>3 DEF Hear, TimeOut
<1>5. ASSUME NEW c \in Calls, NEW k \in Cmds, Execute(c, k) PROVE TypeOK'
  <2>1. CASE End(c)
    BY <1>5, <2>1, EndOrNext DEF Execute, TypeOK
  <2>2. CASE ~End(c)
    <3>1. 1 \in 0..MaxAttempts
      BY CallsAssumption
    <3> QED
      BY <1>5, <2>2, <3>1 DEF Execute, Refused, TypeOK, Steps
  <2> QED
    BY <2>1, <2>2
<1>6. ASSUME NEW c \in Calls, NEW k \in Cmds, OnRequest(c, k) PROVE TypeOK'
  BY <1>6 DEF OnRequest, CreateApproval, TypeOK, Statuses
<1>7. ASSUME NEW d \in Deciders, NEW r \in Cmds, NEW yes \in BOOLEAN, Decide(d, r, yes)
      PROVE  TypeOK'
  <2>1. pending[r] \in Calls \cup {None}
    BY DEF TypeOK
  <2>2. decider' \in [Deciders -> [at : {"idle", "send", "record"},
                                   row : Cmds \cup {None}, yes : BOOLEAN,
                                   waiter : Calls \cup {None}]]
    BY <1>7, <2>1 DEF Decide, TypeOK
  <2>3. pending' \in [Cmds -> Calls \cup {None}]
    BY <1>7 DEF Decide, TakeWaiter, TypeOK
  <2> QED
    BY <1>7, <2>2, <2>3 DEF Decide, TypeOK
<1>8. ASSUME NEW d \in Deciders, SendVerdict(d) PROVE TypeOK'
  <2>1. decider[d].row \in Cmds \cup {None} /\ decider[d].yes \in BOOLEAN
    BY DEF TypeOK
  <2>2. decider' \in [Deciders -> [at : {"idle", "send", "record"},
                                   row : Cmds \cup {None}, yes : BOOLEAN,
                                   waiter : Calls \cup {None}]]
    BY <1>8, <2>1 DEF SendVerdict, TypeOK
  <2>3. decider[d].waiter \in Calls
    BY <1>8 DEF SendVerdict, SenderOK
  <2>4. channel' \in [Calls -> {"empty", "yes", "no"}] /\ granted' \subseteq Calls
    BY <1>8, <2>3 DEF SendVerdict, TypeOK
  <2> QED
    BY <1>8, <2>2, <2>4 DEF SendVerdict, TypeOK
<1>9. ASSUME NEW d \in Deciders, Record(d) PROVE TypeOK'
  <2>1. decider' \in [Deciders -> [at : {"idle", "send", "record"},
                                   row : Cmds \cup {None}, yes : BOOLEAN,
                                   waiter : Calls \cup {None}]]
    BY <1>9 DEF Record, Idle, TypeOK
  <2>2. rows' \in [Cmds -> Statuses]
    BY <1>9 DEF Record, RecordDecision, TypeOK, Statuses
  <2> QED
    BY <1>9, <2>1, <2>2 DEF Record, TypeOK
<1>10. ASSUME NEW r \in Cmds, ApproveByChat(r) PROVE TypeOK'
  BY <1>10 DEF ApproveByChat, RecordDecision, TypeOK, Statuses
<1>11. CASE Restart
  <2>1. decider' \in [Deciders -> [at : {"idle", "send", "record"},
                                   row : Cmds \cup {None}, yes : BOOLEAN,
                                   waiter : Calls \cup {None}]]
    BY <1>11 DEF Restart, Idle
  <2>2. attempt' \in [Calls -> 0..MaxAttempts]
    BY <1>11, CallsAssumption DEF Restart
  <2>3. /\ step' \in [Calls -> Steps] /\ cmd' \in [Calls -> Cmds \cup {None}]
        /\ channel' \in [Calls -> {"empty", "yes", "no"}]
        /\ pending' \in [Cmds -> Calls \cup {None}]
    BY <1>11 DEF Restart, Steps
  <2> QED
    BY <1>11, <2>1, <2>2, <2>3 DEF Restart, TypeOK
<1>12. CASE UNCHANGED vars
  BY <1>12 DEF vars, TypeOK
<1> QED
  BY <1>1, <1>2, <1>3, <1>4, <1>5, <1>6, <1>7, <1>8, <1>9, <1>10, <1>11, <1>12
     DEF Next, CallStep, DeciderStep

-----------------------------------------------------------------------------
(* What the calls do to the gate. *)

LEMMA CallGate ==
    ASSUME GateInv, NEW c \in Calls, CallStep(c)
    PROVE  ChannelOK' /\ PendingOK' /\ SenderOK' /\ CmdOK' /\ RunNeedsOwnYes'
<1> USE DEF GateInv, callVars, gateVars, history
<1> DEFINE Same == UNCHANGED <<gateVars, decider, granted>>
<1>1. CASE TryFails(c) \/ RunEnds(c)
  <2>1. /\ step[c] \in {"try", "run"} /\ step'[c] \in {"try", "ended"}
        /\ \A b \in Calls \ {c} : step'[b] = step[b] /\ cmd'[b] = cmd[b]
        /\ step'[c] = "try" => cmd'[c] = cmd[c]
        /\ UNCHANGED <<channel, pending, decider>>
        /\ \A b \in Calls \ {c} : b \in granted' <=> b \in granted
    BY <1>1, EndOrNext DEF TryFails, RunEnds
  <2>2. ChannelOK'
    BY <2>1 DEF ChannelOK
  <2>3. PendingOK'
    BY <2>1 DEF PendingOK, NobodySends, TypeOK
  <2>4. SenderOK'
    BY <2>1 DEF SenderOK
  <2>5. CmdOK' /\ RunNeedsOwnYes'
    BY <2>1 DEF CmdOK, RunNeedsOwnYes
  <2> QED
    BY <2>2, <2>3, <2>4, <2>5
<1>2. CASE RunPlain(c)
  <2>1. /\ step[c] = "try" /\ step' = [step EXCEPT ![c] = "run"] /\ cmd[c] \notin SudoCmds
        /\ UNCHANGED <<cmd, channel, pending, decider, granted>>
    BY <1>2 DEF RunPlain
  <2> QED
    BY <2>1 DEF ChannelOK, PendingOK, NobodySends, SenderOK, CmdOK, RunNeedsOwnYes, TypeOK
<1>3. CASE Request(c)
  <2>1. /\ step[c] = "try" /\ step' = [step EXCEPT ![c] = "asked"]
        /\ pending' = [pending EXCEPT ![cmd[c]] = c] /\ cmd[c] \in Cmds
        /\ channel[c] = "empty"
        /\ UNCHANGED <<cmd, channel, decider, granted>>
    BY <1>3 DEF Request, Register, CmdOK, ChannelOK
  <2>2. NobodySends(c)
    BY <2>1 DEF NobodySends, SenderOK
  <2>3. PendingOK'
    BY <2>1, <2>2 DEF PendingOK, NobodySends, TypeOK
  <2> QED
    BY <2>1, <2>3 DEF ChannelOK, SenderOK, CmdOK, RunNeedsOwnYes, TypeOK
<1>4. CASE Hear(c)
  <2>1. /\ step[c] = "asked" /\ channel[c] # "empty" /\ cmd[c] \in Cmds
        /\ channel' = [channel EXCEPT ![c] = "empty"]
        /\ pending' = [pending EXCEPT ![cmd[c]] = None]
        /\ UNCHANGED <<decider, granted>>
    BY <1>4 DEF Hear, Deregister, CmdOK
  <2>2. /\ step' \in [Calls -> Steps] /\ step'[c] \in {"run", "ended"}
        /\ \A b \in Calls \ {c} : step'[b] = step[b] /\ cmd'[b] = cmd[b]
        /\ step'[c] = "run" => cmd'[c] = cmd[c] /\ channel[c] = "yes"
    <3>1. CASE channel[c] = "yes"
      BY <1>4, <3>1 DEF Hear, TypeOK, Steps
    <3>2. CASE channel[c] # "yes"
      BY <1>4, <3>2 DEF Hear, End, TypeOK, Steps
    <3> QED
      BY <3>1, <3>2
  <2>3. ChannelOK' /\ CmdOK' /\ RunNeedsOwnYes'
    BY <2>1, <2>2 DEF ChannelOK, CmdOK, RunNeedsOwnYes, TypeOK
  <2>4. NobodySends(c) /\ \A k \in Cmds : pending[k] # c
    BY <2>1, NamesAssumption DEF SenderOK, PendingOK, NobodySends
  <2>5. SenderOK'
    BY <2>1, <2>2, <2>4 DEF SenderOK, NobodySends, TypeOK
  <2>6. PendingOK'
    BY <2>1, <2>2, <2>4 DEF PendingOK, NobodySends, TypeOK
  <2> QED
    BY <2>3, <2>5, <2>6
<1>5. CASE TimeOut(c)
  <2>1. /\ step[c] = "asked" /\ cmd[c] \in Cmds
        /\ channel' = [channel EXCEPT ![c] = "empty"]
        /\ pending' = [pending EXCEPT ![cmd[c]] = None]
        /\ step' = [step EXCEPT ![c] = "ended"]
        /\ cmd' = [cmd EXCEPT ![c] = None]
        /\ UNCHANGED decider /\ granted' = granted \ {c}
    BY <1>5 DEF TimeOut, Deregister, End, CmdOK
  <2>2. ChannelOK' /\ CmdOK' /\ RunNeedsOwnYes'
    BY <2>1 DEF ChannelOK, CmdOK, RunNeedsOwnYes, TypeOK
  <2>3. SenderOK'
    BY <2>1 DEF SenderOK, TypeOK
  <2>4. \A k \in Cmds : pending'[k] # c
    BY <2>1, NamesAssumption DEF PendingOK, TypeOK
  <2>5. PendingOK'
    BY <2>1, <2>4 DEF PendingOK, NobodySends, TypeOK
  <2> QED
    BY <2>2, <2>3, <2>5
<1> QED
  BY <1>1, <1>2, <1>3, <1>4, <1>5 DEF CallStep

LEMMA GateStep == GateInv /\ [Next]_vars => GateInv'
<1> SUFFICES ASSUME GateInv, [Next]_vars PROVE GateInv'
  OBVIOUS
<1> USE DEF callVars, gateVars, history
<1>0. TypeOK'
  BY TypeStep DEF GateInv
<1> SUFFICES ChannelOK' /\ PendingOK' /\ SenderOK' /\ CmdOK' /\ RunNeedsOwnYes'
  BY <1>0 DEF GateInv
<1>1. ASSUME NEW c \in Calls, NEW k \in Cmds, Execute(c, k)
      PROVE  ChannelOK' /\ PendingOK' /\ SenderOK' /\ CmdOK' /\ RunNeedsOwnYes'
  <2>1. /\ step[c] = "idle" /\ step'[c] \in {"try", "ended"}
        /\ \A b \in Calls \ {c} : step'[b] = step[b] /\ cmd'[b] = cmd[b]
        /\ step'[c] = "try" => cmd'[c] = k
        /\ UNCHANGED <<channel, pending, decider, granted>>
    BY <1>1 DEF Execute, Refused, End, GateInv, TypeOK
  <2> QED
    BY <2>1 DEF GateInv, ChannelOK, PendingOK, NobodySends, SenderOK, CmdOK, RunNeedsOwnYes, TypeOK
<1>2. ASSUME UNCHANGED <<step, cmd, channel, pending, granted>>,
             \A d \in Deciders : decider'[d].at = "send" => decider'[d] = decider[d]
      PROVE  ChannelOK' /\ PendingOK' /\ SenderOK' /\ CmdOK' /\ RunNeedsOwnYes'
  <2>1. ChannelOK' /\ CmdOK' /\ RunNeedsOwnYes'
    BY <1>2 DEF GateInv, ChannelOK, CmdOK, RunNeedsOwnYes
  <2>2. PendingOK' /\ SenderOK'
    BY <1>2 DEF GateInv, PendingOK, NobodySends, SenderOK
  <2> QED
    BY <2>1, <2>2
<1>3. ASSUME NEW c \in Calls, NEW k \in Cmds, OnRequest(c, k)
      PROVE  ChannelOK' /\ PendingOK' /\ SenderOK' /\ CmdOK' /\ RunNeedsOwnYes'
  BY <1>2, <1>3 DEF OnRequest
<1>4. ASSUME NEW d \in Deciders, NEW r \in Cmds, NEW yes \in BOOLEAN, Decide(d, r, yes)
      PROVE  ChannelOK' /\ PendingOK' /\ SenderOK' /\ CmdOK' /\ RunNeedsOwnYes'
  <2>1. /\ pending' = [pending EXCEPT ![r] = None]
        /\ UNCHANGED <<step, cmd, channel, granted>>
        /\ \A e \in Deciders \ {d} : decider'[e] = decider[e]
        /\ decider'[d].waiter = pending[r] /\ decider[d].at = "idle"
        /\ decider'[d].at = "send" => pending[r] # None
    BY <1>4 DEF Decide, TakeWaiter, GateInv, TypeOK
  <2>2. pending[r] \in Calls \cup {None}
    BY DEF GateInv, TypeOK
  <2>3. SenderOK'
    BY <2>1, <2>2 DEF GateInv, SenderOK, PendingOK, NobodySends
  <2>4. PendingOK'
    <3> SUFFICES ASSUME NEW k \in Cmds, pending'[k] # None
                 PROVE  /\ step[pending[k]] = "asked" /\ cmd[pending[k]] = k
                        /\ channel[pending[k]] = "empty" /\ pending'[k] = pending[k]
                        /\ NobodySends(pending[k])'
      BY <2>1 DEF PendingOK, NobodySends
    <3>1. k # r /\ pending'[k] = pending[k]
      BY <2>1 DEF GateInv, TypeOK
    <3>2. /\ step[pending[k]] = "asked" /\ cmd[pending[k]] = k
          /\ channel[pending[k]] = "empty" /\ NobodySends(pending[k])
      BY <3>1 DEF GateInv, PendingOK
    <3>3. pending[r] # None => cmd[pending[r]] = r
      BY DEF GateInv, PendingOK
    <3>4. NobodySends(pending[k])'
      BY <2>1, <3>1, <3>2, <3>3 DEF NobodySends
    <3> QED
      BY <3>1, <3>2, <3>4
  <2> QED
    BY <2>1, <2>3, <2>4 DEF GateInv, ChannelOK, CmdOK, RunNeedsOwnYes
<1>5. ASSUME NEW d \in Deciders, SendVerdict(d)
      PROVE  ChannelOK' /\ PendingOK' /\ SenderOK' /\ CmdOK' /\ RunNeedsOwnYes'
  <2> DEFINE w == decider[d].waiter
  <2>1. /\ decider[d].at = "send" /\ w \in Calls /\ channel[w] = "empty"
        /\ decider'[d].at = "record"
        /\ \A e \in Deciders \ {d} : decider'[e] = decider[e]
        /\ UNCHANGED <<step, cmd, pending>>
    BY <1>5 DEF SendVerdict, GateInv, SenderOK, TypeOK
  <2>2. \/ /\ step[w] = "asked"
           /\ granted \subseteq granted'
           /\ \A b \in Calls \ {w} : channel'[b] = channel[b]
           /\ channel'[w] = "yes" => w \in granted'
        \/ UNCHANGED <<channel, granted>>
    BY <1>5, <2>1 DEF SendVerdict, GateInv, TypeOK
  <2>3. \A e \in Deciders \ {d} : decider[e].at = "send" => decider[e].waiter # w
    BY <2>1 DEF GateInv, SenderOK
  <2>4. \A k \in Cmds : pending[k] # None => pending[k] # w /\ pending[k] \in Calls
    BY <2>1 DEF GateInv, PendingOK, NobodySends, TypeOK
  <2>5. ChannelOK' /\ CmdOK' /\ RunNeedsOwnYes'
    BY <2>1, <2>2 DEF GateInv, ChannelOK, CmdOK, RunNeedsOwnYes
  <2>6. SenderOK'
    <3> SUFFICES ASSUME NEW e \in Deciders, decider'[e].at = "send"
                 PROVE  /\ decider'[e].waiter \in Calls
                        /\ channel'[decider'[e].waiter] = "empty"
                        /\ step'[decider'[e].waiter] \in {"asked", "ended"}
                        /\ \A f \in Deciders :
                              /\ decider'[f].at = "send"
                              /\ decider'[f].waiter = decider'[e].waiter
                              => f = e
      BY DEF SenderOK
    <3>1. e # d /\ decider'[e] = decider[e] /\ decider[e].waiter # w
      BY <2>1, <2>3
    <3>2. channel'[decider[e].waiter] = channel[decider[e].waiter]
      BY <2>2, <3>1 DEF GateInv, SenderOK
    <3> QED
      BY <2>1, <3>1, <3>2 DEF GateInv, SenderOK
  <2>7. PendingOK'
    <3> SUFFICES ASSUME NEW k \in Cmds, pending[k] # None
                 PROVE  /\ step[pending[k]] = "asked" /\ cmd[pending[k]] = k
                        /\ channel'[pending[k]] = "empty" /\ NobodySends(pending[k])'
      BY <2>1 DEF PendingOK, NobodySends
    <3>1. /\ step[pending[k]] = "asked" /\ cmd[pending[k]] = k
          /\ channel[pending[k]] = "empty" /\ NobodySends(pending[k])
      BY DEF GateInv, PendingOK
    <3>2. channel'[pending[k]] = channel[pending[k]]
      BY <2>2, <2>4
    <3>3. NobodySends(pending[k])'
      BY <2>1, <3>1 DEF NobodySends
    <3> QED
      BY <3>1, <3>2, <3>3
  <2> QED
    BY <2>5, <2>6, <2>7
<1>6. ASSUME NEW d \in Deciders, Record(d)
      PROVE  ChannelOK' /\ PendingOK' /\ SenderOK' /\ CmdOK' /\ RunNeedsOwnYes'
  <2>1. \A e \in Deciders : decider'[e].at = "send" => decider'[e] = decider[e]
    BY <1>6 DEF Record, Idle, GateInv, TypeOK
  <2> QED
    BY <1>2, <1>6, <2>1 DEF Record
<1>7. ASSUME NEW r \in Cmds, ApproveByChat(r)
      PROVE  ChannelOK' /\ PendingOK' /\ SenderOK' /\ CmdOK' /\ RunNeedsOwnYes'
  BY <1>2, <1>7 DEF ApproveByChat
<1>8. CASE Restart
  <2>1. /\ \A c \in Calls : step'[c] \in {"idle", "ended"} /\ channel'[c] = "empty"
        /\ \A k \in Cmds : pending'[k] = None
        /\ \A d \in Deciders : decider'[d].at # "send"
    BY <1>8 DEF Restart, Idle
  <2> QED
    BY <2>1 DEF ChannelOK, PendingOK, SenderOK, CmdOK, RunNeedsOwnYes
<1>9. CASE UNCHANGED vars
  BY <1>2, <1>9 DEF vars
<1> QED
  BY <1>1, <1>3, <1>4, <1>5, <1>6, <1>7, <1>8, <1>9, CallGate DEF Next, DeciderStep

(* The invariant of the gate: where requests, verdicts and decisions are.   *)
THEOREM GateInvariance == Spec => []GateInv
<1> QED
  BY InitGate, GateStep, PTL DEF Spec

(* TypeOK is an invariant, for every instance.                              *)
THEOREM TypeCorrect == Spec => []TypeOK
<1>1. GateInv => TypeOK
  BY DEF GateInv
<1> QED
  BY <1>1, GateInvariance, PTL

(* A sudo command runs on a yes to its own attempt only.                    *)
THEOREM SudoNeedsOwnYes == Spec => []RunNeedsOwnYes
<1>1. GateInv => RunNeedsOwnYes
  BY DEF GateInv
<1> QED
  BY <1>1, GateInvariance, PTL

(* The call that decides is never blocked in Resolve.                       *)
THEOREM DecisionsNeverBlock == Spec => []ResolverNeverBlocks
<1>1. GateInv => ResolverNeverBlocks
  BY DEF GateInv, SenderOK, ResolverNeverBlocks
<1> QED
  BY <1>1, GateInvariance, PTL

(* A decision that has been recorded is never changed.                      *)
THEOREM RecordedStands == Spec => DecisionStands
<1>1. TypeOK /\ [Next]_vars =>
         [\A r \in Cmds : rows[r] \in {"approved", "rejected"} => rows'[r] = rows[r]]_vars
  <2> SUFFICES ASSUME TypeOK, [Next]_vars, NEW r \in Cmds, rows[r] \in {"approved", "rejected"}
               PROVE  rows'[r] = rows[r]
    OBVIOUS
  <2>1. ASSUME NEW k \in Cmds, CreateApproval(k) PROVE rows'[r] = rows[r]
    BY <2>1 DEF CreateApproval, TypeOK
  <2>2. ASSUME NEW k, NEW yes, RecordDecision(k, yes) PROVE rows'[r] = rows[r]
    BY <2>2 DEF RecordDecision, TypeOK
  <2>3. ASSUME NEW c \in Calls, CallStep(c) PROVE rows'[r] = rows[r]
    BY <2>3 DEF CallStep, TryFails, RunPlain, Request, Hear, TimeOut, RunEnds
  <2>4. ASSUME NEW d \in Deciders, DeciderStep(d) PROVE rows'[r] = rows[r]
    BY <2>2, <2>4 DEF DeciderStep, SendVerdict, Record
  <2>5. ASSUME NEW c \in Calls, NEW k \in Cmds, Execute(c, k) \/ OnRequest(c, k)
        PROVE  rows'[r] = rows[r]
    BY <2>1, <2>5 DEF Execute, OnRequest
  <2>6. ASSUME NEW k \in Cmds, ApproveByChat(k) PROVE rows'[r] = rows[r]
    BY <2>2, <2>6 DEF ApproveByChat
  <2>7. ASSUME NEW d \in Deciders, NEW k \in Cmds, NEW yes \in BOOLEAN, Decide(d, k, yes)
        PROVE  rows'[r] = rows[r]
    BY <2>7 DEF Decide
  <2>8. CASE Restart \/ UNCHANGED vars
    BY <2>8 DEF Restart, vars
  <2> QED
    BY <2>3, <2>4, <2>5, <2>6, <2>7, <2>8 DEF Next
<1> QED
  BY <1>1, TypeCorrect, PTL DEF Spec, DecisionStands

-----------------------------------------------------------------------------
(* The first request for a command.  A call waits for k; somebody decides k. *)
Asker(c, k)  == step[c] = "asked" /\ cmd[c] = k
Deciding(k)  == \E d \in Deciders : decider[d].at # "idle" /\ decider[d].row = k
Sending(c)   == \E d \in Deciders : decider[d].at = "send" /\ decider[d].waiter = c

(* While k has been asked for once only, one call waits for it. *)
AskedOK ==
    \A k \in Cmds, c \in Calls :
        Asker(c, k) =>
            /\ asked[k] # 0
            /\ asked[k] = 1 => \A b \in Calls : Asker(b, k) => b = c

(* A command nobody asked for has left no trace. *)
NeverAsked ==
    \A k \in Cmds :
        asked[k] = 0 =>
            /\ rows[k] = "absent"
            /\ \A c \in Calls : <<c, k>> \notin callbacks
            /\ ~Deciding(k)

(* The card of k is there or will be, and a decision on it reaches c. *)
CardLeads(c, k) ==
    /\ pending[k] = c
    /\ ~Deciding(k)
    /\ \/ k \in byChat
       \/ rows[k] = "pending"
       \/ rows[k] = "absent" /\ <<c, k>> \in callbacks

LeadsOK ==
    \A k \in Cmds, c \in Calls :
        Asker(c, k) /\ asked[k] = 1 => CardLeads(c, k) \/ channel[c] # "empty" \/ Sending(c)

FirstInv == AskedOK /\ NeverAsked /\ LeadsOK

(* A step of a call that does not touch the gate. *)
LEMMA FirstKept ==
    ASSUME FirstInv, UNCHANGED <<channel, pending, callbacks, rows, decider, asked, byChat>>,
           \A k \in Cmds, c \in Calls : Asker(c, k)' <=> Asker(c, k)
    PROVE  FirstInv'
<1>1. /\ \A k \in Cmds : Deciding(k)' <=> Deciding(k)
      /\ \A c \in Calls : Sending(c)' <=> Sending(c)
      /\ \A k \in Cmds, c \in Calls : CardLeads(c, k)' <=> CardLeads(c, k)
  BY DEF Deciding, Sending, CardLeads
<1>2. AskedOK'
  BY DEF FirstInv, AskedOK
<1>3. NeverAsked'
  BY <1>1 DEF FirstInv, NeverAsked
<1>4. LeadsOK'
  BY <1>1 DEF FirstInv, LeadsOK
<1> QED
  BY <1>2, <1>3, <1>4 DEF FirstInv

LEMMA FirstRequest ==
    ASSUME GateInv, FirstInv, NEW c \in Calls, Request(c)
    PROVE  FirstInv'
<1> DEFINE k == cmd[c]
<1>1. /\ step[c] = "try" /\ step' = [step EXCEPT ![c] = "asked"]
      /\ k \in Cmds
      /\ pending' = [pending EXCEPT ![k] = c]
      /\ callbacks' = callbacks \cup {<<c, k>>}
      /\ asked' = [asked EXCEPT ![k] = IF @ < 2 THEN @ + 1 ELSE @]
      /\ UNCHANGED <<cmd, channel, rows, decider, byChat>>
  BY DEF Request, Register, GateInv, CmdOK
<1>2. /\ asked[k] = 0 => asked'[k] = 1
      /\ asked[k] # 0 => asked'[k] = 2
      /\ \A j \in Cmds \ {k} : asked'[j] = asked[j]
  BY <1>1 DEF GateInv, TypeOK
<1>3. \A j \in Cmds, b \in Calls : Asker(b, j)' <=> Asker(b, j) \/ (b = c /\ j = k)
  BY <1>1 DEF Asker, GateInv, TypeOK
<1>4. /\ \A j \in Cmds : Deciding(j)' <=> Deciding(j)
      /\ \A b \in Calls : Sending(b)' <=> Sending(b)
  BY <1>1 DEF Deciding, Sending
<1>5. AskedOK'
  BY <1>2, <1>3 DEF FirstInv, AskedOK
<1>6. NeverAsked'
  BY <1>1, <1>2, <1>4 DEF FirstInv, NeverAsked
<1>7. LeadsOK'
  <2> SUFFICES ASSUME NEW j \in Cmds, NEW b \in Calls, Asker(b, j)', asked'[j] = 1
               PROVE  CardLeads(b, j)' \/ channel'[b] # "empty" \/ Sending(b)'
    BY DEF LeadsOK
  <2>1. CASE j = k
    <3>1. asked[k] = 0
      BY <1>2, <2>1
    <3>2. b = c
      BY <1>1, <1>3, <2>1, <3>1 DEF FirstInv, AskedOK
    <3>3. rows[k] = "absent" /\ ~Deciding(k)
      BY <1>1, <3>1 DEF FirstInv, NeverAsked
    <3>4. pending'[k] = c
      BY <1>1 DEF GateInv, TypeOK
    <3> QED
      BY <1>1, <1>4, <2>1, <3>2, <3>3, <3>4 DEF CardLeads
  <2>2. CASE j # k
    <3>1. Asker(b, j) /\ asked[j] = 1
      BY <1>2, <1>3, <2>2
    <3>2. CardLeads(b, j) \/ channel[b] # "empty" \/ Sending(b)
      BY <3>1 DEF FirstInv, LeadsOK
    <3>3. pending'[j] = pending[j]
      BY <1>1, <2>2
    <3> QED
      BY <1>1, <1>4, <3>2, <3>3 DEF CardLeads
  <2> QED
    BY <2>1, <2>2
<1> QED
  BY <1>5, <1>6, <1>7 DEF FirstInv

(* A call that stops waiting was the only one for its command, or one of    *)
(* several.                                                                 *)
LEMMA FirstEnds ==
    ASSUME GateInv, FirstInv, NEW c \in Calls, Hear(c) \/ TimeOut(c)
    PROVE  FirstInv'
<1> DEFINE k == cmd[c]
<1>1. /\ step[c] = "asked" /\ k \in Cmds
      /\ pending' = [pending EXCEPT ![k] = None]
      /\ channel' = [channel EXCEPT ![c] = "empty"]
      /\ UNCHANGED <<callbacks, rows, decider, asked, byChat>>
  BY DEF Hear, TimeOut, Deregister, GateInv, CmdOK, history
<1>2. /\ step'[c] # "asked"
      /\ \A b \in Calls \ {c} : step'[b] = step[b] /\ cmd'[b] = cmd[b]
  BY DEF Hear, TimeOut, End, GateInv, TypeOK
<1>3. \A j \in Cmds, b \in Calls : Asker(b, j)' <=> Asker(b, j) /\ b # c
  BY <1>2 DEF Asker
<1>4. /\ \A j \in Cmds : Deciding(j)' <=> Deciding(j)
      /\ \A b \in Calls : Sending(b)' <=> Sending(b)
  BY <1>1 DEF Deciding, Sending
<1>5. AskedOK' /\ NeverAsked'
  BY <1>1, <1>3, <1>4 DEF FirstInv, AskedOK, NeverAsked
<1>6. LeadsOK'
  <2> SUFFICES ASSUME NEW j \in Cmds, NEW b \in Calls, Asker(b, j)', asked'[j] = 1
               PROVE  CardLeads(b, j)' \/ channel'[b] # "empty" \/ Sending(b)'
    BY DEF LeadsOK
  <2>1. Asker(b, j) /\ b # c /\ asked[j] = 1
    BY <1>1, <1>3
  <2>2. j # k
    BY <1>1, <2>1 DEF Asker, FirstInv, AskedOK
  <2>3. CardLeads(b, j) \/ channel[b] # "empty" \/ Sending(b)
    BY <2>1 DEF FirstInv, LeadsOK
  <2>4. pending'[j] = pending[j] /\ channel'[b] = channel[b]
    BY <1>1, <2>1, <2>2 DEF GateInv, TypeOK
  <2> QED
    BY <1>1, <1>4, <2>3, <2>4 DEF CardLeads
<1> QED
  BY <1>5, <1>6 DEF FirstInv

(* The Boss decides. *)
LEMMA FirstDecide ==
    ASSUME GateInv, FirstInv, NEW d \in Deciders, NEW r \in Cmds, NEW yes \in BOOLEAN,
           Decide(d, r, yes)
    PROVE  FirstInv'
<1>1. /\ decider[d].at = "idle" /\ rows[r] # "absent"
      /\ decider'[d].row = r /\ decider'[d].waiter = pending[r]
      /\ decider'[d].at = IF pending[r] = None THEN "record" ELSE "send"
      /\ \A e \in Deciders \ {d} : decider'[e] = decider[e]
      /\ pending' = [pending EXCEPT ![r] = None]
      /\ UNCHANGED <<step, cmd, channel, callbacks, rows, asked, byChat>>
  BY DEF Decide, TakeWaiter, GateInv, TypeOK, callVars, history
<1>2. \A j \in Cmds : Deciding(j)' <=> Deciding(j) \/ j = r
  BY <1>1 DEF Deciding
<1>3. \A b \in Calls : Sending(b)' <=> Sending(b) \/ pending[r] = b
  BY <1>1, NamesAssumption DEF Sending
<1>4. \A j \in Cmds, b \in Calls : Asker(b, j)' <=> Asker(b, j)
  BY <1>1 DEF Asker
<1>5. AskedOK' /\ NeverAsked'
  BY <1>1, <1>2, <1>4 DEF FirstInv, AskedOK, NeverAsked
<1>6. LeadsOK'
  <2> SUFFICES ASSUME NEW j \in Cmds, NEW b \in Calls, Asker(b, j)', asked'[j] = 1
               PROVE  CardLeads(b, j)' \/ channel'[b] # "empty" \/ Sending(b)'
    BY DEF LeadsOK
  <2>1. CardLeads(b, j) \/ channel[b] # "empty" \/ Sending(b)
    BY <1>1, <1>4 DEF FirstInv, LeadsOK
  <2>2. CASE j = r
    BY <1>1, <1>3, <2>1, <2>2 DEF CardLeads
  <2>3. CASE j # r
    <3>1. pending'[j] = pending[j]
      BY <1>1, <2>3
    <3> QED
      BY <1>1, <1>2, <1>3, <2>1, <2>3, <3>1 DEF CardLeads
  <2> QED
    BY <2>2, <2>3
<1> QED
  BY <1>5, <1>6 DEF FirstInv

(* The decision is sent, then recorded. *)
LEMMA FirstSend ==
    ASSUME GateInv, FirstInv, NEW d \in Deciders, SendVerdict(d)
    PROVE  FirstInv'
<1> DEFINE w == decider[d].waiter
<1>1. /\ decider[d].at = "send" /\ decider'[d].at = "record"
      /\ decider'[d].row = decider[d].row
      /\ \A e \in Deciders \ {d} : decider'[e] = decider[e]
      /\ \A b \in Calls \ {w} : channel'[b] = channel[b]
      /\ step[w] = "asked" /\ w \in Calls => channel'[w] # "empty"
      /\ UNCHANGED <<step, cmd, pending, callbacks, rows, asked, byChat>>
  BY DEF SendVerdict, GateInv, TypeOK, callVars
<1>2. \A j \in Cmds : Deciding(j)' <=> Deciding(j)
  BY <1>1 DEF Deciding
<1>3. \A b \in Calls : b # w => (Sending(b)' <=> Sending(b))
  BY <1>1 DEF Sending
<1>4. \A j \in Cmds, b \in Calls : Asker(b, j)' <=> Asker(b, j)
  BY <1>1 DEF Asker
<1>5. AskedOK' /\ NeverAsked'
  BY <1>1, <1>2, <1>4 DEF FirstInv, AskedOK, NeverAsked
<1>6. LeadsOK'
  <2> SUFFICES ASSUME NEW j \in Cmds, NEW b \in Calls, Asker(b, j)', asked'[j] = 1
               PROVE  CardLeads(b, j)' \/ channel'[b] # "empty" \/ Sending(b)'
    BY DEF LeadsOK
  <2>1. Asker(b, j) /\ asked[j] = 1
    BY <1>1, <1>4
  <2>2. CardLeads(b, j) \/ channel[b] # "empty" \/ Sending(b)
    BY <2>1 DEF FirstInv, LeadsOK
  <2>3. CASE b = w
    BY <1>1, <2>1, <2>3 DEF Asker
  <2>4. CASE b # w
    BY <1>1, <1>2, <1>3, <2>2, <2>4 DEF CardLeads
  <2> QED
    BY <2>3, <2>4
<1> QED
  BY <1>5, <1>6 DEF FirstInv

LEMMA FirstRecord ==
    ASSUME GateInv, FirstInv, NEW d \in Deciders, Record(d)
    PROVE  FirstInv'
<1> DEFINE r == decider[d].row
<1>1. /\ decider[d].at = "record" /\ decider'[d].at = "idle"
      /\ \A e \in Deciders \ {d} : decider'[e] = decider[e]
      /\ \A j \in Cmds : rows'[j] = rows[j] \/ (j = r /\ rows[j] = "pending")
      /\ UNCHANGED <<step, cmd, channel, pending, callbacks, asked, byChat>>
  BY DEF Record, RecordDecision, Idle, GateInv, TypeOK, callVars, gateVars, history
<1>2. \A j \in Cmds : (Deciding(j)' => Deciding(j)) /\ (j = r => Deciding(j))
  BY <1>1 DEF Deciding
<1>3. \A b \in Calls : Sending(b)' <=> Sending(b)
  BY <1>1 DEF Sending
<1>4. \A j \in Cmds, b \in Calls : Asker(b, j)' <=> Asker(b, j)
  BY <1>1 DEF Asker
<1>5. AskedOK' /\ NeverAsked'
  BY <1>1, <1>2, <1>4 DEF FirstInv, AskedOK, NeverAsked
<1>6. LeadsOK'
  BY <1>1, <1>2, <1>3, <1>4 DEF FirstInv, LeadsOK, CardLeads
<1> QED
  BY <1>5, <1>6 DEF FirstInv

(* The row appears, or is approved by chat. *)
LEMMA FirstRow ==
    ASSUME GateInv, FirstInv, NEW k \in Cmds,
           (\E c \in Calls : OnRequest(c, k)) \/ ApproveByChat(k)
    PROVE  FirstInv'
<1>1. /\ UNCHANGED <<step, cmd, channel, pending, decider, asked>>
      /\ \A j \in Cmds \ {k} : rows'[j] = rows[j]
      /\ \A j \in Cmds \ {k}, b \in Calls : <<b, j>> \in callbacks' <=> <<b, j>> \in callbacks
      /\ callbacks' \subseteq callbacks
      /\ byChat \subseteq byChat'
  BY DEF OnRequest, CreateApproval, ApproveByChat, RecordDecision, GateInv, TypeOK,
         callVars, gateVars, history
<1>2. k \in byChat' \/ (rows[k] = "absent" /\ rows'[k] = "pending") \/ rows'[k] = rows[k]
  BY DEF OnRequest, CreateApproval, ApproveByChat, GateInv, TypeOK
<1>3. k \in byChat' \/ rows'[k] # "absent"
  BY DEF OnRequest, CreateApproval, ApproveByChat, GateInv, TypeOK
<1>4. asked[k] # 0
  BY DEF OnRequest, ApproveByChat, FirstInv, NeverAsked
<1>5. /\ \A j \in Cmds, b \in Calls : Asker(b, j)' <=> Asker(b, j)
      /\ \A j \in Cmds : Deciding(j)' <=> Deciding(j)
      /\ \A b \in Calls : Sending(b)' <=> Sending(b)
  BY <1>1 DEF Asker, Deciding, Sending
<1>6. AskedOK'
  BY <1>1, <1>5 DEF FirstInv, AskedOK
<1>7. NeverAsked'
  <2> SUFFICES ASSUME NEW j \in Cmds, asked'[j] = 0
               PROVE  /\ rows'[j] = "absent"
                      /\ \A c \in Calls : <<c, j>> \notin callbacks'
                      /\ ~Deciding(j)'
    BY DEF NeverAsked
  <2>1. j # k /\ asked[j] = 0
    BY <1>1, <1>4
  <2>2. rows[j] = "absent" /\ ~Deciding(j) /\ \A c \in Calls : <<c, j>> \notin callbacks
    BY <2>1 DEF FirstInv, NeverAsked
  <2>3. rows'[j] = rows[j] /\ ~Deciding(j)'
    BY <1>1, <1>5, <2>1, <2>2
  <2>4. \A c \in Calls : <<c, j>> \notin callbacks'
    BY <1>1, <2>2
  <2> QED
    BY <2>2, <2>3, <2>4
<1>8. \A j \in Cmds, b \in Calls : CardLeads(b, j) => CardLeads(b, j)'
  <2> SUFFICES ASSUME NEW j \in Cmds, NEW b \in Calls, CardLeads(b, j)
               PROVE  CardLeads(b, j)'
    OBVIOUS
  <2>1. CASE j = k
    BY <1>1, <1>2, <1>3, <1>5, <2>1 DEF CardLeads
  <2>2. CASE j # k
    BY <1>1, <1>5, <2>2 DEF CardLeads
  <2> QED
    BY <2>1, <2>2
<1>9. LeadsOK'
  BY <1>1, <1>5, <1>8 DEF FirstInv, LeadsOK
<1> QED
  BY <1>6, <1>7, <1>9 DEF FirstInv

LEMMA FirstStep == GateInv /\ FirstInv /\ [Next]_vars => FirstInv'
<1> SUFFICES ASSUME GateInv, FirstInv, [Next]_vars PROVE FirstInv'
  OBVIOUS
<1> USE DEF callVars, gateVars, history
<1>1. ASSUME NEW c \in Calls, TryFails(c) \/ RunPlain(c) \/ RunEnds(c) PROVE FirstInv'
  <2>1. /\ step[c] # "asked" /\ step'[c] # "asked"
        /\ \A b \in Calls \ {c} : step'[b] = step[b] /\ cmd'[b] = cmd[b]
    <3>1. CASE RunPlain(c)
      BY <3>1 DEF RunPlain, GateInv, TypeOK
    <3>2. CASE TryFails(c) \/ RunEnds(c)
      BY <3>2, EndOrNext DEF TryFails, RunEnds, GateInv
    <3> QED
      BY <1>1, <3>1, <3>2
  <2>2. \A k \in Cmds, b \in Calls : Asker(b, k)' <=> Asker(b, k)
    BY <2>1 DEF Asker
  <2> QED
    BY <1>1, <2>2, FirstKept DEF TryFails, RunPlain, RunEnds
<1>2. ASSUME NEW c \in Calls, NEW k \in Cmds, Execute(c, k) PROVE FirstInv'
  <2>1. /\ step[c] # "asked" /\ step'[c] # "asked"
        /\ \A b \in Calls \ {c} : step'[b] = step[b] /\ cmd'[b] = cmd[b]
    BY <1>2 DEF Execute, Refused, End, GateInv, TypeOK
  <2>2. \A j \in Cmds, b \in Calls : Asker(b, j)' <=> Asker(b, j)
    BY <2>1 DEF Asker
  <2> QED
    BY <1>2, <2>2, FirstKept DEF Execute
<1>3. CASE Restart
  <2>1. /\ \A c \in Calls : step'[c] # "asked"
        /\ callbacks' = {} /\ UNCHANGED <<rows, asked>>
        /\ \A d \in Deciders : decider'[d].at = "idle"
    BY <1>3 DEF Restart, Idle
  <2> QED
    BY <2>1 DEF FirstInv, AskedOK, NeverAsked, LeadsOK, Asker, Deciding
<1>4. CASE UNCHANGED vars
  BY <1>4, FirstKept DEF vars, Asker
<1> QED
  BY <1>1, <1>2, <1>3, <1>4, FirstRequest, FirstEnds, FirstDecide, FirstSend, FirstRecord,
     FirstRow DEF Next, CallStep, DeciderStep

(* The Boss can decide the first request for a command while it waits.      *)
THEOREM FirstDecidable == Spec => []FirstRequestDecidable
<1>1. Init => FirstInv
  BY DEF Init, FirstInv, AskedOK, NeverAsked, LeadsOK, Asker, Deciding, Idle
<1>2. GateInv /\ FirstInv => FirstRequestDecidable
  <2> SUFFICES ASSUME GateInv, FirstInv, NEW c \in Calls, Unheard(c), asked[cmd[c]] = 1,
                      cmd[c] \notin byChat
               PROVE  Decidable(c)
    BY DEF FirstRequestDecidable
  <2>1. cmd[c] \in Cmds /\ Asker(c, cmd[c])
    BY DEF Unheard, Asker, GateInv, CmdOK
  <2>2. CardLeads(c, cmd[c])
    BY <2>1 DEF FirstInv, LeadsOK, Unheard, Sending
  <2> QED
    BY <2>2 DEF CardLeads, Unheard, Decidable
<1> QED
  BY <1>1, <1>2, FirstStep, GateInvariance, PTL DEF Spec

=============================================================================
